------------------------------ MODULE MCDHCPv4 ------------------------------
(* DHCPv4 with interchangeable clients, for TLC. *)
EXTENDS DHCPv4, TLC

Symmetry == Permutations(Clients)
=============================================================================
