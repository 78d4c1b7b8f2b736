----------------------------- MODULE MCMigration -----------------------------
(* Migration on small instances.  CPUs, flows and endpoints are             *)
(* interchangeable: no operator tells two of them apart.                    *)
EXTENDS Migration, TLC

Symmetry == Permutations(CPUs) \cup Permutations(Flows) \cup Permutations(Endpoints)
=============================================================================
