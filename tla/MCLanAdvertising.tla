-------------------------- MODULE MCLanAdvertising --------------------------
EXTENDS LanAdvertising

\* The prefix "narrow" has a /64 for the first interface only.
MCCapacity == [p \in Configs |-> IF p = "narrow" THEN 1 ELSE 2]

=============================================================================
