------------------------- MODULE MCPrefixDelegation -------------------------
EXTENDS PrefixDelegation, TLC

\* An IA_PD that leaves T1 to the client, above whose T2 its floor is, and
\* a refusal.
Granted == [ok |-> TRUE, T1 |-> 0, T2 |-> 2, pref |-> 2, valid |-> 2]
Refused == [ok |-> FALSE, T1 |-> 0, T2 |-> 0, pref |-> 0, valid |-> 0]
MCIAPDs == {Granted, Refused}
MCContents == Replies

=============================================================================
