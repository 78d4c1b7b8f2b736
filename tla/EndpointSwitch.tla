--------------------------- MODULE EndpointSwitch ---------------------------
(***************************************************************************)
(* What pkg/datapath promises the packet programs about the softwire: one  *)
(* endpoint pair (this B4's address and its AFTR's) carries new flows, and *)
(* it is only ever replaced as a whole, in one step.  During a migration a *)
(* second pair is either prepared (PRIMING) or being drained (DRAINING).   *)
(* Migration implements this specification.                                *)
(***************************************************************************)
CONSTANTS Endpoints,    \* the endpoint pairs (b4, aftr)
          NoEndpoint    \* no pair: an empty slot

VARIABLES current,      \* the pair new flows use
          prepared,     \* the pair a migration in PRIMING moves to
          draining      \* the pair flows recorded before the cutover stay on

vars == <<current, prepared, draining>>

NoMigration == prepared = NoEndpoint /\ draining = NoEndpoint

Init == current \in Endpoints /\ NoMigration

\* BeginMigration: a pair is prepared, traffic stays where it is.
Prepare(e) ==
    /\ NoMigration
    /\ prepared' = e
    /\ UNCHANGED <<current, draining>>

\* Cutover: new flows move to the prepared pair, the old one is kept.
Cut ==
    /\ prepared # NoEndpoint
    /\ current' = prepared
    /\ draining' = current
    /\ prepared' = NoEndpoint

\* CompleteMigration: the old pair is retired.
Retire ==
    /\ draining # NoEndpoint
    /\ draining' = NoEndpoint
    /\ UNCHANGED <<current, prepared>>

\* AbortMigration: the prepared pair is discarded.
Rollback ==
    /\ prepared # NoEndpoint
    /\ prepared' = NoEndpoint
    /\ UNCHANGED <<current, draining>>

\* SwitchAFTR, once it has ended a migration in progress.
Replace(e) ==
    /\ NoMigration
    /\ current' = e
    /\ UNCHANGED <<prepared, draining>>

Next ==
    \/ \E e \in Endpoints : Prepare(e) \/ Replace(e)
    \/ Cut \/ Retire \/ Rollback

Spec == Init /\ [][Next]_vars
=============================================================================
