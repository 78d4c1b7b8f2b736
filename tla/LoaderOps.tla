------------------------------ MODULE LoaderOps ------------------------------
(***************************************************************************)
(* The Loader's operations as whole calls: for each, the set of datapath   *)
(* states and results it can leave.  A datapath state is                   *)
(*   [active, old : slots, state : the migration state,                    *)
(*    nh : what each slot holds, an endpoint pair or NoEndpoint]           *)
(* and a result is "ok", "rejected" (the state does not allow the call) or *)
(* "failed" (a map update failed; what came before it is not undone).      *)
(* Migration shows that its steps, interleaved with packets, leave what is *)
(* listed here; Softwirectl drives the datapath through these.             *)
(***************************************************************************)
EXTENDS Naturals

CONSTANTS Endpoints, NoEndpoint

Slots == {0, 1}
Other(s) == 1 - s

Datapaths ==
    [active : Slots, old : Slots, state : {"STEADY", "PRIMING", "DRAINING"},
     nh : [Slots -> Endpoints \cup {NoEndpoint}]]

Outcome(dp, result) == [dp |-> dp, result |-> result]
ActiveEndpoint(dp) == dp.nh[dp.active]
Steady(dp, s) == [dp EXCEPT !.active = s, !.old = s, !.state = "STEADY"]

\* writeNextHop to the inactive slot, then writeCtrl of word.
WriteThenFlip(dp, e, word) ==
    LET s == Other(dp.active)
    IN {Outcome(dp, "failed"),
        Outcome([dp EXCEPT !.nh[s] = e], "failed"),
        Outcome([word EXCEPT !.nh[s] = e], "ok")}

\* BeginMigration.
BeginMigration(dp, e) ==
    IF dp.state # "STEADY" THEN {Outcome(dp, "rejected")}
    ELSE WriteThenFlip(dp, e, [dp EXCEPT !.old = dp.active, !.state = "PRIMING"])

\* Cutover.
Cutover(dp) ==
    IF dp.state # "PRIMING" THEN {Outcome(dp, "rejected")}
    ELSE {Outcome(dp, "failed"),
          Outcome([dp EXCEPT !.active = Other(dp.active), !.old = dp.active,
                             !.state = "DRAINING"], "ok")}

\* writeCtrl to STEADY on the active slot, then clearNextHop of slot s.
EndMigration(dp, s) ==
    LET steady  == Steady(dp, dp.active)
        cleared == [steady EXCEPT !.nh[s] = NoEndpoint]
    IN {Outcome(dp, "failed"), Outcome(steady, "failed"),
        Outcome(cleared, "failed"), Outcome(cleared, "ok")}

\* CompleteMigration.
CompleteMigration(dp) ==
    IF dp.state # "DRAINING" THEN {Outcome(dp, "rejected")} ELSE EndMigration(dp, dp.old)

\* AbortMigration.
AbortMigration(dp) ==
    IF dp.state # "PRIMING" THEN {Outcome(dp, "rejected")}
    ELSE EndMigration(dp, Other(dp.active))

\* SwitchAFTR: ends a migration first, and returns its error if that fails.
SwitchAFTR(dp, e) ==
    LET ended == CASE dp.state = "STEADY"   -> {Outcome(dp, "ok")}
                   [] dp.state = "PRIMING"  -> AbortMigration(dp)
                   [] dp.state = "DRAINING" -> CompleteMigration(dp)
    IN UNION {IF o.result = "ok"
              THEN WriteThenFlip(o.dp, e, Steady(o.dp, Other(o.dp.active)))
              ELSE {o} : o \in ended}
=============================================================================
