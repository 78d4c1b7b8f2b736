-------------------------- MODULE SoftwirectlLemmas --------------------------
(***************************************************************************)
(* Lemmas about Softwirectl, and the theorems about its server alone: what *)
(* the Softwire value records agrees with the datapath whatever requests   *)
(* the server is sent, in whatever order (SoftwireInv; no fact about the   *)
(* controller is used).  The controller's part is the discipline of the    *)
(* two queues between them (Discipline), on which SoftwirectlProofs rests. *)
(***************************************************************************)
EXTENDS Softwirectl, TLAPS

States == {"STEADY", "PRIMING", "DRAINING"}

\* The datapath states with slots holding members of X, and the one fact about
\* them that ending a drain relies on.
Sound(X) ==
    {p \in [active : L!Slots, old : L!Slots, state : States, nh : [L!Slots -> X]] :
        p.state = "DRAINING" => p.old = L!Other(p.active)}

-----------------------------------------------------------------------------
(* What the Loader's calls leave, as LoaderOps lists it.                   *)

\* The slot not active is a slot, and not the active one.
LEMMA OtherSlot == \A s \in L!Slots : L!Other(s) \in L!Slots /\ L!Other(s) # s /\ L!Other(L!Other(s)) = s
  BY DEF L!Slots, L!Other

\* The fields of a sound datapath state.
LEMMA SoundParts ==
    ASSUME NEW X, NEW p \in Sound(X)
    PROVE  /\ p \in [active : L!Slots, old : L!Slots, state : States, nh : [L!Slots -> X]]
           /\ p.active \in L!Slots /\ p.old \in L!Slots /\ p.nh \in [L!Slots -> X]
           /\ p.state \in States
           /\ p.state = "DRAINING" => p.old = L!Other(p.active)
  BY Zenon DEF Sound

\* A write to the inactive slot, then a flip to word.
LEMMA WriteThenFlipLeaves ==
    ASSUME NEW X, NEW p \in Sound(X), NEW e \in X, NEW w \in Sound(X), w.nh = p.nh,
           NEW o \in L!WriteThenFlip(p, e, w)
    PROVE  /\ o.result \in {"ok", "failed"}
           /\ o.dp \in Sound(X)
           /\ o.result = "ok" =>
                /\ o.dp.active = w.active /\ o.dp.state = w.state
                /\ o.dp.nh = [p.nh EXCEPT ![L!Other(p.active)] = e]
           /\ o.result = "failed" =>
                /\ o.dp.active = p.active /\ o.dp.state = p.state
                /\ o.dp.nh[p.active] = p.nh[p.active]
  BY DEF L!WriteThenFlip, L!Outcome, Sound, L!Slots, L!Other

\* BeginMigration prepares e, or leaves the state and the active pair alone.
LEMMA BeginLeaves ==
    ASSUME NEW X, NEW p \in Sound(X), NEW e \in X, NEW o \in L!BeginMigration(p, e)
    PROVE  /\ o.dp \in Sound(X) /\ L!ActiveEndpoint(o.dp) = L!ActiveEndpoint(p)
           /\ o.result = "ok" => o.dp.state = "PRIMING" /\ o.dp.nh[L!Other(o.dp.active)] = e
           /\ o.result # "ok" => o.dp = p \/ o.dp.state = "STEADY"
           /\ p.state = "STEADY" => o.result \in {"ok", "failed"}
<1>1. CASE p.state # "STEADY"
  BY <1>1 DEF L!BeginMigration, L!Outcome
<1>2. CASE p.state = "STEADY"
  <2> DEFINE w == [p EXCEPT !.old = p.active, !.state = "PRIMING"]
  <2>1. w \in Sound(X) /\ w.nh = p.nh /\ w.active = p.active /\ w.state = "PRIMING"
    BY Zenon DEF Sound, States
  <2>2. o \in L!WriteThenFlip(p, e, w)
    BY Zenon, <1>2 DEF L!BeginMigration
  <2> HIDE DEF w
  <2>3. /\ o.result \in {"ok", "failed"} /\ o.dp \in Sound(X) /\ o.dp.active = p.active
        /\ o.result = "ok" => /\ o.dp.state = "PRIMING"
                              /\ o.dp.nh = [p.nh EXCEPT ![L!Other(p.active)] = e]
        /\ o.result = "failed" => /\ o.dp.state = p.state
                                  /\ o.dp.nh[p.active] = p.nh[p.active]
    BY <2>1, <2>2, WriteThenFlipLeaves
  <2> QED BY <1>2, <2>3, SoundParts, OtherSlot DEF L!ActiveEndpoint
<1> QED BY Zenon, <1>1, <1>2

\* Cutover swaps the pairs, or leaves everything alone.
LEMMA CutoverLeaves ==
    ASSUME NEW X, NEW p \in Sound(X), NEW o \in L!Cutover(p)
    PROVE  /\ o.dp \in Sound(X)
           /\ o.result = "ok" => /\ p.state = "PRIMING" /\ o.dp.state = "DRAINING"
                                 /\ L!ActiveEndpoint(o.dp) = p.nh[L!Other(p.active)]
           /\ o.result # "ok" => o.dp = p
           /\ p.state = "PRIMING" => o.result \in {"ok", "failed"}
<1> DEFINE w == [p EXCEPT !.active = L!Other(p.active), !.old = p.active, !.state = "DRAINING"]
<1>1. /\ w \in Sound(X) /\ w.state = "DRAINING"
      /\ L!ActiveEndpoint(w) = p.nh[L!Other(p.active)]
  BY Zenon, SoundParts, OtherSlot DEF Sound, States, L!ActiveEndpoint
<1>2. \/ o.dp = p /\ o.result \in {"rejected", "failed"}
      \/ o.dp = w /\ o.result = "ok" /\ p.state = "PRIMING"
  BY DEF L!Cutover, L!Outcome
<1>3. p.state = "PRIMING" => o.result \in {"ok", "failed"}
  BY DEF L!Cutover, L!Outcome
<1> QED BY Zenon, <1>1, <1>2, <1>3

\* Ending a migration keeps the active pair, wherever it fails.
LEMMA EndLeaves ==
    ASSUME NEW X, NEW p \in Sound(X), None \in X, NEW s \in L!Slots, s = L!Other(p.active),
           NEW o \in L!EndMigration(p, s)
    PROVE  /\ o.dp \in Sound(X) /\ o.dp.active = p.active
           /\ L!ActiveEndpoint(o.dp) = L!ActiveEndpoint(p)
           /\ o.result = "ok" => o.dp.state = "STEADY"
           /\ o.dp = p \/ o.dp.state = "STEADY"
           /\ o.result \in {"ok", "failed"}
<1> DEFINE st == L!Steady(p, p.active)
           cl == [st EXCEPT !.nh[s] = None]
<1>1. /\ st \in Sound(X) /\ st.active = p.active /\ st.state = "STEADY" /\ st.nh = p.nh
  BY Zenon, SoundParts DEF Sound, States, L!Steady
<1>2. /\ cl \in Sound(X) /\ cl.active = p.active /\ cl.state = "STEADY"
      /\ cl.nh[p.active] = p.nh[p.active]
  <2> HIDE DEF st
  <2> QED BY Zenon, <1>1, SoundParts, OtherSlot DEF Sound
<1>3. \/ o = L!Outcome(p, "failed") \/ o = L!Outcome(st, "failed")
      \/ o = L!Outcome(cl, "failed") \/ o = L!Outcome(cl, "ok")
  BY Zenon DEF L!EndMigration
<1> HIDE DEF st, cl
<1> QED BY <1>1, <1>2, <1>3 DEF L!Outcome, L!ActiveEndpoint

\* AbortMigration keeps the active pair, wherever it fails or if it is refused.
LEMMA AbortLeaves ==
    ASSUME NEW X, NEW p \in Sound(X), None \in X, NEW o \in L!AbortMigration(p)
    PROVE  /\ o.dp \in Sound(X) /\ L!ActiveEndpoint(o.dp) = L!ActiveEndpoint(p)
           /\ o.result = "ok" => o.dp.state = "STEADY"
           /\ o.dp = p \/ o.dp.state = "STEADY"
           /\ p.state = "PRIMING" => o.result \in {"ok", "failed"}
<1>1. CASE p.state # "PRIMING"
  BY <1>1 DEF L!AbortMigration, L!Outcome
<1>2. CASE p.state = "PRIMING"
  <2>1. o \in L!EndMigration(p, L!Other(p.active)) /\ L!Other(p.active) \in L!Slots
    BY Zenon, <1>2, SoundParts, OtherSlot DEF L!AbortMigration
  <2> QED BY <2>1, EndLeaves
<1> QED BY Zenon, <1>1, <1>2

\* CompleteMigration keeps the active pair, wherever it fails or if it is refused.
LEMMA CompleteLeaves ==
    ASSUME NEW X, NEW p \in Sound(X), None \in X, NEW o \in L!CompleteMigration(p)
    PROVE  /\ o.dp \in Sound(X) /\ L!ActiveEndpoint(o.dp) = L!ActiveEndpoint(p)
           /\ o.result = "ok" => o.dp.state = "STEADY"
           /\ o.dp = p \/ o.dp.state = "STEADY"
           /\ p.state = "DRAINING" => o.result \in {"ok", "failed"}
<1>1. CASE p.state # "DRAINING"
  BY <1>1 DEF L!CompleteMigration, L!Outcome
<1>2. CASE p.state = "DRAINING"
  <2>1. o \in L!EndMigration(p, p.old) /\ p.old \in L!Slots /\ p.old = L!Other(p.active)
    BY Zenon, <1>2, SoundParts DEF L!CompleteMigration
  <2> QED BY <2>1, EndLeaves
<1> QED BY Zenon, <1>1, <1>2

\* SwitchAFTR makes e the active pair, or keeps the one there is.
LEMMA SwitchLeaves ==
    ASSUME NEW X, NEW p \in Sound(X), None \in X, NEW e \in X,
           NEW o \in L!SwitchAFTR(p, e)
    PROVE  /\ o.dp \in Sound(X) /\ o.result \in {"ok", "failed"}
           /\ o.result = "ok" => o.dp.state = "STEADY" /\ L!ActiveEndpoint(o.dp) = e
           /\ o.result # "ok" => /\ L!ActiveEndpoint(o.dp) = L!ActiveEndpoint(p)
                                 /\ o.dp = p \/ o.dp.state = "STEADY"
<1> DEFINE ended == CASE p.state = "STEADY"   -> {L!Outcome(p, "ok")}
                      [] p.state = "PRIMING"  -> L!AbortMigration(p)
                      [] p.state = "DRAINING" -> L!CompleteMigration(p)
<1>1. PICK q \in ended :
        o \in IF q.result = "ok"
              THEN L!WriteThenFlip(q.dp, e, L!Steady(q.dp, L!Other(q.dp.active)))
              ELSE {q}
  BY Zenon DEF L!SwitchAFTR
<1>2. /\ q.dp \in Sound(X) /\ L!ActiveEndpoint(q.dp) = L!ActiveEndpoint(p)
      /\ q.result = "ok" => q.dp.state = "STEADY"
      /\ q.dp = p \/ q.dp.state = "STEADY"
      /\ q.result \in {"ok", "failed"}
  <2>1. CASE p.state = "STEADY"
    BY <2>1 DEF L!Outcome
  <2>2. CASE p.state = "PRIMING"
    BY Zenon, <2>2, AbortLeaves
  <2>3. CASE p.state = "DRAINING"
    BY Zenon, <2>3, CompleteLeaves
  <2> QED BY Zenon, <2>1, <2>2, <2>3 DEF Sound, States
<1> HIDE DEF ended
<1>3. CASE q.result # "ok"
  BY Zenon, <1>1, <1>2, <1>3
<1>4. CASE q.result = "ok"
  <2> DEFINE w == L!Steady(q.dp, L!Other(q.dp.active))
  <2>1. /\ w \in Sound(X) /\ w.nh = q.dp.nh /\ w.active = L!Other(q.dp.active)
        /\ w.state = "STEADY"
    BY Zenon, <1>2, SoundParts, OtherSlot DEF Sound, L!Steady, States
  <2>2. o \in L!WriteThenFlip(q.dp, e, w)
    BY Zenon, <1>1, <1>4
  <2> HIDE DEF w
  <2>3. /\ o.result \in {"ok", "failed"} /\ o.dp \in Sound(X)
        /\ o.result = "ok" => /\ o.dp.state = "STEADY" /\ o.dp.active = L!Other(q.dp.active)
                              /\ o.dp.nh = [q.dp.nh EXCEPT ![L!Other(q.dp.active)] = e]
        /\ o.result = "failed" => /\ o.dp.state = q.dp.state /\ o.dp.active = q.dp.active
                                  /\ o.dp.nh[q.dp.active] = q.dp.nh[q.dp.active]
    BY <1>2, <2>1, <2>2, WriteThenFlipLeaves
  <2> QED BY Zenon, <1>2, <1>4, <2>3, SoundParts, OtherSlot DEF L!ActiveEndpoint
<1> QED BY Zenon, <1>3, <1>4

-----------------------------------------------------------------------------

\* The inductive invariant: the Softwire value agrees with the datapath.
SoftwireInv ==
    /\ \E X : None \in X /\ dp \in Sound(X)
    /\ sw = [active |-> sw.active, target |-> sw.target, migrating |-> sw.migrating]
    /\ ActiveIsDatapath
    /\ MigrationKnown

\* The Softwire value starts in agreement with the datapath.
LEMMA SoftwireInit == Init => SoftwireInv
<1> SUFFICES ASSUME Init PROVE SoftwireInv
  BY Zenon
<1>1. dp \in Sound({None, <<InitialB4, InitialAFTR>>})
  BY Zenon DEF Init, Sound, L!Slots, L!Other, States
<1> QED BY Zenon, <1>1 DEF Init, SoftwireInv, ActiveIsDatapath, MigrationKnown, L!ActiveEndpoint, L!Slots

\* SoftwireInv reads the Softwire value and the datapath only.
LEMMA SoftwireFrame == SoftwireInv /\ UNCHANGED <<sw, dp>> => SoftwireInv'
  BY Zenon DEF SoftwireInv, ActiveIsDatapath, MigrationKnown

\* A call that leaves the active pair alone and, unless the datapath is back
\* in STEADY, everything else too.
LEMMA SoftwireEnds ==
    ASSUME SoftwireInv, NEW X, None \in X, dp' \in Sound(X),
           L!ActiveEndpoint(dp') = L!ActiveEndpoint(dp),
           (dp' = dp /\ sw' = sw) \/ dp'.state = "STEADY",
           sw' = sw \/ sw' = [sw EXCEPT !.migrating = FALSE]
    PROVE  SoftwireInv'
<1>1. CASE dp' = dp /\ sw' = sw
  BY Zenon, <1>1, SoftwireFrame
<1>2. CASE dp'.state = "STEADY"
  <2>1. sw'.active = sw.active
    BY Zenon DEF SoftwireInv
  <2>2. sw' = [active |-> sw'.active, target |-> sw'.target, migrating |-> sw'.migrating]
    BY Zenon DEF SoftwireInv
  <2> QED BY Zenon, <1>2, <2>1, <2>2 DEF SoftwireInv, ActiveIsDatapath, MigrationKnown
<1> QED BY Zenon, <1>1, <1>2

\* The datapath is sound for a set with any endpoints a call may name.
LEMMA SoundFor ==
    ASSUME SoftwireInv, NEW to
    PROVE  \E X : {None, to, sw.active} \subseteq X /\ dp \in Sound(X)
<1>1. PICK X0 : None \in X0 /\ dp \in Sound(X0)
  BY Zenon DEF SoftwireInv
<1> DEFINE X == X0 \cup {to, sw.active}
<1>2. {None, to, sw.active} \subseteq X /\ dp \in Sound(X)
  BY Zenon, <1>1 DEF Sound
<1> QED BY Zenon, <1>2

\* Serving any request keeps SoftwireInv.
LEMMA SoftwireServe == SoftwireInv /\ Serve => SoftwireInv'
<1> SUFFICES ASSUME SoftwireInv, Serve PROVE SoftwireInv'
  BY Zenon
<1> DEFINE to == Head(mbox).to
<1>X. PICK X : {None, to, sw.active} \subseteq X /\ dp \in Sound(X)
  BY Zenon, SoundFor
<1> HIDE DEF to
<1>1. CASE ServeRecover
  <2>1. CASE ~sw.migrating
    BY Zenon, <1>1, <2>1, SoftwireFrame DEF ServeRecover
  <2>2. CASE sw.migrating
    <3>1. PICK o \in L!SwitchAFTR(dp, sw.active) :
            /\ Happens(o)
            /\ IF o.result = "ok" THEN sw' = [sw EXCEPT !.migrating = FALSE] ELSE UNCHANGED sw
      BY Zenon, <1>1, <2>2 DEF ServeRecover
    <3>2. /\ dp' \in Sound(X) /\ L!ActiveEndpoint(dp') = L!ActiveEndpoint(dp)
          /\ o.result = "ok" => dp'.state = "STEADY"
          /\ o.result # "ok" => dp' = dp \/ dp'.state = "STEADY"
      BY <3>1, <1>X, SwitchLeaves DEF Happens, SoftwireInv, ActiveIsDatapath
    <3> QED BY Zenon, <3>1, <3>2, <1>X, SoftwireEnds
  <2> QED BY Zenon, <2>1, <2>2
<1>2. CASE ServeSwitch
  <2>1. PICK o \in L!SwitchAFTR(dp, to) :
          /\ Happens(o)
          /\ IF o.result = "ok" THEN sw' = [sw EXCEPT !.active = to, !.migrating = FALSE]
             ELSE UNCHANGED sw
    BY Zenon, <1>2 DEF ServeSwitch, to
  <2>2. /\ dp' \in Sound(X)
        /\ o.result = "ok" => dp'.state = "STEADY" /\ L!ActiveEndpoint(dp') = to
        /\ o.result # "ok" => /\ L!ActiveEndpoint(dp') = L!ActiveEndpoint(dp)
                              /\ dp' = dp \/ dp'.state = "STEADY"
    BY <2>1, <1>X, SwitchLeaves DEF Happens
  <2>3. CASE o.result = "ok"
    <3>1. sw' = [active |-> to, target |-> sw.target, migrating |-> FALSE]
      BY Zenon, <2>1, <2>3 DEF SoftwireInv
    <3> QED BY Zenon, <2>2, <2>3, <3>1, <1>X DEF SoftwireInv, ActiveIsDatapath, MigrationKnown
  <2>4. CASE o.result # "ok"
    BY Zenon, <2>1, <2>2, <2>4, <1>X, SoftwireEnds
  <2> QED BY Zenon, <2>3, <2>4
<1>3. CASE ServeBegin
  <2>1. PICK o \in L!BeginMigration(dp, to) :
          /\ Happens(o)
          /\ IF o.result = "ok" THEN sw' = [sw EXCEPT !.target = to, !.migrating = TRUE]
             ELSE UNCHANGED sw
    BY Zenon, <1>3 DEF ServeBegin, to
  <2>2. /\ dp' \in Sound(X) /\ L!ActiveEndpoint(dp') = L!ActiveEndpoint(dp)
        /\ o.result = "ok" => dp'.state = "PRIMING" /\ dp'.nh[L!Other(dp'.active)] = to
        /\ o.result # "ok" => dp' = dp \/ dp'.state = "STEADY"
    BY <2>1, <1>X, BeginLeaves DEF Happens
  <2>3. CASE o.result = "ok"
    <3>1. sw' = [active |-> sw.active, target |-> to, migrating |-> TRUE]
      BY Zenon, <2>1, <2>3 DEF SoftwireInv
    <3> QED BY Zenon, <2>2, <2>3, <3>1, <1>X DEF SoftwireInv, ActiveIsDatapath, MigrationKnown
  <2>4. CASE o.result # "ok"
    BY Zenon, <2>1, <2>2, <2>4, <1>X, SoftwireEnds
  <2> QED BY <2>3, <2>4
<1>4. CASE ServeAbort
  <2>1. PICK o \in L!AbortMigration(dp) :
          Happens(o) /\ sw' = IF o.result = "ok" THEN [sw EXCEPT !.migrating = FALSE] ELSE sw
    BY Zenon, <1>4 DEF ServeAbort
  <2>2. /\ dp' \in Sound(X) /\ L!ActiveEndpoint(dp') = L!ActiveEndpoint(dp)
        /\ o.result = "ok" => dp'.state = "STEADY"
        /\ dp' = dp \/ dp'.state = "STEADY"
    BY Zenon, <2>1, <1>X, AbortLeaves DEF Happens
  <2> QED BY Zenon, <2>1, <2>2, <1>X, SoftwireEnds
<1>5. CASE ServeComplete
  <2>1. PICK o \in L!CompleteMigration(dp) :
          Happens(o) /\ sw' = IF o.result = "ok" THEN [sw EXCEPT !.migrating = FALSE] ELSE sw
    BY Zenon, <1>5 DEF ServeComplete
  <2>2. /\ dp' \in Sound(X) /\ L!ActiveEndpoint(dp') = L!ActiveEndpoint(dp)
        /\ o.result = "ok" => dp'.state = "STEADY"
        /\ dp' = dp \/ dp'.state = "STEADY"
    BY Zenon, <2>1, <1>X, CompleteLeaves DEF Happens
  <2> QED BY <2>1, <2>2, <1>X, SoftwireEnds
<1>6. CASE ServeCutover
  <2>1. PICK o \in L!Cutover(dp) :
          /\ Happens(o)
          /\ IF o.result = "ok" THEN sw' = [sw EXCEPT !.active = sw.target] ELSE UNCHANGED sw
    BY Zenon, <1>6 DEF ServeCutover
  <2>2. /\ dp' \in Sound(X)
        /\ o.result = "ok" => /\ dp.state = "PRIMING" /\ dp'.state = "DRAINING"
                              /\ L!ActiveEndpoint(dp') = dp.nh[L!Other(dp.active)]
        /\ o.result # "ok" => dp' = dp
    BY <2>1, <1>X, CutoverLeaves DEF Happens
  <2>3. CASE o.result = "ok"
    <3>1. sw' = [active |-> sw.target, target |-> sw.target, migrating |-> sw.migrating]
      BY Zenon, <2>1, <2>3 DEF SoftwireInv
    <3> QED BY Zenon, <2>2, <2>3, <3>1, <1>X DEF SoftwireInv, ActiveIsDatapath, MigrationKnown
  <2>4. CASE o.result # "ok"
    BY Zenon, <2>1, <2>2, <2>4, SoftwireFrame
  <2> QED BY Zenon, <2>3, <2>4
<1>7. CASE ServeSource \/ ServeCounts \/ ServeGC
  BY Zenon, <1>7, SoftwireFrame DEF ServeSource, ServeCounts, ServeGC, swvars
<1> QED BY Zenon, <1>1, <1>2, <1>3, <1>4, <1>5, <1>6, <1>7 DEF Serve

\* Nothing but the server touches the datapath or the Softwire value.
LEMMA OnlyServe == [Next]_vars => Serve \/ UNCHANGED <<sw, dp>>
  BY Zenon DEF Next, Receive, DropStale, GotRecover, GotSource, GotSwitch, GotBegin, GotCounts,
         GotCutover, GotAbort, GotGC, GotComplete, Discovery, Discovered, Refresh, Primed,
         DrainTick, DrainCap, B4Poll, ControllerCrash, ServerCrash, SourceMoves, FlowLost,
         vars, swvars

\* The Softwire value agrees with the datapath throughout.
LEMMA SoftwireInvariant == Spec => []SoftwireInv
<1>1. SoftwireInv /\ [Next]_vars => SoftwireInv'
  BY Zenon, OnlyServe, SoftwireServe, SoftwireFrame
<1> QED BY <1>1, SoftwireInit, PTL DEF Spec

\* Where the softwire server believes new flows go is where the datapath sends
\* them: for any bounds on failures, crashes and migrations.
THEOREM ActiveAgrees == Spec => []ActiveIsDatapath
<1>1. SoftwireInv => ActiveIsDatapath
  BY Zenon DEF SoftwireInv
<1> QED BY <1>1, SoftwireInvariant, PTL

\* The softwire server knows of every migration the datapath is in, and the
\* pair it moves to, so that handling recoverReq always finds it.
THEOREM MigrationsKnown == Spec => []MigrationKnown
<1>1. SoftwireInv => MigrationKnown
  BY Zenon DEF SoftwireInv
<1> QED BY <1>1, SoftwireInvariant, PTL

-----------------------------------------------------------------------------
(***************************************************************************)
(* The queue discipline.  Polls of the B4 source aside, the controller has *)
(* one request out at a time: what is still ahead of it with the server is *)
(* of an earlier generation or of a dead controller, and only a hard       *)
(* switch or a recovery is ever queued behind other work.  The definitions *)
(* take the state they read as arguments: ph, g, tm and ds stand for the   *)
(* phase, d.gen, timer and disc, mb and ib for the two queues.             *)
(***************************************************************************)

Queue(q) == \E A : q \in Seq(A)
Work(r) == r.op # "source"
Asked(g, mb, i) == Work(mb[i]) /\ mb[i].live /\ mb[i].gen = g
Answered(g, ib, i) == Work(ib[i]) /\ ib[i].gen = g
NoneAsked(g, mb) == \A i \in 1..Len(mb) : ~Asked(g, mb, i)
NoneAnswered(g, ib) == \A i \in 1..Len(ib) : ~Answered(g, ib, i)

\* The phase in which the controller waits for the answer to o.
PhaseOf(o) == CASE o = "recover"              -> "Recovering"
                [] o = "switch"               -> "Switching"
                [] o \in {"gc", "complete"}   -> "Draining"
                [] OTHER                      -> "Priming"

IsRequest(r) == {"op", "gen", "to", "live"} \subseteq DOMAIN r
Shapes(mb, ib) ==
    /\ Queue(mb) /\ Queue(ib)
    /\ \A i \in 1..Len(mb) : IsRequest(mb[i]) /\ mb[i].gen \in Nat /\ mb[i].live \in BOOLEAN
    /\ \A i \in 1..Len(ib) : ib[i].gen \in Nat

\* Nothing is of a generation to come.
Ages(g, mb, ib) ==
    /\ \A i \in 1..Len(mb) : mb[i].live => mb[i].gen <= g
    /\ \A i \in 1..Len(ib) : ib[i].gen <= g

\* The current request is the last one, and the work ahead of it is followed
\* by hard switches and recoveries only.
Order(g, mb) ==
    /\ \A i, j \in 1..Len(mb) : Asked(g, mb, i) /\ Work(mb[j]) => j <= i
    /\ \A i, j \in 1..Len(mb) :
         i < j /\ Work(mb[i]) /\ Work(mb[j]) => mb[j].op \in {"switch", "recover"}
    /\ \A j \in 1..Len(mb) : Work(mb[j]) => ~NoneAsked(g, mb)

\* At most one request is out, and the phase is the one that waits for it.
OneOut(ph, g, mb, ib) ==
    /\ \A i \in 1..Len(mb) : Asked(g, mb, i) => ph = PhaseOf(mb[i].op) /\ NoneAnswered(g, ib)
    /\ \A i \in 1..Len(ib) : Answered(g, ib, i) => ph = PhaseOf(ib[i].op)
    /\ \A i, j \in 1..Len(ib) : Answered(g, ib, i) /\ Answered(g, ib, j) => i = j

\* A timer that sends the next request is armed only while none is out.
Timing(ph, g, tm, ds, mb, ib) ==
    /\ tm = "primed" => ph = "Priming" /\ NoneAsked(g, mb) /\ NoneAnswered(g, ib)
    /\ tm = "drainTick" => ph = "Draining" /\ NoneAsked(g, mb) /\ NoneAnswered(g, ib)
    /\ tm = "refresh" => ph = "Steady"
    /\ ds => ph = "Discovering"

Disciplined(ph, g, tm, ds, mb, ib) ==
    /\ g \in Nat
    /\ Shapes(mb, ib)
    /\ Ages(g, mb, ib)
    /\ Order(g, mb)
    /\ OneOut(ph, g, mb, ib)
    /\ Timing(ph, g, tm, ds, mb, ib)

\* The controller's record, and the discipline of the queues around it.
IsData(x) ==
    {"b4", "cur", "next", "gen", "mig", "cap", "why", "switchB4", "switchTo"} \subseteq DOMAIN x
Discipline ==
    /\ IsData(d)
    /\ Disciplined(phase, d.gen, timer, disc, mbox, inbox)

-----------------------------------------------------------------------------
(* Lemmas about queues.                                                    *)

\* Taking the first element.
LEMMA QueueTail ==
    ASSUME NEW q, Queue(q), q # <<>>
    PROVE  /\ Queue(Tail(q)) /\ Len(q) \in Nat \ {0} /\ Len(Tail(q)) = Len(q) - 1
           /\ Head(q) = q[1]
           /\ \A i \in 1..Len(Tail(q)) : i + 1 \in 1..Len(q) /\ Tail(q)[i] = q[i + 1]
<1>1. PICK A : q \in Seq(A)
  BY Zenon DEF Queue
<1>2. Tail(q) \in Seq(A) /\ Len(Tail(q)) = Len(q) - 1 /\ Len(q) \in Nat \ {0} /\ Head(q) = q[1]
  BY <1>1
<1>3. \A i \in 1..Len(Tail(q)) : i + 1 \in 1..Len(q) /\ Tail(q)[i] = q[i + 1]
  BY <1>1, <1>2
<1> QED BY Zenon, <1>2, <1>3 DEF Queue

\* Adding an element at the end.
LEMMA QueueAppend ==
    ASSUME NEW q, NEW e, Queue(q)
    PROVE  /\ Queue(Append(q, e)) /\ Len(q) \in Nat /\ Len(Append(q, e)) = Len(q) + 1
           /\ Append(q, e)[Len(q) + 1] = e
           /\ \A i \in 1..Len(q) : Append(q, e)[i] = q[i]
<1>1. PICK A : q \in Seq(A)
  BY Zenon DEF Queue
<1>2. q \in Seq(A \cup {e})
  BY <1>1
<1>3. Append(q, e) \in Seq(A \cup {e}) /\ Len(Append(q, e)) = Len(q) + 1 /\ Len(q) \in Nat
  BY <1>2
<1>4. Append(q, e)[Len(q) + 1] = e /\ \A i \in 1..Len(q) : Append(q, e)[i] = q[i]
  BY <1>2
<1> QED BY Zenon, <1>3, <1>4 DEF Queue

\* Marking every element dead.
LEMMA QueueDead ==
    ASSUME NEW q, Queue(q)
    PROVE  LET m == [i \in DOMAIN q |-> [q[i] EXCEPT !.live = FALSE]]
           IN /\ Queue(m) /\ Len(m) = Len(q) /\ Len(q) \in Nat
              /\ \A i \in 1..Len(q) : m[i] = [q[i] EXCEPT !.live = FALSE]
<1>1. PICK A : q \in Seq(A)
  BY DEF Queue
<1> DEFINE B == {[q[i] EXCEPT !.live = FALSE] : i \in 1..Len(q)}
           m == [i \in DOMAIN q |-> [q[i] EXCEPT !.live = FALSE]]
<1>2. Len(q) \in Nat /\ DOMAIN q = 1..Len(q)
  BY <1>1
<1>3. m \in [1..Len(q) -> B]
  BY Zenon, <1>2
<1> HIDE DEF B
<1>4. m \in Seq(B) /\ Len(m) = Len(q)
  BY <1>2, <1>3
<1> QED BY Zenon, <1>2, <1>4 DEF Queue

-----------------------------------------------------------------------------
(* What the steps do to the queues.                                        *)

\* The server answers the first request, unless its sender has died.
LEMMA Serves ==
    ASSUME NEW ph, NEW g, NEW tm, NEW ds, NEW mb, NEW ib, NEW ib2, NEW a,
           Disciplined(ph, g, tm, ds, mb, ib), mb # <<>>,
           a.op = Head(mb).op, a.gen = Head(mb).gen,
           ib2 = IF Head(mb).live THEN Append(ib, a) ELSE ib
    PROVE  Disciplined(ph, g, tm, ds, Tail(mb), ib2)
<1> DEFINE tl == Tail(mb)
<1>T. /\ Queue(tl) /\ Len(mb) \in Nat \ {0} /\ Len(tl) = Len(mb) - 1
      /\ Head(mb) = mb[1]
      /\ \A i \in 1..Len(tl) : i + 1 \in 1..Len(mb) /\ tl[i] = mb[i + 1]
  BY Zenon, QueueTail DEF Disciplined, Shapes
<1>A. /\ Queue(ib2) /\ Len(ib) \in Nat /\ Len(ib2) \in {Len(ib), Len(ib) + 1}
      /\ \A i \in 1..Len(ib) : ib2[i] = ib[i]
      /\ Len(ib2) = Len(ib) + 1 => mb[1].live /\ ib2[Len(ib) + 1] = a
      /\ mb[1].live => Len(ib2) = Len(ib) + 1
  BY <1>T, QueueAppend DEF Disciplined, Shapes
<1>H. 1 \in 1..Len(mb) /\ a.op = mb[1].op /\ a.gen = mb[1].gen /\ a.gen \in Nat
  BY <1>T DEF Disciplined, Shapes
<1>D. g \in Nat /\ Shapes(mb, ib) /\ Ages(g, mb, ib) /\ Order(g, mb) /\ OneOut(ph, g, mb, ib)
      /\ Timing(ph, g, tm, ds, mb, ib)
  BY Zenon DEF Disciplined
\* The requests left are those after the first.
<1>R. \A i \in 1..Len(tl) : /\ Asked(g, tl, i) <=> Asked(g, mb, i + 1)
                            /\ Work(tl[i]) <=> Work(mb[i + 1])
  BY Zenon, <1>T DEF Asked, Work
\* An answer that is new answers the first request.
<1>N. \A i \in 1..Len(ib2) :
        \/ i \in 1..Len(ib) /\ ib2[i] = ib[i]
           /\ (Answered(g, ib2, i) <=> Answered(g, ib, i))
        \/ i = Len(ib) + 1 /\ mb[1].live /\ ib2[i] = a
           /\ (Answered(g, ib2, i) <=> Asked(g, mb, 1))
  BY <1>A, <1>H DEF Asked, Answered, Work
<1> HIDE DEF tl
<1>1. Shapes(tl, ib2)
  BY ZenonT(30), <1>T, <1>A, <1>H, <1>D, <1>N DEF Shapes
<1>2. Ages(g, tl, ib2)
  <2>1. \A i \in 1..Len(tl) : tl[i].live => tl[i].gen <= g
    BY Zenon, <1>T, <1>D DEF Ages
  <2>2. \A i \in 1..Len(ib2) : ib2[i].gen <= g
    BY <1>D, <1>H, <1>N DEF Ages
  <2> QED BY Zenon, <2>1, <2>2 DEF Ages
<1>3. Order(g, tl)
  <2>1. ASSUME NEW i \in 1..Len(tl), NEW j \in 1..Len(tl), Asked(g, tl, i), Work(tl[j])
        PROVE  j <= i
    <3>1. i + 1 \in 1..Len(mb) /\ j + 1 \in 1..Len(mb) /\ Asked(g, mb, i + 1) /\ Work(mb[j + 1])
      BY Zenon, <1>T, <1>R, <2>1
    <3>2. j + 1 <= i + 1
      BY Zenon, <1>D, <3>1 DEF Order
    <3> QED BY <3>2
  <2>2. ASSUME NEW i \in 1..Len(tl), NEW j \in 1..Len(tl), i < j, Work(tl[i]), Work(tl[j])
        PROVE  tl[j].op \in {"switch", "recover"}
    <3>1. Len(tl) \in Nat
      BY <1>T
    <3>2. i + 1 \in 1..Len(mb) /\ j + 1 \in 1..Len(mb) /\ tl[j] = mb[j + 1]
      BY Zenon, <1>T
    <3>3. Work(mb[i + 1]) /\ Work(mb[j + 1])
      BY Zenon, <1>R, <2>2
    <3>4. i + 1 < j + 1
      BY <2>2, <3>1
    <3> QED BY Zenon, <1>D, <3>2, <3>3, <3>4 DEF Order
  <2>3. ASSUME NEW j \in 1..Len(tl), Work(tl[j]) PROVE ~NoneAsked(g, tl)
    <3>1. j + 1 \in 1..Len(mb) /\ Work(mb[j + 1])
      BY Zenon, <1>T, <1>R, <2>3
    <3>2. PICK k \in 1..Len(mb) : Asked(g, mb, k)
      BY Zenon, <1>D, <3>1 DEF Order, NoneAsked
    <3>3. j + 1 <= k
      BY Zenon, <1>D, <3>1, <3>2 DEF Order
    <3>4. k - 1 \in 1..Len(tl) /\ (k - 1) + 1 = k
      BY <1>T, <2>3, <3>3
    <3>5. Asked(g, tl, k - 1)
      BY Zenon, <1>R, <3>2, <3>4
    <3> QED BY Zenon, <3>4, <3>5 DEF NoneAsked
  <2> QED BY Zenon, <2>1, <2>2, <2>3 DEF Order
\* If the first request is the current one, no other is.
<1>L. Asked(g, mb, 1) => NoneAsked(g, tl) /\ NoneAnswered(g, ib)
  <2> SUFFICES ASSUME Asked(g, mb, 1), NEW i \in 1..Len(tl), Asked(g, tl, i) PROVE FALSE
    BY Zenon, <1>D, <1>H DEF NoneAsked, OneOut
  <2>1. i + 1 \in 1..Len(mb) /\ Work(mb[i + 1])
    BY Zenon, <1>T, <1>R DEF Asked
  <2> QED BY <1>D, <1>H, <2>1 DEF Order
<1>M. NoneAsked(g, mb) => NoneAsked(g, tl)
  BY Zenon, <1>T, <1>R DEF NoneAsked
<1>B. ~Asked(g, mb, 1) /\ NoneAnswered(g, ib) => NoneAnswered(g, ib2)
  BY Zenon, <1>N DEF NoneAnswered
<1>4. OneOut(ph, g, tl, ib2)
  <2>1. ASSUME NEW i \in 1..Len(tl), Asked(g, tl, i)
        PROVE  ph = PhaseOf(tl[i].op) /\ NoneAnswered(g, ib2)
    BY Zenon, <1>T, <1>R, <1>D, <1>L, <1>B, <2>1 DEF OneOut, NoneAsked
  <2>2. \A i \in 1..Len(ib2) : Answered(g, ib2, i) => ph = PhaseOf(ib2[i].op)
    BY <1>N, <1>D, <1>H DEF OneOut
  <2>3. \A i, j \in 1..Len(ib2) : Answered(g, ib2, i) /\ Answered(g, ib2, j) => i = j
    BY Zenon, <1>N, <1>D, <1>L DEF OneOut, NoneAnswered
  <2> QED BY Zenon, <2>1, <2>2, <2>3 DEF OneOut
<1>5. Timing(ph, g, tm, ds, tl, ib2)
  BY Zenon, <1>D, <1>M, <1>B, <1>H DEF Timing, NoneAsked
<1> QED BY Zenon, <1>D, <1>1, <1>2, <1>3, <1>4, <1>5 DEF Disciplined, tl

\* The controller takes the first response; if it answers the current request,
\* nothing is out any more.
LEMMA Takes ==
    ASSUME NEW ph, NEW g, NEW tm, NEW ds, NEW mb, NEW ib,
           Disciplined(ph, g, tm, ds, mb, ib), ib # <<>>
    PROVE  /\ Disciplined(ph, g, tm, ds, mb, Tail(ib))
           /\ Work(Head(ib)) /\ Head(ib).gen = g =>
                /\ NoneAsked(g, mb) /\ NoneAnswered(g, Tail(ib)) /\ ph = PhaseOf(Head(ib).op)
                /\ tm \notin {"primed", "drainTick", "refresh"} /\ ~ds
<1> DEFINE tl == Tail(ib)
<1>T. /\ Queue(tl) /\ Len(ib) \in Nat \ {0} /\ Len(tl) = Len(ib) - 1
      /\ Head(ib) = ib[1] /\ 1 \in 1..Len(ib)
      /\ \A i \in 1..Len(tl) : i + 1 \in 1..Len(ib) /\ tl[i] = ib[i + 1]
  BY QueueTail DEF Disciplined, Shapes
<1>D. g \in Nat /\ Shapes(mb, ib) /\ Ages(g, mb, ib) /\ Order(g, mb) /\ OneOut(ph, g, mb, ib)
      /\ Timing(ph, g, tm, ds, mb, ib)
  BY Zenon DEF Disciplined
<1>R. \A i \in 1..Len(tl) : Answered(g, tl, i) <=> Answered(g, ib, i + 1)
  BY Zenon, <1>T DEF Answered, Work
<1> HIDE DEF tl
<1>M. NoneAnswered(g, ib) => NoneAnswered(g, tl)
  BY Zenon, <1>T, <1>R DEF NoneAnswered
<1>1. Shapes(mb, tl) /\ Ages(g, mb, tl)
  BY Zenon, <1>T, <1>D DEF Shapes, Ages
<1>2. OneOut(ph, g, mb, tl)
  <2>1. \A i \in 1..Len(tl) : Answered(g, tl, i) => ph = PhaseOf(tl[i].op)
    BY Zenon, <1>T, <1>R, <1>D DEF OneOut
  <2>2. \A i, j \in 1..Len(tl) : Answered(g, tl, i) /\ Answered(g, tl, j) => i = j
    BY <1>T, <1>R, <1>D DEF OneOut
  <2> QED BY Zenon, <1>D, <1>M, <2>1, <2>2 DEF OneOut
<1>3. Timing(ph, g, tm, ds, mb, tl)
  BY Zenon, <1>D, <1>M DEF Timing
<1>4. ASSUME Work(Head(ib)), Head(ib).gen = g
      PROVE  /\ NoneAsked(g, mb) /\ NoneAnswered(g, tl) /\ ph = PhaseOf(Head(ib).op)
             /\ tm \notin {"primed", "drainTick", "refresh"} /\ ~ds
  <2>1. Answered(g, ib, 1)
    BY Zenon, <1>4, <1>T DEF Answered
  <2>2. NoneAsked(g, mb)
    BY Zenon, <1>D, <1>T, <2>1 DEF OneOut, NoneAsked, NoneAnswered
  <2>3. NoneAnswered(g, tl)
    BY <1>D, <1>T, <1>R, <2>1 DEF OneOut, NoneAnswered
  <2>4. ph = PhaseOf(Head(ib).op)
    BY Zenon, <1>D, <1>T, <2>1 DEF OneOut
  <2>5. tm \notin {"primed", "drainTick", "refresh"} /\ ~ds
    BY Zenon, <1>D, <1>T, <2>1, <2>4 DEF Timing, NoneAnswered, PhaseOf
  <2> QED BY Zenon, <2>2, <2>3, <2>4, <2>5
<1> QED BY Zenon, <1>D, <1>1, <1>2, <1>3, <1>4 DEF Disciplined, tl

\* With nothing out, the controller may go to any phase and arm its timer.
LEMMA Moves ==
    ASSUME NEW ph, NEW g, NEW tm, NEW ds, NEW mb, NEW ib,
           Disciplined(ph, g, tm, ds, mb, ib), NoneAsked(g, mb), NoneAnswered(g, ib),
           NEW ph2, NEW tm2, NEW ds2,
           tm2 = "primed" => ph2 = "Priming", tm2 = "drainTick" => ph2 = "Draining",
           tm2 = "refresh" => ph2 = "Steady", ds2 => ph2 = "Discovering"
    PROVE  Disciplined(ph2, g, tm2, ds2, mb, ib)
<1>1. OneOut(ph2, g, mb, ib)
  BY Zenon DEF OneOut, NoneAsked, NoneAnswered
<1>2. Timing(ph2, g, tm2, ds2, mb, ib)
  BY Zenon DEF Timing
<1> QED BY Zenon, <1>1, <1>2 DEF Disciplined

\* With nothing out, the controller sends the next request.
LEMMA Sends ==
    ASSUME NEW ph, NEW g, NEW tm, NEW ds, NEW mb, NEW ib,
           Disciplined(ph, g, tm, ds, mb, ib), NoneAsked(g, mb), NoneAnswered(g, ib),
           NEW o, NEW to, o # "source", NEW tm2, NEW ds2,
           tm2 \notin {"primed", "drainTick", "refresh"}, ~ds2
    PROVE  Disciplined(PhaseOf(o), g, tm2, ds2, Append(mb, Request(o, g, to)), ib)
<1> DEFINE r == Request(o, g, to)
           mb2 == Append(mb, r)
<1>D. g \in Nat /\ Shapes(mb, ib) /\ Ages(g, mb, ib) /\ Order(g, mb)
  BY Zenon DEF Disciplined
<1>R. /\ r.op = o /\ r.gen = g /\ r.live = TRUE /\ IsRequest(r) /\ Work(r)
  BY Zenon DEF Request, IsRequest, Work
<1>A. /\ Queue(mb2) /\ Len(mb) \in Nat /\ Len(mb2) = Len(mb) + 1
      /\ mb2[Len(mb) + 1] = r
      /\ \A i \in 1..Len(mb) : mb2[i] = mb[i]
  BY <1>D, QueueAppend DEF Shapes
<1> HIDE DEF r, mb2
\* The new request is the only work there is.
<1>N. \A i \in 1..Len(mb2) :
        \/ i \in 1..Len(mb) /\ mb2[i] = mb[i] /\ ~Work(mb2[i])
        \/ i = Len(mb) + 1 /\ mb2[i] = r /\ Asked(g, mb2, i)
  <2>1. \A i \in 1..Len(mb) : ~Work(mb[i])
    BY Zenon, <1>D DEF Order
  <2> QED BY <1>A, <1>R, <2>1 DEF Asked
<1>1. Shapes(mb2, ib)
  BY Zenon, <1>A, <1>D, <1>N, <1>R DEF Shapes
<1>2. Ages(g, mb2, ib)
  BY <1>D, <1>N, <1>R DEF Ages
<1>3. Order(g, mb2)
  BY <1>A, <1>N DEF Order, Asked, NoneAsked
<1>4. OneOut(PhaseOf(o), g, mb2, ib)
  BY Zenon, <1>N, <1>R DEF OneOut, Asked, NoneAnswered
<1>5. Timing(PhaseOf(o), g, tm2, ds2, mb2, ib)
  BY Zenon DEF Timing
<1> QED BY Zenon, <1>D, <1>1, <1>2, <1>3, <1>4, <1>5 DEF Disciplined, mb2, r

\* The controller asks for the B4 source, whatever else is out.
LEMMA Polls ==
    ASSUME NEW ph, NEW g, NEW tm, NEW ds, NEW mb, NEW ib, NEW to,
           Disciplined(ph, g, tm, ds, mb, ib)
    PROVE  Disciplined(ph, g, tm, ds, Append(mb, Request("source", g, to)), ib)
<1> DEFINE r == Request("source", g, to)
           mb2 == Append(mb, r)
<1>D. g \in Nat /\ Shapes(mb, ib) /\ Ages(g, mb, ib) /\ Order(g, mb) /\ OneOut(ph, g, mb, ib)
      /\ Timing(ph, g, tm, ds, mb, ib)
  BY Zenon DEF Disciplined
<1>R. /\ r.gen = g /\ r.live = TRUE /\ IsRequest(r) /\ ~Work(r)
  BY Zenon DEF Request, IsRequest, Work
<1>A. /\ Queue(mb2) /\ Len(mb) \in Nat /\ Len(mb2) = Len(mb) + 1
      /\ mb2[Len(mb) + 1] = r
      /\ \A i \in 1..Len(mb) : mb2[i] = mb[i]
  BY <1>D, QueueAppend DEF Shapes
<1> HIDE DEF r, mb2
<1>N. \A i \in 1..Len(mb2) :
        \/ i \in 1..Len(mb) /\ mb2[i] = mb[i] /\ (Asked(g, mb2, i) <=> Asked(g, mb, i))
        \/ i = Len(mb) + 1 /\ mb2[i] = r /\ ~Work(mb2[i]) /\ ~Asked(g, mb2, i)
  BY <1>A, <1>R DEF Asked
<1>M. NoneAsked(g, mb2) <=> NoneAsked(g, mb)
  BY SMTT(30), <1>A, <1>N DEF NoneAsked
<1>1. Shapes(mb2, ib)
  BY Zenon, <1>A, <1>D, <1>N, <1>R DEF Shapes
<1>2. Ages(g, mb2, ib)
  BY <1>D, <1>N, <1>R DEF Ages
<1>3. Order(g, mb2)
  BY Zenon, <1>D, <1>N, <1>M DEF Order
<1>4. OneOut(ph, g, mb2, ib)
  BY Zenon, <1>D, <1>N DEF OneOut
<1>5. Timing(ph, g, tm, ds, mb2, ib)
  BY Zenon, <1>D, <1>M DEF Timing
<1> QED BY Zenon, <1>D, <1>1, <1>2, <1>3, <1>4, <1>5 DEF Disciplined, mb2, r

\* A hard switch opens a generation: whatever was out no longer is.
LEMMA Switches ==
    ASSUME NEW ph, NEW g, NEW tm, NEW ds, NEW mb, NEW ib, NEW to, NEW tm2,
           Disciplined(ph, g, tm, ds, mb, ib), tm2 \notin {"primed", "drainTick", "refresh"}
    PROVE  Disciplined("Switching", g + 1, tm2, FALSE,
                       Append(mb, Request("switch", g + 1, to)), ib)
<1> DEFINE r == Request("switch", g + 1, to)
           mb2 == Append(mb, r)
<1>D. g \in Nat /\ g + 1 \in Nat /\ Shapes(mb, ib) /\ Ages(g, mb, ib) /\ Order(g, mb)
  BY DEF Disciplined
<1>R. /\ r.op = "switch" /\ r.gen = g + 1 /\ r.live = TRUE /\ IsRequest(r) /\ Work(r)
  BY Zenon DEF Request, IsRequest, Work
<1>A. /\ Queue(mb2) /\ Len(mb) \in Nat /\ Len(mb2) = Len(mb) + 1
      /\ mb2[Len(mb) + 1] = r
      /\ \A i \in 1..Len(mb) : mb2[i] = mb[i]
  BY <1>D, QueueAppend DEF Shapes
<1> HIDE DEF r, mb2
<1>N. \A i \in 1..Len(mb2) :
        \/ i \in 1..Len(mb) /\ mb2[i] = mb[i] /\ ~Asked(g + 1, mb2, i)
        \/ i = Len(mb) + 1 /\ mb2[i] = r /\ Asked(g + 1, mb2, i)
  BY SMTT(30), <1>A, <1>R, <1>D DEF Asked, Ages, Shapes
<1>O. NoneAnswered(g + 1, ib)
  BY SMTT(30), <1>D DEF NoneAnswered, Answered, Ages, Shapes
<1>1. Shapes(mb2, ib)
  BY Zenon, <1>A, <1>D, <1>N, <1>R DEF Shapes
<1>2. Ages(g + 1, mb2, ib)
  <2>1. \A i \in 1..Len(mb2) : mb2[i].live => mb2[i].gen <= g + 1
    BY <1>D, <1>N, <1>R DEF Ages, Shapes
  <2>2. \A i \in 1..Len(ib) : ib[i].gen <= g + 1
    BY <1>D DEF Ages, Shapes
  <2> QED BY Zenon, <2>1, <2>2 DEF Ages
<1>3. Order(g + 1, mb2)
  <2>1. \A i, j \in 1..Len(mb2) : Asked(g + 1, mb2, i) /\ Work(mb2[j]) => j <= i
    BY <1>A, <1>N
  <2>2. \A i, j \in 1..Len(mb2) :
          i < j /\ Work(mb2[i]) /\ Work(mb2[j]) => mb2[j].op \in {"switch", "recover"}
    BY <1>A, <1>N, <1>R, <1>D DEF Order
  <2>3. ~NoneAsked(g + 1, mb2)
    BY <1>A, <1>N DEF NoneAsked
  <2> QED BY Zenon, <2>1, <2>2, <2>3 DEF Order
<1>4. OneOut("Switching", g + 1, mb2, ib)
  BY Zenon, <1>N, <1>R, <1>O DEF OneOut, PhaseOf, NoneAnswered
<1>5. Timing("Switching", g + 1, tm2, FALSE, mb2, ib)
  BY Zenon DEF Timing
<1> QED BY Zenon, <1>D, <1>1, <1>2, <1>3, <1>4, <1>5 DEF Disciplined, mb2, r

\* A dead request is the same request, unanswered.
LEMMA DeadRequest ==
    ASSUME NEW r, IsRequest(r)
    PROVE  LET x == [r EXCEPT !.live = FALSE]
           IN IsRequest(x) /\ x.op = r.op /\ x.gen = r.gen /\ x.to = r.to /\ x.live = FALSE
<1> DEFINE x == [r EXCEPT !.live = FALSE]
<1>1. DOMAIN x = DOMAIN r
  BY Zenon
<1>2. x["live"] = FALSE
  BY Zenon DEF IsRequest
<1>3. x["op"] = r["op"] /\ x["gen"] = r["gen"] /\ x["to"] = r["to"]
  BY Zenon DEF IsRequest
<1> QED BY Zenon, <1>1, <1>2, <1>3 DEF IsRequest

\* A controller starts: the queue q it finds belongs to the dead.
LEMMA Starts ==
    ASSUME NEW q, Queue(q), \A i \in 1..Len(q) : IsRequest(q[i]) /\ q[i].gen \in Nat,
           \A i, j \in 1..Len(q) :
             i < j /\ Work(q[i]) /\ Work(q[j]) => q[j].op \in {"switch", "recover"},
           NEW tm2, tm2 \notin {"primed", "drainTick", "refresh"}
    PROVE  Disciplined("Recovering", 0, tm2, FALSE,
                       Append([i \in DOMAIN q |-> [q[i] EXCEPT !.live = FALSE]],
                              Request("recover", 0, None)), <<>>)
<1> DEFINE m == [i \in DOMAIN q |-> [q[i] EXCEPT !.live = FALSE]]
           r == Request("recover", 0, None)
           mb2 == Append(m, r)
<1>M. /\ Queue(m) /\ Len(m) = Len(q) /\ Len(q) \in Nat
      /\ \A i \in 1..Len(q) : m[i] = [q[i] EXCEPT !.live = FALSE]
  BY Zenon, QueueDead
<1>F. \A i \in 1..Len(q) :
        /\ IsRequest(m[i]) /\ m[i].op = q[i].op /\ m[i].gen \in Nat /\ m[i].live = FALSE
  <2> SUFFICES ASSUME NEW i \in 1..Len(q)
               PROVE  IsRequest(m[i]) /\ m[i].op = q[i].op /\ m[i].gen \in Nat /\ m[i].live = FALSE
    BY Zenon
  <2> HIDE DEF m
  <2>1. m[i] = [q[i] EXCEPT !.live = FALSE] /\ IsRequest(q[i]) /\ q[i].gen \in Nat
    BY Zenon, <1>M
  <2> QED BY <2>1, DeadRequest, Zenon
<1>R. /\ r.op = "recover" /\ r.gen = 0 /\ r.live = TRUE /\ IsRequest(r) /\ Work(r)
  BY Zenon DEF Request, IsRequest, Work
<1> HIDE DEF r, m
<1>A. /\ Queue(mb2) /\ Len(mb2) = Len(q) + 1
      /\ mb2[Len(q) + 1] = r
      /\ \A i \in 1..Len(q) : mb2[i] = m[i]
  BY <1>M, QueueAppend
<1> HIDE DEF mb2
<1>N. \A i \in 1..Len(mb2) :
        \/ i \in 1..Len(q) /\ mb2[i] = m[i] /\ ~Asked(0, mb2, i)
           /\ (Work(mb2[i]) <=> Work(q[i]))
        \/ i = Len(q) + 1 /\ mb2[i] = r /\ Asked(0, mb2, i)
  BY <1>M, <1>A, <1>R, <1>F DEF Asked, Work
<1>E. Queue(<<>>) /\ Len(<<>>) = 0
  <2>1. <<>> \in Seq({})
    OBVIOUS
  <2> QED BY Zenon, <2>1 DEF Queue
<1>1. Shapes(mb2, <<>>)
  <2>1. \A i \in 1..Len(mb2) :
          IsRequest(mb2[i]) /\ mb2[i].gen \in Nat /\ mb2[i].live \in BOOLEAN
    <3> SUFFICES ASSUME NEW i \in 1..Len(mb2)
                 PROVE  IsRequest(mb2[i]) /\ mb2[i].gen \in Nat /\ mb2[i].live \in BOOLEAN
      BY Zenon
    <3>1. CASE i \in 1..Len(q) /\ mb2[i] = m[i]
      BY <3>1, <1>F, Zenon
    <3>2. CASE mb2[i] = r
      <4>1. 0 \in Nat
        BY Zenon
      <4> QED BY <3>2, <4>1, <1>R, Zenon
    <3> QED BY Zenon, <1>N, <3>1, <3>2
  <2> QED BY <2>1, <1>A, <1>E DEF Shapes
<1>2. Ages(0, mb2, <<>>)
  BY <1>N, <1>R, <1>F, <1>E DEF Ages
<1>3. Order(0, mb2)
  <2>1. \A i, j \in 1..Len(mb2) : Asked(0, mb2, i) /\ Work(mb2[j]) => j <= i
    BY <1>M, <1>A, <1>N
  <2>2. \A i, j \in 1..Len(mb2) :
          i < j /\ Work(mb2[i]) /\ Work(mb2[j]) => mb2[j].op \in {"switch", "recover"}
    BY <1>M, <1>A, <1>N, <1>R, <1>F
  <2>3. ~NoneAsked(0, mb2)
    BY <1>M, <1>A, <1>N DEF NoneAsked
  <2> QED BY Zenon, <2>1, <2>2, <2>3 DEF Order
<1>4. OneOut("Recovering", 0, mb2, <<>>)
  BY <1>N, <1>R, <1>E DEF OneOut, PhaseOf, NoneAnswered
<1>5. Timing("Recovering", 0, tm2, FALSE, mb2, <<>>)
  BY Zenon DEF Timing
<1> QED BY Zenon, <1>1, <1>2, <1>3, <1>4, <1>5 DEF Disciplined, mb2, m, r

-----------------------------------------------------------------------------
(* The discipline holds throughout, whatever fails or crashes.             *)

\* It holds when the supervisor starts the tree.
LEMMA DisciplineInit == Init => Discipline
<1> SUFFICES ASSUME Init PROVE Discipline
  OBVIOUS
<1>1. Queue(<<>>) /\ Len(<<>>) = 0
  <2>1. <<>> \in Seq({})
    OBVIOUS
  <2> QED BY Zenon, <2>1 DEF Queue
<1>2. DOMAIN <<>> = 1..0 /\ \A i \in 1..0 : FALSE
  OBVIOUS
<1>3. [i \in DOMAIN <<>> |-> [<<>>[i] EXCEPT !.live = FALSE]] = <<>>
  BY <1>2
<1>4. mbox = Append(<<>>, Request("recover", 0, None))
  BY DEF Init
<1>5. "none" \notin {"primed", "drainTick", "refresh"}
  BY Zenon
<1>6. Disciplined("Recovering", 0, "none", FALSE, mbox, <<>>)
  BY <1>1, <1>2, <1>3, <1>4, <1>5, Starts, Zenon
<1>7. IsData(NoData) /\ NoData.gen = 0
  BY Zenon DEF IsData, NoData
<1> QED BY Zenon, <1>6, <1>7 DEF Init, Discipline

\* Where entering a phase leaves the timer.
LEMMA TimerOf ==
    ASSUME NEW ph, Goto(ph), Discipline
    PROVE  /\ phase' = ph
           /\ ph \notin {"Steady", "Draining"} /\ ph # phase => timer' = "none"
           /\ ph = phase => timer' = timer
           /\ timer' = "primed" => ph = "Priming"
           /\ timer' = "drainTick" => ph = "Draining"
           /\ timer' = "refresh" => ph = "Steady"
  BY Zenon DEF Goto, StateTimer, Discipline, Disciplined, Timing

\* The server's steps.
LEMMA DisciplineServe == Discipline /\ Serve => Discipline'
<1> SUFFICES ASSUME Discipline, Serve PROVE Discipline'
  OBVIOUS
<1>1. /\ UNCHANGED ctlvars /\ mbox # <<>>
      /\ \E result, arg : Reply(result, arg)
  BY Zenon DEF Serve, Serving, ServeRecover, ServeSource, ServeSwitch, ServeBegin, ServeCounts,
         ServeAbort, ServeCutover, ServeGC, ServeComplete
<1>2. PICK result, arg : Reply(result, arg)
  BY Zenon, <1>1
<1> DEFINE a == [op |-> Head(mbox).op, gen |-> Head(mbox).gen, result |-> result, arg |-> arg]
<1>3. /\ a.op = Head(mbox).op /\ a.gen = Head(mbox).gen /\ mbox' = Tail(mbox)
      /\ inbox' = IF Head(mbox).live THEN Append(inbox, a) ELSE inbox
  BY Zenon, <1>2 DEF Reply
<1> HIDE DEF a
<1>4. Disciplined(phase, d.gen, timer, disc, mbox', inbox')
  BY Zenon, <1>1, <1>3, Serves DEF Discipline
<1> QED BY Zenon, <1>1, <1>4 DEF Discipline, ctlvars

\* A controller that starts, with the queue it finds or, when the server died
\* too, none.
LEMMA DisciplineStart ==
    ASSUME Discipline, NEW q, Start(q), q \in {mbox, <<>>}
    PROVE  Discipline'
<1>1. /\ Queue(q)
      /\ \A i \in 1..Len(q) : IsRequest(q[i]) /\ q[i].gen \in Nat
      /\ \A i, j \in 1..Len(q) :
           i < j /\ Work(q[i]) /\ Work(q[j]) => q[j].op \in {"switch", "recover"}
  <2>1. CASE q = mbox
    BY Zenon, <2>1 DEF Discipline, Disciplined, Shapes, Order
  <2>2. CASE q = <<>>
    <3>1. <<>> \in Seq({}) /\ \A i \in 1..Len(<<>>) : FALSE
      OBVIOUS
    <3> QED BY <2>2, <3>1, Zenon DEF Queue
  <2> QED BY Zenon, <2>1, <2>2
<1>2. timer' \notin {"primed", "drainTick", "refresh"}
  BY SMTT(30), TimerOf DEF Start
<1>3. Disciplined("Recovering", 0, timer', FALSE, mbox', <<>>)
  BY Zenon, <1>1, <1>2, Starts DEF Start
<1>4. IsData(d') /\ d'.gen = 0
  BY Zenon DEF Start, IsData, NoData
<1> QED BY Zenon, <1>3, <1>4, TimerOf DEF Start, Discipline

\* The controller's handlers.
LEMMA DisciplineReceive == Discipline /\ Receive => Discipline'
<1> SUFFICES ASSUME Discipline, Receive PROVE Discipline'
  OBVIOUS
<1> DEFINE g == d.gen
           Rest == Tail(inbox)
<1>I. IsData(d) /\ Disciplined(phase, g, timer, disc, mbox, inbox)
  BY Zenon DEF Discipline
<1>T. inbox # <<>> =>
        /\ Disciplined(phase, g, timer, disc, mbox, Rest)
        /\ Work(Head(inbox)) /\ Head(inbox).gen = g =>
             /\ NoneAsked(g, mbox) /\ NoneAnswered(g, Rest) /\ phase = PhaseOf(Head(inbox).op)
             /\ timer \notin {"primed", "drainTick", "refresh"} /\ ~disc
  BY <1>I, Takes
<1> HIDE DEF g, Rest
\* A response is taken and no request sent.
<1>M. ASSUME inbox # <<>>, Work(Head(inbox)), Head(inbox).gen = g,
             inbox' = Rest, mbox' = mbox, IsData(d'), d'.gen = g, disc' = disc,
             timer' = "primed" => phase' = "Priming", timer' = "drainTick" => phase' = "Draining",
             timer' = "refresh" => phase' = "Steady"
      PROVE  Discipline'
  <2>1. ~disc'
    BY Zenon, <1>M, <1>T
  <2>2. Disciplined(phase', g, timer', disc', mbox, Rest)
    BY Zenon, <1>M, <1>T, <2>1, Moves
  <2> QED BY Zenon, <1>M, <2>2 DEF Discipline
\* A response is taken and request o sent, in the same phase.
<1>S. ASSUME NEW o, NEW to, o # "source", inbox # <<>>, Work(Head(inbox)), Head(inbox).gen = g,
             inbox' = Rest, mbox' = Append(mbox, Request(o, g, to)), IsData(d'), d'.gen = g,
             disc' = disc, phase' = PhaseOf(o), timer' = timer
      PROVE  Discipline'
  <2>1. timer' \notin {"primed", "drainTick", "refresh"} /\ ~disc'
    BY Zenon, <1>S, <1>T
  <2>2. Disciplined(phase', g, timer', disc', mbox', Rest)
    BY Zenon, <1>S, <1>T, <2>1, Sends
  <2> QED BY Zenon, <1>S, <2>2 DEF Discipline
<1>1. CASE DropStale
  BY Zenon, <1>1, <1>T, <1>I DEF DropStale, Taken, ctlvars, Discipline, g, Rest
<1>2. CASE GotRecover
  <2>1. CASE ~Ok
    BY Zenon, <1>2, <2>1, DisciplineStart DEF GotRecover
  <2>2. CASE Ok
    <3>1. Work(Head(inbox)) /\ Head(inbox).gen = g /\ inbox # <<>>
      BY Zenon, <1>2 DEF GotRecover, Got, Work, g
    <3>2. /\ Goto("Steady") /\ inbox' = Rest /\ mbox' = mbox /\ disc' = disc
          /\ d' = [d EXCEPT !.b4 = Head(inbox).arg[1], !.cur = Head(inbox).arg[2]]
      BY Zenon, <1>2, <2>2 DEF GotRecover, Taken, Rest
    <3>3. IsData(d') /\ d'.gen = g
      BY Zenon, <3>2, <1>I DEF IsData, g
    <3> QED BY Zenon, <1>M, <3>1, <3>2, <3>3, TimerOf
  <2> QED BY Zenon, <2>1, <2>2
<1>3. CASE GotSource
  <2>1. CASE Head(inbox).arg \in B4s \ {d.b4}
    <3> DEFINE to == <<Head(inbox).arg, HardSwitchTo>>
    <3>1. /\ inbox # <<>> /\ Goto("Switching") /\ inbox' = Rest /\ disc' = FALSE
          /\ mbox' = Append(mbox, Request("switch", g + 1, to))
          /\ d' = [d EXCEPT !.gen = g + 1, !.switchB4 = Head(inbox).arg,
                            !.switchTo = HardSwitchTo, !.next = None]
      BY Zenon, <1>3, <2>1 DEF GotSource, HardSwitch, Send, Taken, Got, g, Rest
    <3>2. IsData(d') /\ d'.gen = g + 1
      BY Zenon, <3>1, <1>I DEF IsData
    <3>3. timer' \notin {"primed", "drainTick", "refresh"} /\ phase' = "Switching"
      BY <3>1, TimerOf
    <3>4. Disciplined("Switching", g + 1, timer', FALSE, mbox', Rest)
      BY Zenon, <3>1, <3>3, <1>T, Switches
    <3> QED BY Zenon, <3>1, <3>2, <3>3, <3>4 DEF Discipline
  <2>2. CASE Head(inbox).arg \notin B4s \ {d.b4}
    BY Zenon, <1>3, <2>2, <1>T, <1>I DEF GotSource, Taken, Got, Discipline, g, Rest
  <2> QED BY Zenon, <2>1, <2>2
<1>4. CASE GotSwitch
  <2>1. Work(Head(inbox)) /\ Head(inbox).gen = g /\ inbox # <<>>
    BY Zenon, <1>4 DEF GotSwitch, Got, Work, g
  <2>2. /\ Goto("Steady") /\ inbox' = Rest /\ mbox' = mbox /\ disc' = disc
        /\ d' = IF Ok THEN [d EXCEPT !.b4 = d.switchB4, !.cur = d.switchTo] ELSE d
    BY Zenon, <1>4 DEF GotSwitch, Taken, Rest
  <2>3. IsData(d') /\ d'.gen = g
    BY Zenon, <2>2, <1>I DEF IsData, g
  <2> QED BY Zenon, <1>M, <2>1, <2>2, <2>3, TimerOf
<1>5. CASE GotBegin
  <2>1. /\ Work(Head(inbox)) /\ Head(inbox).gen = g /\ inbox # <<>>
        /\ PhaseOf(Head(inbox).op) = "Priming"
    BY Zenon, <1>5 DEF GotBegin, Got, Work, PhaseOf, g
  <2>2. inbox' = Rest /\ disc' = disc /\ mbox' = mbox
    BY Zenon, <1>5 DEF GotBegin, Taken, MigrationFailed, Rest
  <2>3. CASE Ok
    <3>1. timer' = "primed" /\ phase' = phase /\ d' = d
      BY Zenon, <1>5, <2>3 DEF GotBegin
    <3> QED BY Zenon, <1>M, <1>T, <1>I, <2>1, <2>2, <3>1 DEF g
  <2>4. CASE ~Ok
    <3>1. Goto("Steady") /\ d' = [d EXCEPT !.next = None]
      BY Zenon, <1>5, <2>4 DEF GotBegin, MigrationFailed
    <3>2. IsData(d') /\ d'.gen = g
      BY Zenon, <3>1, <1>I DEF IsData, g
    <3> QED BY Zenon, <1>M, <2>1, <2>2, <3>1, <3>2, TimerOf
  <2> QED BY Zenon, <2>3, <2>4
\* abort, sent while Priming.
<1>A. ASSUME NEW why, Abort(why), Work(Head(inbox)), Head(inbox).gen = g, inbox # <<>>,
             PhaseOf(Head(inbox).op) = "Priming", inbox' = Rest, disc' = disc
      PROVE  Discipline'
  <2>1. /\ mbox' = Append(mbox, Request("abort", g, None)) /\ Goto("Priming")
        /\ d' = [d EXCEPT !.why = why]
    BY Zenon, <1>A DEF Abort, Send, g
  <2>2. IsData(d') /\ d'.gen = g
    BY Zenon, <2>1, <1>I DEF IsData, g
  <2>3. phase' = PhaseOf("abort") /\ timer' = timer
    BY Zenon, <2>1, <1>A, <1>T, TimerOf DEF PhaseOf
  <2> QED BY Zenon, <1>S, <1>A, <2>1, <2>2, <2>3
<1>6. CASE GotCounts
  <2>1. /\ Work(Head(inbox)) /\ Head(inbox).gen = g /\ inbox # <<>>
        /\ PhaseOf(Head(inbox).op) = "Priming"
    BY Zenon, <1>6 DEF GotCounts, Got, Work, PhaseOf, g
  <2>2. inbox' = Rest /\ disc' = disc
    BY Zenon, <1>6 DEF GotCounts, Taken, Rest
  <2>3. CASE Abort("counts") \/ Abort("")
    BY Zenon, <2>1, <2>2, <2>3, <1>A
  <2>4. CASE Send("cutover", d.gen, None) /\ UNCHANGED <<phase, timer, d>>
    <3>1. /\ mbox' = Append(mbox, Request("cutover", g, None))
          /\ phase' = PhaseOf("cutover") /\ timer' = timer /\ d' = d
      BY Zenon, <2>1, <2>4, <1>T DEF Send, PhaseOf, g
    <3> QED BY Zenon, <1>S, <1>I, <2>1, <2>2, <3>1 DEF g
  <2> QED BY Zenon, <1>6, <2>3, <2>4 DEF GotCounts
<1>7. CASE GotCutover
  <2>1. /\ Work(Head(inbox)) /\ Head(inbox).gen = g /\ inbox # <<>>
        /\ PhaseOf(Head(inbox).op) = "Priming"
    BY Zenon, <1>7 DEF GotCutover, Got, Work, PhaseOf, g
  <2>2. inbox' = Rest /\ disc' = disc
    BY Zenon, <1>7 DEF GotCutover, Taken, Rest
  <2>3. CASE Ok
    <3>1. Goto("Draining") /\ mbox' = mbox /\ d' = [d EXCEPT !.cap = FALSE]
      BY Zenon, <1>7, <2>3 DEF GotCutover
    <3>2. IsData(d') /\ d'.gen = g
      BY Zenon, <3>1, <1>I DEF IsData, g
    <3> QED BY Zenon, <1>M, <2>1, <2>2, <3>1, <3>2, TimerOf
  <2>4. CASE ~Ok
    BY Zenon, <1>7, <2>1, <2>2, <2>4, <1>A DEF GotCutover
  <2> QED BY <2>3, <2>4
<1>8. CASE GotAbort
  <2>1. Work(Head(inbox)) /\ Head(inbox).gen = g /\ inbox # <<>>
    BY Zenon, <1>8 DEF GotAbort, Got, Work, g
  <2>2. /\ Goto("Steady") /\ inbox' = Rest /\ mbox' = mbox /\ disc' = disc
        /\ d' = d \/ d' = [d EXCEPT !.next = None]
    BY Zenon, <1>8 DEF GotAbort, MigrationFailed, Taken, Rest
  <2>3. IsData(d') /\ d'.gen = g
    BY Zenon, <2>2, <1>I DEF IsData, g
  <2> QED BY Zenon, <1>M, <2>1, <2>2, <2>3, TimerOf
<1>9. CASE GotGC
  <2>1. /\ Work(Head(inbox)) /\ Head(inbox).gen = g /\ inbox # <<>>
        /\ PhaseOf(Head(inbox).op) = "Draining"
    BY Zenon, <1>9 DEF GotGC, Got, Work, PhaseOf, g
  <2>2. inbox' = Rest /\ disc' = disc /\ phase' = phase /\ d' = d
    BY Zenon, <1>9 DEF GotGC, Taken, Rest
  <2>3. CASE timer' = "drainTick" /\ UNCHANGED mbox
    BY Zenon, <1>M, <1>T, <1>I, <2>1, <2>2, <2>3 DEF g
  <2>4. CASE Send("complete", d.gen, None) /\ UNCHANGED timer
    <3>1. /\ mbox' = Append(mbox, Request("complete", g, None))
          /\ phase' = PhaseOf("complete") /\ timer' = timer
      BY Zenon, <2>1, <2>2, <2>4, <1>T DEF Send, PhaseOf, g
    <3> QED BY Zenon, <1>S, <1>I, <2>1, <2>2, <3>1 DEF g
  <2> QED BY Zenon, <1>9, <2>3, <2>4 DEF GotGC
<1>10. CASE GotComplete
  <2>1. /\ Work(Head(inbox)) /\ Head(inbox).gen = g /\ inbox # <<>>
        /\ PhaseOf(Head(inbox).op) = "Draining"
    BY Zenon, <1>10 DEF GotComplete, Got, Work, PhaseOf, g
  <2>2. inbox' = Rest /\ disc' = disc /\ mbox' = mbox
    BY Zenon, <1>10 DEF GotComplete, Taken, Rest
  <2>3. CASE Ok
    <3>1. Goto("Steady") /\ d' = [d EXCEPT !.cur = d.next, !.next = None]
      BY Zenon, <1>10, <2>3 DEF GotComplete
    <3>2. IsData(d') /\ d'.gen = g
      BY Zenon, <3>1, <1>I DEF IsData, g
    <3> QED BY Zenon, <1>M, <2>1, <2>2, <3>1, <3>2, TimerOf
  <2>4. CASE ~Ok
    <3>1. timer' = "drainTick" /\ phase' = phase /\ d' = d
      BY Zenon, <1>10, <2>4 DEF GotComplete
    <3> QED BY Zenon, <1>M, <1>T, <1>I, <2>1, <2>2, <3>1 DEF g
  <2> QED BY <2>3, <2>4
<1> QED BY Zenon, <1>1, <1>2, <1>3, <1>4, <1>5, <1>6, <1>7, <1>8, <1>9, <1>10 DEF Receive

\* The controller's timeouts, and the end of a discovery attempt.
LEMMA DisciplineTimeouts ==
    Discipline /\ (Refresh \/ Primed \/ DrainTick \/ DrainCap \/ B4Poll \/ Discovery)
      => Discipline'
<1> DEFINE g == d.gen
<1> SUFFICES ASSUME Discipline, Refresh \/ Primed \/ DrainTick \/ DrainCap \/ B4Poll \/ Discovery
             PROVE  Discipline'
  BY Zenon
<1>I. IsData(d) /\ Disciplined(phase, g, timer, disc, mbox, inbox)
  BY Zenon DEF Discipline
<1>T. Timing(phase, g, timer, disc, mbox, inbox)
  BY Zenon, <1>I DEF Disciplined
\* In a phase that waits for no answer, nothing is out.
<1>N. phase \in {"Steady", "Discovering"} => NoneAsked(g, mbox) /\ NoneAnswered(g, inbox)
  BY Zenon, <1>I DEF Disciplined, OneOut, NoneAsked, NoneAnswered, PhaseOf
<1> HIDE DEF g
<1>1. CASE Refresh
  <2>1. /\ Goto("Discovering") /\ d' = d /\ mbox' = mbox /\ inbox' = inbox
        /\ phase = "Steady"
    BY Zenon, <1>1, <1>T DEF Refresh, Timing
  <2>2. Disciplined("Discovering", g, timer', disc', mbox, inbox)
    BY Zenon, <2>1, <1>I, <1>N, TimerOf, Moves
  <2> QED BY Zenon, <2>1, <2>2, <1>I, TimerOf DEF Discipline, g
<1>2. CASE Primed
  <2>1. /\ timer' = "none" /\ mbox' = Append(mbox, Request("counts", g, None))
        /\ UNCHANGED <<phase, d, disc, inbox>> /\ phase = PhaseOf("counts")
        /\ NoneAsked(g, mbox) /\ NoneAnswered(g, inbox) /\ ~disc
    BY Zenon, <1>2, <1>T DEF Primed, Send, Timing, PhaseOf, g
  <2>2. Disciplined(phase, g, timer', disc', mbox', inbox)
    BY Zenon, <2>1, <1>I, Sends
  <2> QED BY Zenon, <2>1, <2>2, <1>I DEF Discipline, g
<1>3. CASE DrainTick
  <2>1. /\ timer' = "none" /\ mbox' = Append(mbox, Request("gc", g, None))
        /\ UNCHANGED <<phase, d, disc, inbox>> /\ phase = PhaseOf("gc")
        /\ NoneAsked(g, mbox) /\ NoneAnswered(g, inbox) /\ ~disc
    BY Zenon, <1>3, <1>T DEF DrainTick, Send, Timing, PhaseOf, g
  <2>2. Disciplined(phase, g, timer', disc', mbox', inbox)
    BY Zenon, <2>1, <1>I, Sends
  <2> QED BY Zenon, <2>1, <2>2, <1>I DEF Discipline, g
<1>4. CASE DrainCap
  <2>1. /\ d' = d \/ d' = [d EXCEPT !.cap = TRUE]
        /\ UNCHANGED <<phase, timer, disc, mbox, inbox>>
    BY Zenon, <1>4 DEF DrainCap
  <2>2. IsData(d') /\ d'.gen = g
    BY Zenon, <2>1, <1>I DEF IsData, g
  <2> QED BY Zenon, <2>1, <2>2, <1>I DEF Discipline
<1>5. CASE B4Poll
  <2>1. /\ mbox' = Append(mbox, Request("source", g, None))
        /\ UNCHANGED <<phase, timer, d, disc, inbox>>
    BY Zenon, <1>5 DEF B4Poll, Send, ctlvars, g
  <2> QED BY Zenon, <2>1, <1>I, Polls DEF Discipline, g
<1>6. CASE Discovery
  <2>1. PICK aftr \in AFTRs \cup {None} : Discovered(aftr)
    BY Zenon, <1>6 DEF Discovery
  <2>2. phase = "Discovering" /\ disc' = FALSE /\ inbox' = inbox
    BY Zenon, <2>1, <1>T DEF Discovered, Timing
  <2>3. CASE aftr \in {None, d.cur}
    <3>1. Goto("Steady") /\ d' = d /\ mbox' = mbox
      BY Zenon, <2>1, <2>3 DEF Discovered
    <3>2. Disciplined("Steady", g, timer', disc', mbox, inbox)
      BY Zenon, <2>2, <3>1, <1>I, <1>N, TimerOf, Moves
    <3> QED BY Zenon, <2>2, <3>1, <3>2, <1>I, TimerOf DEF Discipline, g
  <2>4. CASE aftr \notin {None, d.cur}
    <3>1. /\ Goto("Priming") /\ d' = [d EXCEPT !.next = aftr, !.mig = d.mig + 1]
          /\ mbox' = Append(mbox, Request("begin", g, <<d.b4, aftr>>))
      BY Zenon, <2>1, <2>4 DEF Discovered, Send, g
    <3>2. IsData(d') /\ d'.gen = g
      BY Zenon, <3>1, <1>I DEF IsData, g
    <3>3. timer' = "none" /\ phase' = PhaseOf("begin")
      BY <2>2, <3>1, TimerOf DEF PhaseOf
    <3>4. Disciplined(phase', g, timer', disc', mbox', inbox)
      BY Zenon, <2>2, <3>1, <3>3, <1>I, <1>N, Sends
    <3> QED BY Zenon, <2>2, <3>2, <3>4 DEF Discipline
  <2> QED BY Zenon, <2>3, <2>4
<1> QED BY Zenon, <1>1, <1>2, <1>3, <1>4, <1>5, <1>6

\* Every step keeps the discipline.
LEMMA DisciplineStep == Discipline /\ [Next]_vars => Discipline'
<1> SUFFICES ASSUME Discipline, [Next]_vars PROVE Discipline'
  BY Zenon
<1>1. CASE ControllerCrash \/ ServerCrash
  BY Zenon, <1>1, DisciplineStart DEF ControllerCrash, ServerCrash
<1>2. CASE SourceMoves \/ FlowLost \/ UNCHANGED vars
  BY Zenon, <1>2 DEF SourceMoves, FlowLost, vars, ctlvars, Discipline
<1> QED BY Zenon, <1>1, <1>2, DisciplineServe, DisciplineReceive, DisciplineTimeouts DEF Next

\* The discipline of the queues holds throughout: for any number of crashes,
\* failing calls, moves of the source and polls in flight.
LEMMA DisciplineInvariant == Spec => []Discipline
<1> QED BY DisciplineInit, DisciplineStep, PTL DEF Spec

==============================================================================
