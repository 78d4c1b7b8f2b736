----------------------------- MODULE Softwirectl -----------------------------
(***************************************************************************)
(* The softwire control tree of internal/softwirectl: the controller (a    *)
(* state machine that only sends requests), the softwire server (which     *)
(* drives the datapath and the companion tunnel, one request at a time),   *)
(* the discovery attempt and the supervisor that restarts them.            *)
(*                                                                         *)
(* Simplifications:                                                        *)
(*  - a timer that is armed fires at any time; durations and refresh       *)
(*    pacing are left out, and with them Wait, tokens and DNS servers;     *)
(*  - a Loader call is one step, with the outcomes of LoaderOps;           *)
(*  - the flow counters are one fact: whether a flow was lost since        *)
(*    BeginMigration, before or after the counters were read;              *)
(*  - a server that dies takes the controller with it at once (the         *)
(*    supervisor is rest_for_one).                                         *)
(***************************************************************************)
EXTENDS Naturals, Sequences, FiniteSets

CONSTANTS
    B4s, AFTRs, None,
    InitialB4, InitialAFTR,     \* what startup resolved and discovered
    DynamicAFTR, DynamicB4,     \* Controller's configuration
    MaxCrashes, MaxSrcChanges, MaxFails, MaxMigrations,   \* bounds on the environment
    MaxPolls                    \* bound: B4 queries in flight

ASSUME ConstantsAssumption ==
    /\ InitialB4 \in B4s /\ InitialAFTR \in AFTRs
    /\ None \notin B4s \cup AFTRs /\ None \notin B4s \X AFTRs
    /\ DynamicAFTR \in BOOLEAN /\ DynamicB4 \in BOOLEAN
    /\ {MaxCrashes, MaxSrcChanges, MaxFails, MaxMigrations, MaxPolls} \subseteq Nat

Endpoints == B4s \X AFTRs
L == INSTANCE LoaderOps WITH NoEndpoint <- None

VARIABLES
    phase, d, timer, poll, dcap,  \* the controller: Phase, Data, its three timers
    disc,                         \* a discovery attempt is running
    mbox, inbox,                  \* requests to the server, responses to the controller
    sw, tun, dp,                  \* the Softwire value, the tunnel, the datapath
    src,                          \* the kernel's B4 source, or None
    lost, counted,                \* a flow went unrecorded; the counters were read
    left,                         \* history: the AFTR the last cutover moved away from
    crashes, fails, moves         \* what is left of the bounds

ctlvars == <<phase, d, timer, poll, dcap, disc>>
swvars == <<sw, tun, dp>>
flowvars == <<lost, counted, left>>
envvars == <<src, crashes, fails, moves>>
vars == <<ctlvars, mbox, inbox, swvars, flowvars, envvars>>

NoData == [b4 |-> None, cur |-> None, next |-> None, gen |-> 0, mig |-> 0, cap |-> FALSE,
           why |-> "", switchB4 |-> None, switchTo |-> None]

Request(o, gen, to) == [op |-> o, gen |-> gen, to |-> to, live |-> TRUE]
Send(o, gen, to) == mbox' = Append(mbox, Request(o, gen, to))

\* Entering a phase: its state timeout replaces the one of the phase left.
StateTimer(ph) == CASE ph = "Steady" /\ DynamicAFTR -> "refresh"
                    [] ph = "Draining"               -> "drainTick"
                    [] OTHER                         -> "none"
Goto(ph) == phase' = ph /\ timer' = IF ph = phase THEN timer ELSE StateTimer(ph)

-----------------------------------------------------------------------------
(* The softwire server: one request at a time, to the end.                 *)

Serving(o) == mbox # <<>> /\ Head(mbox).op = o

\* A response to a controller that has died goes nowhere.
Reply(result, arg) ==
    LET r == Head(mbox)
    IN /\ mbox' = Tail(mbox)
       /\ inbox' = IF r.live
                   THEN Append(inbox, [op |-> r.op, gen |-> r.gen, result |-> result, arg |-> arg])
                   ELSE inbox

\* A call's outcome: failures are drawn from a bounded supply.
Happens(o) ==
    /\ o.result = "failed" => fails > 0
    /\ fails' = IF o.result = "failed" THEN fails - 1 ELSE fails
    /\ dp' = o.dp

\* setTunnel: best effort.
SetTunnel(ep) == tun' = ep \/ (MaxFails > 0 /\ UNCHANGED tun)

CarelessServeRecover ==
    /\ Serving("recover")
    /\ Reply("ok", sw.active)
    /\ UNCHANGED <<ctlvars, swvars, flowvars, envvars>>
ServeRecover ==
    /\ Serving("recover")
    /\ IF ~sw.migrating
       THEN Reply("ok", sw.active) /\ UNCHANGED <<sw, tun, dp, fails>>
       ELSE \E o \in L!SwitchAFTR(dp, sw.active) :
              /\ Happens(o)
              /\ Reply(o.result, sw.active)
              /\ IF o.result = "ok"
                 THEN sw' = [sw EXCEPT !.migrating = FALSE] /\ SetTunnel(sw.active)
                 ELSE UNCHANGED <<sw, tun>>
    /\ UNCHANGED <<ctlvars, flowvars, src, crashes, moves>>

ServeSource ==
    /\ Serving("source")
    /\ Reply("ok", src)
    /\ UNCHANGED <<ctlvars, swvars, flowvars, envvars>>

ServeSwitch ==
    /\ Serving("switch")
    /\ LET to == Head(mbox).to
       IN \E o \in L!SwitchAFTR(dp, to) :
            /\ Happens(o)
            /\ Reply(o.result, None)
            /\ IF o.result = "ok"
               THEN /\ sw' = [sw EXCEPT !.active = to, !.migrating = FALSE]
                    /\ SetTunnel(to)
               ELSE UNCHANGED <<sw, tun>>
    /\ UNCHANGED <<ctlvars, flowvars, src, crashes, moves>>

ServeBegin ==
    /\ Serving("begin")
    /\ LET to == Head(mbox).to
       IN \E o \in L!BeginMigration(dp, to) :
            /\ Happens(o)
            /\ Reply(o.result, None)
            /\ IF o.result = "ok"
               THEN /\ sw' = [sw EXCEPT !.target = to, !.migrating = TRUE]
                    /\ lost' = "no" /\ counted' = FALSE
               ELSE UNCHANGED <<sw, lost, counted>>
    /\ UNCHANGED <<ctlvars, tun, left, src, crashes, moves>>

ServeCounts ==
    /\ Serving("counts")
    /\ \/ Reply("ok", lost) /\ counted' = TRUE /\ UNCHANGED fails
       \/ fails > 0 /\ Reply("failed", None) /\ fails' = fails - 1 /\ UNCHANGED counted
    /\ UNCHANGED <<ctlvars, swvars, lost, left, src, crashes, moves>>

ForgetfulServeAbort ==
    /\ Serving("abort")
    /\ \E o \in L!AbortMigration(dp) :
         /\ Happens(o)
         /\ Reply(o.result, None)
         /\ sw' = [sw EXCEPT !.migrating = FALSE]
    /\ UNCHANGED <<ctlvars, tun, flowvars, src, crashes, moves>>
ServeAbort ==
    /\ Serving("abort")
    /\ \E o \in L!AbortMigration(dp) :
         /\ Happens(o)
         /\ Reply(o.result, None)
         /\ sw' = IF o.result = "ok" THEN [sw EXCEPT !.migrating = FALSE] ELSE sw
    /\ UNCHANGED <<ctlvars, tun, flowvars, src, crashes, moves>>

StaleServeCutover ==
    /\ Serving("cutover")
    /\ \E o \in L!Cutover(dp) : Happens(o) /\ Reply(o.result, None)
    /\ UNCHANGED <<ctlvars, sw, tun, flowvars, src, crashes, moves>>
ServeCutover ==
    /\ Serving("cutover")
    /\ \E o \in L!Cutover(dp) :
         /\ Happens(o)
         /\ Reply(o.result, None)
         /\ IF o.result = "ok"
            THEN /\ sw' = [sw EXCEPT !.active = sw.target]
                 /\ SetTunnel(sw.target)
                 /\ left' = sw.active[2]
            ELSE UNCHANGED <<sw, tun, left>>
    /\ UNCHANGED <<ctlvars, lost, counted, src, crashes, moves>>

\* GCFlowAffinity reports whether flows remain; which is the traffic's choice.
ServeGC ==
    /\ Serving("gc")
    /\ \/ \E remaining \in BOOLEAN : Reply("ok", remaining) /\ UNCHANGED fails
       \/ fails > 0 /\ Reply("failed", None) /\ fails' = fails - 1
    /\ UNCHANGED <<ctlvars, swvars, flowvars, src, crashes, moves>>

ServeComplete ==
    /\ Serving("complete")
    /\ \E o \in L!CompleteMigration(dp) :
         /\ Happens(o)
         /\ Reply(o.result, None)
         /\ sw' = IF o.result = "ok" THEN [sw EXCEPT !.migrating = FALSE] ELSE sw
    /\ UNCHANGED <<ctlvars, tun, flowvars, src, crashes, moves>>

Serve ==
    \/ ServeRecover \/ ServeSource \/ ServeSwitch \/ ServeBegin \/ ServeCounts
    \/ ServeAbort \/ ServeCutover \/ ServeGC \/ ServeComplete

-----------------------------------------------------------------------------
(* The controller: its timeouts.                                           *)

Refresh ==
    /\ timer = "refresh"
    /\ Goto("Discovering")
    /\ disc' = TRUE
    /\ UNCHANGED <<d, poll, dcap, mbox, inbox, swvars, flowvars, envvars>>

Primed ==
    /\ timer = "primed"
    /\ timer' = "none"
    /\ Send("counts", d.gen, None)
    /\ UNCHANGED <<phase, d, poll, dcap, disc, inbox, swvars, flowvars, envvars>>

DrainTick ==
    /\ timer = "drainTick"
    /\ timer' = "none"
    /\ Send("gc", d.gen, None)
    /\ UNCHANGED <<phase, d, poll, dcap, disc, inbox, swvars, flowvars, envvars>>

SourcesIn(q) == Cardinality({i \in DOMAIN q : q[i].op = "source"})

\* Postponed while Switching; re-armed by every poll.
B4Poll ==
    /\ poll /\ phase # "Switching"
    /\ SourcesIn(mbox) + SourcesIn(inbox) < MaxPolls
    /\ Send("source", d.gen, None)
    /\ UNCHANGED <<ctlvars, inbox, swvars, flowvars, envvars>>

\* A cap armed by an earlier migration is ignored.
DrainCap ==
    /\ dcap # 0
    /\ dcap' = 0
    /\ d' = IF dcap = d.mig THEN [d EXCEPT !.cap = TRUE] ELSE d
    /\ UNCHANGED <<phase, timer, poll, disc, mbox, inbox, swvars, flowvars, envvars>>

-----------------------------------------------------------------------------
(* The controller: responses.                                              *)

\* A response of an earlier generation is dropped.
AnyGenGot(o) == inbox # <<>> /\ Head(inbox).op = o
Got(o) == inbox # <<>> /\ Head(inbox).op = o /\ Head(inbox).gen = d.gen
Ok == Head(inbox).result = "ok"
Taken == inbox' = Tail(inbox)

DropStale ==
    /\ inbox # <<>> /\ Head(inbox).gen # d.gen
    /\ Taken
    /\ UNCHANGED <<ctlvars, mbox, swvars, flowvars, envvars>>

\* The controller starts, or is started again: with nothing but a request to
\* recover.  Its requests still with the server are served, unanswered.
Start(queue) ==
    /\ Goto("Recovering")
    /\ d' = NoData
    /\ poll' = FALSE /\ dcap' = 0 /\ disc' = FALSE
    /\ inbox' = <<>>
    /\ mbox' = Append([i \in DOMAIN queue |-> [queue[i] EXCEPT !.live = FALSE]],
                      Request("recover", 0, None))

GotRecover ==
    /\ Got("recover")
    /\ IF Ok
       THEN /\ d' = [d EXCEPT !.b4 = Head(inbox).arg[1], !.cur = Head(inbox).arg[2]]
            /\ Goto("Steady")
            /\ poll' = DynamicB4
            /\ Taken
            /\ UNCHANGED <<dcap, disc, mbox>>
       ELSE Start(mbox)
    /\ left' = None
    /\ UNCHANGED <<swvars, lost, counted, envvars>>

\* hardSwitch: bumps the generation, which ends whatever was in flight.
HardSwitchTo == IF phase = "Draining" THEN d.next ELSE d.cur
HardSwitch(b4) ==
    /\ d' = [d EXCEPT !.gen = d.gen + 1, !.switchB4 = b4, !.switchTo = HardSwitchTo,
                      !.next = None]
    /\ Send("switch", d.gen + 1, <<b4, HardSwitchTo>>)
    /\ Goto("Switching")
    /\ disc' = FALSE

\* nextB4: no source, or the current one, is no change.
GotSource ==
    /\ Got("source")
    /\ IF Head(inbox).arg \in B4s \ {d.b4}
       THEN HardSwitch(Head(inbox).arg)
       ELSE UNCHANGED <<phase, timer, d, disc, mbox>>
    /\ Taken
    /\ UNCHANGED <<poll, dcap, swvars, flowvars, envvars>>

GotSwitch ==
    /\ Got("switch")
    /\ d' = IF Ok THEN [d EXCEPT !.b4 = d.switchB4, !.cur = d.switchTo] ELSE d
    /\ Goto("Steady")
    /\ Taken
    /\ UNCHANGED <<poll, dcap, disc, mbox, swvars, flowvars, envvars>>

\* The AsyncResult of a discovery: an AFTR, or None for a failed attempt.
Discovered(aftr) ==
    /\ disc /\ disc' = FALSE
    /\ left' = IF aftr = None THEN left ELSE None
    /\ IF aftr \in {None, d.cur}
       THEN Goto("Steady") /\ UNCHANGED <<d, mbox>>
       ELSE /\ d.mig < MaxMigrations
            /\ d' = [d EXCEPT !.next = aftr, !.mig = d.mig + 1]
            /\ Goto("Priming")
            /\ Send("begin", d.gen, <<d.b4, aftr>>)
    /\ UNCHANGED <<poll, dcap, inbox, swvars, lost, counted, envvars>>

\* migrationFailed: back to Steady on the AFTR in use.
MigrationFailed == Goto("Steady") /\ d' = [d EXCEPT !.next = None] /\ UNCHANGED mbox

\* abort: rolls the migration back; why is "" when already logged.
Abort(why) ==
    /\ d' = [d EXCEPT !.why = why]
    /\ Send("abort", d.gen, None)
    /\ Goto("Priming")

GotBegin ==
    /\ Got("begin")
    /\ IF Ok THEN timer' = "primed" /\ UNCHANGED <<phase, d, mbox>> ELSE MigrationFailed
    /\ Taken
    /\ UNCHANGED <<poll, dcap, disc, swvars, flowvars, envvars>>

UngatedGotCounts ==
    /\ Got("counts")
    /\ IF Ok THEN Send("cutover", d.gen, None) /\ UNCHANGED <<phase, timer, d>>
             ELSE Abort("counts")
    /\ Taken
    /\ UNCHANGED <<poll, dcap, disc, swvars, flowvars, envvars>>
GotCounts ==
    /\ Got("counts")
    /\ CASE ~Ok -> Abort("counts")
         [] Ok /\ Head(inbox).arg # "no" -> Abort("")
         [] OTHER -> Send("cutover", d.gen, None) /\ UNCHANGED <<phase, timer, d>>
    /\ Taken
    /\ UNCHANGED <<poll, dcap, disc, swvars, flowvars, envvars>>

GotCutover ==
    /\ Got("cutover")
    /\ IF Ok
       THEN /\ Goto("Draining")
            /\ d' = [d EXCEPT !.cap = FALSE]
            /\ dcap' = d.mig
            /\ UNCHANGED mbox
       ELSE Abort("cutover") /\ UNCHANGED dcap
    /\ Taken
    /\ UNCHANGED <<poll, disc, swvars, flowvars, envvars>>

GotAbort ==
    /\ Got("abort")
    /\ IF Ok /\ d.why = "" THEN Goto("Steady") /\ UNCHANGED <<d, mbox>> ELSE MigrationFailed
    /\ Taken
    /\ UNCHANGED <<poll, dcap, disc, swvars, flowvars, envvars>>

CaplessGotGC ==
    /\ Got("gc")
    /\ IF ~Ok \/ Head(inbox).arg = TRUE
       THEN timer' = "drainTick" /\ UNCHANGED mbox
       ELSE Send("complete", d.gen, None) /\ UNCHANGED timer
    /\ Taken
    /\ UNCHANGED <<phase, d, poll, dcap, disc, swvars, flowvars, envvars>>
GotGC ==
    /\ Got("gc")
    /\ IF ~Ok \/ (Head(inbox).arg = TRUE /\ ~d.cap)
       THEN timer' = "drainTick" /\ UNCHANGED mbox
       ELSE Send("complete", d.gen, None) /\ UNCHANGED timer
    /\ Taken
    /\ UNCHANGED <<phase, d, poll, dcap, disc, swvars, flowvars, envvars>>

GotComplete ==
    /\ Got("complete")
    /\ IF Ok
       THEN /\ Goto("Steady")
            /\ d' = [d EXCEPT !.cur = d.next, !.next = None]
            /\ dcap' = 0
       ELSE timer' = "drainTick" /\ UNCHANGED <<phase, d, dcap>>
    /\ Taken
    /\ UNCHANGED <<poll, disc, mbox, swvars, flowvars, envvars>>

Receive ==
    \/ DropStale
    \/ GotRecover \/ GotSource \/ GotSwitch \/ GotBegin \/ GotCounts
    \/ GotCutover \/ GotAbort \/ GotGC \/ GotComplete

-----------------------------------------------------------------------------
(* The environment.                                                        *)

\* The supervisor restarts the controller, or the server and the controller.
\* The Softwire value outlives both.
ControllerCrash ==
    /\ crashes > 0 /\ crashes' = crashes - 1
    /\ Start(mbox)
    /\ left' = None
    /\ UNCHANGED <<swvars, lost, counted, src, fails, moves>>
ServerCrash ==
    /\ crashes > 0 /\ crashes' = crashes - 1
    /\ Start(<<>>)
    /\ left' = None
    /\ UNCHANGED <<swvars, lost, counted, src, fails, moves>>

\* The WAN is renumbered, or loses its route.
SourceMoves ==
    /\ moves > 0 /\ moves' = moves - 1
    /\ src' \in (B4s \cup {None}) \ {src}
    /\ UNCHANGED <<ctlvars, mbox, inbox, swvars, flowvars, crashes, fails>>

\* touch_flow_affinity finds the table full.
FlowLost ==
    /\ dp.state = "PRIMING" /\ lost = "no"
    /\ lost' = IF counted THEN "after" ELSE "before"
    /\ UNCHANGED <<ctlvars, mbox, inbox, swvars, counted, left, envvars>>

Init ==
    /\ phase = "Recovering" /\ timer = "none"
    /\ d = NoData /\ poll = FALSE /\ dcap = 0 /\ disc = FALSE
    /\ mbox = <<Request("recover", 0, None)>> /\ inbox = <<>>
    /\ sw = [active |-> <<InitialB4, InitialAFTR>>, target |-> None, migrating |-> FALSE]
    /\ tun = <<InitialB4, InitialAFTR>>
    /\ dp = [active |-> 0, old |-> 0, state |-> "STEADY",
             nh |-> [s \in L!Slots |-> IF s = 0 THEN <<InitialB4, InitialAFTR>> ELSE None]]
    /\ src = InitialB4
    /\ lost = "no" /\ counted = FALSE /\ left = None
    /\ crashes = MaxCrashes /\ fails = MaxFails /\ moves = MaxSrcChanges

Discovery == \E aftr \in AFTRs \cup {None} : Discovered(aftr)

Next ==
    \/ Serve \/ Receive \/ Discovery
    \/ Refresh \/ Primed \/ DrainTick \/ DrainCap \/ B4Poll
    \/ ControllerCrash \/ ServerCrash \/ SourceMoves \/ FlowLost

\* The runtime delivers every message, an armed timer fires, and a discovery
\* attempt ends within rediscoveryTimeout.  Crashes, moves and losses may not
\* happen at all.
Fairness ==
    /\ WF_vars(Serve) /\ WF_vars(Receive) /\ WF_vars(Discovery)
    /\ WF_vars(Refresh) /\ WF_vars(Primed) /\ WF_vars(DrainTick)
    /\ WF_vars(DrainCap) /\ WF_vars(B4Poll)

Spec == Init /\ [][Next]_vars /\ Fairness

-----------------------------------------------------------------------------
(* Properties.                                                             *)

Phases == {"Recovering", "Steady", "Discovering", "Priming", "Draining", "Switching"}
OpNames == {"recover", "source", "switch", "begin", "counts", "abort", "cutover", "gc",
            "complete"}
MaybeEndpoint == Endpoints \cup {None}
Requests == [op : OpNames, gen : Nat, to : MaybeEndpoint, live : BOOLEAN]

\* Every variable keeps its type.
TypeOK ==
    /\ phase \in Phases /\ timer \in {"none", "refresh", "primed", "drainTick"}
    /\ d \in [b4 : B4s \cup {None}, cur : AFTRs \cup {None}, next : AFTRs \cup {None},
              gen : Nat, mig : Nat, cap : BOOLEAN, why : {"", "counts", "cutover"},
              switchB4 : B4s \cup {None}, switchTo : AFTRs \cup {None}]
    /\ poll \in BOOLEAN /\ dcap \in Nat /\ disc \in BOOLEAN
    /\ mbox \in Seq(Requests)
    /\ sw \in [active : Endpoints, target : MaybeEndpoint, migrating : BOOLEAN]
    /\ tun \in Endpoints /\ dp \in L!Datapaths /\ src \in B4s \cup {None}
    /\ lost \in {"no", "before", "after"} /\ counted \in BOOLEAN
    /\ left \in AFTRs \cup {None}
    /\ {crashes, fails, moves} \subseteq Nat

\* Where the Softwire value says new flows go is where the datapath sends them,
\* also after a call that failed half-way and across restarts.
ActiveIsDatapath == sw.active = L!ActiveEndpoint(dp)

\* A datapath in mid-migration is known to the Softwire value, with the pair it
\* moves to, even after a failed call and across restarts: what lets a
\* restarted controller's recovery end the migration.
MigrationKnown ==
    /\ dp.state = "PRIMING" => sw.migrating /\ sw.target = dp.nh[L!Other(dp.active)]
    /\ dp.state = "DRAINING" => sw.migrating /\ sw.target = sw.active

\* With no call failing, a settled controller and the softwire agree on the
\* endpoints, the tunnel follows them and no migration is left behind; while
\* draining, new flows are on the AFTR the migration moves to.  Whatever was in
\* flight when a hard switch or a restart came has had no effect since.
Agreement ==
    /\ phase \in {"Steady", "Discovering"} =>
         /\ sw.active = <<d.b4, d.cur>>
         /\ tun = sw.active
         /\ dp.state = "STEADY" /\ ~sw.migrating
    /\ phase = "Draining" => sw.active = <<d.b4, d.next>>

\* With no call failing, the controller never asks for what the datapath must
\* refuse: it begins, cuts over, aborts and completes only where it can.
NeverRejected == \A i \in DOMAIN inbox : inbox[i].result # "rejected"

\* No cutover follows a loss that the counters could have shown: a priming pass
\* that lost a flow before they were read is rolled back.
CutoverGated == dp.state = "DRAINING" => lost # "before"

\* The caller of Cutover has checked that every flow was recorded: "that
\* Stats().AffinityInsertFail did not rise during PRIMING".  It does not hold
\* (README, known limits).
CutoverLosesNoFlow == dp.state = "DRAINING" => lost = "no"

\* A hard switch after the cutover keeps new flows on the new AFTR: "Mid-drain,
\* it switches onto the new AFTR, where new flows already go".  It does not hold
\* (README, known limits).
SwitchStaysOnNew ==
    \A i \in DOMAIN mbox :
        mbox[i].op = "switch" /\ mbox[i].live /\ left # None => mbox[i].to[2] # left

\* Every phase leads back to Steady: an answer, a timer or, for a drain whose
\* flows never fall idle, the cap ends it.
SettlesAgain == []<>(phase = "Steady")

\* A drain ends, "retried rather than given up: leaving the datapath mid-drain
\* would block every later migration".
DrainEnds == phase = "Draining" ~> phase # "Draining"
=============================================================================
