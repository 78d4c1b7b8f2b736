-------------------------- MODULE PrefixDelegation --------------------------
(***************************************************************************)
(* The delegated prefix of the WAN: internal/pdlease's lease process and   *)
(* pkg/prefixdelegation's exchanges, run through the DHCPv6 client they    *)
(* share with the AFTR re-discovery (pkg/aftrdiscovery, cmd/minuteman).    *)
(*                                                                         *)
(* The lease process climbs the ladder Bound, Renewing (until T2),         *)
(* Rebinding (until the lease expires), Soliciting; Acquire's Request is   *)
(* the rung "requesting".  The delegating server and the network are the   *)
(* environment: a transmission may be lost, refused or granted, a prefix   *)
(* of the server's choice once its binding has run out.                    *)
(* Time is in ticks, and passes only when every expired timer, answer and  *)
(* notice has been handled: a handler takes far less than a tick.          *)
(***************************************************************************)
EXTENDS DHCPv6Client, LeaseTimers

CONSTANTS
    Prefixes,       \* the prefixes the server delegates
    First,          \* the one of the lease acquired at start-up
    IAPDs,          \* the IA_PDs the server sends: status, T1, T2, lifetimes
    FirstIA,        \* the one of the lease acquired at start-up
    InfoTimeout,    \* informationRequestTimeout
    ReleaseTimeout, \* releaseTimeout
    MaxAge,         \* ages are not told apart beyond this, which no T1 is
    MaxStops        \* how often the processes stop

VARIABLES
    rung,     \* the rung of the ladder
    lease,    \* the lease held: its prefix, timers and age
    initial,  \* the age of cfg.Lease, which a restarted lease process starts from
    told,     \* the prefix of the last lease cast to the apply process
    release,  \* ticks left to a Release
    info,     \* ticks left to the Information-Request running, or -1
    srv,      \* the server's binding: the prefix, and how long it is valid
    stops     \* how often a process may still stop

pdVars == <<rung, lease, initial, told, release, info, stops>>
vars == <<clientVars, pdVars, srv>>

-----------------------------------------------------------------------------
\* newLease
NewLease(g) == [p |-> g.p, t1 |-> T1(g.ia), t2 |-> T2(g.ia), valid |-> g.ia.valid, age |-> 0]

Grants == [p : Prefixes, ia : IAPDs]

Refusal == CHOOSE g \in Grants : ~g.ia.ok

\* What the server answers: a refusal names no prefix.
Replies == {g \in Grants : g.ia.ok} \cup {Refusal}

FirstLease == NewLease([p |-> First, ia |-> FirstIA])

ASSUME PDAssumption ==
    /\ First \in Prefixes /\ FirstIA \in IAPDs /\ Usable(FirstIA)
    /\ IAPDs \subseteq IAPDType
    /\ \E ia \in IAPDs : ~ia.ok
    /\ Callers = {"pd", "info"}
    /\ Contents = Replies
    /\ InfoTimeout \in Nat /\ ReleaseTimeout \in Nat /\ MaxStops \in Nat
    /\ MaxAge \in Nat /\ \A ia \in IAPDs : Usable(ia) => T1(ia) <= MaxAge

-----------------------------------------------------------------------------
\* The server and the network.

Now(g) == [xid |-> "now", ans |-> g]

\* The server has one binding for the client, and keeps to it while it lasts.
Binds(g) == ~g.ia.ok \/ srv.left = 0 \/ g.p = srv.p

\* What becomes of a transmission of call, back being what reaches the socket.
Served(call, back) ==
    \/ back \in {{}, {Now(Refusal)}} /\ UNCHANGED srv
    \/ call.kind = "solicit" /\ (\E g \in Replies : Binds(g) /\ back = {Now(g)}) /\ UNCHANGED srv
    \/ /\ call.kind \in {"request", "renew", "rebind"}
       /\ \E g \in Replies :
            /\ g.ia.ok /\ Binds(g)
            /\ back \in {{}, {Now(g)}}
            /\ srv' = [p |-> g.p, left |-> IF srv.left < g.ia.valid THEN g.ia.valid ELSE srv.left]
    \/ /\ call.kind = "release"
       /\ back \in {{}, {Now(Refusal)}}
       /\ srv' = [srv EXCEPT !.left = 0]

-----------------------------------------------------------------------------
\* The lease process.

\* The exchange a rung runs.
Exchange == CASE rung = "renewing"   -> "renew"
              [] rung = "rebinding"  -> "rebind"
              [] rung = "soliciting" -> "solicit"
              [] rung = "requesting" -> "request"
              [] rung = "releasing"  -> "release"
              [] OTHER -> "none"

\* leaser.bound: the lease granted is held and cast to the apply process.
Bind(g) ==
    /\ rung' = "bound"
    /\ lease' = NewLease(g)
    /\ told' = g.p

Onto(r) == rung' = r /\ UNCHANGED <<lease, told>>

FreshRestarted == [FirstLease EXCEPT !.age = 0]

\* leaser.Init: cfg.Lease, as old as it is by now.
Restarted == [FirstLease EXCEPT !.age = initial]

\* The supervisor's restart of the lease process, which casts nothing.
Restart == rung' = "bound" /\ lease' = Restarted /\ UNCHANGED told

\* HandleEvent and Acquire on a usable answer; Bound awaits none.
Accepted(g) ==
    CASE rung \in {"renewing", "rebinding", "requesting"} -> Bind(g)
      [] rung = "soliciting" -> Onto("requesting")
      [] rung = "releasing" -> Onto("stopped")
      [] OTHER -> Onto(rung)

RetryFailed ==
    CASE rung = "renewing" -> Onto("rebinding")
      [] rung \in {"rebinding", "soliciting", "requesting"} -> Onto("soliciting")
      [] rung = "releasing" -> Onto("releasing")
      [] OTHER -> Onto(rung)

\* HandleEvent and Acquire on an unusable answer, none at all, or a deadline.
Failed ==
    CASE rung = "renewing" -> Onto("rebinding")
      [] rung \in {"rebinding", "soliciting", "requesting"} -> Onto("soliciting")
      [] rung = "releasing" -> Onto("stopped")
      [] OTHER -> Onto(rung)

\* The call itself fails, the client having stopped.  Acquire takes it for an
\* error of its Solicit and returns it, and the lease process stops on it.
Broken == IF rung = "soliciting" THEN Restart ELSE Failed

Answered(g) == IF Usable(g.ia) THEN Accepted(g) ELSE Failed

\* Bound's state timeout.
RenewNow ==
    /\ rung = "bound"
    /\ lease.age >= lease.t1
    /\ Onto("renewing")
    /\ UNCHANGED <<clientVars, initial, release, info, stops, srv>>

\* The exchange of the rung is asked of the client, or fails, it being down.
Ask ==
    /\ Exchange # "none"
    /\ IF up THEN Call("pd", Exchange) /\ UNCHANGED <<rung, lease, told>>
             ELSE Broken /\ UNCHANGED clientVars
    /\ UNCHANGED <<initial, release, info, stops, srv>>

\* Renew and Rebind are bounded by the lease's T2 and its valid lifetime,
\* Release by releaseTimeout.
PastDeadline ==
    \/ rung = "renewing" /\ lease.age >= lease.t2
    \/ rung = "rebinding" /\ lease.age >= lease.valid
    \/ rung = "releasing" /\ release = 0

Deadline ==
    /\ PastDeadline
    /\ Drop("pd")
    /\ Failed
    /\ UNCHANGED <<up, phase, sent, armed, buf, initial, release, info, stops, srv>>

\* A panic of the lease process: its exchange is abandoned, nothing released.
LeaseCrash ==
    /\ stops > 0
    /\ rung \notin {"releasing", "stopped"}
    /\ stops' = stops - 1
    /\ Drop("pd")
    /\ Restart
    /\ UNCHANGED <<up, phase, sent, armed, buf, initial, release, info, srv>>

\* The shutdown: the softwire control has stopped, and Terminate releases.
Shutdown ==
    /\ rung \notin {"releasing", "stopped"}
    /\ cur' = [cur EXCEPT !.live = FALSE]
    /\ queue' = [i \in 1..Len(queue) |-> [queue[i] EXCEPT !.live = FALSE]]
    /\ info' = -1
    /\ release' = ReleaseTimeout
    /\ Onto(IF rung \in {"soliciting", "requesting"} THEN "stopped" ELSE "releasing")
    /\ UNCHANGED <<up, phase, sent, armed, buf, initial, stops, srv>>

-----------------------------------------------------------------------------
\* The AFTR re-discovery's Information-Request, bounded by InfoTimeout.

InfoAsk ==
    /\ rung \notin {"releasing", "stopped"}
    /\ info = -1
    /\ Call("info", "info")
    /\ info' = InfoTimeout
    /\ UNCHANGED <<rung, lease, initial, told, release, stops, srv>>

InfoWaitsOn == info = -2 /\ UNCHANGED vars

\* Discover returns ErrNoReply.
InfoNoReply ==
    /\ info = 0
    /\ info' = -1
    /\ Drop("info")
    /\ UNCHANGED <<up, phase, sent, armed, buf, rung, lease, initial, told, release, stops, srv>>

-----------------------------------------------------------------------------
\* The client's steps, and what they are to its callers.

\* The caller of the exchange that ends takes its outcome.
Told(who, live, Outcome) ==
    /\ IF who = "pd" /\ live THEN Outcome ELSE UNCHANGED <<rung, lease, told>>
    /\ info' = IF who = "info" /\ live THEN -1 ELSE info
    /\ UNCHANGED <<initial, release, stops>>

\* A transmission, from machine.start, its delay or its retransmission.
Transmission(back) ==
    /\ \/ Start(back) /\ Head(queue).kind \notin Delayed /\ Served(Head(queue), back)
       \/ Transmit(back) /\ Served(cur, back)
       \/ Retransmit(back) /\ Served(cur, back)
    /\ UNCHANGED pdVars

Backs == {{}} \cup {{Now(g)} : g \in Replies}

StartDelayed == Start({}) /\ Head(queue).kind \in Delayed /\ UNCHANGED <<pdVars, srv>>

Arrival(d, dup) ==
    /\ Receive(d, dup)
    /\ IF phase = "waiting" /\ Answers(d)
       THEN Told(cur.who, cur.live, Answered(d.ans))
       ELSE UNCHANGED pdVars
    /\ UNCHANGED srv

NoAnswer == GiveUp /\ Told(cur.who, cur.live, Failed) /\ UNCHANGED srv

Notice == CallAbandoned /\ UNCHANGED <<pdVars, srv>>

\* The client stops: the calls of both callers fail.
ClientCrash ==
    /\ stops > 0
    /\ stops' = stops - 1
    /\ ClientStops
    /\ IF \E call \in {cur} \cup {queue[i] : i \in 1..Len(queue)} : call.who = "pd" /\ call.live
       THEN Broken ELSE UNCHANGED <<rung, lease, told>>
    /\ info' = -1
    /\ UNCHANGED <<initial, release, srv>>

ClientRestart == ClientStarts /\ UNCHANGED <<pdVars, srv>>

Older(n) == IF n = MaxAge THEN n ELSE n + 1

Less(n) == IF n > 0 THEN n - 1 ELSE n

\* Every timer that expired and every message sent has been handled; an
\* initial delay, of a second at most, is over.
Handled ==
    /\ Prompt
    /\ phase # "delaying"
    /\ phase = "idle" => queue = <<>>
    /\ ~PastDeadline
    /\ ~(rung = "bound" /\ lease.age >= lease.t1)
    /\ Exchange = "none" \/ Calling("pd")
    /\ info # 0
    /\ ~Abandoned

Tick ==
    /\ Handled
    /\ lease' = [lease EXCEPT !.age = Older(@)]
    /\ initial' = Older(initial)
    /\ release' = Less(release)
    /\ info' = Less(info)
    /\ srv' = [srv EXCEPT !.left = Less(@)]
    /\ UNCHANGED <<clientVars, rung, told, stops>>

Init ==
    /\ ClientInit
    /\ rung = "bound"
    /\ lease = FirstLease
    /\ initial = 0
    /\ told = First
    /\ release = 0
    /\ info = -1
    /\ srv = [p |-> First, left |-> FirstIA.valid]
    /\ stops = MaxStops

\* What the client does, its transmissions apart.
ClientSteps ==
    \/ StartDelayed
    \/ \E d \in buf, dup \in BOOLEAN : Arrival(d, dup)
    \/ NoAnswer
    \/ ClientRestart

Step ==
    \/ RenewNow \/ Ask \/ Deadline \/ LeaseCrash \/ Shutdown
    \/ InfoAsk \/ InfoNoReply
    \/ (\E back \in Backs : Transmission(back)) \/ ClientSteps \/ Notice \/ ClientCrash
    \/ Tick

\* The lease process stopped, the program ends.
Exit == rung = "stopped" /\ UNCHANGED vars

Next == (rung # "stopped" /\ Step) \/ Exit

\* The network lets through, again and again, an answer to every kind of
\* exchange the ladder cannot do without.
GrantedTo(kind) ==
    /\ \E g \in Replies : Usable(g.ia) /\ Transmission({Now(g)})
    /\ cur'.kind = kind /\ cur'.live

\* Every process runs; the server is reachable.  Nothing is assumed of the
\* answers to an Information-Request.
Fairness ==
    /\ WF_vars(RenewNow \/ Ask \/ Deadline \/ InfoNoReply \/ Notice)
    /\ WF_vars(Transmission({}) \/ ClientSteps)
    /\ WF_vars(Tick)
    /\ SF_vars(GrantedTo("solicit")) /\ SF_vars(GrantedTo("request"))

Spec == Init /\ [][Next]_vars

FairSpec == Spec /\ Fairness

-----------------------------------------------------------------------------
\* Every variable keeps its type.
TypeOK ==
    /\ ClientTypeOK
    /\ rung \in {"bound", "renewing", "rebinding", "soliciting", "requesting",
                 "releasing", "stopped"}
    /\ lease \in [p : Prefixes, t1 : 0..Infinite, t2 : Nat, valid : 0..Infinite, age : 0..MaxAge]
    /\ initial \in 0..MaxAge
    /\ told \in Prefixes
    /\ release \in 0..ReleaseTimeout
    /\ info \in -1..InfoTimeout
    /\ srv \in [p : Prefixes, left : 0..Infinite]
    /\ stops \in 0..MaxStops

(***************************************************************************)
(* A lease in use, before its T1, is one the server still honours for at   *)
(* least as long: no answer of an earlier exchange, held back in the       *)
(* socket's buffer or sent twice, is taken for a new grant (Answers), and  *)
(* the lease held is the one granted, not the one asked for                *)
(* (leaseFromReply).                                                       *)
(***************************************************************************)
LeaseBacked ==
    rung = "bound" /\ lease.age < lease.t1 =>
        srv.p = lease.p /\ srv.left >= lease.valid - lease.age

(***************************************************************************)
(* Before its T1, the lease the process holds is the one the LAN was last  *)
(* told to use, although a restarted process goes back to the lease        *)
(* acquired at start-up and tells the LAN nothing (pdlease.Spec: "before   *)
(* its T1, it still is the lease").                                        *)
(***************************************************************************)
LanHasLease == rung = "bound" /\ lease.age < lease.t1 => told = lease.p

(***************************************************************************)
(* A lease is never renewed at once and never rebound before it is         *)
(* renewed, whatever T1 and T2 the server left to the client               *)
(* (effectiveTimers).                                                      *)
(***************************************************************************)
LadderOrdered == 0 < lease.t1 /\ lease.t1 <= lease.t2

(***************************************************************************)
(* The lease process comes back to Bound from every rung, or the program   *)
(* stops: no Information-Request the network leaves unanswered, no call of *)
(* a caller that is gone, no restart of either process and no exhausted    *)
(* Request keeps the prefix's exchanges from being run and answered.       *)
(***************************************************************************)
ComesBack == rung # "bound" ~> rung \in {"bound", "releasing", "stopped"}

(***************************************************************************)
(* A shutdown ends, whatever runs at the DHCPv6 client when it begins and  *)
(* although the server may never answer the Release (releaseTimeout).      *)
(***************************************************************************)
ShutdownEnds == rung = "releasing" ~> rung = "stopped"

=============================================================================
