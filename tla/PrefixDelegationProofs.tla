----------------------- MODULE PrefixDelegationProofs -----------------------
(***************************************************************************)
(* Proofs about PrefixDelegation, for any lifetimes and timers a server    *)
(* may send and any prefixes.  That the client's own T1 and T2 are in      *)
(* order is arithmetic over every usable IA_PD (TimersOrdered).  That the  *)
(* LAN has the lease in use, although a restarted process goes back to the *)
(* lease of start-up, needs to know that nothing has replaced that lease   *)
(* before its T1 (Untouched).  That the client waits for an answer only    *)
(* with its timer armed rests on the calls it has postponed (ClientInv);   *)
(* that a lease in use is one the server still holds, on what the answers  *)
(* on their way say of the binding (MailInv, Backed).                      *)
(***************************************************************************)
EXTENDS PrefixDelegation, TLAPS

-----------------------------------------------------------------------------
(* effectiveTimers                                                         *)

\* A T1 the client chooses is positive, and not after a T2 the server set.
LEMMA DerivedT1Bounds ==
    ASSUME NEW ia \in IAPDType
    PROVE  /\ DerivedT1(ia) \in 1..Infinite
           /\ ia.T2 > 0 => DerivedT1(ia) <= ia.T2
  <1> USE TimersAssumption
  <1> DEFINE t == IF RecT1(ia.pref) < minDerivedT1 THEN minDerivedT1 ELSE RecT1(ia.pref)
             limit == Earlier(ia.T2, ia.valid)
  <1>1. /\ ia.T2 \in Nat /\ ia.T2 <= Infinite /\ ia.T2 # 1
        /\ ia.valid \in Nat /\ ia.valid <= Infinite /\ ia.valid # 1
        /\ ia.pref \in Nat /\ ia.pref <= Infinite
    BY DEF IAPDType, Durations
  <1>2. RecT1(ia.pref) \in Nat /\ RecT1(ia.pref) <= Infinite
    BY <1>1 DEF RecT1
  <1>3. t \in 1..Infinite
    BY <1>2
  <1>4. /\ limit \in Nat /\ limit <= Infinite /\ limit # 1
        /\ ia.T2 > 0 => limit > 0 /\ limit <= ia.T2
    BY <1>1 DEF Earlier
  <1>5. DerivedT1(ia) = IF limit > 0 /\ limit # Infinite /\ t >= limit THEN limit \div 2 ELSE t
    BY Zenon DEF DerivedT1
  <1> HIDE DEF t, limit
  <1>6. limit > 0 => limit \div 2 \in 1..Infinite /\ limit \div 2 <= limit
    BY <1>4
  <1> QED
    BY <1>1, <1>3, <1>4, <1>5, <1>6

\* A T2 the client chooses is not before its T1.
LEMMA DerivedT2Bounds ==
    ASSUME NEW ia \in IAPDType, NEW t1 \in 1..Infinite
    PROVE  DerivedT2(ia, t1) \in Nat /\ t1 <= DerivedT2(ia, t1)
  <1> USE TimersAssumption
  <1> DEFINE t == CASE t1 = Infinite -> Infinite
                    [] t1 # Infinite /\ RecT2(ia.pref) > t1 -> RecT2(ia.pref)
                    [] OTHER -> t1 + t1 \div 2
  <1>1. ia.valid \in Nat /\ ia.pref \in Nat
    BY DEF IAPDType, Durations
  <1>2. RecT2(ia.pref) \in Nat
    BY <1>1 DEF RecT2
  <1>3. t1 \div 2 \in Nat
    OBVIOUS
  <1>4. t \in Nat /\ t1 <= t
    <2>1. CASE t1 = Infinite
      BY <2>1
    <2>2. CASE t1 # Infinite /\ RecT2(ia.pref) > t1
      BY <1>2, <2>2
    <2>3. CASE t1 # Infinite /\ ~(RecT2(ia.pref) > t1)
      BY <1>3, <2>3
    <2> QED
      BY Zenon, <2>1, <2>2, <2>3
  <1>5. DerivedT2(ia, t1) = IF ia.valid > t1 /\ t > ia.valid THEN ia.valid ELSE t
    BY Zenon DEF DerivedT2
  <1> HIDE DEF t
  <1> QED
    BY <1>1, <1>4, <1>5

\* The timers of every lease the client accepts are in order.
THEOREM TimersOrdered ==
    ASSUME NEW ia \in IAPDType, Usable(ia)
    PROVE  T1(ia) \in Nat /\ T2(ia) \in Nat /\ 0 < T1(ia) /\ T1(ia) <= T2(ia)
  <1>1. ia.T1 \in Nat /\ ia.T2 \in Nat /\ ia.T1 <= Infinite
    BY TimersAssumption DEF IAPDType, Durations
  <1>2. T1(ia) \in 1..Infinite
    BY <1>1, DerivedT1Bounds, TimersAssumption DEF T1
  <1>3. CASE ia.T2 > 0
    <2>1. T2(ia) = ia.T2
      BY Zenon, <1>3 DEF T2
    <2>2. ia.T1 > 0 => T1(ia) = ia.T1 /\ ia.T1 <= ia.T2
      BY <1>1, <1>3 DEF T1, Usable
    <2>3. ~(ia.T1 > 0) => T1(ia) <= ia.T2
      BY Zenon, <1>3, DerivedT1Bounds DEF T1
    <2> QED
      BY <1>1, <1>2, <2>1, <2>2, <2>3, TimersAssumption
  <1>4. CASE ~(ia.T2 > 0)
    <2>1. T2(ia) = DerivedT2(ia, T1(ia))
      BY Zenon, <1>4 DEF T2
    <2> QED
      BY <1>2, <2>1, DerivedT2Bounds, TimersAssumption
  <1> QED
    BY Zenon, <1>3, <1>4

-----------------------------------------------------------------------------
(* The ladder                                                              *)

LeaseShape ==
    /\ lease \in [p : Prefixes, t1 : Nat, t2 : Nat, valid : Nat, age : Nat]
    /\ initial \in Nat

\* What the kernel holds for the socket, the server sent.
BufType == buf \subseteq [xid : {"now", "old"}, ans : Replies]

\* Before its T1, the lease of start-up is held, or being released, and the LAN
\* uses its prefix.
Untouched ==
    initial < FirstLease.t1 =>
        /\ lease = [FirstLease EXCEPT !.age = initial] /\ told = First
        /\ rung \in {"bound", "releasing", "stopped"}

LanTold == lease.age < lease.t1 => told = lease.p

LadderInv == LeaseShape /\ LadderOrdered /\ Untouched /\ LanTold

Inv == LadderInv /\ BufType

\* A lease made of a usable answer has its timers in order.
LEMMA NewLeaseShape ==
    ASSUME NEW g \in Grants, Usable(g.ia)
    PROVE  /\ NewLease(g) \in [p : Prefixes, t1 : Nat, t2 : Nat, valid : Nat, age : Nat]
           /\ 0 < NewLease(g).t1 /\ NewLease(g).t1 <= NewLease(g).t2
           /\ NewLease(g).p = g.p /\ NewLease(g).age = 0
  <1>1. g.p \in Prefixes /\ g.ia \in IAPDType /\ g.ia.valid \in Nat
    BY PDAssumption, TimersAssumption DEF Grants, IAPDType, Durations
  <1>2. /\ T1(g.ia) \in Nat /\ T2(g.ia) \in Nat /\ 0 < T1(g.ia) /\ T1(g.ia) <= T2(g.ia)
    BY Zenon, <1>1, TimersOrdered
  <1> QED
    BY Zenon, <1>1, <1>2 DEF NewLease

LEMMA FirstShape ==
    /\ FirstLease \in [p : Prefixes, t1 : Nat, t2 : Nat, valid : Nat, age : Nat]
    /\ 0 < FirstLease.t1 /\ FirstLease.t1 <= FirstLease.t2
    /\ FirstLease.p = First /\ FirstLease.age = 0
  <1>1. [p |-> First, ia |-> FirstIA] \in Grants
    BY Zenon, PDAssumption DEF Grants
  <1> QED
    BY Zenon, <1>1, PDAssumption, NewLeaseShape DEF FirstLease

LEMMA RepliesAreGrants == Replies \subseteq Grants
  <1>1. PICK ia \in IAPDs : ~ia.ok
    BY Zenon, PDAssumption
  <1>2. \E g \in Grants : ~g.ia.ok
    <2>1. [p |-> First, ia |-> ia] \in Grants /\ ~[p |-> First, ia |-> ia].ia.ok
      BY Zenon, <1>1, PDAssumption DEF Grants
    <2> QED
      BY Zenon, <2>1
  <1> QED
    BY Zenon, <1>2 DEF Replies, Refusal

\* From Bound the lease process moves only to release or to stop, or once T1 has
\* passed.
LEMMA OntoKeeps ==
    ASSUME LadderInv, UNCHANGED initial, NEW r, Onto(r),
           initial < FirstLease.t1 => r \in {"bound", "releasing", "stopped"}
    PROVE  LadderInv'
  BY Zenon DEF Onto, LadderInv, LeaseShape, LadderOrdered, Untouched, LanTold

LEMMA BindKeeps ==
    ASSUME LadderInv, UNCHANGED initial, NEW g \in Grants, Usable(g.ia), Bind(g),
           rung \notin {"bound", "releasing", "stopped"}
    PROVE  LadderInv'
  BY Zenon, NewLeaseShape DEF Bind, LadderInv, LeaseShape, LadderOrdered, Untouched, LanTold

\* A restart goes back to the lease of start-up: before its T1 it is the one in
\* use, after it, it is due for renewal.
LEMMA RestartKeeps ==
    ASSUME LadderInv, UNCHANGED initial, Restart, rung \notin {"releasing", "stopped"}
    PROVE  LadderInv'
  <1>1. /\ lease' = [FirstLease EXCEPT !.age = initial] /\ told' = told /\ rung' = "bound"
    BY Zenon DEF Restart, Restarted
  <1>2. /\ lease' \in [p : Prefixes, t1 : Nat, t2 : Nat, valid : Nat, age : Nat]
        /\ lease'.t1 = FirstLease.t1 /\ lease'.t2 = FirstLease.t2
        /\ lease'.p = First /\ lease'.age = initial
    BY Zenon, <1>1, FirstShape DEF LadderInv, LeaseShape
  <1> QED
    BY Zenon, <1>1, <1>2, FirstShape DEF LadderInv, LeaseShape, LadderOrdered, Untouched, LanTold

LEMMA FailedKeeps ==
    ASSUME LadderInv, UNCHANGED initial, Failed
    PROVE  LadderInv'
  <1>1. \E r : Onto(r) /\ (rung \in {"bound", "releasing", "stopped"} =>
                              r \in {"bound", "releasing", "stopped"})
    BY Zenon DEF Failed
  <1> QED
    BY Zenon, <1>1, OntoKeeps DEF LadderInv, Untouched

LEMMA BrokenKeeps ==
    ASSUME LadderInv, UNCHANGED initial, Broken
    PROVE  LadderInv'
  BY Zenon, FailedKeeps, RestartKeeps DEF Broken

LEMMA AnsweredKeeps ==
    ASSUME LadderInv, UNCHANGED initial, NEW g \in Grants, Answered(g)
    PROVE  LadderInv'
  <1>1. CASE ~Usable(g.ia)
    BY Zenon, <1>1, FailedKeeps DEF Answered
  <1>2. CASE Usable(g.ia) /\ rung \in {"renewing", "rebinding", "requesting"}
    <2>1. Bind(g)
      BY Zenon, <1>2 DEF Answered, Accepted
    <2> QED
      BY Zenon, <1>2, <2>1, BindKeeps
  <1>3. CASE Usable(g.ia) /\ rung \notin {"renewing", "rebinding", "requesting"}
    <2>1. Accepted(g)
      BY Zenon, <1>3 DEF Answered
    <2>2. \E r : Onto(r) /\ (rung \in {"bound", "releasing", "stopped"} =>
                                r \in {"bound", "releasing", "stopped"})
      BY Zenon, <1>3, <2>1 DEF Accepted
    <2> QED
      BY Zenon, <2>2, OntoKeeps DEF LadderInv, Untouched
  <1> QED
    BY Zenon, <1>1, <1>2, <1>3

LEMMA UnmovedKeeps ==
    ASSUME LadderInv, UNCHANGED <<rung, lease, initial, told>>
    PROVE  LadderInv'
  BY Zenon DEF LadderInv, LeaseShape, LadderOrdered, Untouched, LanTold

LEMMA TickKeeps ==
    ASSUME LadderInv, Tick
    PROVE  LadderInv'
  <1>1. /\ lease' = [lease EXCEPT !.age = Older(lease.age)] /\ initial' = Older(initial)
        /\ UNCHANGED <<rung, told>>
    BY Zenon DEF Tick
  <1>2. /\ Older(initial) \in Nat /\ Older(initial) >= initial
        /\ Older(lease.age) \in Nat /\ Older(lease.age) >= lease.age
    BY DEF Older, LadderInv, LeaseShape
  <1>3. /\ lease' \in [p : Prefixes, t1 : Nat, t2 : Nat, valid : Nat, age : Nat]
        /\ lease'.t1 = lease.t1 /\ lease'.t2 = lease.t2 /\ lease'.p = lease.p
        /\ lease'.age = Older(lease.age)
    BY Zenon, <1>1, <1>2 DEF LadderInv, LeaseShape
  <1>4. LeaseShape' /\ LadderOrdered' /\ LanTold'
    BY <1>1, <1>2, <1>3 DEF LadderInv, LeaseShape, LadderOrdered, LanTold
  <1>5. Untouched'
    <2> SUFFICES ASSUME initial' < FirstLease.t1
                 PROVE  /\ lease' = [FirstLease EXCEPT !.age = initial'] /\ told' = First
                        /\ rung' \in {"bound", "releasing", "stopped"}
      BY Zenon DEF Untouched
    <2>1. /\ lease = [FirstLease EXCEPT !.age = initial] /\ told = First
          /\ rung \in {"bound", "releasing", "stopped"}
      BY <1>1, <1>2, FirstShape DEF LadderInv, LeaseShape, Untouched
    <2>2. lease.age = initial
      BY Zenon, <2>1, FirstShape
    <2> QED
      BY Zenon, <1>1, <2>1, <2>2, FirstShape
  <1> QED
    BY Zenon, <1>2, <1>4, <1>5 DEF LadderInv

\* Datagrams stay the server's, however late.
LEMMA StaleType ==
    ASSUME NEW b, b \subseteq [xid : {"now", "old"}, ans : Replies]
    PROVE  Stale(b) \subseteq [xid : {"now", "old"}, ans : Replies]
  BY Zenon DEF Stale

LEMMA BufStep ==
    ASSUME BufType, Next
    PROVE  BufType'
  <1> DEFINE D == [xid : {"now", "old"}, ans : Replies]
  <1>1. BufType' <=> buf' \subseteq D
    BY Zenon DEF BufType
  <1>2. ASSUME NEW back \in Backs, Transmission(back)
        PROVE  BufType'
    <2>1. back \subseteq D
      BY DEF Backs, Now
    <2>2. buf' = buf \cup back \/ buf' = buf
      BY Zenon, <1>2 DEF Transmission, Start, Transmit, Retransmit, Send
    <2> QED
      BY Zenon, <1>1, <2>1, <2>2 DEF BufType
  <1>3. ASSUME NEW d \in buf, NEW dup \in BOOLEAN, Arrival(d, dup)
        PROVE  BufType'
    <2>1. PICK b : b \subseteq buf /\ buf' \in {b, Stale(b)}
      BY Zenon, <1>3 DEF Arrival, Receive, Finish, Ignore
    <2> QED
      BY Zenon, <1>1, <2>1, StaleType DEF BufType
  <1>4. CASE NoAnswer \/ Notice
    <2>1. buf' \in {buf, Stale(buf)}
      BY Zenon, <1>4 DEF NoAnswer, GiveUp, Finish, Notice, CallAbandoned
    <2> QED
      BY Zenon, <1>1, <2>1, StaleType DEF BufType
  <1>5. CASE ClientCrash
    BY Zenon, <1>1, <1>5 DEF ClientCrash, ClientStops
  <1>6. CASE StartDelayed
    <2>1. buf' = buf
      BY Zenon, <1>6 DEF StartDelayed, Start
    <2> QED
      BY Zenon, <1>1, <2>1 DEF BufType
  <1>7. CASE ClientRestart \/ RenewNow \/ Deadline \/ LeaseCrash \/ Shutdown \/ InfoNoReply \/ Tick
    <2>1. buf' = buf
      BY Zenon, <1>7 DEF ClientRestart, ClientStarts, RenewNow, clientVars, Deadline, LeaseCrash, Shutdown,
         InfoNoReply, Tick
    <2> QED
      BY <1>1, <2>1 DEF BufType
  <1>8. CASE Ask \/ InfoAsk \/ Exit
    <2>1. buf' = buf
      BY Zenon, <1>8 DEF Ask, InfoAsk, Call, clientVars, Exit, vars
    <2> QED
      BY <1>1, <2>1 DEF BufType
  <1> QED
    BY Zenon, <1>2, <1>3, <1>4, <1>5, <1>6, <1>7, <1>8 DEF Next, Step, ClientSteps

\* What the client's steps are to the lease process.
LEMMA LadderStep ==
    ASSUME Inv, Next
    PROVE  LadderInv'
  <1>0. LadderInv /\ BufType
    BY Zenon DEF Inv
  <1>1. CASE RenewNow
    <2>1. initial >= FirstLease.t1
      BY <1>0, <1>1, FirstShape DEF RenewNow, LadderInv, LeaseShape, Untouched
    <2>2. Onto("renewing") /\ UNCHANGED initial /\ ~(initial < FirstLease.t1)
      BY <1>0, <1>1, <2>1, FirstShape DEF RenewNow, LadderInv, LeaseShape
    <2> QED
      BY Zenon, <1>0, <2>2, OntoKeeps
  <1>2. CASE Ask
    <2>1. UNCHANGED initial /\ (Broken \/ UNCHANGED <<rung, lease, told>>)
      BY Zenon, <1>2 DEF Ask
    <2> QED
      BY Zenon, <1>0, <2>1, BrokenKeeps, UnmovedKeeps
  <1>3. CASE Deadline
    BY Zenon, <1>0, <1>3, FailedKeeps DEF Deadline
  <1>4. CASE LeaseCrash
    BY Zenon, <1>0, <1>4, RestartKeeps DEF LeaseCrash
  <1>5. CASE Shutdown
    BY Zenon, <1>0, <1>5, OntoKeeps DEF Shutdown
  <1>6. CASE InfoAsk \/ InfoNoReply \/ StartDelayed \/ Notice \/ ClientRestart \/ Exit
    <2>1. UNCHANGED <<rung, lease, initial, told>>
      BY Zenon, <1>6 DEF InfoAsk, InfoNoReply, StartDelayed, Notice, ClientRestart, Exit, vars, pdVars
    <2> QED
      BY Zenon, <1>0, <2>1, UnmovedKeeps
  <1>7. ASSUME NEW back \in Backs, Transmission(back)
        PROVE  LadderInv'
    <2>1. UNCHANGED <<rung, lease, initial, told>>
      BY Zenon, <1>7 DEF Transmission, pdVars
    <2> QED
      BY Zenon, <1>0, <2>1, UnmovedKeeps
  <1>8. ASSUME NEW d \in buf, NEW dup \in BOOLEAN, Arrival(d, dup)
        PROVE  LadderInv'
    <2>1. d.ans \in Grants
      BY Zenon, <1>0, RepliesAreGrants DEF BufType
    <2>2. UNCHANGED initial /\ (Answered(d.ans) \/ UNCHANGED <<rung, lease, told>>)
      BY Zenon, <1>8 DEF Arrival, Told, pdVars
    <2> QED
      BY Zenon, <1>0, <2>1, <2>2, AnsweredKeeps, UnmovedKeeps
  <1>9. CASE NoAnswer
    <2>1. UNCHANGED initial /\ (Failed \/ UNCHANGED <<rung, lease, told>>)
      BY Zenon, <1>9 DEF NoAnswer, Told
    <2> QED
      BY <1>0, <2>1, FailedKeeps, UnmovedKeeps
  <1>10. CASE ClientCrash
    <2>1. UNCHANGED initial /\ (Broken \/ UNCHANGED <<rung, lease, told>>)
      BY Zenon, <1>10 DEF ClientCrash
    <2> QED
      BY <1>0, <2>1, BrokenKeeps, UnmovedKeeps
  <1>11. CASE Tick
    BY Zenon, <1>0, <1>11, TickKeeps
  <1> QED
    BY Zenon, <1>1, <1>2, <1>3, <1>4, <1>5, <1>6, <1>7, <1>8, <1>9, <1>10, <1>11
    DEF Next, Step, ClientSteps

LEMMA Invariant == Spec => []Inv
  <1>1. Init => Inv
    <2> SUFFICES ASSUME Init
                 PROVE  Inv
      BY Zenon
    <2>1. LadderInv
      BY Zenon, FirstShape DEF Init, LadderInv, LeaseShape, LadderOrdered, Untouched, LanTold
    <2>2. BufType
      BY Zenon DEF Init, ClientInit, BufType
    <2> QED
      BY Zenon, <2>1, <2>2 DEF Inv
  <1>2. Inv /\ [Next]_vars => Inv'
    <2>1. Inv /\ Next => Inv'
      BY Zenon, LadderStep, BufStep DEF Inv
    <2>2. Inv /\ UNCHANGED vars => Inv'
      BY Zenon, UnmovedKeeps DEF Inv, BufType, vars, pdVars, clientVars
    <2> QED
      BY Zenon, <2>1, <2>2
  <1> QED
    BY <1>1, <1>2, PTL DEF Spec

\* The lease in hand is never due for renewal at once nor for rebinding before
\* renewal, whatever the server sends (effectiveTimers, usableIAPD).
THEOREM LadderStaysOrdered == Spec => []LadderOrdered
  <1>1. Inv => LadderOrdered
    BY Zenon DEF Inv, LadderInv
  <1> QED
    BY <1>1, Invariant, PTL

\* A lease in use before its T1 is the one the LAN was told of, through any
\* restarts of the lease process and of the client.
THEOREM LanKeepsLease == Spec => []LanHasLease
  <1>1. Inv => LanHasLease
    BY Zenon DEF Inv, LadderInv, LanTold, LanHasLease
  <1> QED
    BY <1>1, Invariant, PTL

-----------------------------------------------------------------------------
(* The client.  A call reaches the process once, waits its turn, runs, and *)
(* may lose its caller meanwhile; no step makes two of it.                 *)

Queue(q) == \E A : q \in Seq(A)

IsCall(call) ==
    /\ {"who", "kind", "live"} \subseteq DOMAIN call
    /\ call.who \in {"pd", "info"} /\ call.kind \in Kinds

\* b is the call a, its caller gone or not.
Same(a, b) == IsCall(b) /\ b.who = a.who /\ b.kind = a.kind /\ (b.live => a.live)

\* The calls of r are calls of q, no one twice.
Fewer(q, r) ==
    /\ Queue(r)
    /\ \E f \in [1..Len(r) -> 1..Len(q)] :
         /\ \A i, j \in 1..Len(r) : f[i] = f[j] => i = j
         /\ \A i \in 1..Len(r) : Same(q[f[i]], r[i])

CallsShape ==
    /\ Queue(queue) /\ \A i \in 1..Len(queue) : IsCall(queue[i])
    /\ cur = NoCall \/ IsCall(cur)

\* The process is idle without a call, up with one, and armed when it waits.
PhaseInv ==
    /\ phase = "idle" <=> cur = NoCall
    /\ phase # "idle" => up
    /\ phase = "waiting" => armed
    /\ ~up => queue = <<>>

\* The lease process has one call at the client at most.
OnePd ==
    /\ \A i \in 1..Len(queue) : queue[i].who = "pd" => cur.who # "pd"
    /\ \A i, j \in 1..Len(queue) : queue[i].who = "pd" /\ queue[j].who = "pd" => i = j

ClientInv == CallsShape /\ PhaseInv /\ OnePd

LEMMA NoCallIsNone == NoCall.who = "nobody" /\ ~NoCall.live /\ NoCall.kind = "none" /\ ~IsCall(NoCall)
  BY Zenon DEF NoCall, IsCall

\* Killing a call leaves it the call it was.
LEMMA DeadSame ==
    ASSUME NEW a, IsCall(a)
    PROVE  Same(a, [a EXCEPT !.live = FALSE]) /\ Same(a, a)
  <1> DEFINE b == [a EXCEPT !.live = FALSE]
  <1>1. DOMAIN b = DOMAIN a /\ b.who = a.who /\ b.kind = a.kind
    BY Zenon DEF IsCall
  <1>2. ~b.live
    BY Zenon DEF IsCall
  <1> HIDE DEF b
  <1>3. Same(a, b)
    BY Zenon, <1>1, <1>2 DEF Same, IsCall
  <1> QED
    BY Zenon, <1>3 DEF Same, b

LEMMA DeadNoCall == [NoCall EXCEPT !.live = FALSE] = NoCall
  <1> DEFINE n == [NoCall EXCEPT !.live = FALSE]
  <1>1. DOMAIN NoCall = {"who", "kind", "live"} /\ DOMAIN n = DOMAIN NoCall
    BY Zenon DEF NoCall
  <1>2. n.live = FALSE /\ NoCall.live = FALSE
    BY <1>1, Zenon DEF NoCall
  <1>3. n = [x \in DOMAIN NoCall |-> n[x]] /\ NoCall = [x \in DOMAIN NoCall |-> NoCall[x]]
    BY Zenon DEF NoCall
  <1>4. n.who = NoCall.who /\ n.kind = NoCall.kind
    BY Zenon, <1>1
  <1> HIDE DEF n
  <1>5. \A x \in DOMAIN NoCall : n[x] = NoCall[x]
    BY Zenon, <1>1, <1>2, <1>4
  <1>6. n = NoCall
    BY <1>3, <1>5, Zenon
  <1> QED
    BY Zenon, <1>6 DEF n

\* A queue whose calls have become others, one for one.
LEMMA OneForOne ==
    ASSUME NEW q, NEW r, Queue(q), r = [i \in 1..Len(q) |-> r[i]],
           \A i \in 1..Len(q) : Same(q[i], r[i])
    PROVE  Fewer(q, r)
  <1>1. Len(q) \in Nat
    BY DEF Queue
  <1> DEFINE B == {r[i] : i \in 1..Len(q)}
             f == [i \in 1..Len(q) |-> i]
  <1>2. r \in [1..Len(q) -> B]
    BY Zenon
  <1> HIDE DEF B
  <1>3. r \in Seq(B) /\ Len(r) = Len(q)
    BY <1>1, <1>2
  <1>4. /\ f \in [1..Len(r) -> 1..Len(q)]
        /\ \A i, j \in 1..Len(r) : f[i] = f[j] => i = j
        /\ \A i \in 1..Len(r) : Same(q[f[i]], r[i])
    BY Zenon, <1>3
  <1> QED
    BY Zenon, <1>3, <1>4 DEF Fewer, Queue

LEMMA TailFewer ==
    ASSUME NEW q, Queue(q), q # <<>>, \A i \in 1..Len(q) : IsCall(q[i])
    PROVE  /\ Fewer(q, Tail(q)) /\ Len(q) \in Nat \ {0} /\ Len(Tail(q)) = Len(q) - 1
           /\ Head(q) = q[1]
           /\ \A i \in 1..Len(Tail(q)) : i + 1 \in 1..Len(q) /\ Tail(q)[i] = q[i + 1]
  <1>1. PICK A : q \in Seq(A)
    BY Zenon DEF Queue
  <1>2. Tail(q) \in Seq(A) /\ Len(Tail(q)) = Len(q) - 1 /\ Len(q) \in Nat \ {0} /\ Head(q) = q[1]
    BY <1>1
  <1>3. \A i \in 1..Len(Tail(q)) : i + 1 \in 1..Len(q) /\ Tail(q)[i] = q[i + 1]
    BY <1>1, <1>2
  <1> DEFINE f == [i \in 1..Len(Tail(q)) |-> i + 1]
  <1>4. f \in [1..Len(Tail(q)) -> 1..Len(q)] /\ \A i \in 1..Len(Tail(q)) : f[i] = i + 1
    BY Zenon, <1>3
  <1> HIDE DEF f
  <1>5. \A i, j \in 1..Len(Tail(q)) : f[i] = f[j] => i = j
    BY <1>2, <1>4
  <1>6. \A i \in 1..Len(Tail(q)) : Same(q[f[i]], Tail(q)[i])
    BY Zenon, <1>3, <1>4 DEF Same
  <1> QED
    BY Zenon, <1>2, <1>3, <1>4, <1>5, <1>6 DEF Fewer, Queue

LEMMA JoinLength ==
    ASSUME NEW A, NEW a \in Seq(A), NEW b \in Seq(A)
    PROVE  a \o b \in Seq(A) /\ Len(a \o b) = Len(a) + Len(b)
  OBVIOUS

LEMMA WithoutFewer ==
    ASSUME NEW q, Queue(q), \A i \in 1..Len(q) : IsCall(q[i]), NEW k \in 1..Len(q)
    PROVE  Fewer(q, Without(q, k))
  <1> DEFINE r == Without(q, k)
             f == [i \in 1..Len(r) |-> IF i < k THEN i ELSE i + 1]
  <1>1. PICK A : q \in Seq(A)
    BY Zenon DEF Queue
  <1>2. r = SubSeq(q, 1, k - 1) \o SubSeq(q, k + 1, Len(q))
    BY Zenon DEF Without
  <1> DEFINE a == SubSeq(q, 1, k - 1)
             b == SubSeq(q, k + 1, Len(q))
  <1>3. a \in Seq(A) /\ Len(a) = k - 1 /\ \A i \in 1..k - 1 : a[i] = q[i]
    BY <1>1
  <1>4. b \in Seq(A) /\ Len(b) = Len(q) - k /\ \A i \in 1..Len(q) - k : b[i] = q[i + k]
    BY <1>1
  <1>N. Len(q) \in Nat
    BY <1>1
  <1>R. r = a \o b
    BY Zenon, <1>2
  <1> HIDE DEF r, a, b
  <1>5. r \in Seq(A) /\ Len(r) = Len(q) - 1 /\ Len(q) \in Nat
    <2>1. r \in Seq(A) /\ Len(r) = Len(a) + Len(b)
      BY Zenon, <1>R, <1>3, <1>4, JoinLength
    <2> QED
      BY <2>1, <1>3, <1>4, <1>N
  <1>6. \A i \in 1..Len(r) : r[i] = q[IF i < k THEN i ELSE i + 1]
    <2> SUFFICES ASSUME NEW i \in 1..Len(r)
                 PROVE  r[i] = q[IF i < k THEN i ELSE i + 1]
      BY Zenon
    <2>1. CASE i < k
      <3>1. r[i] = a[i]
        BY <2>1, <1>R, <1>3, <1>4, <1>5
      <3> QED
        BY <2>1, <3>1, <1>3, <1>5
    <2>2. CASE ~(i < k)
      <3>1. r[i] = b[i - (k - 1)]
        BY <2>2, <1>R, <1>3, <1>4, <1>5
      <3>2. i - (k - 1) \in 1..Len(q) - k /\ i - (k - 1) + k = i + 1
        BY <2>2, <1>5
      <3> QED
        BY Zenon, <2>2, <3>1, <3>2, <1>4
    <2> QED
      BY Zenon, <2>1, <2>2
  <1>7. /\ f \in [1..Len(r) -> 1..Len(q)]
        /\ \A i \in 1..Len(r) : f[i] = IF i < k THEN i ELSE i + 1
    BY <1>5
  <1> HIDE DEF f
  <1>8. \A i, j \in 1..Len(r) : f[i] = f[j] => i = j
    BY <1>5, <1>7
  <1>9. \A i \in 1..Len(r) : Same(q[f[i]], r[i])
    BY Zenon, <1>6, <1>7 DEF Same
  <1>10. Fewer(q, r)
    BY Zenon, <1>5, <1>7, <1>8, <1>9 DEF Fewer, Queue
  <1> QED
    BY Zenon, <1>10 DEF r

LEMMA EmptyFewer ==
    ASSUME NEW q, Queue(q)
    PROVE  Fewer(q, <<>>)
  <1>1. <<>> \in Seq({}) /\ Len(<<>>) = 0
    OBVIOUS
  <1>2. \A i \in 1..Len(<<>>) : FALSE
    BY <1>1
  <1>3. [i \in 1..Len(<<>>) |-> 0] \in [1..Len(<<>>) -> 1..Len(q)]
    BY Zenon, <1>2
  <1> QED
    BY <1>1, <1>2, <1>3, Zenon DEF Fewer, Queue

\* Calls end, lose their callers or stay as they are.
LEMMA FewerKeeps ==
    ASSUME CallsShape, OnePd, Fewer(queue, queue'), cur' = NoCall \/ Same(cur, cur')
    PROVE  /\ CallsShape' /\ OnePd'
           /\ cur'.who = "pd" => cur.who = "pd"
           /\ \A i \in 1..Len(queue') : \E j \in 1..Len(queue) : Same(queue[j], queue'[i])
  <1>1. PICK f \in [1..Len(queue') -> 1..Len(queue)] :
          /\ \A i, j \in 1..Len(queue') : f[i] = f[j] => i = j
          /\ \A i \in 1..Len(queue') : Same(queue[f[i]], queue'[i])
    BY Zenon DEF Fewer
  <1>2. \A i \in 1..Len(queue') : f[i] \in 1..Len(queue)
    BY Zenon, <1>1
  <1>3. CallsShape'
    BY Zenon, <1>1 DEF CallsShape, Fewer, Same
  <1>4. cur'.who = "pd" => cur.who = "pd"
    BY Zenon, NoCallIsNone DEF Same
  <1>5. OnePd'
    <2>1. \A i \in 1..Len(queue') : queue'[i].who = queue[f[i]].who
      BY Zenon, <1>1 DEF Same
    <2>2. \A i \in 1..Len(queue') : queue'[i].who = "pd" => cur'.who # "pd"
      BY Zenon, <1>2, <1>4, <2>1 DEF OnePd
    <2>3. \A i, j \in 1..Len(queue') : queue'[i].who = "pd" /\ queue'[j].who = "pd" => i = j
      <3> SUFFICES ASSUME NEW i \in 1..Len(queue'), NEW j \in 1..Len(queue'),
                          queue'[i].who = "pd", queue'[j].who = "pd"
                   PROVE  i = j
        BY Zenon
      <3>1. f[i] = f[j]
        BY Zenon, <1>2, <2>1 DEF OnePd
      <3> QED
        BY Zenon, <3>1, <1>1
    <2> QED
      BY Zenon, <2>2, <2>3 DEF OnePd
  <1>6. \A i \in 1..Len(queue') : \E j \in 1..Len(queue) : Same(queue[j], queue'[i])
    BY Zenon, <1>1, <1>2
  <1> QED
    BY Zenon, <1>3, <1>4, <1>5, <1>6

\* The oldest call becomes the one that runs.
LEMMA StartKeeps ==
    ASSUME CallsShape, OnePd, cur = NoCall, queue # <<>>, cur' = Head(queue), queue' = Tail(queue)
    PROVE  CallsShape' /\ OnePd' /\ cur' = queue[1] /\ 1 \in 1..Len(queue) /\ IsCall(cur')
           /\ \A i \in 1..Len(queue') : i + 1 \in 1..Len(queue) /\ queue'[i] = queue[i + 1]
  <1>1. /\ Fewer(queue, queue') /\ Len(queue) \in Nat \ {0} /\ Len(queue') = Len(queue) - 1
        /\ cur' = queue[1]
        /\ \A i \in 1..Len(queue') : i + 1 \in 1..Len(queue) /\ queue'[i] = queue[i + 1]
    BY Zenon, TailFewer DEF CallsShape
  <1>2. 1 \in 1..Len(queue) /\ IsCall(cur')
    BY <1>1 DEF CallsShape
  <1>3. CallsShape'
    BY <1>1, <1>2 DEF CallsShape, Fewer
  <1>4. OnePd'
    <2>1. \A i \in 1..Len(queue') : queue'[i].who = "pd" => queue[1].who # "pd"
      <3> SUFFICES ASSUME NEW i \in 1..Len(queue'), queue'[i].who = "pd", queue[1].who = "pd"
                   PROVE  FALSE
        BY Zenon
      <3>1. i + 1 \in 1..Len(queue) /\ queue[i + 1].who = "pd" /\ i + 1 # 1
        BY <1>1
      <3> QED
        BY Zenon, <3>1, <1>2 DEF OnePd
    <2>2. \A i, j \in 1..Len(queue') : queue'[i].who = "pd" /\ queue'[j].who = "pd" => i = j
      <3> SUFFICES ASSUME NEW i \in 1..Len(queue'), NEW j \in 1..Len(queue'),
                          queue'[i].who = "pd", queue'[j].who = "pd"
                   PROVE  i = j
        BY Zenon
      <3>1. i + 1 = j + 1
        BY <1>1 DEF OnePd
      <3> QED
        BY <3>1, <1>1
    <2> QED
      BY Zenon, <1>1, <2>1, <2>2 DEF OnePd
  <1> QED
    BY Zenon, <1>1, <1>2, <1>3, <1>4

\* A call arrives, of a caller that has none.
LEMMA CallKeeps ==
    ASSUME ClientInv, NEW c \in {"pd", "info"}, NEW kind \in Kinds, Call(c, kind)
    PROVE  /\ ClientInv'
           /\ \A i \in 1..Len(queue') : \/ i \in 1..Len(queue) /\ queue'[i] = queue[i]
                                        \/ queue'[i].who = c /\ queue'[i].kind = kind
  <1> DEFINE e == [who |-> c, kind |-> kind, live |-> TRUE]
  <1>1. /\ queue' = Append(queue, e) /\ UNCHANGED <<up, phase, cur, armed>> /\ up
        /\ cur.who # c /\ \A i \in 1..Len(queue) : queue[i].who # c
    BY Zenon DEF Call, Calling
  <1>2. IsCall(e) /\ e.who = c /\ e.kind = kind
    BY Zenon DEF IsCall
  <1> HIDE DEF e
  <1>3. PICK A : queue \in Seq(A)
    BY Zenon DEF ClientInv, CallsShape, Queue
  <1>4. queue' \in Seq(A \cup {e}) /\ Len(queue') = Len(queue) + 1 /\ Len(queue) \in Nat
    BY <1>1, <1>3
  <1>5. queue'[Len(queue) + 1] = e /\ \A i \in 1..Len(queue) : queue'[i] = queue[i]
    BY <1>1, <1>3
  <1>6. \A i \in 1..Len(queue') : \/ i \in 1..Len(queue) /\ queue'[i] = queue[i]
                                  \/ i = Len(queue) + 1 /\ queue'[i] = e
    BY <1>4, <1>5
  <1>7. CallsShape'
    BY Zenon, <1>1, <1>2, <1>4, <1>6 DEF ClientInv, CallsShape, Queue
  <1>8. PhaseInv'
    BY Zenon, <1>1 DEF ClientInv, PhaseInv
  <1>9. OnePd'
    <2>1. \A i \in 1..Len(queue') : queue'[i].who = "pd" => cur.who # "pd"
      BY Zenon, <1>1, <1>2, <1>6 DEF ClientInv, OnePd
    <2>2. \A i, j \in 1..Len(queue') : queue'[i].who = "pd" /\ queue'[j].who = "pd" => i = j
      BY <1>1, <1>2, <1>6 DEF ClientInv, OnePd
    <2> QED
      BY Zenon, <1>1, <2>1, <2>2 DEF OnePd
  <1> QED
    BY Zenon, <1>2, <1>6, <1>7, <1>8, <1>9 DEF ClientInv

\* Callers give up: the calls of Dropped stay, dead.
LEMMA DeadKeeps ==
    ASSUME ClientInv, UNCHANGED <<up, phase, armed>>,
           (\E c : Drop(c)) \/ (/\ cur' = [cur EXCEPT !.live = FALSE]
                                /\ queue' = [i \in 1..Len(queue) |-> [queue[i] EXCEPT !.live = FALSE]])
    PROVE  /\ ClientInv'
           /\ cur' = NoCall \/ Same(cur, cur')
           /\ \A i \in 1..Len(queue') : \E j \in 1..Len(queue) : Same(queue[j], queue'[i])
           /\ cur'.who = "pd" => cur.who = "pd"
  <1>0. CallsShape /\ PhaseInv /\ OnePd
    BY Zenon DEF ClientInv
  <1>1. cur' \in {cur, [cur EXCEPT !.live = FALSE]}
    BY Zenon DEF Drop
  <1>2. /\ queue' = [i \in 1..Len(queue) |-> queue'[i]]
        /\ \A i \in 1..Len(queue) : queue'[i] \in {queue[i], [queue[i] EXCEPT !.live = FALSE]}
    BY Zenon DEF Drop
  <1>3. IF cur = NoCall THEN cur' = NoCall ELSE IsCall(cur) /\ Same(cur, cur')
    BY Zenon, <1>0, <1>1, DeadSame, DeadNoCall DEF CallsShape
  <1>4. Fewer(queue, queue')
    <2>1. \A i \in 1..Len(queue) : Same(queue[i], queue'[i])
      BY ZenonT(30), <1>0, <1>2, DeadSame DEF CallsShape
    <2> DEFINE r == queue'
    <2>2. r = [i \in 1..Len(queue) |-> r[i]] /\ \A i \in 1..Len(queue) : Same(queue[i], r[i])
      BY Zenon, <1>2, <2>1
    <2> HIDE DEF r
    <2>3. Fewer(queue, r)
      BY Zenon, <2>2, <1>0, OneForOne DEF CallsShape
    <2> QED
      BY Zenon, <2>3 DEF r
  <1>5. PhaseInv'
    <2>1. cur' = NoCall <=> cur = NoCall
      BY Zenon, <1>3, NoCallIsNone DEF Same
    <2>2. queue = <<>> => queue' = <<>>
      <3>1. Len(<<>>) = 0 /\ [i \in 1..0 |-> queue'[i]] = <<>>
        OBVIOUS
      <3> QED
        BY Zenon, <1>2, <3>1
    <2> QED
      BY Zenon, <1>0, <2>1, <2>2 DEF PhaseInv
  <1> QED
    BY Zenon, <1>0, <1>3, <1>4, <1>5, FewerKeeps DEF ClientInv

LEMMA ExchangeKinds == Exchange # "none" => Exchange \in Kinds
  BY Zenon DEF Exchange, Kinds

\* A step of the client's own, or none.
LEMMA ClientStep ==
    ASSUME ClientInv, [Next]_vars
    PROVE  ClientInv'
  <1>0. CallsShape /\ PhaseInv /\ OnePd
    BY Zenon DEF ClientInv
  <1>1. CASE UNCHANGED clientVars
    BY Zenon, <1>1 DEF clientVars, ClientInv, CallsShape, PhaseInv, OnePd
  <1>2. CASE Ask
    <2>1. CASE up
      BY Zenon, <1>2, <2>1, ExchangeKinds, CallKeeps DEF Ask
    <2>2. CASE ~up
      BY Zenon, <1>1, <1>2, <2>2 DEF Ask
    <2> QED
      BY Zenon, <2>1, <2>2
  <1>3. CASE InfoAsk
    BY Zenon, <1>3, CallKeeps DEF InfoAsk, Kinds
  <1>4. CASE Deadline \/ LeaseCrash \/ InfoNoReply
    <2>1. UNCHANGED <<up, phase, armed>> /\ \E c : Drop(c)
      BY Zenon, <1>4 DEF Deadline, LeaseCrash, InfoNoReply
    <2> QED
      BY Zenon, <2>1, DeadKeeps
  <1>5. CASE Shutdown
    BY Zenon, <1>5, DeadKeeps DEF Shutdown
  <1>6. ASSUME NEW back, Start(back)
        PROVE  ClientInv'
    <2>1. /\ up /\ phase = "idle" /\ queue # <<>> /\ queue' = Tail(queue) /\ up' = up
          /\ cur' = Head(queue)
          /\ phase' = "delaying" \/ (phase' = "waiting" /\ armed')
      BY Zenon, <1>6 DEF Start, Send
    <2>2. CallsShape' /\ OnePd' /\ IsCall(cur')
      BY Zenon, <1>0, <2>1, StartKeeps DEF PhaseInv
    <2>3. PhaseInv'
      BY Zenon, <2>1, <2>2, NoCallIsNone DEF PhaseInv
    <2> QED
      BY Zenon, <2>2, <2>3 DEF ClientInv
  <1>7. ASSUME NEW back, Transmit(back) \/ Retransmit(back)
        PROVE  ClientInv'
    <2>1. phase # "idle" /\ phase' = "waiting" /\ armed' /\ UNCHANGED <<cur, queue, up>>
      BY Zenon, <1>7 DEF Transmit, Retransmit, Send
    <2> QED
      BY Zenon, <1>0, <2>1 DEF ClientInv, CallsShape, OnePd, PhaseInv
  <1>F. ASSUME phase' = "idle", cur' = NoCall, UNCHANGED <<up, queue>>
        PROVE  ClientInv'
    BY Zenon, <1>0, <1>F, NoCallIsNone DEF ClientInv, CallsShape, OnePd, PhaseInv
  <1>8. CASE NoAnswer
    BY Zenon, <1>8, <1>F DEF NoAnswer, GiveUp, Finish
  <1>9. ASSUME NEW d, NEW dup, Receive(d, dup)
        PROVE  ClientInv'
    <2>1. CASE phase = "waiting" /\ Answers(d)
      BY Zenon, <1>9, <2>1, <1>F DEF Receive, Finish
    <2>2. CASE ~(phase = "waiting" /\ Answers(d))
      <3>1. UNCHANGED <<up, phase, cur, queue>> /\ armed' = (phase = "waiting")
        BY Zenon, <1>9, <2>2 DEF Receive, Ignore
      <3> QED
        BY Zenon, <1>0, <3>1 DEF ClientInv, CallsShape, OnePd, PhaseInv
    <2> QED
      BY Zenon, <2>1, <2>2
  <1>10. CASE Notice
    <2>1. CASE phase' = "idle" /\ cur' = NoCall /\ UNCHANGED <<up, queue>>
      BY Zenon, <2>1, <1>F
    <2>2. CASE ~(phase' = "idle" /\ cur' = NoCall /\ UNCHANGED <<up, queue>>)
      <3>1. PICK i \in 1..Len(queue) : queue' = Without(queue, i) /\ UNCHANGED <<up, armed, phase, cur>>
        BY Zenon, <1>10, <2>2 DEF Notice, CallAbandoned
      <3>2. Fewer(queue, queue')
        BY Zenon, <1>0, <3>1, WithoutFewer DEF CallsShape
      <3>3. cur' = NoCall \/ Same(cur, cur')
        BY Zenon, <1>0, <3>1, DeadSame DEF CallsShape
      <3>4. CallsShape' /\ OnePd'
        BY Zenon, <1>0, <3>2, <3>3, FewerKeeps
      <3>5. up
        <4>1. ~(i \in 1..Len(<<>>))
          OBVIOUS
        <4> QED
          BY Zenon, <1>0, <4>1 DEF PhaseInv
      <3> QED
        BY Zenon, <1>0, <3>1, <3>4, <3>5 DEF ClientInv, PhaseInv
    <2> QED
      BY Zenon, <2>1, <2>2
  <1>11. CASE ClientCrash
    <2>1. phase' = "idle" /\ cur' = NoCall /\ queue' = <<>>
      BY Zenon, <1>11 DEF ClientCrash, ClientStops
    <2>2. Fewer(queue, queue')
      BY Zenon, <1>0, <2>1, EmptyFewer DEF CallsShape
    <2> QED
      BY Zenon, <1>0, <2>1, <2>2, FewerKeeps DEF ClientInv, PhaseInv
  <1>12. CASE ClientRestart
    BY Zenon, <1>0, <1>12 DEF ClientRestart, ClientStarts, ClientInv, CallsShape, OnePd, PhaseInv
  <1>13. CASE RenewNow \/ Tick \/ Exit \/ UNCHANGED vars
    BY Zenon, <1>1, <1>13 DEF RenewNow, Tick, Exit, vars
  <1> QED
    BY Zenon, <1>2, <1>3, <1>4, <1>5, <1>6, <1>7, <1>8, <1>9, <1>10, <1>11, <1>12, <1>13
    DEF Next, Step, ClientSteps, Transmission, StartDelayed, Arrival

LEMMA ClientInvariant == Spec => []ClientInv
  <1>1. Init => ClientInv
    <2> SUFFICES ASSUME Init
                 PROVE  ClientInv
      OBVIOUS
    <2>1. up = TRUE /\ phase = "idle" /\ cur = NoCall /\ queue = <<>>
      BY Zenon DEF Init, ClientInit
    <2>2. Queue(queue) /\ \A i \in 1..Len(queue) : FALSE
      <3>1. <<>> \in Seq({}) /\ Len(<<>>) = 0
        OBVIOUS
      <3> QED
        BY <2>1, <3>1 DEF Queue
    <2> QED
      BY Zenon, <2>1, <2>2 DEF ClientInv, CallsShape, OnePd, PhaseInv
  <1> QED
    BY <1>1, ClientStep, PTL DEF Spec

\* A DHCPv6 client that waits for an answer can get one, and one that is idle
\* has nothing to answer, whatever the callers give up, the network repeats and
\* the supervisor restarts (internal/dhcpv6client, machine.HandleEvent).
THEOREM ClientListens == Spec => []WaitingIsArmed
  <1>1. ClientInv => WaitingIsArmed
    BY Zenon DEF ClientInv, PhaseInv, WaitingIsArmed
  <1> QED
    BY <1>1, ClientInvariant, PTL

-----------------------------------------------------------------------------
(* The lease and the server's binding.  What the lease process takes for a *)
(* grant is the answer to its own exchange, and while the lease is not due *)
(* for renewal no call of it, not even one it gave up, is at the client to *)
(* move the server's binding.                                              *)

Over == {"releasing", "stopped"}

\* The calls at the client are those of the rung, or no one awaits them.
Apt(call) ==
    /\ call.who = "info" => call.kind = "info"
    /\ call.who = "pd" /\ call.live => call.kind = Exchange
    /\ call.kind = "release" => rung \in Over

CallsApt == Apt(cur) /\ \A i \in 1..Len(queue) : Apt(queue[i])

Binding == {"request", "renew", "rebind"}

\* An answer to the exchange that runs is in the socket only while it waits;
\* one that grants a lease is the server's binding.
MailInv ==
    /\ phase # "waiting" => Prompt
    /\ phase = "waiting" /\ cur.kind \in Binding =>
         \A d \in buf : d.xid = "now" /\ d.ans.ia.ok =>
           srv.p = d.ans.p /\ srv.left >= d.ans.ia.valid

ServerShape ==
    /\ srv = [p |-> srv.p, left |-> srv.left] /\ srv.left \in Nat
    /\ lease.t1 <= MaxAge

Backed == rung = "bound" /\ lease.age < lease.t1 => ~Calling("pd") /\ LeaseBacked

BackInv == CallsApt /\ MailInv /\ ServerShape /\ Backed

\* What an unusable answer, or none, does to the lease process.
LEMMA FailedMoves ==
    ASSUME Failed
    PROVE  /\ lease' = lease
           /\ rung' = "bound" => rung = "bound"
           /\ rung \in Over => rung' \in Over
  BY Zenon DEF Failed, Onto, Over

\* What an answer does: it binds a lease, on a rung that asked for one, or
\* leaves the lease alone.
LEMMA AnsweredMoves ==
    ASSUME NEW g, Answered(g)
    PROVE  /\ \/ /\ Usable(g.ia) /\ rung \in {"renewing", "rebinding", "requesting"}
                 /\ rung' = "bound" /\ lease' = NewLease(g)
              \/ /\ lease' = lease
                 /\ rung' = "bound" => rung = "bound"
           /\ rung \in Over => rung' \in Over
  <1>1. CASE ~Usable(g.ia)
    BY Zenon, <1>1, FailedMoves DEF Answered
  <1>2. CASE Usable(g.ia)
    BY Zenon, <1>2 DEF Answered, Accepted, Bind, Onto, Over
  <1> QED
    BY Zenon, <1>1, <1>2

\* No call arrives, and those whose caller still waits are the rung's.
LEMMA AptKept ==
    ASSUME CallsApt, CallsShape,
           cur' = NoCall \/ Same(cur, cur'),
           \A i \in 1..Len(queue') : \E j \in 1..Len(queue) : Same(queue[j], queue'[i]),
           rung \in Over => rung' \in Over,
           \/ rung' = rung
           \/ /\ cur'.who = "pd" => ~cur'.live
              /\ \A i \in 1..Len(queue') : queue'[i].who = "pd" => ~queue'[i].live
    PROVE  CallsApt'
  <1>1. rung' = rung => Exchange' = Exchange
    BY Zenon DEF Exchange
  <1>2. Apt(cur)'
    BY Zenon, <1>1, NoCallIsNone DEF CallsApt, Apt, Same
  <1>3. ASSUME NEW i \in 1..Len(queue')
        PROVE  Apt(queue[i])'
    <2>1. PICK j \in 1..Len(queue) : Same(queue[j], queue'[i])
      BY Zenon, <1>3
    <2>2. Apt(queue[j])
      BY Zenon DEF CallsApt
    <2> QED
      BY Zenon, <1>1, <2>1, <2>2 DEF Apt, Same
  <1> QED
    BY Zenon, <1>2, <1>3 DEF CallsApt

\* With them, the lease process has no call it had not before.
LEMMA CallingKept ==
    ASSUME cur' = NoCall \/ Same(cur, cur'),
           \A i \in 1..Len(queue') : \E j \in 1..Len(queue) : Same(queue[j], queue'[i])
    PROVE  Calling("pd")' => Calling("pd")
  BY Zenon, NoCallIsNone DEF Calling, Same

LEMMA StayBacked ==
    ASSUME Backed, lease' = lease, rung' = "bound" => rung = "bound", srv' = srv,
           Calling("pd")' => Calling("pd")
    PROVE  Backed'
  BY Zenon DEF Backed, LeaseBacked

\* A restarted lease process has the lease of start-up: before its T1, the one
\* it had.
LEMMA RestartBacked ==
    ASSUME LadderInv, Backed, Restart, initial' = initial, rung \notin Over, srv' = srv,
           Calling("pd")' => Calling("pd")
    PROVE  Backed'
  <1>1. rung' = "bound" /\ lease' = [FirstLease EXCEPT !.age = initial]
    BY Zenon DEF Restart, Restarted
  <1>2. lease'.age = initial /\ lease'.t1 = FirstLease.t1
    BY Zenon, <1>1, FirstShape
  <1>3. CASE initial < FirstLease.t1
    <2>1. lease' = lease /\ rung = "bound"
      BY Zenon, <1>1, <1>3 DEF LadderInv, Untouched, Over
    <2> QED
      BY Zenon, <2>1, StayBacked
  <1>4. CASE ~(initial < FirstLease.t1)
    BY Zenon, <1>2, <1>4 DEF Backed
  <1> QED
    BY Zenon, <1>3, <1>4

\* Every T1 is within the ages told apart.
LEMMA GrantedT1 ==
    ASSUME NEW g \in Grants, Usable(g.ia)
    PROVE  NewLease(g).t1 <= MaxAge
  BY Zenon, PDAssumption DEF Grants, NewLease

LEMMA FirstT1 == FirstLease.t1 <= MaxAge
  <1>1. [p |-> First, ia |-> FirstIA] \in Grants
    BY PDAssumption DEF Grants
  <1> QED
    BY Zenon, <1>1, GrantedT1, PDAssumption DEF FirstLease

LEMMA RestartT1 ==
    ASSUME Restart
    PROVE  lease'.t1 <= MaxAge
  <1>1. lease'.t1 = FirstLease.t1
    BY Zenon, FirstShape DEF Restart, Restarted
  <1> QED
    BY Zenon, <1>1, FirstT1

\* A call its caller gave up is dead.
LEMMA DropDead ==
    ASSUME CallsShape, Drop("pd")
    PROVE  /\ cur'.who = "pd" => ~cur'.live
           /\ \A i \in 1..Len(queue') : queue'[i].who = "pd" => ~queue'[i].live
  <1>1. ASSUME NEW a, IsCall(a)
        PROVE  ~[a EXCEPT !.live = FALSE].live /\ [a EXCEPT !.live = FALSE].who = a.who
    <2>1. ~[a EXCEPT !.live = FALSE].live
      BY <1>1, Zenon DEF IsCall
    <2>2. [a EXCEPT !.live = FALSE].who = a.who
      BY Zenon, <1>1 DEF IsCall
    <2> QED
      BY Zenon, <2>1, <2>2
  <1>2. cur'.who = "pd" => ~cur'.live
    BY Zenon, <1>1, NoCallIsNone, DeadNoCall DEF Drop, CallsShape
  <1>3. /\ Len(queue') = Len(queue)
        /\ \A i \in 1..Len(queue) :
             queue'[i] = IF queue[i].who = "pd" THEN [queue[i] EXCEPT !.live = FALSE] ELSE queue[i]
    <2>1. Len(queue) \in Nat
      BY DEF CallsShape, Queue
    <2> QED
      BY <2>1 DEF Drop
  <1>4. \A i \in 1..Len(queue') : queue'[i].who = "pd" => ~queue'[i].live
    BY Zenon, <1>1, <1>3 DEF CallsShape
  <1> QED
    BY Zenon, <1>2, <1>4

\* The outcome of an exchange, taken by its caller, when the client has done
\* with it: rung, lease and Backed.
LEMMA OutcomeKeeps ==
    ASSUME Inv, ClientInv, BackInv, UNCHANGED <<initial, srv, queue>>, phase = "waiting", cur' = NoCall,
           \/ /\ cur.who = "pd" /\ cur.live
              /\ Failed \/ \E d \in buf : d.xid = "now" /\ Answered(d.ans)
           \/ UNCHANGED <<rung, lease>>
    PROVE  CallsApt' /\ ServerShape' /\ Backed'
  <1>0. CallsApt /\ MailInv /\ ServerShape /\ Backed /\ CallsShape /\ OnePd /\ PhaseInv
    BY Zenon DEF BackInv, ClientInv
  <1>1. \A i \in 1..Len(queue) : Same(queue[i], queue[i])
    BY Zenon, <1>0, DeadSame DEF CallsShape
  <1>2. Calling("pd")' => Calling("pd")
    BY Zenon, <1>1, CallingKept
  <1>3. CASE UNCHANGED <<rung, lease>>
    <2>1. CallsApt'
      BY Zenon, <1>0, <1>1, <1>3, AptKept
    <2>2. ServerShape' /\ Backed'
      BY Zenon, <1>0, <1>2, <1>3, StayBacked DEF ServerShape
    <2> QED
      BY Zenon, <2>1, <2>2
  <1>4. CASE /\ cur.who = "pd" /\ cur.live
             /\ Failed \/ \E d \in buf : d.xid = "now" /\ Answered(d.ans)
    <2>1. ~Calling("pd")'
      BY Zenon, <1>0, <1>4, NoCallIsNone DEF Calling, OnePd
    <2>2. CallsApt'
      <3>1. rung \in Over => rung' \in Over
        BY Zenon, <1>4, FailedMoves, AnsweredMoves
      <3>2. \A i \in 1..Len(queue') : queue'[i].who # "pd"
        BY Zenon, <2>1 DEF Calling
      <3> QED
        BY Zenon, <1>0, <1>1, <3>1, <3>2, AptKept, NoCallIsNone
    <2>3. CASE lease' = lease /\ (rung' = "bound" => rung = "bound")
      BY Zenon, <1>0, <1>2, <2>2, <2>3, StayBacked DEF ServerShape
    <2>4. CASE ~(lease' = lease /\ (rung' = "bound" => rung = "bound"))
      <3>0. PICK d \in buf : d.xid = "now" /\ Answered(d.ans)
        BY Zenon, <1>4, <2>4, FailedMoves
      <3> DEFINE g == d.ans
      <3>1. /\ Usable(g.ia) /\ rung \in {"renewing", "rebinding", "requesting"}
            /\ rung' = "bound" /\ lease' = NewLease(g)
        BY Zenon, <2>4, <3>0, AnsweredMoves
      <3>2. g \in Grants
        BY Zenon, RepliesAreGrants DEF Inv, BufType
      <3>3. cur.kind \in Binding
        BY Zenon, <1>0, <1>4, <3>1 DEF CallsApt, Apt, Exchange, Binding
      <3>4. g.ia.ok
        BY Zenon, <3>1 DEF Usable
      <3>5. srv.p = g.p /\ srv.left >= g.ia.valid
        BY Zenon, <1>0, <3>0, <3>3, <3>4 DEF MailInv
      <3> HIDE DEF g
      <3>6. lease'.t1 <= MaxAge
        BY Zenon, <3>1, <3>2, GrantedT1
      <3>7. lease'.p = g.p /\ lease'.age = 0 /\ lease'.valid = g.ia.valid /\ lease'.valid \in Nat
        <4>1. /\ lease' \in [p : Prefixes, t1 : Nat, t2 : Nat, valid : Nat, age : Nat]
              /\ lease'.p = g.p /\ lease'.age = 0
          BY Zenon, <3>1, <3>2, NewLeaseShape
        <4> QED
          BY Zenon, <3>1, <4>1 DEF NewLease
      <3>8. Backed' /\ ServerShape'
        BY <1>0, <2>1, <3>5, <3>6, <3>7 DEF Backed, LeaseBacked, ServerShape
      <3> QED
        BY Zenon, <2>2, <3>8
    <2> QED
      BY Zenon, <2>3, <2>4
  <1> QED
    BY Zenon, <1>3, <1>4

\* A transmission, and what the server does with it.
LEMMA TransmissionKeeps ==
    ASSUME Inv, ClientInv, BackInv, NEW back \in Backs, Transmission(back)
    PROVE  BackInv'
  <1>0. CallsApt /\ MailInv /\ ServerShape /\ Backed /\ CallsShape /\ OnePd /\ PhaseInv
    BY Zenon DEF BackInv, ClientInv
  <1>1. UNCHANGED <<rung, lease, initial>>
    BY Zenon DEF Transmission, pdVars
  <1>2. /\ Prompt /\ phase' = "waiting" /\ buf' = buf \cup back /\ Served(cur', back)
        /\ IsCall(cur') /\ Apt(cur') /\ (cur'.who = "pd" => Calling("pd"))
        /\ CallsApt' /\ (Calling("pd")' => Calling("pd"))
    <2>1. CASE Start(back) /\ Head(queue).kind \notin Delayed /\ Served(Head(queue), back)
      <3>1. /\ phase = "idle" /\ queue # <<>> /\ queue' = Tail(queue) /\ cur' = Head(queue)
            /\ phase' = "waiting" /\ buf' = buf \cup back /\ Served(cur', back)
        BY Zenon, <2>1 DEF Start, Send
      <3>2. cur = NoCall /\ Prompt
        BY Zenon, <1>0, <3>1 DEF PhaseInv, MailInv
      <3>3. /\ cur' = queue[1] /\ 1 \in 1..Len(queue) /\ IsCall(cur')
            /\ \A i \in 1..Len(queue') : i + 1 \in 1..Len(queue) /\ queue'[i] = queue[i + 1]
        BY Zenon, <1>0, <3>1, <3>2, StartKeeps
      <3>4. Apt(cur') /\ CallsApt'
        BY SMTT(30), <1>0, <1>1, <3>3 DEF CallsApt, Apt, Exchange
      <3>5. (cur'.who = "pd" => Calling("pd")) /\ (Calling("pd")' => Calling("pd"))
        BY Zenon, <3>3 DEF Calling
      <3> QED
        BY Zenon, <3>1, <3>2, <3>3, <3>4, <3>5
    <2>2. CASE (Transmit(back) \/ Retransmit(back)) /\ Served(cur, back)
      <3>1. /\ phase # "idle" /\ UNCHANGED <<cur, queue>> /\ phase' = "waiting"
            /\ buf' = buf \cup back /\ Served(cur', back)
            /\ phase = "delaying" \/ Prompt
        BY Zenon, <2>2 DEF Transmit, Retransmit, Send
      <3>2. Prompt /\ IsCall(cur)
        BY Zenon, <1>0, <3>1 DEF MailInv, PhaseInv, CallsShape
      <3>3. Apt(cur') /\ CallsApt' /\ (Calling("pd")' <=> Calling("pd"))
        BY Zenon, <1>0, <1>1, <3>1 DEF CallsApt, Apt, Exchange, Calling
      <3> QED
        BY Zenon, <3>1, <3>2, <3>3 DEF Calling
    <2> QED
      BY Zenon, <2>1, <2>2 DEF Transmission
  \* Only an exchange of the lease process moves the binding.
  <1>3. srv' = srv \/ cur'.kind \in Binding \/ cur'.kind = "release"
    BY Zenon, <1>2 DEF Served, Binding
  <1>4. srv' = [p |-> srv'.p, left |-> srv'.left] /\ srv'.left \in Nat
    <2>1. CASE srv' = srv
      BY Zenon, <2>1, <1>0 DEF ServerShape
    <2>2. CASE \E g \in Replies :
                 srv' = [p |-> g.p, left |-> IF srv.left < g.ia.valid THEN g.ia.valid ELSE srv.left]
      <3>1. PICK g \in Replies :
              srv' = [p |-> g.p, left |-> IF srv.left < g.ia.valid THEN g.ia.valid ELSE srv.left]
        BY Zenon, <2>2
      <3>2. g.ia.valid \in Nat
        BY RepliesAreGrants, PDAssumption, TimersAssumption DEF Grants, IAPDType, Durations
      <3> QED
        BY Zenon, <3>1, <3>2, <1>0 DEF ServerShape
    <2>3. CASE srv' = [srv EXCEPT !.left = 0]
      <3> DEFINE p == srv.p
                 l == srv.left
      <3>1. srv = [p |-> p, left |-> l]
        BY Zenon, <1>0 DEF ServerShape
      <3> HIDE DEF p, l
      <3>2. srv' = [p |-> p, left |-> 0]
        BY Zenon, <2>3, <3>1
      <3> QED
        BY Zenon, <3>2
    <2> QED
      BY Zenon, <1>2, <2>1, <2>2, <2>3 DEF Served
  <1>5. ServerShape'
    BY Zenon, <1>0, <1>1, <1>4 DEF ServerShape
  <1>6. Backed'
    <2> SUFFICES ASSUME rung = "bound", lease.age < lease.t1
                 PROVE  ~Calling("pd")' /\ LeaseBacked'
      BY Zenon, <1>1 DEF Backed
    <2>1. ~Calling("pd") /\ LeaseBacked
      BY Zenon, <1>0 DEF Backed
    <2>2. cur'.who = "info" /\ cur'.kind = "info"
      BY Zenon, <1>2, <2>1 DEF IsCall, Apt
    <2>3. srv' = srv
      BY Zenon, <1>3, <2>2 DEF Binding
    <2> QED
      BY Zenon, <1>1, <1>2, <2>1, <2>3 DEF LeaseBacked
  <1>7. MailInv'
    <2> SUFFICES ASSUME cur'.kind \in Binding, NEW d \in buf', d.xid = "now", d.ans.ia.ok
                 PROVE  srv'.p = d.ans.p /\ srv'.left >= d.ans.ia.valid
      BY Zenon, <1>2 DEF MailInv
    <2>1. d \in back
      BY Zenon, <1>2 DEF Prompt
    <2>2. ~Refusal.ia.ok
      <3>1. PICK ia \in IAPDs : ~ia.ok
        BY Zenon, PDAssumption
      <3>2. [p |-> First, ia |-> ia] \in Grants /\ ~[p |-> First, ia |-> ia].ia.ok
        BY Zenon, <3>1, PDAssumption DEF Grants
      <3> QED
        BY <3>2, Zenon DEF Refusal
    <2>3. back # {} /\ back # {Now(Refusal)}
      BY <2>1, <2>2 DEF Now
    <2>4. PICK g \in Replies :
            /\ back = {Now(g)}
            /\ srv' = [p |-> g.p, left |-> IF srv.left < g.ia.valid THEN g.ia.valid ELSE srv.left]
      BY Zenon, <1>2, <2>3 DEF Served, Binding
    <2>5. d.ans = g
      BY <2>1, <2>4 DEF Now
    <2>6. g.ia.valid \in Nat
      BY SMTT(30), RepliesAreGrants, PDAssumption, TimersAssumption DEF Grants, IAPDType, Durations
    <2> QED
      BY SMTT(30), <1>0, <2>4, <2>5, <2>6 DEF ServerShape
  <1> QED
    BY Zenon, <1>2, <1>5, <1>6, <1>7 DEF BackInv

\* Calls end or lose their callers, and the lease process moves or not.
LEMMA MovesKeep ==
    ASSUME LadderInv, ClientInv, BackInv, UNCHANGED <<initial, srv>>,
           cur' = NoCall \/ Same(cur, cur'),
           \A i \in 1..Len(queue') : \E j \in 1..Len(queue) : Same(queue[j], queue'[i]),
           \/ UNCHANGED <<rung, lease>>
           \/ /\ \/ Failed
                 \/ Restart /\ rung \notin Over
                 \/ \E r : Onto(r) /\ r # "bound" /\ (rung \in Over => r \in Over)
              /\ cur'.who = "pd" => ~cur'.live
              /\ \A i \in 1..Len(queue') : queue'[i].who = "pd" => ~queue'[i].live
    PROVE  CallsApt' /\ ServerShape' /\ Backed'
  <1>0. CallsApt /\ ServerShape /\ Backed /\ CallsShape
    BY Zenon DEF BackInv, ClientInv
  <1>1. Calling("pd")' => Calling("pd")
    BY Zenon, CallingKept
  <1>2. CASE UNCHANGED <<rung, lease>>
    BY Zenon, <1>0, <1>1, <1>2, AptKept, StayBacked DEF ServerShape
  <1>3. CASE ~UNCHANGED <<rung, lease>>
    <2>1. rung \in Over => rung' \in Over
      BY Zenon, <1>3, FailedMoves DEF Onto
    <2>2. CallsApt'
      BY Zenon, <1>0, <1>3, <2>1, AptKept
    <2>3. CASE Restart /\ rung \notin Over
      BY Zenon, <1>0, <1>1, <2>2, <2>3, RestartBacked, RestartT1 DEF ServerShape
    <2>4. CASE Failed \/ \E r : Onto(r) /\ r # "bound"
      <3>1. lease' = lease /\ (rung' = "bound" => rung = "bound")
        BY Zenon, <2>4, FailedMoves DEF Onto
      <3> QED
        BY Zenon, <1>0, <1>1, <2>2, <3>1, StayBacked DEF ServerShape
    <2> QED
      BY Zenon, <1>3, <2>3, <2>4
  <1> QED
    BY Zenon, <1>2, <1>3

\* Mail that stays, for an exchange that stays.
LEMMA MailKept ==
    ASSUME MailInv, buf' \subseteq buf, srv' = srv,
           phase' = phase /\ (cur' = NoCall \/ Same(cur, cur'))
    PROVE  MailInv'
  <1>1. cur'.kind \in Binding => cur.kind \in Binding
    BY Zenon, NoCallIsNone DEF Same, Binding
  <1> QED
    BY Zenon, <1>1 DEF MailInv, Prompt

\* An exchange that ends leaves only mail of the past.
LEMMA StaleIsOld ==
    ASSUME NEW b, b \subseteq [xid : {"now", "old"}, ans : Replies]
    PROVE  \A d \in Stale(b) : d.xid = "old"
  BY Zenon DEF Stale

LEMMA BackStep ==
    ASSUME Inv, ClientInv, BackInv, [Next]_vars
    PROVE  BackInv'
  <1>0. /\ CallsApt /\ MailInv /\ ServerShape /\ Backed /\ CallsShape /\ OnePd /\ PhaseInv
        /\ LadderInv /\ BufType
    BY Zenon DEF BackInv, ClientInv, Inv
  <1>S. /\ cur = NoCall \/ Same(cur, cur)
        /\ \A i \in 1..Len(queue) : Same(queue[i], queue[i])
    BY Zenon, <1>0, DeadSame DEF CallsShape
  <1>1. CASE RenewNow
    <2>1. /\ UNCHANGED <<initial, srv, queue, cur, buf, phase>> /\ rung = "bound"
          /\ Onto("renewing")
      BY Zenon, <1>1 DEF RenewNow, clientVars
    <2>2. Exchange = "none" /\ "none" \notin Kinds
      BY Zenon, <2>1 DEF Exchange, Kinds
    <2>3. /\ cur.who = "pd" => ~cur.live
          /\ \A i \in 1..Len(queue) : queue[i].who = "pd" => ~queue[i].live
      BY Zenon, <1>0, <2>2, NoCallIsNone DEF CallsApt, Apt, CallsShape, IsCall
    <2>4. rung \notin Over
      BY Zenon, <2>1 DEF Over
    <2>5. CallsApt' /\ ServerShape' /\ Backed'
      BY Zenon, <1>0, <1>S, <2>1, <2>3, <2>4, MovesKeep
    <2> QED
      BY Zenon, <1>0, <1>S, <2>1, <2>5, MailKept DEF BackInv
  <1>2. CASE Ask
    <2>1. CASE up
      <3>1. /\ Call("pd", Exchange) /\ Exchange # "none"
            /\ UNCHANGED <<rung, lease, initial, srv, buf, phase, cur>>
        BY Zenon, <1>2, <2>1 DEF Ask, Call
      <3>2. /\ \A i \in 1..Len(queue') :
                 \/ i \in 1..Len(queue) /\ queue'[i] = queue[i]
                 \/ queue'[i].who = "pd" /\ queue'[i].kind = Exchange
        BY Zenon, <3>1, CallKeeps, ExchangeKinds
      <3>3. Exchange' = Exchange /\ rung # "bound" /\ (Exchange = "release" => rung \in Over)
        BY Zenon, <3>1 DEF Exchange, Over
      <3>4. CallsApt'
        BY Zenon, <1>0, <3>1, <3>2, <3>3 DEF CallsApt, Apt
      <3>5. ServerShape' /\ Backed' /\ MailInv'
        BY Zenon, <1>0, <1>S, <3>1, <3>3, MailKept DEF ServerShape, Backed
      <3> QED
        BY Zenon, <3>4, <3>5 DEF BackInv
    <2>2. CASE ~up
      <3>1. Broken /\ UNCHANGED <<initial, srv, queue, cur, buf, phase>>
        BY Zenon, <1>2, <2>2 DEF Ask, clientVars
      <3>2. cur = NoCall /\ queue = <<>>
        BY Zenon, <1>0, <2>2 DEF PhaseInv
      <3>3. Failed \/ (Restart /\ rung \notin Over)
        BY Zenon, <3>1 DEF Broken, Over
      <3>4. cur'.who # "pd" /\ \A i \in 1..Len(queue') : FALSE
        BY SMTT(30), <3>1, <3>2, NoCallIsNone
      <3>5. CallsApt' /\ ServerShape' /\ Backed'
        BY Zenon, <1>0, <1>S, <3>1, <3>2, <3>3, <3>4, MovesKeep
      <3> QED
        BY Zenon, <1>0, <1>S, <3>1, <3>5, MailKept DEF BackInv
    <2> QED
      BY Zenon, <2>1, <2>2
  <1>3. CASE Deadline \/ LeaseCrash
    <2>1. /\ Drop("pd") /\ UNCHANGED <<up, phase, armed, buf, initial, srv>>
          /\ Failed \/ (Restart /\ rung \notin Over)
      BY Zenon, <1>3 DEF Deadline, LeaseCrash, Over
    <2>2. /\ cur' = NoCall \/ Same(cur, cur')
          /\ \A i \in 1..Len(queue') : \E j \in 1..Len(queue) : Same(queue[j], queue'[i])
      BY Zenon, <2>1, DeadKeeps
    <2>3. CallsApt' /\ ServerShape' /\ Backed'
      BY Zenon, <1>0, <2>1, <2>2, DropDead, MovesKeep
    <2> QED
      BY Zenon, <1>0, <2>1, <2>2, <2>3, MailKept DEF BackInv
  <1>4. CASE Shutdown
    <2>1. /\ cur' = [cur EXCEPT !.live = FALSE]
          /\ queue' = [i \in 1..Len(queue) |-> [queue[i] EXCEPT !.live = FALSE]]
          /\ UNCHANGED <<up, phase, armed, buf, initial, srv>>
          /\ \E r \in Over : Onto(r)
      BY Zenon, <1>4 DEF Shutdown, Over
    <2>2. /\ cur' = NoCall \/ Same(cur, cur')
          /\ \A i \in 1..Len(queue') : \E j \in 1..Len(queue) : Same(queue[j], queue'[i])
      BY Zenon, <2>1, DeadKeeps
    <2>3. ~cur'.live /\ \A i \in 1..Len(queue') : ~queue'[i].live
      <3>1. ASSUME NEW a, IsCall(a)
            PROVE  ~[a EXCEPT !.live = FALSE].live
        BY <3>1, Zenon DEF IsCall
      <3>2. Len(queue) \in Nat
        BY <1>0 DEF CallsShape, Queue
      <3>3. Len(queue') = Len(queue)
        BY <2>1, <3>2
      <3>4. \A i \in 1..Len(queue') : ~queue'[i].live
        BY Zenon, <1>0, <2>1, <3>1, <3>3 DEF CallsShape
      <3>5. ~cur'.live
        BY Zenon, <1>0, <2>1, <3>1, NoCallIsNone, DeadNoCall DEF CallsShape
      <3> QED
        BY Zenon, <3>4, <3>5
    <2>4. \E r : Onto(r) /\ r # "bound" /\ r \in Over
      BY Zenon, <2>1 DEF Over
    <2>5. CallsApt' /\ ServerShape' /\ Backed'
      BY Zenon, <1>0, <2>1, <2>2, <2>3, <2>4, MovesKeep
    <2> QED
      BY Zenon, <1>0, <2>1, <2>2, <2>5, MailKept DEF BackInv
  <1>5. CASE InfoAsk
    <2>1. Call("info", "info") /\ UNCHANGED <<rung, lease, initial, srv, buf, phase, cur>>
      BY Zenon, <1>5 DEF InfoAsk, Call
    <2>2. \A i \in 1..Len(queue') :
            \/ i \in 1..Len(queue) /\ queue'[i] = queue[i]
            \/ queue'[i].who = "info" /\ queue'[i].kind = "info"
      BY Zenon, <2>1, CallKeeps DEF Kinds
    <2>3. CallsApt'
      BY Zenon, <1>0, <2>1, <2>2 DEF CallsApt, Apt, Exchange
    <2>4. Calling("pd")' => Calling("pd")
      BY Zenon, <2>1, <2>2 DEF Calling
    <2> QED
      BY Zenon, <1>0, <1>S, <2>1, <2>3, <2>4, StayBacked, MailKept DEF BackInv, ServerShape
  <1>6. CASE InfoNoReply
    <2>1. Drop("info") /\ UNCHANGED <<up, phase, armed, buf, rung, lease, initial, srv>>
      BY Zenon, <1>6 DEF InfoNoReply
    <2>2. /\ cur' = NoCall \/ Same(cur, cur')
          /\ \A i \in 1..Len(queue') : \E j \in 1..Len(queue) : Same(queue[j], queue'[i])
      BY Zenon, <2>1, DeadKeeps
    <2> QED
      BY Zenon, <1>0, <2>1, <2>2, MovesKeep, MailKept DEF BackInv
  <1>7. ASSUME NEW back \in Backs, Transmission(back)
        PROVE  BackInv'
    BY Zenon, <1>7, TransmissionKeeps
  <1>8. CASE StartDelayed
    <2>1. /\ phase = "idle" /\ queue # <<>> /\ queue' = Tail(queue) /\ cur' = Head(queue)
          /\ phase' = "delaying" /\ UNCHANGED <<rung, lease, srv, buf>>
      BY Zenon, <1>8 DEF StartDelayed, Start, pdVars
    <2>2. /\ cur' = queue[1] /\ 1 \in 1..Len(queue)
          /\ \A i \in 1..Len(queue') : i + 1 \in 1..Len(queue) /\ queue'[i] = queue[i + 1]
      BY Zenon, <1>0, <2>1, StartKeeps DEF PhaseInv
    <2>3. CallsApt'
      BY <1>0, <2>1, <2>2 DEF CallsApt, Apt, Exchange
    <2>4. Calling("pd")' => Calling("pd")
      BY Zenon, <2>2 DEF Calling
    <2>5. MailInv'
      BY Zenon, <1>0, <2>1 DEF MailInv, Prompt
    <2> QED
      BY Zenon, <1>0, <2>1, <2>3, <2>4, <2>5, StayBacked DEF BackInv, ServerShape
  <1>9. ASSUME NEW d \in buf, NEW dup \in BOOLEAN, Arrival(d, dup)
        PROVE  BackInv'
    <2>1. CASE phase = "waiting" /\ Answers(d)
      <3>1. /\ phase' = "idle" /\ cur' = NoCall /\ UNCHANGED <<queue, initial, srv>>
            /\ \/ cur.who = "pd" /\ cur.live /\ Answered(d.ans)
               \/ UNCHANGED <<rung, lease>>
            /\ \E b : b \subseteq buf /\ buf' = Stale(b)
        BY Zenon, <1>9, <2>1 DEF Arrival, Receive, Finish, Told
      <3>2. MailInv'
        BY Zenon, <1>0, <3>1, StaleIsOld DEF MailInv, Prompt, BufType
      <3>3. d.xid = "now"
        BY Zenon, <2>1 DEF Answers
      <3>4. CallsApt' /\ ServerShape' /\ Backed'
        BY Zenon, <2>1, <3>1, <3>3, OutcomeKeeps
      <3> QED
        BY Zenon, <3>2, <3>4 DEF BackInv
    <2>2. CASE ~(phase = "waiting" /\ Answers(d))
      <3>1. UNCHANGED <<rung, lease, initial, srv, queue, cur, phase>> /\ buf' \subseteq buf
        BY Zenon, <1>9, <2>2 DEF Arrival, Receive, Ignore, pdVars
      <3> QED
        BY Zenon, <1>0, <1>S, <3>1, MovesKeep, MailKept DEF BackInv
    <2> QED
      BY Zenon, <2>1, <2>2
  <1>10. CASE NoAnswer
    <2>1. /\ phase = "waiting" /\ phase' = "idle" /\ cur' = NoCall /\ UNCHANGED <<queue, initial, srv>>
          /\ \/ cur.who = "pd" /\ cur.live /\ Failed
             \/ UNCHANGED <<rung, lease>>
          /\ buf' = Stale(buf)
      BY Zenon, <1>10 DEF NoAnswer, GiveUp, Finish, Told
    <2>2. MailInv'
      BY Zenon, <1>0, <2>1, StaleIsOld DEF MailInv, Prompt, BufType
    <2>3. CallsApt' /\ ServerShape' /\ Backed'
      BY Zenon, <2>1, OutcomeKeeps
    <2> QED
      BY Zenon, <2>2, <2>3 DEF BackInv
  <1>11. CASE Notice
    <2>1. UNCHANGED <<rung, lease, initial, srv>>
      BY Zenon, <1>11 DEF Notice, pdVars
    <2>2. CASE phase' = "idle" /\ cur' = NoCall /\ buf' = Stale(buf) /\ UNCHANGED queue
      <3>1. MailInv'
        BY Zenon, <1>0, <2>2, StaleIsOld DEF MailInv, Prompt, BufType
      <3> QED
        BY Zenon, <1>0, <1>S, <2>1, <2>2, <3>1, MovesKeep DEF BackInv
    <2>3. CASE \E i \in 1..Len(queue) : queue' = Without(queue, i) /\ UNCHANGED <<phase, cur, buf>>
      <3>1. Fewer(queue, queue')
        BY Zenon, <1>0, <2>3, WithoutFewer DEF CallsShape
      <3>2. cur' = NoCall \/ Same(cur, cur')
        BY Zenon, <1>S, <2>3
      <3>3. \A i \in 1..Len(queue') : \E j \in 1..Len(queue) : Same(queue[j], queue'[i])
        BY Zenon, <1>0, <3>1, <3>2, FewerKeeps
      <3> QED
        BY Zenon, <1>0, <2>1, <2>3, <3>2, <3>3, MovesKeep, MailKept DEF BackInv
    <2> QED
      BY Zenon, <1>11, <2>2, <2>3 DEF Notice, CallAbandoned
  <1>12. CASE ClientCrash
    <2>1. /\ phase' = "idle" /\ cur' = NoCall /\ queue' = <<>> /\ buf' = {}
          /\ Broken \/ UNCHANGED <<rung, lease>>
          /\ UNCHANGED <<initial, srv>>
      BY Zenon, <1>12 DEF ClientCrash, ClientStops
    <2>2. MailInv'
      BY Zenon, <2>1 DEF MailInv, Prompt
    <2>3. \A i \in 1..Len(queue') : FALSE
      BY <2>1
    <2>4. Failed \/ (Restart /\ rung \notin Over) \/ UNCHANGED <<rung, lease>>
      BY Zenon, <2>1 DEF Broken, Over
    <2>5. CallsApt' /\ ServerShape' /\ Backed'
      BY Zenon, <1>0, <2>1, <2>3, <2>4, MovesKeep, NoCallIsNone
    <2> QED
      BY <2>2, <2>5 DEF BackInv
  <1>13. CASE Tick
    <2>1. /\ Prompt /\ lease' = [lease EXCEPT !.age = Older(lease.age)]
          /\ srv' = [srv EXCEPT !.left = Less(srv.left)]
          /\ UNCHANGED <<rung, queue, cur, phase, buf>>
      BY Zenon, <1>13 DEF Tick, Handled, clientVars
    <2>2. /\ lease'.t1 = lease.t1 /\ lease'.p = lease.p /\ lease'.valid = lease.valid
          /\ lease'.age = Older(lease.age)
          /\ lease.t1 \in Nat /\ lease.age \in Nat /\ lease.valid \in Nat
      BY Zenon, <1>0, <2>1 DEF LadderInv, LeaseShape
    <2>3. /\ srv' = [p |-> srv'.p, left |-> srv'.left]
          /\ srv'.p = srv.p /\ srv'.left = Less(srv.left) /\ srv.left \in Nat
      <3> DEFINE p == srv.p
                 l == srv.left
                 m == Less(srv.left)
      <3>1. srv = [p |-> p, left |-> l] /\ l \in Nat
        BY Zenon, <1>0 DEF ServerShape
      <3>2. srv' = [srv EXCEPT !.left = m]
        BY Zenon, <2>1
      <3> HIDE DEF p, l, m
      <3>3. srv' = [p |-> p, left |-> m]
        BY Zenon, <3>1, <3>2
      <3> QED
        BY Zenon, <3>1, <3>3 DEF p, l, m
    <2>4. Less(srv.left) \in Nat /\ Less(srv.left) >= srv.left - 1
      BY <2>3 DEF Less
    <2>5. ServerShape'
      BY Zenon, <1>0, <2>2, <2>3, <2>4 DEF ServerShape
    <2>6. CallsApt' /\ MailInv'
      BY Zenon, <1>0, <2>1 DEF CallsApt, Apt, Exchange, MailInv, Prompt
    <2>7. Backed'
      <3> SUFFICES ASSUME rung = "bound", Older(lease.age) < lease.t1
                   PROVE  ~Calling("pd") /\ srv.p = lease.p
                          /\ Less(srv.left) >= lease.valid - Older(lease.age)
        BY Zenon, <2>1, <2>2, <2>3 DEF Backed, LeaseBacked, Calling
      <3>1. lease.t1 <= MaxAge /\ MaxAge \in Nat
        BY Zenon, <1>0, PDAssumption DEF ServerShape
      <3>2. Older(lease.age) = lease.age + 1
        BY <2>2, <3>1 DEF Older
      <3>3. ~Calling("pd") /\ srv.p = lease.p /\ srv.left >= lease.valid - lease.age
        BY SMTT(30), <1>0, <2>2, <3>2 DEF Backed, LeaseBacked
      <3> QED
        BY <2>2, <2>3, <2>4, <3>2, <3>3
    <2> QED
      BY Zenon, <2>5, <2>6, <2>7 DEF BackInv
  <1>14. CASE ClientRestart \/ Exit \/ UNCHANGED vars
    <2>1. UNCHANGED <<rung, lease, initial, srv, queue, cur, phase, buf>>
      BY Zenon, <1>14 DEF ClientRestart, ClientStarts, Exit, vars, pdVars, clientVars
    <2> QED
      BY Zenon, <1>0, <1>S, <2>1, MovesKeep, MailKept DEF BackInv
  <1> QED
    BY Zenon, <1>1, <1>2, <1>3, <1>4, <1>5, <1>6, <1>7, <1>8, <1>9, <1>10, <1>11, <1>12, <1>13, <1>14
    DEF Next, Step, ClientSteps

\* A lease in use before its T1 is the server's binding, for as long as the
\* client counts on it: no answer given up, late or repeated is taken for a
\* grant, and no exchange of a caller gone moves the binding meanwhile
\* (pkg/dhcpv6, Exchange.Answers; pkg/prefixdelegation, leaseFromReply).
THEOREM LeasesBacked == Spec => []LeaseBacked
  <1>1. Init => BackInv
    <2> SUFFICES ASSUME Init
                 PROVE  BackInv
      OBVIOUS
    <2>1. /\ phase = "idle" /\ cur = NoCall /\ queue = <<>> /\ buf = {} /\ lease = FirstLease
          /\ srv = [p |-> First, left |-> FirstIA.valid]
      BY Zenon DEF Init, ClientInit
    <2>2. \A i \in 1..Len(queue) : FALSE
      BY SMTT(30), <2>1
    <2>3. CallsApt /\ MailInv /\ ~Calling("pd")
      BY Zenon, <2>1, <2>2, NoCallIsNone DEF CallsApt, Apt, MailInv, Prompt, Calling
    <2>4. FirstIA.valid \in Nat
      BY PDAssumption, TimersAssumption DEF IAPDType, Durations
    <2>5. ServerShape
      BY Zenon, <2>1, <2>4, FirstT1 DEF ServerShape
    <2>6. FirstLease.valid = FirstIA.valid
      BY Zenon DEF FirstLease, NewLease
    <2>7. Backed
      BY SMTT(30), <2>1, <2>3, <2>4, <2>6, FirstShape DEF Backed, LeaseBacked
    <2> QED
      BY Zenon, <2>3, <2>5, <2>7 DEF BackInv
  <1>2. LeaseShape /\ BackInv => LeaseBacked
    BY Zenon DEF BackInv, Backed, LeaseBacked
  <1>3. Inv => LeaseShape
    BY Zenon DEF Inv, LadderInv
  <1> QED
    BY <1>1, <1>2, <1>3, BackStep, Invariant, ClientInvariant, PTL DEF Spec

=============================================================================
