-------------------------- MODULE SoftwirectlProofs --------------------------
(***************************************************************************)
(* Proofs about Softwirectl that join the controller to the softwire it    *)
(* drives: what each knows of the other is in the requests and answers     *)
(* still queued between them, so the invariants (GateInv, AgreeInv) are    *)
(* about those, and rest on the discipline of the queues.                  *)
(***************************************************************************)
EXTENDS SoftwirectlLemmas

-----------------------------------------------------------------------------
(* No cutover follows a loss the counters showed.                          *)

\* A cutover that is requested, or about to be, follows a reading of the
\* counters in the migration under way that showed no loss.
GateInv ==
    /\ \A i \in 1..Len(mbox) : mbox[i].op = "cutover" => counted /\ lost # "before"
    /\ \A i \in 1..Len(inbox) :
         /\ Answered(d.gen, inbox, i)
         /\ inbox[i].op = "counts" /\ inbox[i].result = "ok" /\ inbox[i].arg = "no"
         => counted /\ lost # "before"
    /\ CutoverGated

\* The counters and the datapath apart, a step keeps GateInv if it requests no
\* cutover and makes no current answer of an old one.
LEMMA GateKept ==
    ASSUME GateInv, UNCHANGED <<lost, counted>>,
           dp'.state = "DRAINING" => dp.state = "DRAINING",
           \A i \in 1..Len(mbox') :
             mbox'[i].op = "cutover" => \E j \in 1..Len(mbox) : mbox[j].op = "cutover",
           \A i \in 1..Len(inbox') :
             Answered(d.gen, inbox, i)' /\ inbox'[i].op = "counts" =>
               \E j \in 1..Len(inbox) : Answered(d.gen, inbox, j) /\ inbox'[i] = inbox[j]
    PROVE  GateInv'
  BY Zenon DEF GateInv, CutoverGated

\* The queues after a request is served: what is left of the requests, and the
\* answer, if any.
LEMMA AfterReply ==
    ASSUME Discipline, mbox # <<>>, NEW result, NEW arg, Reply(result, arg)
    PROVE  /\ \A i \in 1..Len(mbox') : i + 1 \in 1..Len(mbox) /\ mbox'[i] = mbox[i + 1]
           /\ 1 \in 1..Len(mbox) /\ mbox[1] = Head(mbox)
           /\ Len(mbox) \in Nat /\ Len(mbox') = Len(mbox) - 1
           /\ \A i \in 1..Len(inbox') :
                \/ i \in 1..Len(inbox) /\ inbox'[i] = inbox[i]
                \/ /\ inbox'[i].op = Head(mbox).op /\ inbox'[i].gen = Head(mbox).gen
                   /\ inbox'[i].result = result /\ inbox'[i].arg = arg
                   /\ Head(mbox).live
<1> DEFINE a == [op |-> Head(mbox).op, gen |-> Head(mbox).gen, result |-> result, arg |-> arg]
<1>1. /\ Queue(mbox) /\ Queue(inbox)
      /\ mbox' = Tail(mbox) /\ inbox' = IF Head(mbox).live THEN Append(inbox, a) ELSE inbox
      /\ Head(mbox).live \in BOOLEAN
  BY QueueTail DEF Discipline, Disciplined, Shapes, Reply
<1>2. /\ a.op = Head(mbox).op /\ a.gen = Head(mbox).gen /\ a.result = result /\ a.arg = arg
  BY Zenon
<1> HIDE DEF a
<1>3. \A i \in 1..Len(inbox') :
        \/ i \in 1..Len(inbox) /\ inbox'[i] = inbox[i]
        \/ inbox'[i] = a /\ Head(mbox).live
  <2>1. CASE Head(mbox).live
    <3>1. inbox' = Append(inbox, a)
      BY Zenon, <1>1, <2>1
    <3>2. /\ Len(inbox) \in Nat /\ Len(inbox') = Len(inbox) + 1
          /\ inbox'[Len(inbox) + 1] = a /\ \A i \in 1..Len(inbox) : inbox'[i] = inbox[i]
      BY <1>1, <3>1, QueueAppend
    <3> QED BY <2>1, <3>2
  <2>2. CASE ~Head(mbox).live
    <3>1. inbox' = inbox
      BY Zenon, <1>1, <2>2
    <3> QED BY Zenon, <3>1
  <2> QED BY Zenon, <2>1, <2>2
<1> QED BY <1>1, <1>2, <1>3, QueueTail

\* The answer to a request that is not for the counters is no answer about them.
LEMMA GateReply ==
    ASSUME Discipline, GateInv, mbox # <<>>, Head(mbox).op # "counts",
           NEW result, NEW arg, Reply(result, arg), UNCHANGED <<d, lost, counted>>,
           dp'.state = "DRAINING" => dp.state = "DRAINING"
    PROVE  GateInv'
<1>1. \A i \in 1..Len(mbox') :
        mbox'[i].op = "cutover" => \E j \in 1..Len(mbox) : mbox[j].op = "cutover"
  BY AfterReply
<1>2. \A i \in 1..Len(inbox') :
        Answered(d.gen, inbox, i)' /\ inbox'[i].op = "counts" =>
          \E j \in 1..Len(inbox) : Answered(d.gen, inbox, j) /\ inbox'[i] = inbox[j]
  BY Zenon, AfterReply DEF Answered
<1> QED BY Zenon, <1>1, <1>2, GateKept

\* The server's steps.
LEMMA GateServe == SoftwireInv /\ Discipline /\ GateInv /\ Serve => GateInv'
<1> SUFFICES ASSUME SoftwireInv, Discipline, GateInv, Serve PROVE GateInv'
  BY Zenon
<1> DEFINE to == Head(mbox).to
<1>X. PICK X : {None, to, sw.active} \subseteq X /\ dp \in Sound(X)
  BY Zenon, SoundFor
<1>D. UNCHANGED d /\ mbox # <<>>
  BY Zenon DEF Serve, Serving, ServeRecover, ServeSource, ServeSwitch, ServeBegin, ServeCounts,
         ServeAbort, ServeCutover, ServeGC, ServeComplete, ctlvars
<1> HIDE DEF to
<1>1. CASE ServeRecover
  <2>1. CASE ~sw.migrating
    <3>1. Reply("ok", sw.active) /\ dp' = dp /\ Head(mbox).op # "counts" /\ UNCHANGED <<lost, counted>>
      BY Zenon, <1>1, <2>1 DEF ServeRecover, Serving, flowvars
    <3> QED BY Zenon, <3>1, <1>D, GateReply
  <2>2. CASE sw.migrating
    <3>1. PICK o \in L!SwitchAFTR(dp, sw.active) : dp' = o.dp /\ Reply(o.result, sw.active)
      BY Zenon, <1>1, <2>2 DEF ServeRecover, Happens
    <3>2. Head(mbox).op # "counts" /\ UNCHANGED <<lost, counted>>
      BY Zenon, <1>1 DEF ServeRecover, Serving, flowvars
    <3>3. dp'.state = "DRAINING" => dp.state = "DRAINING"
      BY <3>1, <1>X, SwitchLeaves
    <3> QED BY Zenon, <3>1, <3>2, <3>3, <1>D, GateReply
  <2> QED BY Zenon, <2>1, <2>2
<1>2. CASE ServeSwitch
  <2>1. PICK o \in L!SwitchAFTR(dp, to) : dp' = o.dp /\ Reply(o.result, None)
    BY Zenon, <1>2 DEF ServeSwitch, Happens, to
  <2>2. Head(mbox).op # "counts" /\ UNCHANGED <<lost, counted>>
    BY Zenon, <1>2 DEF ServeSwitch, Serving, flowvars
  <2>3. dp'.state = "DRAINING" => dp.state = "DRAINING"
    BY <2>1, <1>X, SwitchLeaves
  <2> QED BY Zenon, <2>1, <2>2, <2>3, <1>D, GateReply
<1>3. CASE ServeBegin
  <2>1. PICK o \in L!BeginMigration(dp, to) :
          /\ dp' = o.dp /\ Reply(o.result, None)
          /\ o.result # "ok" => UNCHANGED <<lost, counted>>
    BY Zenon, <1>3 DEF ServeBegin, Happens, to
  <2>2. /\ o.result = "ok" => dp'.state = "PRIMING"
        /\ o.result # "ok" => dp' = dp \/ dp'.state = "STEADY"
    BY <2>1, <1>X, BeginLeaves
  <2>3. Head(mbox).op = "begin"
    BY Zenon, <1>3 DEF ServeBegin, Serving
  <2>4. CASE o.result # "ok"
    BY Zenon, <2>1, <2>2, <2>3, <2>4, <1>D, GateReply
  <2>5. CASE o.result = "ok"
    \* Nothing is behind a begin but a hard switch or a recovery.
    <3>1. \A i \in 1..Len(mbox') : mbox'[i].op # "cutover"
      <4>1. Work(mbox[1]) /\ Order(d.gen, mbox)
        BY Zenon, <2>3, <2>1, <1>D, AfterReply DEF Work, Discipline, Disciplined
      <4> QED BY <4>1, <2>1, <1>D, AfterReply DEF Order, Work
    \* And no current answer waits while there is work.
    <3>2. NoneAnswered(d.gen, inbox)
      <4>1. ~NoneAsked(d.gen, mbox)
        BY Zenon, <2>3, <2>1, <1>D, AfterReply DEF Work, Discipline, Disciplined, Order
      <4> QED BY Zenon, <4>1 DEF NoneAsked, Discipline, Disciplined, OneOut
    <3>3. \A i \in 1..Len(inbox') : Answered(d.gen, inbox, i)' => inbox'[i].op # "counts"
      BY <3>2, <2>1, <2>3, <1>D, AfterReply DEF NoneAnswered, Answered
    <3> QED BY Zenon, <2>2, <2>5, <3>1, <3>3 DEF GateInv, CutoverGated
  <2> QED BY Zenon, <2>4, <2>5
<1>4. CASE ServeCounts
  <2>1. Head(mbox).op = "counts" /\ UNCHANGED <<dp, lost>>
    BY Zenon, <1>4 DEF ServeCounts, Serving, swvars
  <2>2. PICK result, arg : /\ Reply(result, arg)
                           /\ \/ result = "ok" /\ arg = lost /\ counted' = TRUE
                              \/ result = "failed" /\ counted' = counted
    BY Zenon, <1>4 DEF ServeCounts
  <2>3. \A i \in 1..Len(mbox') :
          mbox'[i].op = "cutover" => \E j \in 1..Len(mbox) : mbox[j].op = "cutover"
    BY <2>2, <1>D, AfterReply
  <2>4. ASSUME NEW i \in 1..Len(inbox'), Answered(d.gen, inbox, i)', inbox'[i].op = "counts",
               inbox'[i].result = "ok", inbox'[i].arg = "no"
        PROVE  counted' /\ lost' # "before"
    BY SMTT(30), <1>D, <2>1, <2>2, <2>4, AfterReply DEF GateInv, Answered
  <2>5. \A i \in 1..Len(mbox') : mbox'[i].op = "cutover" => counted' /\ lost' # "before"
    BY <2>1, <2>2, <2>3 DEF GateInv
  <2> QED BY Zenon, <2>1, <2>4, <2>5 DEF GateInv, CutoverGated
<1>5. CASE ServeAbort
  <2>1. PICK o \in L!AbortMigration(dp) : dp' = o.dp /\ Reply(o.result, None)
    BY Zenon, <1>5 DEF ServeAbort, Happens
  <2>2. Head(mbox).op # "counts" /\ UNCHANGED <<lost, counted>>
    BY Zenon, <1>5 DEF ServeAbort, Serving, flowvars
  <2>3. dp'.state = "DRAINING" => dp.state = "DRAINING"
    BY Zenon, <2>1, <1>X, AbortLeaves
  <2> QED BY Zenon, <2>1, <2>2, <2>3, <1>D, GateReply
<1>6. CASE ServeCutover
  <2>1. PICK o \in L!Cutover(dp) : dp' = o.dp /\ Reply(o.result, None)
    BY Zenon, <1>6 DEF ServeCutover, Happens
  <2>2. Head(mbox).op = "cutover" /\ UNCHANGED <<lost, counted>>
    BY Zenon, <1>6 DEF ServeCutover, Serving
  <2>3. lost # "before"
    BY <2>1, <2>2, <1>D, AfterReply DEF GateInv
  <2>4. \A i \in 1..Len(mbox') :
          mbox'[i].op = "cutover" => \E j \in 1..Len(mbox) : mbox[j].op = "cutover"
    BY <2>1, <1>D, AfterReply
  <2>5. \A i \in 1..Len(inbox') :
          Answered(d.gen, inbox, i)' /\ inbox'[i].op = "counts" =>
            \E j \in 1..Len(inbox) : Answered(d.gen, inbox, j) /\ inbox'[i] = inbox[j]
    BY Zenon, <2>1, <2>2, <1>D, AfterReply DEF Answered
  <2> QED BY Zenon, <2>2, <2>3, <2>4, <2>5 DEF GateInv, CutoverGated
<1>7. CASE ServeComplete
  <2>1. PICK o \in L!CompleteMigration(dp) : dp' = o.dp /\ Reply(o.result, None)
    BY Zenon, <1>7 DEF ServeComplete, Happens
  <2>2. Head(mbox).op # "counts" /\ UNCHANGED <<lost, counted>>
    BY Zenon, <1>7 DEF ServeComplete, Serving, flowvars
  <2>3. dp'.state = "DRAINING" => dp.state = "DRAINING"
    BY Zenon, <2>1, <1>X, CompleteLeaves
  <2> QED BY <2>1, <2>2, <2>3, <1>D, GateReply
<1>8. CASE ServeSource \/ ServeGC
  <2>1. /\ Head(mbox).op # "counts" /\ UNCHANGED <<dp, lost, counted>>
        /\ \E result, arg : Reply(result, arg)
    BY Zenon, <1>8 DEF ServeSource, ServeGC, Serving, swvars, flowvars
  <2> QED BY Zenon, <2>1, <1>D, GateReply
<1> QED BY Zenon, <1>1, <1>2, <1>3, <1>4, <1>5, <1>6, <1>7, <1>8 DEF Serve

\* What a step of the controller or its environment may do to the queues when
\* it opens no generation: take the first response, and send one request.
Exchanges(o) ==
    /\ IsData(d') /\ d'.gen = d.gen
    /\ inbox' = inbox \/ (inbox # <<>> /\ inbox' = Tail(inbox))
    /\ mbox' = mbox \/ \E to : mbox' = Append(mbox, Request(o, d.gen, to))

\* The queues after such a step.
LEMMA AfterExchange ==
    ASSUME Discipline, NEW o, Exchanges(o)
    PROVE  /\ \A i \in 1..Len(mbox') :
                \/ i \in 1..Len(mbox) /\ mbox'[i] = mbox[i]
                \/ mbox'[i].op = o /\ mbox' # mbox
           /\ \A i \in 1..Len(inbox') : \E j \in 1..Len(inbox) : inbox'[i] = inbox[j]
           /\ \A i \in 1..Len(inbox') :
                Answered(d.gen, inbox, i)' =>
                  \E j \in 1..Len(inbox) : Answered(d.gen, inbox, j) /\ inbox'[i] = inbox[j]
<1>1. Queue(mbox) /\ Queue(inbox)
  BY Zenon DEF Discipline, Disciplined, Shapes
<1>2. \A i \in 1..Len(mbox') :
        \/ i \in 1..Len(mbox) /\ mbox'[i] = mbox[i]
        \/ mbox'[i].op = o /\ mbox' # mbox
  <2>1. CASE mbox' = mbox
    BY Zenon, <2>1
  <2>2. CASE \E to : mbox' = Append(mbox, Request(o, d.gen, to))
    <3>1. PICK to : mbox' = Append(mbox, Request(o, d.gen, to))
      BY Zenon, <2>2
    <3>2. Request(o, d.gen, to).op = o
      BY Zenon DEF Request
    <3>3. /\ Len(mbox) \in Nat /\ Len(mbox') = Len(mbox) + 1
          /\ mbox'[Len(mbox) + 1].op = o /\ \A i \in 1..Len(mbox) : mbox'[i] = mbox[i]
      BY <1>1, <3>1, <3>2, QueueAppend
    <3> QED BY <3>3
  <2> QED BY Zenon, <2>1, <2>2 DEF Exchanges
<1>3. \A i \in 1..Len(inbox') : \E j \in 1..Len(inbox) : inbox'[i] = inbox[j]
  BY <1>1, QueueTail DEF Exchanges
<1> QED BY Zenon, <1>2, <1>3 DEF Answered, Exchanges

\* The queues after a controller starts.
LEMMA AfterStart ==
    ASSUME Discipline, NEW q, Start(q), q \in {mbox, <<>>}
    PROVE  /\ Len(inbox') = 0
           /\ \A i \in 1..Len(mbox') :
                \/ \E j \in 1..Len(mbox) : /\ mbox'[i].op = mbox[j].op
                                           /\ mbox'[i].to = mbox[j].to
                                           /\ mbox'[i].live = FALSE
                \/ mbox'[i] = Request("recover", 0, None)
<1> DEFINE m == [i \in DOMAIN q |-> [q[i] EXCEPT !.live = FALSE]]
<1>1. inbox' = <<>> /\ mbox' = Append(m, Request("recover", 0, None))
  BY Zenon DEF Start
<1>2. Queue(mbox) /\ \A i \in 1..Len(mbox) : IsRequest(mbox[i])
  BY Zenon DEF Discipline, Disciplined, Shapes
<1>3. Queue(q) /\ \A i \in 1..Len(q) : q = mbox
  <2>1. <<>> \in Seq({}) /\ \A i \in 1..Len(<<>>) : FALSE
    OBVIOUS
  <2> QED BY <2>1, <1>2, Zenon DEF Queue
<1>4. /\ Queue(m) /\ Len(m) = Len(q) /\ Len(q) \in Nat
      /\ \A i \in 1..Len(q) : m[i] = [q[i] EXCEPT !.live = FALSE]
  BY Zenon, <1>3, QueueDead
<1> HIDE DEF m
<1>5. /\ Len(mbox') = Len(q) + 1 /\ mbox'[Len(q) + 1] = Request("recover", 0, None)
      /\ \A i \in 1..Len(q) : mbox'[i] = m[i]
  BY <1>1, <1>4, QueueAppend
<1>6. ASSUME NEW i \in 1..Len(q)
      PROVE  i \in 1..Len(mbox) /\ mbox'[i].op = mbox[i].op
             /\ mbox'[i].to = mbox[i].to /\ mbox'[i].live = FALSE
  <2>1. q = mbox /\ mbox'[i] = [q[i] EXCEPT !.live = FALSE]
    BY Zenon, <1>3, <1>4, <1>5
  <2>2. i \in 1..Len(mbox) /\ IsRequest(mbox[i])
    BY Zenon, <2>1, <1>2
  <2> QED BY <2>1, <2>2, DeadRequest, Zenon
<1>7. \A i \in 1..Len(mbox') : i \in 1..Len(q) \/ i = Len(q) + 1
  BY <1>4, <1>5
<1> QED BY Zenon, <1>1, <1>5, <1>6, <1>7

\* The controller's and the environment's steps.
LEMMA GateOther == Discipline /\ GateInv /\ [Next]_vars /\ ~Serve => GateInv'
<1> SUFFICES ASSUME Discipline, GateInv, [Next]_vars, ~Serve PROVE GateInv'
  BY Zenon
<1>I. IsData(d) /\ Queue(mbox) /\ Queue(inbox)
  BY Zenon DEF Discipline, Disciplined, Shapes
<1>E. ASSUME NEW o, Exchanges(o), o # "cutover", UNCHANGED <<lost, counted, dp>>
      PROVE  GateInv'
  <2>1. \A i \in 1..Len(mbox') :
          mbox'[i].op = "cutover" => \E j \in 1..Len(mbox) : mbox[j].op = "cutover"
    BY <1>E, AfterExchange
  <2> QED BY Zenon, <2>1, <1>E, AfterExchange, GateKept
<1>S. ASSUME NEW q, Start(q), q \in {mbox, <<>>}, UNCHANGED <<lost, counted, dp>>
      PROVE  GateInv'
  <2>1. \A i \in 1..Len(mbox') :
          mbox'[i].op = "cutover" => \E j \in 1..Len(mbox) : mbox[j].op = "cutover"
    <3>1. \A i \in 1..Len(mbox') :
            mbox'[i] = Request("recover", 0, None) \/ \E j \in 1..Len(mbox) : mbox'[i].op = mbox[j].op
      BY <1>S, AfterStart, Zenon
    <3> QED BY <3>1 DEF Request
  <2>2. \A i \in 1..Len(inbox') : FALSE
    <3>1. Len(inbox') = 0
      BY <1>S, AfterStart, Zenon
    <3> QED BY <3>1
  <2> QED BY Zenon, <1>S, <2>1, <2>2, GateKept
<1>1. CASE DropStale
  <2>1. Exchanges("source") /\ UNCHANGED <<lost, counted, dp>>
    BY Zenon, <1>1, <1>I DEF DropStale, Taken, Exchanges, ctlvars, swvars, flowvars
  <2> QED BY Zenon, <2>1, <1>E
<1>2. CASE GotRecover
  <2>1. UNCHANGED <<lost, counted, dp>>
    BY Zenon, <1>2 DEF GotRecover, swvars
  <2>2. CASE ~Ok
    BY Zenon, <1>2, <2>1, <2>2, <1>S DEF GotRecover
  <2>3. CASE Ok
    <3>1. /\ d' = [d EXCEPT !.b4 = Head(inbox).arg[1], !.cur = Head(inbox).arg[2]]
          /\ inbox # <<>> /\ inbox' = Tail(inbox) /\ mbox' = mbox
      BY Zenon, <1>2, <2>3 DEF GotRecover, Got, Taken
    <3>2. Exchanges("source")
      BY Zenon, <3>1, <1>I DEF Exchanges, IsData
    <3> QED BY Zenon, <2>1, <3>2, <1>E
  <2> QED BY Zenon, <2>2, <2>3
<1>3. CASE GotSource
  <2>1. UNCHANGED <<lost, counted, dp>> /\ inbox # <<>> /\ inbox' = Tail(inbox)
    BY Zenon, <1>3 DEF GotSource, Got, Taken, swvars, flowvars
  <2>2. CASE Head(inbox).arg \notin B4s \ {d.b4}
    <3>1. Exchanges("source")
      BY Zenon, <1>3, <2>1, <2>2, <1>I DEF GotSource, Exchanges
    <3> QED BY Zenon, <2>1, <3>1, <1>E
  <2>3. CASE Head(inbox).arg \in B4s \ {d.b4}
    <3>1. /\ d' = [d EXCEPT !.gen = d.gen + 1, !.switchB4 = Head(inbox).arg,
                            !.switchTo = HardSwitchTo, !.next = None]
          /\ mbox' = Append(mbox, Request("switch", d.gen + 1, <<Head(inbox).arg, HardSwitchTo>>))
      BY Zenon, <1>3, <2>3 DEF GotSource, HardSwitch, Send
    <3>2. d'.gen = d.gen + 1 /\ d.gen \in Nat
      BY Zenon, <3>1, <1>I DEF IsData, Discipline, Disciplined
    <3>3. \A i \in 1..Len(mbox') :
            mbox'[i].op = "cutover" => \E j \in 1..Len(mbox) : mbox[j].op = "cutover"
      BY SMTT(30), <3>1, <1>I, QueueAppend DEF Request
    <3>4. \A i \in 1..Len(inbox') : ~Answered(d.gen, inbox, i)'
      BY <2>1, <3>2, <1>I, QueueTail DEF Answered, Discipline, Disciplined, Ages, Shapes
    <3> QED BY Zenon, <2>1, <3>3, <3>4, GateKept
  <2> QED BY Zenon, <2>2, <2>3
<1>4. CASE GotSwitch \/ GotBegin \/ GotAbort
  <2>1. /\ UNCHANGED <<lost, counted, dp>> /\ inbox # <<>> /\ inbox' = Tail(inbox)
        /\ mbox' = mbox
        /\ \/ d' = d \/ d' = [d EXCEPT !.next = None]
           \/ d' = [d EXCEPT !.b4 = d.switchB4, !.cur = d.switchTo]
    BY Zenon, <1>4 DEF GotSwitch, GotBegin, GotAbort, MigrationFailed, Got, Taken, swvars, flowvars
  <2>2. Exchanges("source")
    BY Zenon, <2>1, <1>I DEF Exchanges, IsData
  <2> QED BY Zenon, <2>1, <2>2, <1>E
<1>A. ASSUME NEW why, Abort(why), inbox # <<>>, inbox' = Tail(inbox), UNCHANGED <<lost, counted, dp>>
      PROVE  GateInv'
  <2>1. d' = [d EXCEPT !.why = why] /\ mbox' = Append(mbox, Request("abort", d.gen, None))
    BY Zenon, <1>A DEF Abort, Send
  <2>2. Exchanges("abort")
    BY Zenon, <1>A, <2>1, <1>I DEF Exchanges, IsData
  <2> QED BY Zenon, <1>A, <2>2, <1>E
<1>5. CASE GotCounts
  <2>1. /\ UNCHANGED <<lost, counted, dp>> /\ inbox # <<>> /\ inbox' = Tail(inbox)
        /\ Head(inbox).op = "counts" /\ Head(inbox).gen = d.gen
    BY Zenon, <1>5 DEF GotCounts, Got, Taken, swvars, flowvars
  <2>2. CASE Abort("counts") \/ Abort("")
    BY Zenon, <2>1, <2>2, <1>A
  <2>3. CASE ~(Abort("counts") \/ Abort(""))
    <3>1. /\ Head(inbox).result = "ok" /\ Head(inbox).arg = "no"
          /\ Send("cutover", d.gen, None) /\ d' = d
      BY Zenon, <1>5, <2>3 DEF GotCounts, Ok
    <3>2. Exchanges("cutover")
      BY Zenon, <2>1, <3>1, <1>I DEF Exchanges, Send
    \* The counters it has just read showed no loss.
    <3>3. counted /\ lost # "before"
      <4>1. 1 \in 1..Len(inbox) /\ inbox[1] = Head(inbox)
        BY <2>1, <1>I, QueueTail
      <4>2. Answered(d.gen, inbox, 1)
        BY Zenon, <4>1, <2>1 DEF Answered, Work
      <4> QED BY Zenon, <4>1, <4>2, <2>1, <3>1 DEF GateInv
    <3>4. \A i \in 1..Len(inbox') :
            Answered(d.gen, inbox, i)' =>
              \E j \in 1..Len(inbox) : Answered(d.gen, inbox, j) /\ inbox'[i] = inbox[j]
      BY Zenon, <3>2, AfterExchange
    <3> QED BY Zenon, <2>1, <3>3, <3>4 DEF GateInv, CutoverGated
  <2> QED BY Zenon, <2>2, <2>3
<1>6. CASE GotCutover
  <2>1. UNCHANGED <<lost, counted, dp>> /\ inbox # <<>> /\ inbox' = Tail(inbox)
    BY Zenon, <1>6 DEF GotCutover, Got, Taken, swvars, flowvars
  <2>2. CASE Ok
    <3>1. d' = [d EXCEPT !.cap = FALSE] /\ mbox' = mbox
      BY Zenon, <1>6, <2>2 DEF GotCutover
    <3>2. Exchanges("source")
      BY Zenon, <2>1, <3>1, <1>I DEF Exchanges, IsData
    <3> QED BY <2>1, <3>2, <1>E
  <2>3. CASE ~Ok
    BY Zenon, <1>6, <2>1, <2>3, <1>A DEF GotCutover
  <2> QED BY Zenon, <2>2, <2>3
<1>7. CASE GotGC
  <2>1. UNCHANGED <<lost, counted, dp, d>> /\ inbox # <<>> /\ inbox' = Tail(inbox)
    BY Zenon, <1>7 DEF GotGC, Got, Taken, swvars, flowvars
  <2>2. Exchanges("complete")
    BY Zenon, <1>7, <2>1, <1>I DEF GotGC, Exchanges, Send
  <2> QED BY Zenon, <2>1, <2>2, <1>E
<1>8. CASE GotComplete
  <2>1. /\ UNCHANGED <<lost, counted, dp, mbox>> /\ inbox # <<>> /\ inbox' = Tail(inbox)
        /\ d' = d \/ d' = [d EXCEPT !.cur = d.next, !.next = None]
    BY Zenon, <1>8 DEF GotComplete, Got, Taken, swvars, flowvars
  <2>2. Exchanges("source")
    BY Zenon, <2>1, <1>I DEF Exchanges, IsData
  <2> QED BY Zenon, <2>1, <2>2, <1>E
<1>9. CASE Discovery
  <2>1. PICK aftr \in AFTRs \cup {None} : Discovered(aftr)
    BY Zenon, <1>9 DEF Discovery
  <2>2. UNCHANGED <<lost, counted, dp, inbox>>
    BY Zenon, <2>1 DEF Discovered, swvars
  <2>3. Exchanges("begin")
    BY Zenon, <2>1, <2>2, <1>I DEF Discovered, Exchanges, Send, IsData
  <2> QED BY Zenon, <2>2, <2>3, <1>E
<1>10. CASE Refresh \/ DrainCap
  <2>1. /\ UNCHANGED <<lost, counted, dp, mbox, inbox>>
        /\ d' = d \/ d' = [d EXCEPT !.cap = TRUE]
    BY Zenon, <1>10 DEF Refresh, DrainCap, swvars, flowvars
  <2>2. Exchanges("source")
    BY Zenon, <2>1, <1>I DEF Exchanges, IsData
  <2> QED BY Zenon, <2>1, <2>2, <1>E
<1>11. CASE Primed \/ DrainTick \/ B4Poll
  <2>1. UNCHANGED <<lost, counted, dp, d, inbox>>
    BY Zenon, <1>11 DEF Primed, DrainTick, B4Poll, ctlvars, swvars, flowvars
  <2>2. Exchanges("counts") \/ Exchanges("gc") \/ Exchanges("source")
    BY Zenon, <1>11, <2>1, <1>I DEF Primed, DrainTick, B4Poll, Send, Exchanges
  <2> QED BY Zenon, <2>1, <2>2, <1>E
<1>12. CASE ControllerCrash \/ ServerCrash
  BY Zenon, <1>12, <1>S DEF ControllerCrash, ServerCrash, swvars
<1>13. CASE FlowLost
  <2>1. /\ UNCHANGED <<d, mbox, inbox, dp, counted>> /\ dp.state = "PRIMING"
        /\ lost' = IF counted THEN "after" ELSE "before"
    BY Zenon, <1>13 DEF FlowLost, ctlvars, swvars
  <2> QED BY Zenon, <2>1 DEF GateInv, CutoverGated, Answered, Work
<1>14. CASE SourceMoves \/ UNCHANGED vars
  <2>1. UNCHANGED <<d, mbox, inbox, dp, counted, lost>>
    BY Zenon, <1>14 DEF SourceMoves, vars, ctlvars, swvars, flowvars
  <2> QED BY Zenon, <2>1 DEF GateInv, CutoverGated, Answered, Work
<1> QED BY Zenon, <1>1, <1>2, <1>3, <1>4, <1>5, <1>6, <1>7, <1>8, <1>9, <1>10, <1>11, <1>12, <1>13,
           <1>14 DEF Next, Receive

\* No cutover reaches the datapath after a loss that the counters could have
\* shown: GotCounts rolls such a migration back, and neither a restart nor a
\* hard switch lets an earlier reading through.
THEOREM CutoversGated == Spec => []CutoverGated
<1>1. Init => GateInv
  <2> SUFFICES ASSUME Init PROVE GateInv
    BY Zenon
  <2> DEFINE r == Request("recover", 0, None)
  <2>1. lost = "no" /\ dp.state = "STEADY" /\ inbox = <<>> /\ mbox = <<r>>
    BY Zenon DEF Init
  <2>2. r.op = "recover"
    BY Zenon DEF Request
  <2> HIDE DEF r
  <2>3. \A i \in 1..Len(mbox) : mbox[i].op = "recover"
    BY <2>1, <2>2
  <2>4. \A i \in 1..Len(inbox) : FALSE
    BY <2>1
  <2> QED BY Zenon, <2>1, <2>3, <2>4 DEF GateInv, CutoverGated
<1>2. SoftwireInv /\ Discipline /\ GateInv /\ [Next]_vars => GateInv'
  BY Zenon, GateServe, GateOther
<1>3. GateInv => CutoverGated
  BY Zenon DEF GateInv
<1> QED BY <1>1, <1>2, <1>3, SoftwireInvariant, DisciplineInvariant, PTL DEF Spec

-----------------------------------------------------------------------------
(* With no call failing, the controller and the softwire agree.            *)

Pair(x) == x = <<x[1], x[2]>>

\* The datapath state request o needs, and the one its answer leaves.
Needs(o, st) ==
    /\ o = "begin" => st = "STEADY"
    /\ o \in {"counts", "cutover", "abort"} => st = "PRIMING"
    /\ o \in {"gc", "complete"} => st = "DRAINING"
Leaves(o, st) ==
    /\ o \in {"begin", "counts"} => st = "PRIMING"
    /\ o \in {"cutover", "gc"} => st = "DRAINING"
    /\ o \in {"recover", "switch", "abort", "complete"} => st = "STEADY"

\* What the controller's phase says of the softwire.
PhaseView ==
    /\ phase \in {"Steady", "Discovering"} =>
         dp.state = "STEADY" /\ sw.active = <<d.b4, d.cur>>
    /\ phase = "Priming" =>
         /\ dp.state # "DRAINING" => sw.active = <<d.b4, d.cur>>
         /\ dp.state = "PRIMING" => sw.target = <<d.b4, d.next>>
         /\ dp.state = "DRAINING" => sw.active = <<d.b4, d.next>>
    /\ phase = "Draining" => sw.active = <<d.b4, d.next>>
    /\ timer = "primed" => dp.state = "PRIMING"
    /\ timer = "drainTick" => dp.state = "DRAINING"

SoftwireView ==
    /\ tun = sw.active /\ Pair(sw.active)
    /\ dp.state = "STEADY" => ~sw.migrating
    /\ dp.state = "PRIMING" => Pair(sw.target)

\* What waits with the server can be done where the datapath is.
RequestsView ==
    \A i \in 1..Len(mbox) :
        /\ Needs(mbox[i].op, dp.state)
        /\ mbox[i].op \in {"begin", "switch"} => Pair(mbox[i].to)
        /\ Asked(d.gen, mbox, i) =>
             /\ mbox[i].op = "begin" => mbox[i].to = <<d.b4, d.next>>
             /\ mbox[i].op = "switch" => mbox[i].to = <<d.switchB4, d.switchTo>>

\* What was answered is still so.
AnswersView ==
    \A i \in 1..Len(inbox) :
        /\ inbox[i].result = "ok"
        /\ Answered(d.gen, inbox, i) =>
             /\ Leaves(inbox[i].op, dp.state)
             /\ inbox[i].op = "recover" => inbox[i].arg = sw.active
             /\ inbox[i].op = "switch" => sw.active = <<d.switchB4, d.switchTo>>

AgreeInv ==
    /\ fails = 0
    /\ SoftwireView
    /\ PhaseView
    /\ RequestsView
    /\ AnswersView

\* Where the work the server is about to do stands: it is the current request,
\* or what its sender has since given up, and then the controller waits for a
\* hard switch or a recovery.
LEMMA ServedWork ==
    ASSUME Discipline, mbox # <<>>, Work(Head(mbox)), NEW result, NEW arg, Reply(result, arg),
           UNCHANGED d
    PROVE  /\ \/ Asked(d.gen, mbox, 1) /\ phase = PhaseOf(Head(mbox).op)
              \/ ~Asked(d.gen, mbox, 1) /\ phase \in {"Switching", "Recovering"}
           /\ NoneAnswered(d.gen, inbox)
           /\ timer \notin {"primed", "drainTick"}
           /\ \A i \in 1..Len(mbox') : Work(mbox'[i]) => mbox'[i].op \in {"switch", "recover"}
           /\ \A i \in 1..Len(inbox') :
                \/ i \in 1..Len(inbox) /\ inbox'[i] = inbox[i] /\ ~Answered(d.gen, inbox, i)'
                \/ /\ inbox'[i].op = Head(mbox).op /\ inbox'[i].result = result
                   /\ inbox'[i].arg = arg
                   /\ Answered(d.gen, inbox, i)' <=> Asked(d.gen, mbox, 1)
<1>A. /\ \A i \in 1..Len(mbox') : i + 1 \in 1..Len(mbox) /\ mbox'[i] = mbox[i + 1]
      /\ 1 \in 1..Len(mbox) /\ mbox[1] = Head(mbox)
      /\ \A i \in 1..Len(inbox') :
           \/ i \in 1..Len(inbox) /\ inbox'[i] = inbox[i]
           \/ /\ inbox'[i].op = Head(mbox).op /\ inbox'[i].gen = Head(mbox).gen
              /\ inbox'[i].result = result /\ inbox'[i].arg = arg
              /\ Head(mbox).live
  BY Zenon, AfterReply
<1>D. /\ Order(d.gen, mbox) /\ OneOut(phase, d.gen, mbox, inbox)
      /\ Timing(phase, d.gen, timer, disc, mbox, inbox)
  BY Zenon DEF Discipline, Disciplined
<1>1. PICK k \in 1..Len(mbox) : Asked(d.gen, mbox, k)
  BY Zenon, <1>A, <1>D DEF Order, NoneAsked
<1>2. NoneAnswered(d.gen, inbox)
  BY Zenon, <1>1, <1>D DEF OneOut
<1>3. timer \notin {"primed", "drainTick"}
  BY Zenon, <1>1, <1>D DEF Timing, NoneAsked
<1>4. ~Asked(d.gen, mbox, 1) => phase \in {"Switching", "Recovering"}
  <2> SUFFICES ASSUME ~Asked(d.gen, mbox, 1) PROVE phase \in {"Switching", "Recovering"}
    BY Zenon
  <2>1. k # 1 /\ 1 < k /\ Work(mbox[k])
    BY SMTT(30), <1>1 DEF Asked
  <2>2. mbox[k].op \in {"switch", "recover"}
    BY Zenon, <1>A, <1>D, <2>1 DEF Order
  <2>3. phase = PhaseOf(mbox[k].op)
    BY Zenon, <1>1, <1>D DEF OneOut
  <2> QED BY Zenon, <2>2, <2>3 DEF PhaseOf
<1>5. Asked(d.gen, mbox, 1) => phase = PhaseOf(Head(mbox).op)
  BY Zenon, <1>A, <1>D DEF OneOut
<1>6. ASSUME NEW i \in 1..Len(mbox'), Work(mbox'[i])
      PROVE  mbox'[i].op \in {"switch", "recover"}
  <2>1. i + 1 \in 1..Len(mbox) /\ mbox'[i] = mbox[i + 1] /\ 1 < i + 1
    BY SMTT(30), <1>A
  <2> QED BY Zenon, <1>6, <1>A, <1>D, <2>1 DEF Order
<1>7. ASSUME NEW i \in 1..Len(inbox')
      PROVE  \/ i \in 1..Len(inbox) /\ inbox'[i] = inbox[i] /\ ~Answered(d.gen, inbox, i)'
             \/ /\ inbox'[i].op = Head(mbox).op /\ inbox'[i].result = result
                /\ inbox'[i].arg = arg
                /\ Answered(d.gen, inbox, i)' <=> Asked(d.gen, mbox, 1)
  BY Zenon, <1>A, <1>2 DEF Answered, Asked, Work, NoneAnswered
<1> QED BY Zenon, <1>2, <1>3, <1>4, <1>5, <1>6, <1>7

\* Work done with success keeps AgreeInv if it leaves what its answer stands for.
LEMMA AgreeServed ==
    ASSUME Discipline, AgreeInv, mbox # <<>>, Work(Head(mbox)), NEW arg, Reply("ok", arg),
           UNCHANGED ctlvars, fails' = 0, SoftwireView',
           Asked(d.gen, mbox, 1) =>
             /\ Leaves(Head(mbox).op, dp'.state)
             /\ Head(mbox).op = "recover" => arg = sw'.active
             /\ Head(mbox).op = "switch" => sw'.active = <<d.switchB4, d.switchTo>>
             /\ PhaseView'
    PROVE  AgreeInv'
<1> DEFINE o == Head(mbox).op
<1>U. UNCHANGED <<phase, d, timer, disc>>
  BY Zenon DEF ctlvars
<1>S. /\ \/ Asked(d.gen, mbox, 1) /\ phase = PhaseOf(o)
         \/ ~Asked(d.gen, mbox, 1) /\ phase \in {"Switching", "Recovering"}
      /\ timer \notin {"primed", "drainTick"}
      /\ \A i \in 1..Len(mbox') : Work(mbox'[i]) => mbox'[i].op \in {"switch", "recover"}
      /\ \A i \in 1..Len(inbox') :
           \/ i \in 1..Len(inbox) /\ inbox'[i] = inbox[i] /\ ~Answered(d.gen, inbox, i)'
           \/ /\ inbox'[i].op = o /\ inbox'[i].result = "ok"
              /\ inbox'[i].arg = arg
              /\ Answered(d.gen, inbox, i)' <=> Asked(d.gen, mbox, 1)
  BY Zenon, <1>U, ServedWork
<1>A. \A i \in 1..Len(mbox') : i + 1 \in 1..Len(mbox) /\ mbox'[i] = mbox[i + 1]
  BY Zenon, AfterReply
<1> HIDE DEF o
<1>1. PhaseView'
  <2>1. CASE Asked(d.gen, mbox, 1)
    BY Zenon, <2>1
  <2>2. CASE ~Asked(d.gen, mbox, 1)
    BY Zenon, <2>2, <1>S, <1>U DEF PhaseView
  <2> QED BY Zenon, <2>1, <2>2
<1>2. RequestsView'
  <2> SUFFICES ASSUME NEW i \in 1..Len(mbox')
               PROVE  /\ Needs(mbox'[i].op, dp'.state)
                      /\ mbox'[i].op \in {"begin", "switch"} => Pair(mbox'[i].to)
                      /\ Asked(d.gen, mbox, i)' =>
                           /\ mbox'[i].op = "begin" => mbox'[i].to = <<d'.b4, d'.next>>
                           /\ mbox'[i].op = "switch" => mbox'[i].to = <<d'.switchB4, d'.switchTo>>
    BY Zenon DEF RequestsView
  <2>1. Needs(mbox'[i].op, dp'.state)
    BY Zenon, <1>S DEF Needs, Work
  <2>2. i + 1 \in 1..Len(mbox) /\ mbox'[i] = mbox[i + 1]
    BY Zenon, <1>A
  <2>3. Asked(d.gen, mbox, i)' => Asked(d.gen, mbox, i + 1)
    BY Zenon, <2>2, <1>U DEF Asked
  <2> QED BY Zenon, <2>1, <2>2, <2>3, <1>U DEF AgreeInv, RequestsView
<1>3. AnswersView'
  BY Zenon, <1>S, <1>U DEF AgreeInv, AnswersView, o
<1> QED BY Zenon, <1>1, <1>2, <1>3 DEF AgreeInv

\* The server's steps.
LEMMA AgreeServe ==
    ASSUME MaxFails = 0, SoftwireInv, Discipline, AgreeInv, Serve
    PROVE  AgreeInv'
<1> DEFINE to == Head(mbox).to
           h == Asked(d.gen, mbox, 1)
<1>X. PICK X : {None, to, sw.active} \subseteq X /\ dp \in Sound(X)
  BY Zenon, SoundFor
<1>D. UNCHANGED ctlvars /\ UNCHANGED d /\ mbox # <<>>
  BY Zenon DEF Serve, Serving, ServeRecover, ServeSource, ServeSwitch, ServeBegin, ServeCounts,
         ServeAbort, ServeCutover, ServeGC, ServeComplete, ctlvars
<1>M. 1 \in 1..Len(mbox) /\ mbox[1] = Head(mbox)
  BY SMTT(30), <1>D, QueueTail DEF Discipline, Disciplined, Shapes
<1>V. /\ fails = 0 /\ tun = sw.active /\ Pair(sw.active)
      /\ dp.state = "STEADY" => ~sw.migrating
      /\ dp.state = "PRIMING" => Pair(sw.target)
      /\ Needs(Head(mbox).op, dp.state)
      /\ Head(mbox).op \in {"begin", "switch"} => Pair(to)
      /\ h /\ Head(mbox).op = "begin" => to = <<d.b4, d.next>>
      /\ h /\ Head(mbox).op = "switch" => to = <<d.switchB4, d.switchTo>>
  BY Zenon, <1>M DEF AgreeInv, SoftwireView, RequestsView
<1>K. /\ sw = [active |-> sw.active, target |-> sw.target, migrating |-> sw.migrating]
      /\ dp.state # "STEADY" => sw.migrating
  BY Zenon, <1>X, SoundParts DEF SoftwireInv, MigrationKnown, States
\* No call fails, and the tunnel follows.
<1>F. /\ \A o : Happens(o) => o.result # "failed" /\ fails' = 0 /\ dp' = o.dp
      /\ \A ep : SetTunnel(ep) => tun' = ep
  BY <1>V DEF Happens, SetTunnel
<1>P. /\ PhaseView
      /\ h /\ Work(Head(mbox)) =>
           phase = PhaseOf(Head(mbox).op) /\ timer \notin {"primed", "drainTick"}
      /\ phase' = phase /\ timer' = timer /\ d' = d
  <2>1. h => phase = PhaseOf(Head(mbox).op) /\ ~NoneAsked(d.gen, mbox)
    BY Zenon, <1>M DEF Discipline, Disciplined, OneOut, NoneAsked
  <2>2. Timing(phase, d.gen, timer, disc, mbox, inbox)
    BY Zenon DEF Discipline, Disciplined
  <2> QED BY Zenon, <2>1, <2>2, <1>D DEF AgreeInv, ctlvars, Timing
<1> HIDE DEF to, h
<1>1. CASE ServeRecover
  <2>1. Head(mbox).op = "recover" /\ Work(Head(mbox))
    BY Zenon, <1>1 DEF ServeRecover, Serving, Work
  <2>2. /\ Reply("ok", sw.active) /\ fails' = 0 /\ sw'.active = sw.active /\ tun' = sw.active
        /\ dp'.state = "STEADY" /\ ~sw'.migrating
    <3>1. CASE ~sw.migrating
      <4>1. Reply("ok", sw.active) /\ UNCHANGED <<sw, tun, dp, fails>>
        BY Zenon, <1>1, <3>1 DEF ServeRecover
      <4> QED BY Zenon, <4>1, <3>1, <1>V, <1>K
    <3>2. CASE sw.migrating
      <4>1. PICK o \in L!SwitchAFTR(dp, sw.active) :
              /\ Happens(o) /\ Reply(o.result, sw.active)
              /\ o.result = "ok" => sw' = [sw EXCEPT !.migrating = FALSE] /\ SetTunnel(sw.active)
        BY Zenon, <1>1, <3>2 DEF ServeRecover
      <4>2. o.result = "ok" /\ dp'.state = "STEADY" /\ fails' = 0
        BY <4>1, <1>X, <1>F, SwitchLeaves
      <4>3. sw'.active = sw.active /\ ~sw'.migrating
        BY Zenon, <4>1, <4>2, <1>K
      <4> QED BY Zenon, <4>1, <4>2, <4>3, <1>F
    <3> QED BY Zenon, <3>1, <3>2
  <2>3. SoftwireView'
    BY Zenon, <2>2, <1>V DEF SoftwireView
  <2>4. h => PhaseView'
    BY Zenon, <2>1, <1>P DEF PhaseView, PhaseOf
  <2> QED BY Zenon, <2>1, <2>2, <2>3, <2>4, <1>D, AgreeServed DEF Leaves, h
<1>2. CASE ServeSwitch
  <2>1. Head(mbox).op = "switch" /\ Work(Head(mbox))
    BY Zenon, <1>2 DEF ServeSwitch, Serving, Work
  <2>2. PICK o \in L!SwitchAFTR(dp, to) :
          /\ Happens(o) /\ Reply(o.result, None)
          /\ o.result = "ok" => /\ sw' = [sw EXCEPT !.active = to, !.migrating = FALSE]
                                /\ SetTunnel(to)
    BY Zenon, <1>2 DEF ServeSwitch, to
  <2>3. o.result = "ok" /\ dp'.state = "STEADY" /\ fails' = 0
    BY <2>2, <1>X, <1>F, SwitchLeaves
  <2>4. sw'.active = to /\ ~sw'.migrating /\ tun' = to
    BY Zenon, <2>2, <2>3, <1>K, <1>F
  <2>5. SoftwireView'
    BY Zenon, <2>1, <2>3, <2>4, <1>V DEF SoftwireView
  <2>6. h => PhaseView'
    BY Zenon, <2>1, <1>P DEF PhaseView, PhaseOf
  <2> QED BY Zenon, <2>1, <2>2, <2>3, <2>4, <2>5, <2>6, <1>D, <1>V, AgreeServed DEF Leaves, h
<1>3. CASE ServeBegin
  <2>1. Head(mbox).op = "begin" /\ Work(Head(mbox)) /\ dp.state = "STEADY" /\ tun' = tun
    BY Zenon, <1>3, <1>V DEF ServeBegin, Serving, Work, Needs
  <2>2. PICK o \in L!BeginMigration(dp, to) :
          /\ Happens(o) /\ Reply(o.result, None)
          /\ o.result = "ok" => sw' = [sw EXCEPT !.target = to, !.migrating = TRUE]
    BY Zenon, <1>3 DEF ServeBegin, to
  <2>3. o.result = "ok" /\ dp'.state = "PRIMING" /\ fails' = 0
    BY <2>1, <2>2, <1>X, <1>F, BeginLeaves
  <2>4. sw'.active = sw.active /\ sw'.target = to
    BY Zenon, <2>2, <2>3, <1>K
  <2>5. SoftwireView'
    BY Zenon, <2>1, <2>3, <2>4, <1>V DEF SoftwireView
  <2>6. h => PhaseView'
    BY Zenon, <2>1, <2>3, <2>4, <1>P, <1>V DEF PhaseView, PhaseOf
  <2> QED BY Zenon, <2>1, <2>2, <2>3, <2>5, <2>6, <1>D, AgreeServed DEF Leaves, h
<1>4. CASE ServeCounts
  <2>1. /\ Head(mbox).op = "counts" /\ Work(Head(mbox)) /\ dp.state = "PRIMING"
        /\ UNCHANGED <<sw, tun, dp>>
    BY Zenon, <1>4, <1>V DEF ServeCounts, Serving, Work, Needs, swvars
  <2>2. Reply("ok", lost) /\ fails' = 0
    BY SMTT(30), <1>4, <1>V DEF ServeCounts
  <2>3. SoftwireView' /\ PhaseView'
    BY Zenon, <2>1, <1>V, <1>P DEF SoftwireView, PhaseView
  <2> QED BY Zenon, <2>1, <2>2, <2>3, <1>D, AgreeServed DEF Leaves, h
<1>5. CASE ServeAbort
  <2>1. Head(mbox).op = "abort" /\ Work(Head(mbox)) /\ dp.state = "PRIMING" /\ tun' = tun
    BY Zenon, <1>5, <1>V DEF ServeAbort, Serving, Work, Needs
  <2>2. PICK o \in L!AbortMigration(dp) :
          /\ Happens(o) /\ Reply(o.result, None)
          /\ o.result = "ok" => sw' = [sw EXCEPT !.migrating = FALSE]
    BY Zenon, <1>5 DEF ServeAbort
  <2>3. o.result = "ok" /\ dp'.state = "STEADY" /\ fails' = 0
    BY <2>1, <2>2, <1>X, <1>F, AbortLeaves
  <2>4. sw'.active = sw.active /\ ~sw'.migrating
    BY Zenon, <2>2, <2>3, <1>K
  <2>5. SoftwireView'
    BY Zenon, <2>1, <2>3, <2>4, <1>V DEF SoftwireView
  <2>6. h => PhaseView'
    BY Zenon, <2>1, <2>3, <2>4, <1>P DEF PhaseView, PhaseOf
  <2> QED BY Zenon, <2>1, <2>2, <2>3, <2>5, <2>6, <1>D, AgreeServed DEF Leaves, h
<1>6. CASE ServeCutover
  <2>1. Head(mbox).op = "cutover" /\ Work(Head(mbox)) /\ dp.state = "PRIMING"
    BY Zenon, <1>6, <1>V DEF ServeCutover, Serving, Work, Needs
  <2>2. PICK o \in L!Cutover(dp) :
          /\ Happens(o) /\ Reply(o.result, None)
          /\ o.result = "ok" => sw' = [sw EXCEPT !.active = sw.target] /\ SetTunnel(sw.target)
    BY Zenon, <1>6 DEF ServeCutover
  <2>3. o.result = "ok" /\ dp'.state = "DRAINING" /\ fails' = 0
    BY <2>1, <2>2, <1>X, <1>F, CutoverLeaves
  <2>4. sw'.active = sw.target /\ tun' = sw.target
    BY Zenon, <2>2, <2>3, <1>K, <1>F
  <2>5. SoftwireView'
    BY Zenon, <2>1, <2>3, <2>4, <1>V DEF SoftwireView
  <2>6. h => PhaseView'
    BY Zenon, <2>1, <2>3, <2>4, <1>P DEF PhaseView, PhaseOf
  <2> QED BY Zenon, <2>1, <2>2, <2>3, <2>5, <2>6, <1>D, AgreeServed DEF Leaves, h
<1>7. CASE ServeGC
  <2>1. /\ Head(mbox).op = "gc" /\ Work(Head(mbox)) /\ dp.state = "DRAINING"
        /\ UNCHANGED <<sw, tun, dp>>
    BY Zenon, <1>7, <1>V DEF ServeGC, Serving, Work, Needs, swvars
  <2>2. fails' = 0 /\ \E arg : Reply("ok", arg)
    BY SMTT(30), <1>7, <1>V DEF ServeGC
  <2>3. SoftwireView' /\ PhaseView'
    BY Zenon, <2>1, <1>V, <1>P DEF SoftwireView, PhaseView
  <2> QED BY Zenon, <2>1, <2>2, <2>3, <1>D, AgreeServed DEF Leaves, h
<1>8. CASE ServeComplete
  <2>1. Head(mbox).op = "complete" /\ Work(Head(mbox)) /\ dp.state = "DRAINING" /\ tun' = tun
    BY Zenon, <1>8, <1>V DEF ServeComplete, Serving, Work, Needs
  <2>2. PICK o \in L!CompleteMigration(dp) :
          /\ Happens(o) /\ Reply(o.result, None)
          /\ o.result = "ok" => sw' = [sw EXCEPT !.migrating = FALSE]
    BY Zenon, <1>8 DEF ServeComplete
  <2>3. o.result = "ok" /\ dp'.state = "STEADY" /\ fails' = 0
    BY SMTT(30), <2>1, <2>2, <1>X, <1>F, CompleteLeaves
  <2>4. sw'.active = sw.active /\ ~sw'.migrating
    BY <2>2, <2>3, <1>K
  <2>5. SoftwireView'
    BY Zenon, <2>1, <2>3, <2>4, <1>V DEF SoftwireView
  <2>6. h => PhaseView'
    BY Zenon, <2>1, <2>3, <2>4, <1>P DEF PhaseView, PhaseOf
  <2> QED BY Zenon, <2>1, <2>2, <2>3, <2>5, <2>6, <1>D, AgreeServed DEF Leaves, h
\* A poll is answered: nothing else changes.
<1>9. CASE ServeSource
  <2>1. /\ Head(mbox).op = "source" /\ Reply("ok", src) /\ UNCHANGED <<sw, tun, dp, fails>>
    BY Zenon, <1>9 DEF ServeSource, Serving, swvars, envvars
  <2>2. /\ \A i \in 1..Len(mbox') : i + 1 \in 1..Len(mbox) /\ mbox'[i] = mbox[i + 1]
        /\ \A i \in 1..Len(inbox') :
             \/ i \in 1..Len(inbox) /\ inbox'[i] = inbox[i]
             \/ inbox'[i].op = "source" /\ inbox'[i].result = "ok"
    BY Zenon, <2>1, <1>D, AfterReply
  <2>3. RequestsView'
    BY <2>1, <2>2, <1>P DEF AgreeInv, RequestsView, Asked
  <2>4. AnswersView'
    BY Zenon, <2>1, <2>2, <1>P DEF AgreeInv, AnswersView, Answered, Work
  <2> QED BY Zenon, <2>1, <2>3, <2>4, <1>V, <1>P DEF AgreeInv, SoftwireView, PhaseView
<1> QED BY Zenon, <1>1, <1>2, <1>3, <1>4, <1>5, <1>6, <1>7, <1>8, <1>9 DEF Serve

\* The current answer is taken: nothing is out any more, and the controller may
\* send request o, if the datapath is where o needs it.
LEMMA AgreeTaken ==
    ASSUME Discipline, AgreeInv, inbox # <<>>, Work(Head(inbox)), Head(inbox).gen = d.gen,
           inbox' = Tail(inbox), UNCHANGED <<sw, tun, dp, fails>>, PhaseView', d'.gen = d.gen,
           NEW o, o \notin {"begin", "switch"}, Needs(o, dp.state),
           mbox' = mbox \/ mbox' = Append(mbox, Request(o, d.gen, None))
    PROVE  AgreeInv'
<1>Q. Queue(mbox) /\ Queue(inbox)
  BY Zenon DEF Discipline, Disciplined, Shapes
<1>T. NoneAsked(d.gen, mbox) /\ NoneAnswered(d.gen, Tail(inbox))
  BY Zenon, Takes DEF Discipline
<1>1. \A i \in 1..Len(mbox') :
        \/ i \in 1..Len(mbox) /\ mbox'[i] = mbox[i]
        \/ mbox'[i].op = o
  BY <1>Q, QueueAppend DEF Request
<1>2. RequestsView'
  <2> SUFFICES ASSUME NEW i \in 1..Len(mbox')
               PROVE  /\ Needs(mbox'[i].op, dp.state)
                      /\ mbox'[i].op \in {"begin", "switch"} => Pair(mbox'[i].to)
                      /\ Asked(d.gen, mbox, i)' => mbox'[i].op \notin {"begin", "switch"}
    BY Zenon DEF RequestsView
  <2>1. CASE mbox'[i].op = o
    BY Zenon, <2>1
  <2>2. CASE i \in 1..Len(mbox) /\ mbox'[i] = mbox[i]
    <3>1. ~Asked(d.gen, mbox, i)'
      BY Zenon, <2>2, <1>T DEF NoneAsked, Asked
    <3> QED BY Zenon, <2>2, <3>1 DEF AgreeInv, RequestsView
  <2> QED BY Zenon, <1>1, <2>1, <2>2
<1>3. AnswersView'
  <2>1. \A i \in 1..Len(inbox') : inbox'[i].result = "ok"
    BY <1>Q, QueueTail DEF AgreeInv, AnswersView
  <2>2. \A i \in 1..Len(inbox') : ~Answered(d.gen, inbox, i)'
    BY Zenon, <1>T DEF NoneAnswered, Answered
  <2> QED BY Zenon, <2>1, <2>2 DEF AnswersView
<1> QED BY Zenon, <1>2, <1>3 DEF AgreeInv, SoftwireView

\* The controller's handlers.
LEMMA AgreeReceive ==
    ASSUME Discipline, AgreeInv, Receive
    PROVE  AgreeInv'
<1>I. IsData(d) /\ Queue(mbox) /\ Queue(inbox)
  BY Zenon DEF Discipline, Disciplined, Shapes
<1>V. PhaseView
  BY Zenon DEF AgreeInv
<1>D. inbox # <<>> /\ UNCHANGED <<sw, tun, dp, fails>>
  BY Zenon DEF Receive, DropStale, GotRecover, GotSource, GotSwitch, GotBegin, GotCounts, GotCutover,
         GotAbort, GotGC, GotComplete, Got, swvars, envvars
<1>H. 1 \in 1..Len(inbox) /\ inbox[1] = Head(inbox)
  BY <1>D, <1>I, QueueTail
<1>O. Ok
  BY Zenon, <1>H DEF AgreeInv, AnswersView, Ok
\* What the current answer stands for.
<1>A. Work(Head(inbox)) /\ Head(inbox).gen = d.gen =>
        /\ Leaves(Head(inbox).op, dp.state)
        /\ Head(inbox).op = "recover" => Head(inbox).arg = sw.active
        /\ Head(inbox).op = "switch" => sw.active = <<d.switchB4, d.switchTo>>
        /\ phase = PhaseOf(Head(inbox).op)
        /\ timer \notin {"primed", "drainTick", "refresh"}
  <2>1. Work(Head(inbox)) /\ Head(inbox).gen = d.gen =>
          /\ phase = PhaseOf(Head(inbox).op)
          /\ timer \notin {"primed", "drainTick", "refresh"}
    BY Zenon, <1>D, Takes DEF Discipline
  <2> QED BY Zenon, <2>1, <1>H DEF AgreeInv, AnswersView, Answered
<1>1. CASE DropStale
  <2>1. inbox' = Tail(inbox) /\ UNCHANGED <<phase, timer, d, mbox>>
    BY Zenon, <1>1 DEF DropStale, Taken, ctlvars
  <2>2. AnswersView'
    BY <2>1, <1>D, <1>I, QueueTail DEF AgreeInv, AnswersView, Answered
  <2> QED BY Zenon, <2>1, <2>2, <1>D DEF AgreeInv, SoftwireView, PhaseView, RequestsView, Asked
<1>2. CASE GotRecover
  <2>1. /\ Work(Head(inbox)) /\ Head(inbox).gen = d.gen /\ Head(inbox).op = "recover"
        /\ inbox' = Tail(inbox) /\ mbox' = mbox /\ Goto("Steady")
        /\ d' = [d EXCEPT !.b4 = Head(inbox).arg[1], !.cur = Head(inbox).arg[2]]
    BY Zenon, <1>2, <1>O DEF GotRecover, Got, Work, Taken
  <2>2. d'.gen = d.gen /\ d'.b4 = sw.active[1] /\ d'.cur = sw.active[2]
    BY Zenon, <2>1, <1>A, <1>I DEF IsData
  <2>3. sw.active = <<d'.b4, d'.cur>> /\ dp.state = "STEADY"
    BY Zenon, <2>1, <2>2, <1>A DEF AgreeInv, SoftwireView, Pair, Leaves
  <2>4. PhaseView'
    BY <2>1, <2>3, <1>D, TimerOf DEF PhaseView
  <2> QED BY Zenon, <2>1, <2>2, <2>4, <1>D, AgreeTaken DEF Needs
<1>3. CASE GotSource
  <2>1. CASE Head(inbox).arg \notin B4s \ {d.b4}
    <3>1. inbox' = Tail(inbox) /\ UNCHANGED <<phase, timer, d, mbox>>
      BY Zenon, <1>3, <2>1 DEF GotSource, Taken
    <3>2. AnswersView'
      BY <3>1, <1>D, <1>I, QueueTail DEF AgreeInv, AnswersView, Answered
    <3> QED BY <3>1, <3>2, <1>D DEF AgreeInv, SoftwireView, PhaseView, RequestsView, Asked
  <2>2. CASE Head(inbox).arg \in B4s \ {d.b4}
    <3> DEFINE b == Head(inbox).arg
               x == HardSwitchTo
               r == Request("switch", d.gen + 1, <<b, x>>)
    <3>1. /\ Goto("Switching") /\ inbox' = Tail(inbox) /\ mbox' = Append(mbox, r)
          /\ d' = [d EXCEPT !.gen = d.gen + 1, !.switchB4 = b, !.switchTo = x, !.next = None]
      BY Zenon, <1>3, <2>2 DEF GotSource, HardSwitch, Send, Taken
    <3>R. r.op = "switch" /\ r.to = <<b, x>> /\ Pair(r.to)
      BY Zenon DEF Request, Pair
    <3> HIDE DEF b, x, r
    <3>2. d'.gen = d.gen + 1 /\ d'.switchB4 = b /\ d'.switchTo = x /\ d.gen \in Nat
      BY Zenon, <3>1, <1>I DEF IsData, Discipline, Disciplined
    <3>3. PhaseView'
      BY <3>1, TimerOf DEF PhaseView
    <3>4. \A i \in 1..Len(mbox') :
            \/ i \in 1..Len(mbox) /\ mbox'[i] = mbox[i]
            \/ mbox'[i] = r
      BY SMTT(30), <3>1, <1>I, QueueAppend
    <3>5. RequestsView'
      <4> SUFFICES ASSUME NEW i \in 1..Len(mbox')
                   PROVE  /\ Needs(mbox'[i].op, dp.state)
                          /\ mbox'[i].op \in {"begin", "switch"} => Pair(mbox'[i].to)
                          /\ Asked(d.gen, mbox, i)' => /\ mbox'[i].op # "begin"
                                                       /\ mbox'[i].to = <<d'.switchB4, d'.switchTo>>
        BY Zenon, <1>D DEF RequestsView
      <4>1. CASE mbox'[i] = r
        BY Zenon, <4>1, <3>R, <3>2 DEF Needs
      <4>2. CASE i \in 1..Len(mbox) /\ mbox'[i] = mbox[i]
        <5>1. ~Asked(d.gen, mbox, i)'
          BY SMTT(30), <4>2, <3>2 DEF Asked, Discipline, Disciplined, Ages, Shapes
        <5> QED BY Zenon, <4>2, <5>1 DEF AgreeInv, RequestsView
      <4> QED BY Zenon, <3>4, <4>1, <4>2
    <3>6. AnswersView'
      <4>1. \A i \in 1..Len(inbox') : i + 1 \in 1..Len(inbox) /\ inbox'[i] = inbox[i + 1]
        BY Zenon, <3>1, <1>D, <1>I, QueueTail
      <4>2. \A i \in 1..Len(inbox') : ~Answered(d.gen, inbox, i)'
        BY <4>1, <3>2 DEF Answered, Discipline, Disciplined, Ages, Shapes
      <4> QED BY Zenon, <4>1, <4>2 DEF AgreeInv, AnswersView
    <3> QED BY Zenon, <3>3, <3>5, <3>6, <1>D DEF AgreeInv, SoftwireView
  <2> QED BY Zenon, <2>1, <2>2
<1>4. CASE GotSwitch
  <2>1. /\ Work(Head(inbox)) /\ Head(inbox).gen = d.gen /\ Head(inbox).op = "switch"
        /\ inbox' = Tail(inbox) /\ mbox' = mbox /\ Goto("Steady")
        /\ d' = [d EXCEPT !.b4 = d.switchB4, !.cur = d.switchTo]
    BY Zenon, <1>4, <1>O DEF GotSwitch, Got, Work, Taken
  <2>2. d'.gen = d.gen /\ d'.b4 = d.switchB4 /\ d'.cur = d.switchTo
    BY Zenon, <2>1, <1>I DEF IsData
  <2>3. PhaseView'
    BY <2>1, <2>2, <1>A, <1>D, TimerOf DEF PhaseView, Leaves
  <2>4. Needs("source", dp.state) /\ "source" \notin {"begin", "switch"}
    BY Zenon DEF Needs
  <2> QED BY Zenon, <2>1, <2>2, <2>3, <2>4, <1>D, AgreeTaken
<1>5. CASE GotBegin
  <2>1. /\ Work(Head(inbox)) /\ Head(inbox).gen = d.gen /\ Head(inbox).op = "begin"
        /\ inbox' = Tail(inbox) /\ timer' = "primed" /\ UNCHANGED <<phase, d, mbox>>
    BY Zenon, <1>5, <1>O DEF GotBegin, Got, Work, Taken
  <2>2. PhaseView'
    BY Zenon, <2>1, <1>A, <1>D, <1>V DEF PhaseView, Leaves, PhaseOf
  <2> QED BY Zenon, <2>1, <2>2, <1>D, AgreeTaken DEF Needs
<1>6. CASE GotCounts
  <2>1. /\ Work(Head(inbox)) /\ Head(inbox).gen = d.gen /\ Head(inbox).op = "counts"
        /\ inbox' = Tail(inbox)
    BY Zenon, <1>6 DEF GotCounts, Got, Work, Taken
  <2>2. dp.state = "PRIMING" /\ phase = "Priming"
    BY Zenon, <2>1, <1>A DEF Leaves, PhaseOf
  <2>3. CASE Abort("counts") \/ Abort("")
    <3>1. PICK why : Abort(why)
      BY Zenon, <2>3
    <3>2. /\ d' = [d EXCEPT !.why = why] /\ mbox' = Append(mbox, Request("abort", d.gen, None))
          /\ Goto("Priming")
      BY Zenon, <3>1 DEF Abort, Send
    <3>3. d'.gen = d.gen /\ d'.b4 = d.b4 /\ d'.cur = d.cur /\ d'.next = d.next
      BY Zenon, <3>2, <1>I DEF IsData
    <3>4. phase' = phase /\ timer' = timer
      BY Zenon, <2>2, <3>2, TimerOf
    <3>5. PhaseView'
      BY Zenon, <3>3, <3>4, <1>D, <1>V DEF PhaseView
    <3> QED BY <2>1, <2>2, <3>2, <3>3, <3>5, <1>D, AgreeTaken DEF Needs
  <2>4. CASE ~(Abort("counts") \/ Abort(""))
    <3>1. mbox' = Append(mbox, Request("cutover", d.gen, None)) /\ UNCHANGED <<phase, timer, d>>
      BY Zenon, <1>6, <2>4 DEF GotCounts, Send
    <3>2. PhaseView'
      BY Zenon, <3>1, <1>D, <1>V DEF PhaseView
    <3> QED BY <2>1, <2>2, <3>1, <3>2, <1>D, AgreeTaken DEF Needs
  <2> QED BY Zenon, <2>3, <2>4
<1>7. CASE GotCutover
  <2>1. /\ Work(Head(inbox)) /\ Head(inbox).gen = d.gen /\ Head(inbox).op = "cutover"
        /\ inbox' = Tail(inbox) /\ mbox' = mbox /\ Goto("Draining")
        /\ d' = [d EXCEPT !.cap = FALSE]
    BY Zenon, <1>7, <1>O DEF GotCutover, Got, Work, Taken
  <2>2. d'.gen = d.gen /\ d'.b4 = d.b4 /\ d'.next = d.next
    BY Zenon, <2>1, <1>I DEF IsData
  <2>3. PhaseView'
    BY <2>1, <2>2, <1>A, <1>D, <1>V, TimerOf DEF PhaseView, Leaves, PhaseOf
  <2> QED BY Zenon, <2>1, <2>2, <2>3, <1>D, AgreeTaken DEF Needs
<1>8. CASE GotAbort
  <2>1. /\ Work(Head(inbox)) /\ Head(inbox).gen = d.gen /\ Head(inbox).op = "abort"
        /\ inbox' = Tail(inbox) /\ mbox' = mbox /\ Goto("Steady")
        /\ d' = d \/ d' = [d EXCEPT !.next = None]
    BY Zenon, <1>8 DEF GotAbort, MigrationFailed, Got, Work, Taken
  <2>2. d'.gen = d.gen /\ d'.b4 = d.b4 /\ d'.cur = d.cur
    BY Zenon, <2>1, <1>I DEF IsData
  <2>3. PhaseView'
    BY <2>1, <2>2, <1>A, <1>D, <1>V, TimerOf DEF PhaseView, Leaves, PhaseOf
  <2> QED BY Zenon, <2>1, <2>2, <2>3, <1>D, AgreeTaken DEF Needs
<1>9. CASE GotGC
  <2>1. /\ Work(Head(inbox)) /\ Head(inbox).gen = d.gen /\ Head(inbox).op = "gc"
        /\ inbox' = Tail(inbox) /\ UNCHANGED <<phase, d>>
        /\ \/ timer' = "drainTick" /\ mbox' = mbox
           \/ timer' = timer /\ mbox' = Append(mbox, Request("complete", d.gen, None))
    BY Zenon, <1>9 DEF GotGC, Got, Work, Taken, Send
  <2>2. PhaseView' /\ dp.state = "DRAINING"
    BY Zenon, <2>1, <1>A, <1>D, <1>V DEF PhaseView, Leaves
  <2>3. Needs("complete", dp.state) /\ "complete" \notin {"begin", "switch"} /\ d'.gen = d.gen
    BY Zenon, <2>1, <2>2 DEF Needs
  <2>4. mbox' = mbox \/ mbox' = Append(mbox, Request("complete", d.gen, None))
    BY Zenon, <2>1
  <2> QED BY Zenon, <2>1, <2>2, <2>3, <2>4, <1>D, AgreeTaken
<1>10. CASE GotComplete
  <2>1. /\ Work(Head(inbox)) /\ Head(inbox).gen = d.gen /\ Head(inbox).op = "complete"
        /\ inbox' = Tail(inbox) /\ mbox' = mbox /\ Goto("Steady")
        /\ d' = [d EXCEPT !.cur = d.next, !.next = None]
    BY Zenon, <1>10, <1>O DEF GotComplete, Got, Work, Taken
  <2>2. d'.gen = d.gen /\ d'.b4 = d.b4 /\ d'.cur = d.next
    BY Zenon, <2>1, <1>I DEF IsData
  <2>3. PhaseView'
    BY <2>1, <2>2, <1>A, <1>D, <1>V, TimerOf DEF PhaseView, Leaves, PhaseOf
  <2> QED BY Zenon, <2>1, <2>2, <2>3, <1>D, AgreeTaken DEF Needs
<1> QED BY Zenon, <1>1, <1>2, <1>3, <1>4, <1>5, <1>6, <1>7, <1>8, <1>9, <1>10 DEF Receive

\* The controller sends request o of its own accord, or only changes phase.
LEMMA AgreeSent ==
    ASSUME Discipline, AgreeInv, UNCHANGED <<inbox, sw, tun, dp, fails>>, PhaseView',
           d'.gen = d.gen, d'.b4 = d.b4, d'.next = d.next,
           d'.switchB4 = d.switchB4, d'.switchTo = d.switchTo,
           NEW o, o \notin {"begin", "switch"}, Needs(o, dp.state),
           mbox' = mbox \/ mbox' = Append(mbox, Request(o, d.gen, None))
    PROVE  AgreeInv'
<1>Q. Queue(mbox)
  BY Zenon DEF Discipline, Disciplined, Shapes
<1>1. \A i \in 1..Len(mbox') :
        \/ i \in 1..Len(mbox) /\ mbox'[i] = mbox[i]
        \/ mbox'[i].op = o
  BY SMTT(30), <1>Q, QueueAppend DEF Request
<1>2. RequestsView'
  <2> SUFFICES ASSUME NEW i \in 1..Len(mbox')
               PROVE  /\ Needs(mbox'[i].op, dp.state)
                      /\ mbox'[i].op \in {"begin", "switch"} => Pair(mbox'[i].to)
                      /\ Asked(d.gen, mbox, i)' =>
                           /\ mbox'[i].op = "begin" => mbox'[i].to = <<d.b4, d.next>>
                           /\ mbox'[i].op = "switch" => mbox'[i].to = <<d.switchB4, d.switchTo>>
    BY Zenon DEF RequestsView
  <2>1. CASE mbox'[i].op = o
    BY Zenon, <2>1
  <2>2. CASE i \in 1..Len(mbox) /\ mbox'[i] = mbox[i]
    BY Zenon, <2>2 DEF AgreeInv, RequestsView, Asked
  <2> QED BY Zenon, <1>1, <2>1, <2>2
<1>3. AnswersView'
  BY Zenon DEF AgreeInv, AnswersView, Answered
<1> QED BY Zenon, <1>2, <1>3 DEF AgreeInv, SoftwireView

\* A restart: what the crashed controller asked for is still served, to no one.
LEMMA AgreeStart ==
    ASSUME Discipline, AgreeInv, NEW q, Start(q), q \in {mbox, <<>>},
           UNCHANGED <<sw, tun, dp, fails>>
    PROVE  AgreeInv'
<1>1. phase' = "Recovering" /\ timer' \notin {"primed", "drainTick"}
  BY TimerOf DEF Start
<1>2. PhaseView'
  BY Zenon, <1>1 DEF PhaseView
<1> DEFINE r == Request("recover", 0, None)
<1>3. r.op = "recover"
  BY Zenon DEF Request
<1>4. /\ Len(inbox') = 0
      /\ \A i \in 1..Len(mbox') :
           \/ \E j \in 1..Len(mbox) : /\ mbox'[i].op = mbox[j].op
                                      /\ mbox'[i].to = mbox[j].to
                                      /\ mbox'[i].live = FALSE
           \/ mbox'[i] = r
  BY Zenon, AfterStart
<1> HIDE DEF r
<1>5. RequestsView'
  <2> SUFFICES ASSUME NEW i \in 1..Len(mbox')
               PROVE  /\ Needs(mbox'[i].op, dp.state)
                      /\ mbox'[i].op \in {"begin", "switch"} => Pair(mbox'[i].to)
                      /\ Asked(d.gen, mbox, i)' => mbox'[i].op \notin {"begin", "switch"}
    BY Zenon DEF RequestsView
  <2>1. CASE mbox'[i] = r
    BY Zenon, <2>1, <1>3 DEF Needs
  <2>2. CASE \E j \in 1..Len(mbox) : /\ mbox'[i].op = mbox[j].op
                                     /\ mbox'[i].to = mbox[j].to
                                     /\ mbox'[i].live = FALSE
    BY Zenon, <2>2 DEF AgreeInv, RequestsView, Asked
  <2> QED BY Zenon, <1>4, <2>1, <2>2
<1>6. AnswersView'
  <2>1. \A i \in 1..Len(inbox') : FALSE
    BY <1>4
  <2> QED BY Zenon, <2>1 DEF AnswersView
<1> QED BY Zenon, <1>2, <1>5, <1>6 DEF AgreeInv, SoftwireView

\* The controller's timers, its discovery, and the environment.
LEMMA AgreeOther ==
    ASSUME Discipline, AgreeInv, [Next]_vars, ~Serve, ~Receive
    PROVE  AgreeInv'
<1>I. IsData(d) /\ Queue(mbox) /\ Disciplined(phase, d.gen, timer, disc, mbox, inbox)
  BY Zenon DEF Discipline, Disciplined, Shapes
<1>V. PhaseView
  BY Zenon DEF AgreeInv
<1>N. phase \in {"Steady", "Discovering"} => NoneAsked(d.gen, mbox)
  BY Zenon, <1>I DEF Disciplined, OneOut, NoneAsked, NoneAnswered, PhaseOf
<1>S. Needs("source", dp.state)
  BY Zenon DEF Needs
<1>1. CASE Refresh
  <2>1. Goto("Discovering") /\ UNCHANGED <<d, mbox, inbox, sw, tun, dp, fails>> /\ phase = "Steady"
    BY Zenon, <1>1, <1>I DEF Refresh, Disciplined, Timing, swvars, envvars
  <2>2. PhaseView'
    BY <2>1, <1>V, TimerOf DEF PhaseView
  <2> QED BY Zenon, <2>1, <2>2, <1>S, AgreeSent
<1>2. CASE Primed
  <2>1. /\ timer = "primed" /\ timer' = "none" /\ mbox' = Append(mbox, Request("counts", d.gen, None))
        /\ UNCHANGED <<phase, d, inbox, sw, tun, dp, fails>>
    BY Zenon, <1>2 DEF Primed, Send, swvars, envvars
  <2>2. PhaseView' /\ Needs("counts", dp.state)
    BY Zenon, <2>1, <1>V DEF PhaseView, Needs
  <2> QED BY Zenon, <2>1, <2>2, AgreeSent
<1>3. CASE DrainTick
  <2>1. /\ timer = "drainTick" /\ timer' = "none" /\ mbox' = Append(mbox, Request("gc", d.gen, None))
        /\ UNCHANGED <<phase, d, inbox, sw, tun, dp, fails>>
    BY Zenon, <1>3 DEF DrainTick, Send, swvars, envvars
  <2>2. PhaseView' /\ Needs("gc", dp.state)
    BY Zenon, <2>1, <1>V DEF PhaseView, Needs
  <2> QED BY Zenon, <2>1, <2>2, AgreeSent
<1>4. CASE DrainCap
  <2>1. /\ d' = d \/ d' = [d EXCEPT !.cap = TRUE]
        /\ UNCHANGED <<phase, timer, mbox, inbox, sw, tun, dp, fails>>
    BY Zenon, <1>4 DEF DrainCap, swvars, envvars
  <2>2. /\ d'.gen = d.gen /\ d'.b4 = d.b4 /\ d'.cur = d.cur /\ d'.next = d.next
        /\ d'.switchB4 = d.switchB4 /\ d'.switchTo = d.switchTo
    BY Zenon, <2>1, <1>I DEF IsData
  <2>3. PhaseView'
    BY Zenon, <2>1, <2>2, <1>V DEF PhaseView
  <2> QED BY Zenon, <2>1, <2>2, <2>3, <1>S, AgreeSent
<1>5. CASE B4Poll
  <2>1. /\ mbox' = Append(mbox, Request("source", d.gen, None))
        /\ UNCHANGED <<phase, timer, d, inbox, sw, tun, dp, fails>>
    BY Zenon, <1>5 DEF B4Poll, Send, ctlvars, swvars, envvars
  <2>2. PhaseView'
    BY Zenon, <2>1, <1>V DEF PhaseView
  <2> QED BY Zenon, <2>1, <2>2, <1>S, AgreeSent
<1>6. CASE Discovery
  <2>1. PICK aftr \in AFTRs \cup {None} : Discovered(aftr)
    BY Zenon, <1>6 DEF Discovery
  <2>2. phase = "Discovering" /\ UNCHANGED <<inbox, sw, tun, dp, fails>>
    BY Zenon, <2>1, <1>I DEF Discovered, Disciplined, Timing, swvars, envvars
  <2>3. CASE aftr \in {None, d.cur}
    <3>1. Goto("Steady") /\ d' = d /\ mbox' = mbox
      BY Zenon, <2>1, <2>3 DEF Discovered
    <3>2. PhaseView'
      BY SMTT(30), <2>2, <3>1, <1>V, TimerOf DEF PhaseView
    <3> QED BY Zenon, <2>2, <3>1, <3>2, <1>S, AgreeSent
  <2>4. CASE aftr \notin {None, d.cur}
    <3> DEFINE r == Request("begin", d.gen, <<d.b4, aftr>>)
    <3>1. /\ Goto("Priming") /\ d' = [d EXCEPT !.next = aftr, !.mig = d.mig + 1]
          /\ mbox' = Append(mbox, r)
      BY Zenon, <2>1, <2>4 DEF Discovered, Send
    <3>R. r.op = "begin" /\ r.to = <<d.b4, aftr>> /\ Pair(r.to)
      BY Zenon DEF Request, Pair
    <3> HIDE DEF r
    <3>2. /\ d'.gen = d.gen /\ d'.b4 = d.b4 /\ d'.cur = d.cur /\ d'.next = aftr
          /\ d'.switchB4 = d.switchB4 /\ d'.switchTo = d.switchTo
      BY Zenon, <3>1, <1>I DEF IsData
    <3>3. PhaseView'
      BY <2>2, <3>1, <3>2, <1>V, TimerOf DEF PhaseView
    <3>4. \A i \in 1..Len(mbox') :
            \/ i \in 1..Len(mbox) /\ mbox'[i] = mbox[i]
            \/ mbox'[i] = r
      BY SMTT(30), <3>1, <1>I, QueueAppend
    <3>5. RequestsView'
      <4> SUFFICES ASSUME NEW i \in 1..Len(mbox')
                   PROVE  /\ Needs(mbox'[i].op, dp.state)
                          /\ mbox'[i].op \in {"begin", "switch"} => Pair(mbox'[i].to)
                          /\ Asked(d.gen, mbox, i)' => /\ mbox'[i].op # "switch"
                                                       /\ mbox'[i].to = <<d'.b4, d'.next>>
        BY Zenon, <2>2 DEF RequestsView
      <4>1. CASE mbox'[i] = r
        BY Zenon, <4>1, <3>R, <3>2, <2>2, <1>V DEF Needs, PhaseView
      <4>2. CASE i \in 1..Len(mbox) /\ mbox'[i] = mbox[i]
        <5>1. ~Asked(d.gen, mbox, i)'
          BY Zenon, <4>2, <3>2, <2>2, <1>N DEF Asked, NoneAsked
        <5> QED BY Zenon, <4>2, <5>1 DEF AgreeInv, RequestsView
      <4> QED BY Zenon, <3>4, <4>1, <4>2
    <3>6. AnswersView'
      BY Zenon, <2>2, <3>2 DEF AgreeInv, AnswersView, Answered
    <3> QED BY Zenon, <3>3, <3>5, <3>6, <2>2 DEF AgreeInv, SoftwireView
  <2> QED BY Zenon, <2>3, <2>4
<1>7. CASE ControllerCrash \/ ServerCrash
  <2>1. (Start(mbox) \/ Start(<<>>)) /\ UNCHANGED <<sw, tun, dp, fails>>
    BY Zenon, <1>7 DEF ControllerCrash, ServerCrash, swvars
  <2> QED BY Zenon, <2>1, AgreeStart
<1>8. CASE SourceMoves \/ FlowLost \/ UNCHANGED vars
  <2>1. UNCHANGED <<phase, timer, d, mbox, inbox, sw, tun, dp, fails>>
    BY Zenon, <1>8 DEF SourceMoves, FlowLost, vars, ctlvars, swvars, envvars
  <2>2. PhaseView'
    BY Zenon, <2>1, <1>V DEF PhaseView
  <2> QED BY Zenon, <2>1, <2>2, <1>S, AgreeSent
<1> QED BY Zenon, <1>1, <1>2, <1>3, <1>4, <1>5, <1>6, <1>7, <1>8 DEF Next

\* The controller and the softwire stay in step, over any number of restarts of
\* either process, polls in flight, moves of the source and migrations.
LEMMA AgreeInvariant ==
    ASSUME MaxFails = 0
    PROVE  Spec => []AgreeInv
<1>1. Init => AgreeInv
  <2> SUFFICES ASSUME Init PROVE AgreeInv
    BY Zenon
  <2> DEFINE r == Request("recover", 0, None)
  <2>1. /\ phase = "Recovering" /\ timer = "none" /\ mbox = <<r>> /\ inbox = <<>> /\ fails = 0
        /\ tun = <<InitialB4, InitialAFTR>>
        /\ sw = [active |-> <<InitialB4, InitialAFTR>>, target |-> None, migrating |-> FALSE]
        /\ dp.state = "STEADY"
    BY Zenon DEF Init
  <2>2. r.op = "recover"
    BY Zenon DEF Request
  <2> HIDE DEF r
  <2>3. PhaseView
    BY Zenon, <2>1 DEF PhaseView
  <2>4. sw.active = <<InitialB4, InitialAFTR>> /\ ~sw.migrating
    BY Zenon, <2>1
  <2>5. SoftwireView
    BY Zenon, <2>1, <2>4 DEF SoftwireView, Pair
  <2>6. \A i \in 1..Len(mbox) : mbox[i].op = "recover"
    BY SMTT(30), <2>1, <2>2
  <2>7. RequestsView
    BY Zenon, <2>6 DEF RequestsView, Needs
  <2>8. \A i \in 1..Len(inbox) : FALSE
    BY <2>1
  <2>9. AnswersView
    BY Zenon, <2>8 DEF AnswersView
  <2> QED BY Zenon, <2>1, <2>3, <2>5, <2>7, <2>9 DEF AgreeInv
<1>2. SoftwireInv /\ Discipline /\ AgreeInv /\ [Next]_vars => AgreeInv'
  BY Zenon, AgreeServe, AgreeReceive, AgreeOther
<1> QED BY <1>1, <1>2, SoftwireInvariant, DisciplineInvariant, PTL DEF Spec

\* When no call of the datapath fails, the controller's belief is the truth: a
\* controller in Steady or Discovering has the active pair, the tunnel is on it,
\* and no migration is left open; one in Draining has already cut over to next.
THEOREM ControllerAgrees ==
    ASSUME MaxFails = 0
    PROVE  Spec => []Agreement
<1>1. AgreeInv => Agreement
  BY Zenon DEF AgreeInv, PhaseView, SoftwireView, Agreement
<1> QED BY <1>1, AgreeInvariant, PTL

\* When no call of the datapath fails, softwired's server never turns a request
\* of the controller away: the controller asks only for what the state machine
\* of internal/softwirectl/softwire.go allows where the datapath then is.
THEOREM RequestsAccepted ==
    ASSUME MaxFails = 0
    PROVE  Spec => []NeverRejected
<1>1. Discipline /\ AgreeInv => NeverRejected
  <2> SUFFICES ASSUME Discipline, AgreeInv, NEW i \in DOMAIN inbox
               PROVE  inbox[i].result = "ok"
    BY Zenon DEF NeverRejected
  <2>1. DOMAIN inbox = 1..Len(inbox)
    BY DEF Discipline, Disciplined, Shapes, Queue
  <2> QED BY Zenon, <2>1 DEF AgreeInv, AnswersView
<1> QED BY <1>1, AgreeInvariant, DisciplineInvariant, PTL

=============================================================================
