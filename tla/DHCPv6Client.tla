---------------------------- MODULE DHCPv6Client ----------------------------
(***************************************************************************)
(* internal/dhcpv6client: the process that runs the DHCPv6 exchanges of    *)
(* the WAN interface, one at a time, over the UDP socket it owns, and      *)
(* pkg/dhcpv6, the exchanges themselves.  Several callers share it: the    *)
(* prefix delegation's lease process and the AFTR discovery.  A call is    *)
(* queued (postponed) while another one's exchange runs; a caller whose    *)
(* context ends gives its call up, which the process learns by a message   *)
(* of its own (CallAbandoned), so that an exchange may still run, and even *)
(* be answered, for a caller that is gone.                                 *)
(*                                                                         *)
(* The socket delivers one datagram each time it is armed (genudp.Once).   *)
(* buf is what the kernel holds for it: what answers the running exchange  *)
(* ("now") and what answered an earlier one ("old"), a transaction ID      *)
(* being no more than that to the process.  Retransmission timeouts are    *)
(* not measured: one may expire whenever the process waits and no answer    *)
(* to its exchange has come.                                               *)
(***************************************************************************)
EXTENDS Naturals, Sequences, FiniteSets

CONSTANTS
    Callers,    \* who calls dhcpv6client.Client.Exchange
    Contents,   \* what an answer may say
    MaxOld,     \* datagrams of earlier exchanges the kernel still holds
    ReqMaxRC,   \* transmissions of a Request before it gives up
    RelMaxRC    \* transmissions of a Release before it gives up

ASSUME ClientAssumption == {ReqMaxRC, RelMaxRC, MaxOld} \subseteq Nat \ {0}

VARIABLES
    up,      \* the process runs (it stops on a socket error, and is restarted)
    phase,   \* machine.go's Phase
    cur,     \* data.cur: the call whose exchange runs
    sent,    \* its transmissions so far, counted up to the larger MRC
    queue,   \* the calls postponed, oldest first
    armed,   \* the socket is to deliver the next datagram
    buf      \* the datagrams the kernel holds for the socket

clientVars == <<up, phase, cur, sent, queue, armed, buf>>

Kinds == {"info", "solicit", "request", "renew", "rebind", "release"}

Datagrams == [xid : {"now", "old"}, ans : Contents]

Calls == [who : Callers, kind : Kinds, live : BOOLEAN]

NoCall == [who |-> "nobody", kind |-> "none", live |-> FALSE]

\* Timing.MRC: the transmissions after which an exchange gives up, 0 for never.
MRC(kind) == CASE kind = "request" -> ReqMaxRC
               [] kind = "release" -> RelMaxRC
               [] OTHER -> 0

\* Timing.InitialDelayMax: the exchanges that begin by a random delay.
Delayed == {"info", "solicit"}

SentBound == IF ReqMaxRC > RelMaxRC THEN ReqMaxRC ELSE RelMaxRC

Count(n) == IF n = SentBound THEN n ELSE n + 1

\* The transaction of the datagrams in b is over; the kernel's buffer is
\* finite.
Stale(b) ==
    LET old == {[d EXCEPT !.xid = "old"] : d \in b}
    IN  IF Cardinality(old) > MaxOld THEN {} ELSE old

\* A datagram that answers the running exchange is handled before the next
\* timeout expires.
Prompt == \A d \in buf : d.xid = "old"

AnyAnswers(d) == TRUE

\* Exchange.Answers: the transaction ID, and with it the type, is the
\* running exchange's.
Answers(d) == d.xid = "now"

\* c has a call at the process, given up or not.
Calling(c) == cur.who = c \/ \E i \in 1..Len(queue) : queue[i].who = c

\* Client.Exchange: the call of c arrives, after the notice that c gave up
\* the one before.
Call(c, kind) ==
    /\ up
    /\ ~Calling(c)
    /\ queue' = Append(queue, [who |-> c, kind |-> kind, live |-> TRUE])
    /\ UNCHANGED <<up, phase, cur, sent, armed, buf>>

\* machine.send, given what the transmission brings back.
Send(call, n, held, back) ==
    /\ cur' = call
    /\ sent' = Count(n)
    /\ phase' = "waiting"
    /\ armed' = TRUE
    /\ buf' = held \cup back

\* HandleEvent on a Call while Idle, and machine.start.
Start(back) ==
    /\ up
    /\ phase = "idle"
    /\ queue # <<>>
    /\ queue' = Tail(queue)
    /\ IF Head(queue).kind \in Delayed
       THEN /\ cur' = Head(queue)
            /\ sent' = 0
            /\ phase' = "delaying"
            /\ back = {}
            /\ UNCHANGED <<armed, buf>>
       ELSE Send(Head(queue), 0, buf, back)
    /\ UNCHANGED up

\* The state timeout of Delaying.
Transmit(back) ==
    /\ phase = "delaying"
    /\ Send(cur, sent, buf, back)
    /\ UNCHANGED <<up, queue>>

Exhausted == MRC(cur.kind) # 0 /\ sent >= MRC(cur.kind)

\* The state timeout of Waiting, while transmissions are left.
Retransmit(back) ==
    /\ phase = "waiting"
    /\ Prompt
    /\ ~Exhausted
    /\ Send(cur, sent, buf, back)
    /\ UNCHANGED <<up, queue>>

\* The exchange is over, and with it its transaction.
Finish(held) ==
    /\ phase' = "idle"
    /\ cur' = NoCall
    /\ sent' = 0
    /\ buf' = Stale(held)
    /\ UNCHANGED <<up, queue>>

\* The state timeout of Waiting, the last transmission unanswered.
GiveUp ==
    /\ phase = "waiting"
    /\ Prompt
    /\ Exhausted
    /\ Finish(buf)
    /\ UNCHANGED armed

DeafIgnore(held) ==
    /\ armed' = FALSE
    /\ buf' = held
    /\ UNCHANGED <<up, phase, cur, sent, queue>>

\* A datagram that ends no exchange: waiting, the process arms the socket
\* again; otherwise the next transmission does.
Ignore(held) ==
    /\ armed' = (phase = "waiting")
    /\ buf' = held
    /\ UNCHANGED <<up, phase, cur, sent, queue>>

\* HandleEvent on a genudp.DataMsg: d is the datagram, dup that the network
\* delivers it once more later.
Receive(d, dup) ==
    LET held == IF dup THEN buf ELSE buf \ {d} IN
    /\ up
    /\ armed
    /\ d \in buf
    /\ IF phase = "waiting" /\ Answers(d)
       THEN Finish(held) /\ armed' = FALSE
       ELSE Ignore(held)

\* c's context is done: its call, running or waiting its turn, has no caller.
Drop(c) ==
    LET dead(call) == IF call.who = c THEN [call EXCEPT !.live = FALSE] ELSE call
    IN  /\ cur' = dead(cur)
        /\ queue' = [i \in 1..Len(queue) |-> dead(queue[i])]

\* A call at the process has lost its caller.
Abandoned ==
    \/ cur # NoCall /\ ~cur.live
    \/ \E i \in 1..Len(queue) : ~queue[i].live

Without(q, i) == SubSeq(q, 1, i - 1) \o SubSeq(q, i + 1, Len(q))

\* HandleEvent on the CallAbandoned of one call: the exchange running ends; a
\* call still waiting its turn is dropped.
CallAbandoned ==
    /\ \/ /\ cur # NoCall /\ ~cur.live
          /\ phase' = "idle" /\ cur' = NoCall /\ sent' = 0 /\ buf' = Stale(buf)
          /\ UNCHANGED queue
       \/ /\ \E i \in 1..Len(queue) : ~queue[i].live /\ queue' = Without(queue, i)
          /\ UNCHANGED <<phase, cur, sent, buf>>
    /\ UNCHANGED <<up, armed>>

\* HandleEvent on a genudp.ErrorMsg: the process stops, the socket with it,
\* and every call at it fails.
ClientStops ==
    /\ up
    /\ up' = FALSE
    /\ phase' = "idle" /\ cur' = NoCall /\ sent' = 0 /\ queue' = <<>>
    /\ armed' = FALSE /\ buf' = {}

\* Config.start: the supervisor's restart, on a new socket.
ClientStarts ==
    /\ ~up
    /\ up' = TRUE
    /\ UNCHANGED <<phase, cur, sent, queue, armed, buf>>

ClientInit ==
    /\ up = TRUE
    /\ phase = "idle" /\ cur = NoCall /\ sent = 0 /\ queue = <<>>
    /\ armed = FALSE /\ buf = {}

ClientTypeOK ==
    /\ up \in BOOLEAN
    /\ phase \in {"idle", "delaying", "waiting"}
    /\ cur \in Calls \cup {NoCall}
    /\ sent \in 0..SentBound
    /\ queue \in Seq(Calls)
    /\ phase = "idle" <=> cur = NoCall
    /\ armed \in BOOLEAN
    /\ buf \subseteq Datagrams

(***************************************************************************)
(* While an exchange waits, its socket is armed: no order of transmissions,*)
(* datagrams of other exchanges, abandoned calls and restarts leaves the   *)
(* process waiting on a socket that delivers nothing, nor for a call that  *)
(* is over, nor idle with a call that is not.                              *)
(***************************************************************************)
WaitingIsArmed ==
    /\ phase = "waiting" => up /\ armed
    /\ phase = "idle" <=> cur = NoCall

=============================================================================
