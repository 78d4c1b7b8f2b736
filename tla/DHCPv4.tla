------------------------------- MODULE DHCPv4 -------------------------------
(***************************************************************************)
(* The DHCPv4 server of one LAN interface: the address pool and the        *)
(* message handler of pkg/dhcpv4, and the process of internal/dhcpv4server *)
(* that keeps committed leases in a table and holds an ACK until its lease *)
(* is on disk.                                                             *)
(*                                                                         *)
(* Simplifications:                                                        *)
(*  - a time is the number of ticks left until it; an expired lease has 0  *)
(*    left and stays recorded, as in the code;                             *)
(*  - any client sends any message at any time, which covers lost, late    *)
(*    and repeated messages; a RELEASE or DECLINE is received when sent,   *)
(*    and the client then ignores ACKs of the transaction it ended;        *)
(*  - silence, NAKs, OFFERs and answers to INFORM grant nothing and are    *)
(*    left out, as are relayed and malformed messages, which change        *)
(*    nothing;                                                             *)
(*  - the interface has a lease table.                                     *)
(***************************************************************************)
EXTENDS Naturals, Sequences

CONSTANTS
    Clients, None,
    Last,                       \* the broadcast address; 0 is the network address
    ServerIP,
    OfferHold, LeaseTime, Quarantine,   \* offerHoldTime, duration, declineQuarantine
    MaxPending                  \* bound: table writes not yet on disk

ASSUME ConstantsAssumption ==
    /\ None \notin Clients
    /\ Last \in Nat /\ ServerIP \in 1..Last
    /\ OfferHold \in Nat \ {0} /\ LeaseTime \in Nat \ {0} /\ Quarantine \in Nat \ {0}
    /\ OfferHold <= LeaseTime
    /\ MaxPending \in Nat

IPs == 0..Last
Ticks == 0..LeaseTime
Leases == [ip : IPs, left : Ticks, st : {"offered", "committed"}]
NoLease == [ip |-> 0, left |-> 0, st |-> "none"]
Kept == [ip : IPs, left : Ticks]
NotKept == [ip |-> 0, left |-> 0]

VARIABLES
    byClient, byIP, declined,   \* the Pool
    table,      \* the lease table's states, from the one on disk to the one in memory
    held,       \* held[i]: the ACK sent once table[i + 1] is on disk, or none
    granted,    \* the last ACK sent to each client and not given up
    failed      \* history: a table write failed

vars == <<byClient, byIP, declined, table, held, granted, failed>>

NoAck == [to |-> None, ip |-> 0, left |-> 0]
Acks == [to : Clients, ip : IPs, left : Ticks]

Disk == Head(table)
Memory == table[Len(table)]

-----------------------------------------------------------------------------
(* The pool (pkg/dhcpv4/lease.go).                                         *)

Bound(c) == byClient[c].left > 0

\* A quarantine is recorded but not looked at.
NoQuarantineAllocatable(ip) == ip \notin {0, Last, ServerIP}

Allocatable(ip) == declined[ip] = 0 /\ ip \notin {0, Last, ServerIP}

\* An address is taken from its owner one tick early.
EarlyIsFree(ip, c) == byIP[ip] \in {None, c} \/ byClient[byIP[ip]].left <= 1

\* isFree: unowned, the client's own, or held by an expired lease.
IsFree(ip, c) == byIP[ip] \in {None, c} \/ ~Bound(byIP[ip])

Free(c) == {ip \in IPs : Allocatable(ip) /\ IsFree(ip, c)}

\* clear and hold, as the new values of byClient and byIP.
Dropped(c) == [byClient EXCEPT ![c] = NoLease]
Unindexed(c) == IF byClient[c].st = "none" THEN byIP ELSE [byIP EXCEPT ![byClient[c].ip] = None]
Clear(c) == byClient' = Dropped(c) /\ byIP' = Unindexed(c)

\* The previous owner of the address keeps its entry.
LeakyHold(c, ip, st) ==
    /\ byClient' = [byClient EXCEPT ![c] = [ip |-> ip, st |-> st,
                        left |-> IF st = "committed" THEN LeaseTime ELSE OfferHold]]
    /\ byIP' = [Unindexed(c) EXCEPT ![ip] = c]

Hold(c, ip, st) ==
    LET dur == IF st = "committed" THEN LeaseTime ELSE OfferHold
        prev == Unindexed(c)[ip]
    IN  /\ byClient' = [x \in Clients |-> IF x = c THEN [ip |-> ip, left |-> dur, st |-> st]
                                          ELSE IF x = prev THEN NoLease ELSE byClient[x]]
        /\ byIP' = [Unindexed(c) EXCEPT ![ip] = c]

-----------------------------------------------------------------------------
(* The lease table (molecule's kvs, with kvs.SyncEach), written in order.  *)

Room == Len(table) <= MaxPending

Write(t, ack) == table' = Append(table, t) /\ held' = Append(held, ack)

\* keep: a lease held again has a new expiry, so it is put again.
Put(c, ip, ack) == Write([Memory EXCEPT ![c] = [ip |-> ip, left |-> LeaseTime]], ack)

\* A lease put in the table while its ACK goes out at once.
HastyCommits(c, ip) ==
    /\ Hold(c, ip, "committed")
    /\ Put(c, ip, NoAck)
    /\ granted' = [granted EXCEPT ![c] = [ip |-> ip, left |-> LeaseTime]]

Commits(c, ip) ==
    /\ Hold(c, ip, "committed")
    /\ Put(c, ip, [to |-> c, ip |-> ip, left |-> LeaseTime])
    /\ UNCHANGED granted

\* keep after c gave its lease up: deleted if it was committed and unexpired. The
\* client ignores an ACK still held for it.
GiveUp(c) ==
    LET ignored == [i \in DOMAIN held |-> IF held[i].to = c THEN NoAck ELSE held[i]]
    IN  /\ IF byClient[c].st = "committed" /\ Bound(c)
           THEN /\ table' = Append(table, [Memory EXCEPT ![c] = NotKept])
                /\ held' = Append(ignored, NoAck)
           ELSE table' = table /\ held' = ignored
        /\ granted' = [granted EXCEPT ![c] = NotKept]

-----------------------------------------------------------------------------
(* Requests (handler.go, server.go's answer and HandleInfo).               *)

Discover(c, requested) ==
    /\ Room
    /\ \/ /\ Bound(c) /\ Allocatable(byClient[c].ip)
          /\ Hold(c, byClient[c].ip, byClient[c].st)
          /\ IF byClient[c].st = "committed" THEN Put(c, byClient[c].ip, NoAck)
             ELSE UNCHANGED <<table, held>>
       \/ /\ ~(Bound(c) /\ Allocatable(byClient[c].ip))
          /\ \E ip \in Free(c) :
                /\ \/ ip = requested
                   \/ requested \notin Free(c) /\ \A a \in Free(c) : ip <= a
                /\ Hold(c, ip, "offered")
          /\ UNCHANGED <<table, held>>
    /\ UNCHANGED <<declined, granted, failed>>

\* handleRequest, in SELECTING for this server, INIT-REBOOT, RENEWING or REBINDING.
Request(c, ip) ==
    /\ Room
    /\ Bound(c) /\ byClient[c].ip = ip
    /\ Commits(c, ip)
    /\ UNCHANGED <<declined, failed>>

\* Choosing another server drops a committed lease too.
AnySelectOther(c) ==
    /\ byClient[c].st # "none"
    /\ Clear(c)
    /\ UNCHANGED <<declined, table, held, granted, failed>>

\* handleRequest, in SELECTING for another server.
SelectOther(c) ==
    /\ byClient[c].st = "offered"
    /\ Clear(c)
    /\ UNCHANGED <<declined, table, held, granted, failed>>

Release(c, ip) ==
    /\ Room
    /\ byIP[ip] = c
    /\ Clear(c)
    /\ GiveUp(c)
    /\ UNCHANGED <<declined, failed>>

Decline(c, ip) ==
    /\ Room
    /\ byIP[ip] = c
    /\ declined' = [declined EXCEPT ![ip] = Quarantine]
    /\ Clear(c)
    /\ GiveUp(c)
    /\ UNCHANGED failed

-----------------------------------------------------------------------------
(* The process: writes reaching the disk, the expire timer, restarts.      *)

\* The table's states after its oldest pending write failed: a later write of the
\* same client still counts.
Undone == [i \in 1..(Len(table) - 1) |-> [c \in Clients |->
              IF \A j \in 2..(i + 1) : table[j][c] = table[2][c] THEN table[1][c]
              ELSE table[i + 1][c]]]

\* kvs.Durable: the reply held goes out, even if the lease was not kept.
Durable ==
    /\ held # <<>>
    /\ \/ table' = Tail(table) /\ UNCHANGED failed
       \/ table' = Undone /\ failed' = TRUE
    /\ held' = Tail(held)
    /\ granted' = [c \in Clients |-> IF Head(held).to = c
                                     THEN [ip |-> Head(held).ip, left |-> Head(held).left]
                                     ELSE granted[c]]
    /\ UNCHANGED <<byClient, byIP, declined>>

Expired(l) == l.left = 0 /\ l # NotKept

Expire ==
    /\ \E c \in Clients : Expired(Memory[c])
    /\ Write([c \in Clients |-> IF Expired(Memory[c]) THEN NotKept ELSE Memory[c]], NoAck)
    /\ UNCHANGED <<byClient, byIP, declined, granted, failed>>

\* restore: leases.All() comes in any order, so of several leases on one address
\* any one is taken. The rest are deleted.
Restorable(t) ==
    LET good == {c \in Clients : t[c].left > 0 /\ t[c].ip \notin {0, Last, ServerIP}}
    IN  {K \in SUBSET good :
            /\ \A c, d \in K : t[c].ip = t[d].ip => c = d
            /\ \A c \in good : \E d \in K : t[c].ip = t[d].ip}

\* starter: a new pool takes the leases of the table t[Len(t)].
Restored(t, acks) ==
    LET kept == t[Len(t)] IN
    /\ \E K \in Restorable(kept) :
        /\ byClient' = [c \in Clients |->
               IF c \in K THEN [ip |-> kept[c].ip, left |-> kept[c].left, st |-> "committed"]
               ELSE NoLease]
        /\ byIP' = [ip \in IPs |-> IF \E c \in K : kept[c].ip = ip
                                   THEN CHOOSE c \in K : kept[c].ip = ip ELSE None]
        /\ IF \A c \in Clients \ K : kept[c] = NotKept
           THEN table' = t /\ held' = acks
           ELSE /\ table' = Append(t, [c \in Clients |-> IF c \in K THEN kept[c] ELSE NotKept])
                /\ held' = Append(acks, NoAck)
    /\ declined' = [ip \in IPs |-> 0]
    /\ UNCHANGED <<granted, failed>>

\* The server process stops on a socket error and is started again: the table
\* lives on, the replies held are lost with it.
Restart == Restored(table, [i \in DOMAIN held |-> NoAck])

\* minuteman dies and is started again: only what is on disk is left.
Crash == Restored(<<Disk>>, <<>>)

Less(n) == IF n = 0 THEN 0 ELSE n - 1

Tick ==
    /\ byClient' = [c \in Clients |-> [byClient[c] EXCEPT !.left = Less(@)]]
    /\ declined' = [ip \in IPs |-> Less(declined[ip])]
    /\ table' = [i \in DOMAIN table |-> [c \in Clients |-> [table[i][c] EXCEPT !.left = Less(@)]]]
    /\ held' = [i \in DOMAIN held |-> [held[i] EXCEPT !.left = Less(@)]]
    /\ granted' = [c \in Clients |-> IF granted[c].left <= 1 THEN NotKept
                                     ELSE [granted[c] EXCEPT !.left = Less(@)]]
    /\ UNCHANGED <<byIP, failed>>

-----------------------------------------------------------------------------
Init ==
    /\ byClient = [c \in Clients |-> NoLease]
    /\ byIP = [ip \in IPs |-> None]
    /\ declined = [ip \in IPs |-> 0]
    /\ table = <<[c \in Clients |-> NotKept]>>
    /\ held = <<>>
    /\ granted = [c \in Clients |-> NotKept]
    /\ failed = FALSE

Next ==
    \/ \E c \in Clients, ip \in IPs :
        Discover(c, ip) \/ Request(c, ip) \/ Release(c, ip) \/ Decline(c, ip)
    \/ \E c \in Clients : SelectOther(c)
    \/ Durable \/ Expire \/ Restart \/ Crash \/ Tick

Spec == Init /\ [][Next]_vars

-----------------------------------------------------------------------------
TypeOK ==
    /\ byClient \in [Clients -> Leases \cup {NoLease}]
    /\ byIP \in [IPs -> Clients \cup {None}]
    /\ declined \in [IPs -> 0..Quarantine]
    /\ table \in Seq([Clients -> Kept]) /\ table # <<>>
    /\ held \in Seq(Acks \cup {NoAck}) /\ Len(table) = Len(held) + 1
    /\ granted \in [Clients -> Kept]
    /\ failed \in BOOLEAN

\* The two indexes of the pool are inverses: hold and clear never leave a client
\* pointing at an address that points elsewhere, nor the reverse.
PoolIndexed ==
    /\ \A c \in Clients : byClient[c].st # "none" => byIP[byClient[c].ip] = c
    /\ \A ip \in IPs : byIP[ip] # None => byClient[byIP[ip]].st # "none" /\ byClient[byIP[ip]].ip = ip

\* No two clients hold an ACK for one address at one time, over any sequence of
\* messages, expiries, restarts and crashes, as long as the table is written.
NoDoubleGrant ==
    ~failed => \A c, d \in Clients :
        granted[c].left > 0 /\ granted[d].left > 0 /\ granted[c].ip = granted[d].ip => c = d

\* An ACK is never lost to a restart that would forget it (server.go's comment on
\* server): the lease of every ACK sent is on disk and in the pool, for at least as
\* long as the client was told.
AckDurable ==
    ~failed => \A c \in Clients : granted[c].left > 0 =>
        /\ Disk[c].ip = granted[c].ip /\ Disk[c].left >= granted[c].left
        /\ byClient[c].st = "committed" /\ byClient[c].ip = granted[c].ip
        /\ byClient[c].left >= granted[c].left

\* An address declined is nobody's until its quarantine ends: neither Offer, nor a
\* REQUEST, nor a lease put back brings it into use.
DeclinedWithheld == \A ip \in IPs : declined[ip] > 0 => byIP[ip] = None

\* A bound client's lease is never shortened or taken by a request of another, nor by
\* its own DISCOVER or choice of another server (lease.go's comment on bindingState):
\* while the server runs, only the client's RELEASE or DECLINE ends it early.
OnlyOwnerEnds ==
    [][\A c \in Clients :
        byClient[c].st = "committed" /\ byClient[c].left > 1
        => \/ /\ byClient'[c].st = "committed" /\ byClient'[c].ip = byClient[c].ip
              /\ byClient'[c].left >= byClient[c].left - 1
           \/ \E ip \in IPs : Release(c, ip) \/ Decline(c, ip)
           \/ Restart \/ Crash]_vars
=============================================================================
