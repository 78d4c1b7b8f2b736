---------------------------- MODULE DHCPv4Proofs ----------------------------
(***************************************************************************)
(* Proofs about DHCPv4, for any clients, any address range and any         *)
(* durations.  The pool's invariants are inductive together (PoolInv).     *)
(* That an ACK sent outlives a crash needs more (Backed): the table in     *)
(* memory follows the pool, no state of the table on its way to the disk   *)
(* has two live leases on one address, and every ACK, sent or held, is     *)
(* backed by the pool and by every state from the one that carries it.     *)
(***************************************************************************)
EXTENDS DHCPv4, TLAPS

Reserved == {0, Last, ServerIP}

\* The pool never holds a reserved address.
PoolUsable == \A c \in Clients : byClient[c].st # "none" => byClient[c].ip \notin Reserved

PoolInv == TypeOK /\ PoolIndexed /\ DeclinedWithheld /\ PoolUsable

Covers(l, a) == l.ip = a.ip /\ l.left >= a.left

\* The table in memory holds only what the pool holds.
MemoryFollows ==
    \A c \in Clients : Memory[c].left > 0 =>
        byClient[c] = [ip |-> Memory[c].ip, left |-> Memory[c].left, st |-> "committed"]

\* Each state of the table can be restored whole.
Whole(t) ==
    \A c \in Clients : t[c].left > 0 =>
        /\ t[c].ip \notin Reserved
        /\ \A d \in Clients : t[d].left > 0 /\ t[d].ip = t[c].ip => d = c

AckBacked(c, a, from) ==
    a.left > 0 =>
        /\ byClient[c].st = "committed" /\ Covers(byClient[c], a)
        /\ \A j \in from..Len(table) : Covers(table[j][c], a)

Backed ==
    /\ MemoryFollows
    /\ \A i \in 1..Len(table) : Whole(table[i])
    /\ \A c \in Clients : AckBacked(c, granted[c], 1)
    /\ \A i \in 1..Len(held) : held[i].to \in Clients => AckBacked(held[i].to, held[i], i + 1)

Inv == PoolInv /\ (~failed => Backed)

-----------------------------------------------------------------------------
(* The variables.                                                          *)

PoolType ==
    /\ byClient \in [Clients -> Leases \cup {NoLease}]
    /\ byIP \in [IPs -> Clients \cup {None}]

\* What a step must leave of the two indexes.
PoolKept == PoolType /\ PoolIndexed /\ DeclinedWithheld /\ PoolUsable

StoreType ==
    /\ table \in Seq([Clients -> Kept]) /\ table # <<>>
    /\ held \in Seq(Acks \cup {NoAck}) /\ Len(table) = Len(held) + 1

\* Fields of the entries of the pool's client index.
LEMMA EntryFields ==
    ASSUME PoolType, NEW c \in Clients
    PROVE  /\ byClient[c].ip \in IPs /\ byClient[c].left \in Ticks
           /\ byClient[c].st \in {"none", "offered", "committed"}
           /\ byClient[c].st = "none" => byClient[c] = NoLease
  BY ConstantsAssumption DEF PoolType, Leases, NoLease, IPs, Ticks

LEMMA LeftIsNat ==
    ASSUME PoolType
    PROVE  \A c \in Clients : byClient[c].left \in Nat
  <1>1. \A c \in Clients : byClient[c].left \in Ticks
    BY Zenon, EntryFields
  <1>2. \A n \in Ticks : n \in Nat
    BY ConstantsAssumption DEF Ticks
  <1> QED
    BY Zenon, <1>1, <1>2

\* clear's effect on the address index.
LEMMA UnindexedIs ==
    ASSUME PoolType, PoolIndexed, NEW c \in Clients
    PROVE  /\ Unindexed(c) \in [IPs -> Clients \cup {None}]
           /\ \A ip \in IPs : Unindexed(c)[ip] = IF byIP[ip] = c THEN None ELSE byIP[ip]
  BY EntryFields, ConstantsAssumption DEF PoolType, PoolIndexed, Unindexed

LEMMA TypeSplit ==
    TypeOK <=> /\ PoolType /\ StoreType /\ declined \in [IPs -> 0..Quarantine]
               /\ granted \in [Clients -> Kept] /\ failed \in BOOLEAN
  BY Zenon DEF TypeOK, PoolType, StoreType

\* The states of the table are tables.
LEMMA TableStates ==
    ASSUME StoreType
    PROVE  /\ Len(table) \in Nat \ {0} /\ DOMAIN table = 1..Len(table)
           /\ Len(held) \in Nat /\ DOMAIN held = 1..Len(held)
           /\ \A i \in 1..Len(table) : table[i] \in [Clients -> Kept]
           /\ \A i \in 1..Len(held) : held[i] \in Acks \cup {NoAck}
           /\ Memory \in [Clients -> Kept] /\ Disk \in [Clients -> Kept]
  BY DEF StoreType, Memory, Disk

\* The ACKs held for c, ignored.
Ignored(c) == [i \in DOMAIN held |-> IF held[i].to = c THEN NoAck ELSE held[i]]

LEMMA FunctionIsSeq ==
    ASSUME NEW S, NEW n \in Nat, NEW f \in [1..n -> S]
    PROVE  f \in Seq(S) /\ Len(f) = n
  OBVIOUS

LEMMA IgnoredType ==
    ASSUME StoreType, NEW c \in Clients
    PROVE  Ignored(c) \in Seq(Acks \cup {NoAck}) /\ Len(Ignored(c)) = Len(held)
  <1>1. Len(held) \in Nat /\ Ignored(c) \in [1..Len(held) -> Acks \cup {NoAck}]
    BY Zenon, TableStates DEF Ignored
  <1> QED
    BY Zenon, <1>1, FunctionIsSeq

LEMMA LessType == \A n \in Nat : Less(n) \in Nat /\ Less(n) <= n /\ (n > 0 => Less(n) = n - 1)
  BY DEF Less

-----------------------------------------------------------------------------
(* ACKs, sent and held, over every step.                                   *)

\* A committed, unexpired lease of c survives a step, no shorter.
Stays(c) ==
    byClient[c].st = "committed" /\ Bound(c) =>
        /\ byClient'[c].st = "committed"
        /\ byClient'[c].ip = byClient[c].ip /\ byClient'[c].left >= byClient[c].left

\* A table that follows the pool can be restored whole.
LEMMA FollowingIsWhole ==
    ASSUME PoolInv', MemoryFollows', NEW t, t = Memory', t \in [Clients -> Kept]
    PROVE  Whole(t)
  <1>1. \A c \in Clients : t[c].left > 0 =>
            byClient'[c].st = "committed" /\ byClient'[c].ip = t[c].ip
    <2>1. \A c \in Clients : Memory'[c].left > 0 =>
            byClient'[c] = [ip |-> Memory'[c].ip, left |-> Memory'[c].left, st |-> "committed"]
      BY Zenon DEF MemoryFollows
    <2>2. \A c \in Clients : t[c].left > 0 =>
            byClient'[c] = [ip |-> t[c].ip, left |-> t[c].left, st |-> "committed"]
      BY Zenon, <2>1
    <2>3. ASSUME NEW c \in Clients, t[c].left > 0
          PROVE  byClient'[c].st = "committed" /\ byClient'[c].ip = t[c].ip
      <3>1. byClient'[c] = [ip |-> t[c].ip, left |-> t[c].left, st |-> "committed"]
        BY Zenon, <2>2, <2>3
      <3> QED
        BY <3>1
    <2> QED
      BY Zenon, <2>3
  <1>2. \A c \in Clients : t[c].left > 0 => t[c].ip \notin Reserved
    BY Zenon, <1>1 DEF PoolInv, PoolUsable
  <1>3. \A c \in Clients : t[c].left > 0 => byIP'[t[c].ip] = c
    BY Zenon, <1>1 DEF PoolInv, PoolIndexed
  <1> QED
    BY <1>2, <1>3 DEF Whole

\* Facts about sequences and lease records, away from the context they are used in.
LEMMA AppendKeeps ==
    ASSUME NEW S, NEW s \in Seq(S), NEW e \in S, NEW i \in 1..Len(s)
    PROVE  Append(s, e)[i] = s[i]
  OBVIOUS

LEMMA LastIn == ASSUME NEW n \in Nat \ {0} PROVE n \in 1..n
  OBVIOUS

LEMMA KeptLeft == ASSUME NEW l \in Kept PROVE l.left \in Nat
  BY ConstantsAssumption DEF Kept, Ticks

LEMMA LiveLease == ASSUME NEW l \in Leases \cup {NoLease}, l.left > 0 PROVE l.st # "none"
  <1>1. CASE l \in Leases
    BY <1>1 DEF Leases
  <1>2. CASE l = NoLease
    BY <1>2 DEF NoLease
  <1> QED
    BY Zenon, <1>1, <1>2

LEMMA BoundLease == TypeOK => \A c \in Clients : Bound(c) => byClient[c].st # "none"
  BY Zenon, LiveLease DEF Bound, TypeOK

\* A step in which the clients of G give up their leases, acks is what becomes of
\* the ACKs held, and the table is left alone or gets one more state t, with the
\* ACK a held for it.
LEMMA StepBacked ==
    ASSUME PoolInv, PoolInv', Backed, MemoryFollows',
           NEW G \in SUBSET Clients, NEW t \in [Clients -> Kept],
           NEW acks \in Seq(Acks \cup {NoAck}), NEW a \in Acks \cup {NoAck},
           \A c \in Clients \ G : Stays(c),
           Len(acks) = Len(held),
           \A i \in 1..Len(held) : acks[i] = NoAck \/ (acks[i] = held[i] /\ held[i].to \notin G),
           \A c \in Clients : granted'[c].left = 0 \/ (granted'[c] = granted[c] /\ c \notin G),
           \/ table' = table /\ held' = acks
           \/ /\ table' = Append(table, t) /\ held' = Append(acks, a)
              /\ \A c \in Clients \ G : \/ t[c] = Memory[c] \/ Memory[c].left = 0
                                        \/ Covers(t[c], byClient[c])
              /\ a = NoAck \/ /\ a.to \in Clients /\ byClient'[a.to].st = "committed"
                              /\ Covers(byClient'[a.to], a) /\ Covers(t[a.to], a)
    PROVE  Backed'
  <1>0. PoolType /\ StoreType /\ PoolType' /\ StoreType' /\ granted \in [Clients -> Kept]
    BY Zenon DEF PoolInv, TypeOK, PoolType, StoreType
  <1>1. /\ Len(table) \in Nat \ {0} /\ Len(held) \in Nat /\ Len(table) = Len(held) + 1
        /\ table \in Seq([Clients -> Kept])
        /\ \A i \in 1..Len(table) : table[i] \in [Clients -> Kept]
    BY Zenon, <1>0, TableStates DEF StoreType
  <1>2. NoAck.to \notin Clients
    BY Zenon, ConstantsAssumption DEF NoAck
  <1>3. \A i \in 1..Len(table) : table'[i] = table[i]
    <2>1. \A i \in 1..Len(table) : Append(table, t)[i] = table[i]
      BY <1>1
    <2> QED
      BY Zenon, <2>1
  <1>4. \/ table' = table /\ Len(table') = Len(table)
        \/ /\ Len(table') = Len(table) + 1 /\ table'[Len(table')] = t
           /\ \A c \in Clients \ G : \/ t[c] = Memory[c] \/ Memory[c].left = 0
                                     \/ Covers(t[c], byClient[c])
    BY <1>1
  <1>5. \A i \in 1..Len(table') : Whole(table'[i])
    <2>1. Whole(table'[Len(table')])
      <3>1. table'[Len(table')] \in [Clients -> Kept]
        BY <1>0 DEF StoreType
      <3> QED
        BY Zenon, <3>1, FollowingIsWhole DEF Memory
    <2>2. \A i \in 1..Len(table) : Whole(table'[i])
      BY Zenon, <1>3 DEF Backed
    <2> QED
      BY <1>1, <1>4, <2>1, <2>2
  <1>6. ASSUME NEW c \in Clients \ G, NEW b, b.left \in Nat, NEW from \in 1..Len(table),
               AckBacked(c, b, from)
        PROVE  AckBacked(c, b, from)'
    <2> SUFFICES ASSUME b.left > 0
                 PROVE  /\ byClient'[c].st = "committed" /\ Covers(byClient'[c], b)
                        /\ \A j \in from..Len(table') : Covers(table'[j][c], b)
      BY Zenon DEF AckBacked, Covers
    <2>1. /\ byClient[c].st = "committed" /\ Covers(byClient[c], b)
          /\ \A j \in from..Len(table) : Covers(table[j][c], b)
      BY Zenon, <1>6 DEF AckBacked
    <2>2. byClient[c].left \in Nat /\ byClient'[c].left \in Nat
      BY <1>0, ConstantsAssumption DEF PoolType, Leases, NoLease, Ticks
    <2>3. byClient'[c].st = "committed" /\ Covers(byClient'[c], b)
      BY <2>1, <2>2, <1>6 DEF Stays, Bound, Covers
    <2>4. Covers(Memory[c], b) /\ Memory[c].left \in Nat
      <3>1. Len(table) \in from..Len(table)
        BY <1>1
      <3>2. Memory[c] \in Kept
        BY Zenon, <1>0, TableStates
      <3> QED
        BY <2>1, <3>1, <3>2 DEF Memory, Kept, Ticks
    <2>5. t[c].left \in Nat
      BY DEF Kept, Ticks
    <2>6. t[c] = Memory[c] \/ Memory[c].left = 0 \/ Covers(t[c], byClient[c]) => Covers(t[c], b)
      BY <1>6, <2>1, <2>2, <2>4, <2>5 DEF Covers
    <2> QED
      BY <1>1, <1>3, <1>4, <2>1, <2>3, <2>6
  <1>7. \A c \in Clients : AckBacked(c, granted[c], 1)'
    <2> SUFFICES ASSUME NEW c \in Clients, granted'[c].left > 0
                 PROVE  AckBacked(c, granted[c], 1)'
      BY Zenon DEF AckBacked
    <2>1. granted'[c] = granted[c] /\ c \notin G
      OBVIOUS
    <2>2. AckBacked(c, granted[c], 1) /\ granted[c].left \in Nat
      BY <1>0 DEF Backed, Kept, Ticks
    <2>3. ASSUME NEW b, b = granted[c]
          PROVE  AckBacked(c, b, 1)'
      BY <1>1, <1>6, <2>1, <2>2, <2>3
    <2> QED
      BY Zenon, <2>1, <2>3 DEF AckBacked
  <1>8. ASSUME NEW i \in 1..Len(held'), held'[i].to \in Clients
        PROVE  AckBacked(held[i].to, held[i], i + 1)'
    <2>1. CASE i \in 1..Len(held)
      <3>1. held'[i] = acks[i]
        <4>1. i \in 1..Len(acks)
          BY Zenon, <2>1
        <4>2. Append(acks, a)[i] = acks[i]
          BY Zenon, <4>1, AppendKeeps
        <4> QED
          BY Zenon, <4>2
      <3>2. held'[i] = held[i] /\ held[i].to \in Clients \ G
        BY Zenon, <1>2, <1>8, <2>1, <3>1
      <3>3. AckBacked(held[i].to, held[i], i + 1) /\ held[i].left \in Nat
        BY <2>1, <3>2, <1>0, TableStates DEF Backed, Acks, NoAck, Ticks
      <3>4. ASSUME NEW b, b = held[i]
            PROVE  AckBacked(b.to, b, i + 1)'
        <4>1. i + 1 \in 1..Len(table)
          BY <2>1, <1>1
        <4> QED
          BY Zenon, <1>6, <3>2, <3>3, <3>4, <4>1
      <3> QED
        BY Zenon, <3>2, <3>4 DEF AckBacked
    <2>2. CASE i \notin 1..Len(held)
      <3>1. /\ i = Len(held) + 1 /\ held'[i] = a /\ Len(table') = i + 1 /\ table'[i + 1] = t
        BY <1>1, <1>8, <2>2
      <3>2. a.to \in Clients /\ byClient'[a.to].st = "committed"
            /\ Covers(byClient'[a.to], a) /\ Covers(t[a.to], a)
        BY Zenon, <1>1, <1>2, <1>8, <2>2, <3>1
      <3>3. \A j \in (i + 1)..Len(table') : j = i + 1
        BY <3>1, <1>1
      <3> QED
        BY Zenon, <3>1, <3>2, <3>3 DEF AckBacked, Covers
    <2> QED
      BY Zenon, <2>1, <2>2
  <1> QED
    BY Zenon, <1>5, <1>7, <1>8 DEF Backed

\* A pool filled from the last of some whole states: every live lease is taken,
\* so every ACK sent is still backed.  The ACKs held are lost.
LEMMA RestoredBacked ==
    ASSUME PoolInv', granted \in [Clients -> Kept], UNCHANGED granted,
           NEW t \in Seq([Clients -> Kept]), t # <<>>,
           NEW acks \in Seq({NoAck}), Len(t) = Len(acks) + 1,
           \A i \in 1..Len(t) : Whole(t[i]),
           \A c \in Clients : granted[c].left > 0 =>
               \A i \in 1..Len(t) : Covers(t[i][c], granted[c]),
           Restored(t, acks)
    PROVE  Backed'
  <1> DEFINE kept == t[Len(t)]
  <1>0. /\ Len(t) \in Nat \ {0} /\ Len(acks) \in Nat
        /\ \A i \in 1..Len(t) : t[i] \in [Clients -> Kept]
        /\ kept \in [Clients -> Kept] /\ Whole(kept)
        /\ \A i \in 1..Len(acks) : acks[i] = NoAck
    OBVIOUS
  <1>1. PICK K \in Restorable(kept) :
        /\ byClient' = [c \in Clients |->
               IF c \in K THEN [ip |-> kept[c].ip, left |-> kept[c].left, st |-> "committed"]
               ELSE NoLease]
        /\ IF \A c \in Clients \ K : kept[c] = NotKept
           THEN table' = t /\ held' = acks
           ELSE /\ table' = Append(t, [c \in Clients |-> IF c \in K THEN kept[c] ELSE NotKept])
                /\ held' = Append(acks, NoAck)
    BY Zenon DEF Restored
  <1> DEFINE rest == [c \in Clients |-> IF c \in K THEN kept[c] ELSE NotKept]
  <1>2. \/ /\ \A c \in Clients \ K : kept[c] = NotKept
           /\ table' = t /\ held' = acks
        \/ table' = Append(t, rest) /\ held' = Append(acks, NoAck)
    BY Zenon, <1>1
  <1>3. \A c \in Clients : c \in K <=> kept[c].left > 0 /\ kept[c].ip \notin Reserved
    BY <1>0 DEF Restorable, Whole, Reserved
  <1>4. \A c \in Clients : c \in K <=> kept[c].left > 0
    BY Zenon, <1>0, <1>3 DEF Whole
  <1>5. rest \in [Clients -> Kept] /\ NotKept.left = 0
    BY <1>0, ConstantsAssumption DEF NotKept, Kept, IPs, Ticks
  <1>6. /\ Len(table') \in {Len(t), Len(t) + 1}
        /\ \A i \in 1..Len(t) : table'[i] = t[i]
        /\ Len(table') = Len(t) + 1 => table'[Len(table')] = rest
        /\ \A i \in 1..Len(held') : held'[i] = NoAck
    <2>1. CASE table' = t /\ held' = acks
      BY <2>1, <1>0
    <2>2. CASE table' = Append(t, rest) /\ held' = Append(acks, NoAck)
      <3>1. /\ Len(table') = Len(t) + 1 /\ Len(held') = Len(acks) + 1
            /\ \A i \in 1..Len(t) : table'[i] = t[i]
            /\ table'[Len(t) + 1] = rest
            /\ \A i \in 1..Len(acks) : held'[i] = acks[i]
            /\ held'[Len(acks) + 1] = NoAck
        BY <2>2, <1>0, <1>5
      <3> QED
        BY SMTT(30), <3>1, <1>0
    <2> QED
      BY Zenon, <1>2, <2>1, <2>2
  <1>7. \A c \in Clients : Memory'[c].left > 0 => c \in K /\ Memory'[c] = kept[c]
    <2>1. Memory' = rest \/ (Memory' = kept /\ \A c \in Clients \ K : kept[c] = NotKept)
      BY <1>0, <1>2, <1>6 DEF Memory
    <2>2. \A c \in Clients : rest[c] = IF c \in K THEN kept[c] ELSE NotKept
      BY Zenon
    <2> HIDE DEF kept, rest
    <2> QED
      BY <2>1, <2>2, <1>5, ConstantsAssumption DEF NotKept
  <1>8. MemoryFollows'
    <2> HIDE DEF kept, rest
    <2>1. \A c \in Clients : Memory'[c].left > 0 =>
            byClient'[c] = [ip |-> Memory'[c].ip, left |-> Memory'[c].left, st |-> "committed"]
      BY Zenon, <1>1, <1>7
    <2> QED
      BY Zenon, <2>1 DEF MemoryFollows
  <1> HIDE DEF kept, rest
  <1>9. Whole(rest)
    <2>1. \A c \in Clients : rest[c].left > 0 => rest[c] = kept[c] /\ kept[c].left > 0
      BY <1>4, <1>5 DEF rest
    <2> QED
      BY Zenon, <1>0, <2>1 DEF Whole
  <1>10. \A i \in 1..Len(table') : Whole(table'[i])
    BY <1>0, <1>6, <1>9
  <1>11. ASSUME NEW c \in Clients, granted[c].left > 0
         PROVE  AckBacked(c, granted[c], 1)'
    <2>1. Covers(kept[c], granted[c]) /\ granted[c].left \in Nat /\ kept[c].left \in Nat
      <3>1. Len(t) \in 1..Len(t)
        BY Zenon, <1>0, LastIn
      <3>2. granted[c] \in Kept /\ kept[c] \in Kept
        BY Zenon, <1>0
      <3> QED
        BY Zenon, <1>11, <3>1, <3>2, KeptLeft DEF kept
    <2>2. c \in K
      BY <1>4, <1>11, <2>1 DEF Covers
    <2>3. byClient'[c] = [ip |-> kept[c].ip, left |-> kept[c].left, st |-> "committed"]
          /\ rest[c] = kept[c]
      BY Zenon, <1>1, <2>2 DEF rest
    <2>4. byClient'[c].st = "committed" /\ Covers(byClient'[c], granted[c])
      BY <2>1, <2>3 DEF Covers
    <2>5. \A j \in 1..Len(table') : Covers(table'[j][c], granted[c])
      <3>1. \A j \in 1..Len(t) : Covers(table'[j][c], granted[c])
        BY Zenon, <1>6, <1>11
      <3>2. Len(table') = Len(t) + 1 => Covers(table'[Len(table')][c], granted[c])
        BY Zenon, <1>6, <2>1, <2>3
      <3> QED
        BY <1>0, <1>6, <3>1, <3>2
    <2> QED
      BY Zenon, <2>4, <2>5 DEF AckBacked, Covers
  <1>12. \A c \in Clients : AckBacked(c, granted[c], 1)'
    BY Zenon, <1>11 DEF AckBacked
  <1>13. \A i \in 1..Len(held') : held'[i].to \notin Clients
    BY <1>6, ConstantsAssumption DEF NoAck
  <1> QED
    BY Zenon, <1>8, <1>10, <1>12, <1>13 DEF Backed

\* hold leaves every lease that has not run out to its client.
LEMMA HoldStays ==
    ASSUME PoolInv, NEW c \in Clients, NEW ip \in IPs, NEW st \in {"offered", "committed"},
           Hold(c, ip, st), IsFree(ip, c),
           byClient[c].st = "committed" /\ Bound(c) => ip = byClient[c].ip /\ st = "committed"
    PROVE  /\ \A d \in Clients : Stays(d)
           /\ byClient'[c].ip = ip /\ byClient'[c].st = st
           /\ st = "committed" => byClient'[c] = [ip |-> ip, left |-> LeaseTime, st |-> st]
           /\ \A d \in Clients \ {c} : Bound(d) => byClient'[d] = byClient[d]
  <1> DEFINE new == [ip |-> ip, st |-> st, left |-> IF st = "committed" THEN LeaseTime ELSE OfferHold]
  <1>0. PoolType /\ PoolIndexed
    BY Zenon DEF PoolInv, TypeOK, PoolType
  <1>1. Unindexed(c)[ip] = IF byIP[ip] = c THEN None ELSE byIP[ip]
    BY Zenon, <1>0, UnindexedIs
  <1>2. \A d \in Clients : byClient'[d] = IF d = c THEN new
                                          ELSE IF d = byIP[ip] THEN NoLease ELSE byClient[d]
    BY Zenon, <1>1, ConstantsAssumption DEF Hold
  <1>3. \A d \in Clients \ {c} : Bound(d) => d # byIP[ip]
    BY Zenon, ConstantsAssumption DEF IsFree
  <1>4. \A d \in Clients \ {c} : Bound(d) => byClient'[d] = byClient[d]
    BY Zenon, <1>2, <1>3
  <1>5. \A d \in Clients : byClient[d].left \in 0..LeaseTime
    BY Zenon, <1>0, EntryFields DEF Ticks
  <1>6. byClient'[c].ip = ip /\ byClient'[c].st = st
        /\ (st = "committed" => byClient'[c] = [ip |-> ip, left |-> LeaseTime, st |-> st]
                                /\ byClient'[c].left = LeaseTime)
    BY <1>2
  <1>7. Stays(c)
    BY <1>5, <1>6, ConstantsAssumption DEF Stays
  <1>8. \A d \in Clients \ {c} : Stays(d)
    BY <1>4, <1>5 DEF Stays
  <1> QED
    BY Zenon, <1>4, <1>6, <1>7, <1>8

\* What an unchanged table needs to go on following the pool.
LEMMA StillFollows ==
    ASSUME MemoryFollows, UNCHANGED table, StoreType,
           \A c \in Clients : Memory[c].left > 0 => byClient'[c] = byClient[c]
    PROVE  MemoryFollows'
  <1>1. Memory' = Memory
    BY Zenon DEF Memory
  <1> QED
    BY Zenon, <1>1 DEF MemoryFollows

\* A lease the table holds is committed and bound in the pool.
LEMMA MemoryBound ==
    ASSUME MemoryFollows, NEW c \in Clients, Memory[c].left > 0
    PROVE  /\ byClient[c].st = "committed" /\ Bound(c)
           /\ byClient[c].ip = Memory[c].ip /\ byClient[c].left = Memory[c].left
  <1>1. byClient[c] = [ip |-> Memory[c].ip, left |-> Memory[c].left, st |-> "committed"]
    BY Zenon DEF MemoryFollows
  <1> HIDE DEF Memory
  <1> QED
    BY <1>1 DEF Bound

\* A step that touches neither the table nor an ACK.
LEMMA PoolOnlyBacked ==
    ASSUME PoolInv, PoolInv', Backed, UNCHANGED <<table, held, granted>>,
           \A c \in Clients : Stays(c),
           \A c \in Clients : Memory[c].left > 0 => byClient'[c] = byClient[c]
    PROVE  Backed'
  <1>0. StoreType /\ MemoryFollows
    BY Zenon DEF PoolInv, TypeOK, StoreType, Backed
  <1>1. MemoryFollows'
    BY Zenon, <1>0, StillFollows
  <1>2. held \in Seq(Acks \cup {NoAck}) /\ Memory \in [Clients -> Kept] /\ NoAck \in Acks \cup {NoAck}
    BY Zenon, <1>0, TableStates DEF StoreType
  <1>3. {} \in SUBSET Clients
    BY Zenon
  <1>4. \A i \in 1..Len(held) : held[i] = NoAck \/ (held[i] = held[i] /\ held[i].to \notin {})
    BY Zenon
  <1>5. \A c \in Clients : granted'[c].left = 0 \/ (granted'[c] = granted[c] /\ c \notin {})
    BY Zenon
  <1> QED
    BY Zenon, <1>1, <1>2, <1>3, <1>4, <1>5, StepBacked

\* A put of c's lease, for an ACK or for none.
LEMMA PutBacked ==
    ASSUME PoolInv, PoolInv', Backed, UNCHANGED granted,
           NEW c \in Clients, NEW ip \in IPs, Hold(c, ip, "committed"), IsFree(ip, c),
           Bound(c), byClient[c].ip = ip,
           NEW a \in {NoAck, [to |-> c, ip |-> ip, left |-> LeaseTime]}, Put(c, ip, a)
    PROVE  Backed'
  <1> DEFINE l == [ip |-> ip, left |-> LeaseTime]
             t == [Memory EXCEPT ![c] = l]
  <1>0. PoolType /\ StoreType /\ MemoryFollows
    BY Zenon DEF PoolInv, TypeOK, PoolType, StoreType, Backed
  <1>1. Memory \in [Clients -> Kept] /\ l \in Kept
    BY <1>0, TableStates, ConstantsAssumption DEF Kept, Ticks
  <1>2. /\ t \in [Clients -> Kept] /\ t[c] = l
        /\ \A d \in Clients \ {c} : t[d] = Memory[d]
    BY Zenon, <1>1
  <1>3. table' = Append(table, t) /\ held' = Append(held, a)
    BY Zenon DEF Put, Write
  <1>4. /\ \A d \in Clients : Stays(d)
        /\ byClient'[c] = [ip |-> ip, left |-> LeaseTime, st |-> "committed"]
        /\ \A d \in Clients \ {c} : Bound(d) => byClient'[d] = byClient[d]
    BY Zenon, HoldStays
  <1> HIDE DEF t
  <1>5. Memory' = t
    BY SMTT(30), <1>0, <1>2, <1>3 DEF Memory, StoreType
  <1>6. MemoryFollows'
    <2>1. byClient'[c] = [ip |-> t[c].ip, left |-> t[c].left, st |-> "committed"]
      <3>1. t[c].ip = ip /\ t[c].left = LeaseTime
        BY <1>2
      <3>2. byClient'[c] = [ip |-> ip, left |-> LeaseTime, st |-> "committed"]
        BY Zenon, <1>4
      <3> QED
        BY Zenon, <3>1, <3>2
    <2>2. ASSUME NEW d \in Clients \ {c}, t[d].left > 0
          PROVE  byClient'[d] = [ip |-> t[d].ip, left |-> t[d].left, st |-> "committed"]
      BY Zenon, <1>0, <1>2, <1>4, <2>2, MemoryBound DEF MemoryFollows
    <2> QED
      BY Zenon, <1>5, <2>1, <2>2 DEF MemoryFollows
  <1>7. Covers(t[c], byClient[c])
    <2>1. byClient[c].left \in 0..LeaseTime
      BY Zenon, <1>0, EntryFields DEF Ticks
    <2> QED
      BY <1>2, <2>1, ConstantsAssumption DEF Covers
  <1>8. a \in Acks \cup {NoAck} /\ held \in Seq(Acks \cup {NoAck}) /\ {} \in SUBSET Clients
    BY <1>0, ConstantsAssumption DEF StoreType, Acks, Ticks
  <1>9. a = NoAck \/ /\ a.to \in Clients /\ byClient'[a.to].st = "committed"
                     /\ Covers(byClient'[a.to], a) /\ Covers(t[a.to], a)
    BY <1>2, <1>4, ConstantsAssumption DEF Covers
  <1>10. \A d \in Clients \ {} : t[d] = Memory[d] \/ Memory[d].left = 0 \/ Covers(t[d], byClient[d])
    BY Zenon, <1>2, <1>7
  <1>11. \A i \in 1..Len(held) : held[i] = NoAck \/ (held[i] = held[i] /\ held[i].to \notin {})
    BY Zenon
  <1>12. \A d \in Clients : granted'[d].left = 0 \/ (granted'[d] = granted[d] /\ d \notin {})
    BY Zenon
  <1> QED
    BY Zenon, <1>2, <1>3, <1>4, <1>6, <1>8, <1>9, <1>10, <1>11, <1>12, StepBacked

\* A RELEASE or DECLINE of c ends what backs c's ACKs, and the ACKs with it.
LEMMA GiveUpBacked ==
    ASSUME PoolInv, PoolInv', Backed, NEW c \in Clients, Clear(c), GiveUp(c)
    PROVE  Backed'
  <1> DEFINE t == [Memory EXCEPT ![c] = NotKept]
  <1>0. PoolType /\ StoreType /\ MemoryFollows /\ granted \in [Clients -> Kept]
    BY Zenon DEF PoolInv, TypeOK, PoolType, StoreType, Backed
  <1>1. NotKept \in Kept /\ NotKept.left = 0
    BY ConstantsAssumption DEF NotKept, Kept, IPs, Ticks
  <1>2. /\ t \in [Clients -> Kept] /\ t[c] = NotKept
        /\ \A d \in Clients \ {c} : t[d] = Memory[d]
    BY Zenon, <1>0, <1>1, TableStates
  <1>3. \A d \in Clients \ {c} : byClient'[d] = byClient[d]
    BY Zenon, <1>0 DEF Clear, Dropped, PoolType
  <1>4. \/ table' = table /\ held' = Ignored(c) /\ ~(byClient[c].st = "committed" /\ Bound(c))
        \/ table' = Append(table, t) /\ held' = Append(Ignored(c), NoAck)
    BY Zenon DEF GiveUp, Ignored
  <1>5. \A d \in Clients : granted'[d].left = 0 \/ (granted'[d] = granted[d] /\ d \notin {c})
    BY Zenon, <1>0, <1>1 DEF GiveUp
  <1> HIDE DEF t
  <1>6. MemoryFollows'
    <2>1. \A d \in Clients : Memory'[d].left > 0 => d # c /\ Memory'[d] = Memory[d]
      <3>1. CASE table' = table /\ ~(byClient[c].st = "committed" /\ Bound(c))
        <4>1. Memory' = Memory
          BY Zenon, <3>1 DEF Memory
        <4> QED
          BY Zenon, <1>0, <3>1, <4>1, MemoryBound
      <3>2. CASE table' = Append(table, t)
        <4>1. Memory' = t
          BY <1>0, <1>2, <3>2 DEF Memory, StoreType
        <4> QED
          BY <4>1, <1>1, <1>2, ConstantsAssumption
      <3> QED
        BY Zenon, <1>4, <3>1, <3>2
    <2> QED
      BY Zenon, <1>0, <1>3, <2>1 DEF MemoryFollows
  <1>7. \A d \in Clients \ {c} : Stays(d)
    <2>1. \A d \in Clients : byClient[d].left \in Nat
      BY Zenon, <1>0, LeftIsNat
    <2> QED
      BY <1>3, <2>1 DEF Stays
  <1>8. Ignored(c) \in Seq(Acks \cup {NoAck}) /\ Len(Ignored(c)) = Len(held)
    BY Zenon, <1>0, IgnoredType
  <1>9. \A i \in 1..Len(held) : \/ Ignored(c)[i] = NoAck
                                \/ Ignored(c)[i] = held[i] /\ held[i].to \notin {c}
    BY Zenon, <1>0, TableStates DEF Ignored
  <1>10. {c} \in SUBSET Clients /\ NoAck \in Acks \cup {NoAck}
    BY Zenon
  <1>11. \A d \in Clients \ {c} : t[d] = Memory[d] \/ Memory[d].left = 0 \/ Covers(t[d], byClient[d])
    BY Zenon, <1>2
  <1> QED
    BY Zenon, <1>2, <1>4, <1>5, <1>6, <1>7, <1>8, <1>9, <1>10, <1>11, StepBacked

\* The expire timer deletes from the table only leases that back no ACK.
LEMMA ExpireBacked ==
    ASSUME PoolInv, PoolInv', Backed, Expire
    PROVE  Backed'
  <1> DEFINE t == [c \in Clients |-> IF Expired(Memory[c]) THEN NotKept ELSE Memory[c]]
  <1>0. PoolType /\ StoreType /\ MemoryFollows /\ held \in Seq(Acks \cup {NoAck})
    BY Zenon DEF PoolInv, TypeOK, PoolType, StoreType, Backed
  <1>1. NotKept \in Kept /\ NotKept.left = 0
    BY ConstantsAssumption DEF NotKept, Kept, IPs, Ticks
  <1>2. /\ t \in [Clients -> Kept]
        /\ \A d \in Clients : t[d] = Memory[d] \/ (t[d].left = 0 /\ Memory[d].left = 0)
    BY Zenon, <1>0, <1>1, TableStates DEF Expired
  <1>3. /\ table' = Append(table, t) /\ held' = Append(held, NoAck)
        /\ UNCHANGED <<byClient, granted>>
    BY Zenon DEF Expire, Write
  <1> HIDE DEF t
  <1>4. Memory' = t
    BY <1>0, <1>2, <1>3 DEF Memory, StoreType
  <1>5. MemoryFollows'
    <2>1. \A d \in Clients : t[d].left > 0 => t[d] = Memory[d]
      BY <1>2
    <2> QED
      BY Zenon, <1>0, <1>3, <1>4, <2>1 DEF MemoryFollows
  <1>6. \A d \in Clients : Stays(d)
    <2>1. \A d \in Clients : byClient[d].left \in Nat
      BY Zenon, <1>0, LeftIsNat
    <2> QED
      BY <1>3, <2>1 DEF Stays
  <1>7. {} \in SUBSET Clients /\ NoAck \in Acks \cup {NoAck}
    BY Zenon
  <1>8. \A d \in Clients \ {} : t[d] = Memory[d] \/ Memory[d].left = 0 \/ Covers(t[d], byClient[d])
    BY Zenon, <1>2
  <1>9. \A i \in 1..Len(held) : held[i] = NoAck \/ (held[i] = held[i] /\ held[i].to \notin {})
    BY Zenon
  <1>10. \A d \in Clients : granted'[d].left = 0 \/ (granted'[d] = granted[d] /\ d \notin {})
    BY Zenon, <1>3
  <1> QED
    BY Zenon, <1>0, <1>2, <1>3, <1>5, <1>6, <1>7, <1>8, <1>9, <1>10, StepBacked

\* A write that reaches the disk sends its ACK, which every later state backs.
LEMMA DurableBacked ==
    ASSUME PoolInv, PoolInv', Backed, Durable, ~failed'
    PROVE  Backed'
  <1>0. PoolType /\ StoreType /\ MemoryFollows /\ granted \in [Clients -> Kept]
    BY Zenon DEF PoolInv, TypeOK, PoolType, StoreType, Backed
  <1>1. /\ Len(held) \in Nat \ {0} /\ Len(table) = Len(held) + 1
        /\ table \in Seq([Clients -> Kept]) /\ held \in Seq(Acks \cup {NoAck})
    BY <1>0 DEF Durable, StoreType
  <1>2. /\ table' = Tail(table) /\ held' = Tail(held) /\ UNCHANGED byClient
        /\ granted' = [c \in Clients |-> IF Head(held).to = c
                                         THEN [ip |-> Head(held).ip, left |-> Head(held).left]
                                         ELSE granted[c]]
    BY Zenon DEF Durable
  <1>3. /\ Len(table') = Len(table) - 1 /\ Len(held') = Len(held) - 1
        /\ \A i \in 1..Len(table') : table'[i] = table[i + 1]
        /\ \A i \in 1..Len(held') : held'[i] = held[i + 1]
        /\ Head(held) = held[1]
    BY <1>1, <1>2
  <1>4. Memory' = Memory
    BY <1>1, <1>3 DEF Memory
  <1>5. MemoryFollows'
    BY Zenon, <1>0, <1>2, <1>4 DEF MemoryFollows
  <1>6. \A i \in 1..Len(table') : Whole(table'[i])
    BY <1>1, <1>3 DEF Backed
  <1>7. ASSUME NEW c \in Clients, NEW b, NEW from \in 1..Len(table), NEW from1 \in 1..Len(table'),
               from <= from1 + 1, AckBacked(c, b, from)
        PROVE  AckBacked(c, b, from1)'
    <2>1. \A j \in from1..Len(table') : j + 1 \in from..Len(table) /\ table'[j] = table[j + 1]
      BY <1>1, <1>3, <1>7
    <2> SUFFICES ASSUME b.left > 0
                 PROVE  /\ byClient'[c].st = "committed" /\ Covers(byClient'[c], b)
                        /\ \A j \in from1..Len(table') : Covers(table'[j][c], b)
      BY Zenon DEF AckBacked, Covers
    <2>2. /\ byClient[c].st = "committed" /\ Covers(byClient[c], b)
          /\ \A j \in from..Len(table) : Covers(table[j][c], b)
      BY Zenon, <1>7 DEF AckBacked
    <2> QED
      BY Zenon, <1>2, <2>1, <2>2
  <1>8. ASSUME NEW c \in Clients
        PROVE  AckBacked(c, granted[c], 1)'
    <2>0. 1 \in 1..Len(table') /\ 1 \in 1..Len(table) /\ 2 \in 1..Len(table)
      BY <1>1, <1>3
    <2>1. CASE Head(held).to = c
      <3>1. AckBacked(c, held[1], 2) /\ held[1].to = c
        BY <1>1, <1>3, <2>1 DEF Backed
      <3>2. ASSUME NEW b, b = held[1]
            PROVE  AckBacked(c, b, 1)'
        BY <1>7, <2>0, <3>1, <3>2
      <3>3. granted'[c].ip = held[1].ip /\ granted'[c].left = held[1].left
        BY Zenon, <1>2, <1>3, <2>1
      <3> QED
        BY Zenon, <3>2, <3>3 DEF AckBacked, Covers
    <2>2. CASE Head(held).to # c
      <3>1. granted'[c] = granted[c] /\ AckBacked(c, granted[c], 1)
        BY Zenon, <1>2, <2>2 DEF Backed
      <3>2. ASSUME NEW b, b = granted[c]
            PROVE  AckBacked(c, b, 1)'
        BY <1>7, <2>0, <3>1, <3>2
      <3> QED
        BY Zenon, <3>1, <3>2 DEF AckBacked
    <2> QED
      BY Zenon, <2>1, <2>2
  <1>9. ASSUME NEW i \in 1..Len(held'), held'[i].to \in Clients
        PROVE  AckBacked(held[i].to, held[i], i + 1)'
    <2>1. /\ held'[i] = held[i + 1] /\ i + 1 \in 1..Len(held) /\ i + 1 + 1 \in 1..Len(table)
          /\ i + 1 \in 1..Len(table')
      BY <1>1, <1>3
    <2>2. AckBacked(held[i + 1].to, held[i + 1], i + 1 + 1) /\ held[i + 1].to \in Clients
      BY Zenon, <1>9, <2>1 DEF Backed
    <2>3. ASSUME NEW b, b = held[i + 1]
          PROVE  AckBacked(b.to, b, i + 1)'
      BY <1>7, <2>1, <2>2, <2>3
    <2> QED
      BY Zenon, <2>1, <2>3 DEF AckBacked
  <1> QED
    BY Zenon, <1>5, <1>6, <1>8, <1>9 DEF Backed

\* Time passing shortens every duration and changes nothing else.
LEMMA TickIs ==
    ASSUME TypeOK, Tick
    PROVE  /\ TypeOK'
           /\ Len(table') = Len(table) /\ Len(held') = Len(held)
           /\ \A c \in Clients :
                /\ byClient'[c].ip = byClient[c].ip /\ byClient'[c].st = byClient[c].st
                /\ byClient'[c].left = Less(byClient[c].left)
           /\ \A i \in 1..Len(table), c \in Clients :
                table'[i][c] = [ip |-> table[i][c].ip, left |-> Less(table[i][c].left)]
           /\ \A i \in 1..Len(held) :
                /\ held'[i].to = held[i].to /\ held'[i].ip = held[i].ip
                /\ held'[i].left = Less(held[i].left)
  <1> USE ConstantsAssumption
  <1>0. PoolType /\ StoreType
    BY Zenon, TypeSplit
  <1>1. \A n \in Ticks : Less(n) \in Ticks
    BY LessType DEF Ticks
  <1>2. \A l \in Kept : [l EXCEPT !.left = Less(@)] = [ip |-> l.ip, left |-> Less(l.left)]
                        /\ [l EXCEPT !.left = Less(@)] \in Kept
    BY <1>1 DEF Kept
  <1>3. \A l \in Leases \cup {NoLease} :
            /\ [l EXCEPT !.left = Less(@)] \in Leases \cup {NoLease}
            /\ [l EXCEPT !.left = Less(@)].ip = l.ip /\ [l EXCEPT !.left = Less(@)].st = l.st
            /\ [l EXCEPT !.left = Less(@)].left = Less(l.left)
    BY <1>1 DEF Leases, NoLease, Less
  <1>4. \A a \in Acks \cup {NoAck} :
            /\ [a EXCEPT !.left = Less(@)] \in Acks \cup {NoAck}
            /\ [a EXCEPT !.left = Less(@)].to = a.to /\ [a EXCEPT !.left = Less(@)].ip = a.ip
            /\ [a EXCEPT !.left = Less(@)].left = Less(a.left)
    BY <1>1 DEF Acks, NoAck, Less
  <1>5. /\ byClient' \in [Clients -> Leases \cup {NoLease}]
        /\ \A c \in Clients :
                /\ byClient'[c].ip = byClient[c].ip /\ byClient'[c].st = byClient[c].st
                /\ byClient'[c].left = Less(byClient[c].left)
    BY Zenon, <1>3 DEF Tick, TypeOK
  <1>6. declined' \in [IPs -> 0..Quarantine]
    BY LessType DEF Tick, TypeOK
  <1>7. granted' \in [Clients -> Kept]
    <2>1. NotKept \in Kept
      BY DEF NotKept, Kept, IPs, Ticks
    <2> QED
      BY Zenon, <1>2, <2>1 DEF Tick, TypeOK
  <1>8. \A i \in 1..Len(table) :
            /\ [c \in Clients |-> [table[i][c] EXCEPT !.left = Less(@)]] \in [Clients -> Kept]
            /\ \A c \in Clients : [table[i][c] EXCEPT !.left = Less(@)]
                                  = [ip |-> table[i][c].ip, left |-> Less(table[i][c].left)]
    <2> SUFFICES ASSUME NEW i \in 1..Len(table)
                 PROVE  /\ [c \in Clients |-> [table[i][c] EXCEPT !.left = Less(@)]] \in [Clients -> Kept]
                        /\ \A c \in Clients : [table[i][c] EXCEPT !.left = Less(@)]
                                = [ip |-> table[i][c].ip, left |-> Less(table[i][c].left)]
      BY Zenon
    <2>1. \A c \in Clients : table[i][c] \in Kept
      BY Zenon, <1>0, TableStates
    <2> QED
      BY Zenon, <1>2, <2>1
  <1>9. /\ table' \in Seq([Clients -> Kept]) /\ Len(table') = Len(table)
        /\ \A i \in 1..Len(table), c \in Clients :
                table'[i][c] = [ip |-> table[i][c].ip, left |-> Less(table[i][c].left)]
    BY <1>0, <1>8, TableStates DEF Tick
  <1>10. /\ held' \in Seq(Acks \cup {NoAck}) /\ Len(held') = Len(held)
         /\ \A i \in 1..Len(held) :
                /\ held'[i].to = held[i].to /\ held'[i].ip = held[i].ip
                /\ held'[i].left = Less(held[i].left)
    BY SMTT(30), <1>0, <1>4, TableStates DEF Tick
  <1>11. TypeOK'
    <2>1. table' # <<>> /\ Len(table') = Len(held') + 1
      BY Zenon, <1>0, <1>9, <1>10, TableStates DEF StoreType
    <2> QED
      BY Zenon, <2>1, <1>5, <1>6, <1>7, <1>9, <1>10 DEF Tick, TypeOK
  <1> QED
    BY Zenon, <1>5, <1>9, <1>10, <1>11

\* Time passes alike for the pool, the table and the ACKs.
LEMMA TickBacked ==
    ASSUME PoolInv, Backed, Tick
    PROVE  Backed'
  <1>0. TypeOK /\ PoolType /\ StoreType /\ MemoryFollows /\ granted \in [Clients -> Kept]
    BY Zenon DEF PoolInv, TypeOK, PoolType, StoreType, Backed
  <1>1. /\ Len(table') = Len(table) /\ Len(held') = Len(held) /\ StoreType'
        /\ \A c \in Clients :
             /\ byClient'[c].ip = byClient[c].ip /\ byClient'[c].st = byClient[c].st
             /\ byClient'[c].left = Less(byClient[c].left)
        /\ \A j \in 1..Len(table), c \in Clients :
             table'[j][c] = [ip |-> table[j][c].ip, left |-> Less(table[j][c].left)]
        /\ \A k \in 1..Len(held) :
             /\ held'[k].to = held[k].to /\ held'[k].ip = held[k].ip
             /\ held'[k].left = Less(held[k].left)
    BY Zenon, <1>0, TickIs, TypeSplit DEF TypeOK, StoreType
  <1>2. \A m, n \in Nat : m >= n => Less(m) >= Less(n)
    BY DEF Less
  <1>3. \A n \in Nat : Less(n) > 0 => n > 0
    BY SMTT(30) DEF Less
  <1>4. /\ \A j \in 1..Len(table), c \in Clients : table[j][c].left \in Nat
        /\ \A c \in Clients : byClient[c].left \in Nat /\ granted[c].left \in Nat
        /\ \A k \in 1..Len(held) : held[k].left \in Nat
    <2>0. \A k \in Kept : k.left \in Nat
      BY ConstantsAssumption DEF Kept, Ticks
    <2>1. \A j \in 1..Len(table), c \in Clients : table[j][c].left \in Nat
      BY Zenon, <1>0, <2>0, TableStates
    <2>2. \A c \in Clients : byClient[c].left \in Nat /\ granted[c].left \in Nat
      BY Zenon, <1>0, <2>0, LeftIsNat
    <2>3. \A k \in 1..Len(held) : held[k].left \in Nat
      BY <1>0, TableStates, ConstantsAssumption DEF Acks, NoAck, Ticks
    <2> QED
      BY Zenon, <2>1, <2>2, <2>3
  <1>5. \A j \in 1..Len(table), c \in Clients :
            table'[j][c].ip = table[j][c].ip /\ table'[j][c].left = Less(table[j][c].left)
    <2> TAKE j \in 1..Len(table), c \in Clients
    <2>1. table'[j][c] = [ip |-> table[j][c].ip, left |-> Less(table[j][c].left)]
      BY Zenon, <1>1
    <2> QED
      BY <2>1
  <1>6. MemoryFollows'
    <2>1. Len(table) \in 1..Len(table) /\ Memory = table[Len(table)] /\ Memory' = table'[Len(table)]
      BY <1>0, <1>1, TableStates DEF Memory
    <2>2. ASSUME NEW c \in Clients, Memory'[c].left > 0
          PROVE  byClient'[c] = [ip |-> Memory'[c].ip, left |-> Memory'[c].left, st |-> "committed"]
      <3>1. Memory[c].left > 0 /\ Memory'[c].ip = Memory[c].ip /\ Memory'[c].left = Less(Memory[c].left)
        BY Zenon, <1>3, <1>4, <1>5, <2>1, <2>2
      <3>2. byClient[c] = [ip |-> Memory[c].ip, left |-> Memory[c].left, st |-> "committed"]
        BY Zenon, <1>0, <3>1 DEF MemoryFollows
      <3>3. byClient'[c] = [byClient[c] EXCEPT !.left = Less(@)]
        BY Zenon DEF Tick
      <3> HIDE DEF Memory
      <3> QED
        BY <3>1, <3>2, <3>3
    <2> QED
      BY Zenon, <2>2 DEF MemoryFollows
  <1>7. ASSUME NEW i \in 1..Len(table')
        PROVE  Whole(table'[i])
    <2>1. i \in 1..Len(table) /\ Whole(table[i])
      BY Zenon, <1>1 DEF Backed
    <2>2. \A c \in Clients : table'[i][c].left > 0 => table[i][c].left > 0
      BY Zenon, <1>3, <1>4, <1>5, <2>1
    <2>3. \A c \in Clients : table'[i][c].ip = table[i][c].ip
      BY Zenon, <1>5, <2>1
    <2> QED
      BY Zenon, <2>1, <2>2, <2>3 DEF Whole
  <1>8. ASSUME NEW c \in Clients, NEW b, NEW b1, b.left \in Nat, b1.ip = b.ip,
               b1.left = Less(b.left), NEW from \in 1..Len(table), AckBacked(c, b, from)
        PROVE  AckBacked(c, b1, from)'
    <2> SUFFICES ASSUME b1.left > 0
                 PROVE  /\ byClient'[c].st = "committed" /\ Covers(byClient'[c], b1)
                        /\ \A j \in from..Len(table') : Covers(table'[j][c], b1)
      BY Zenon DEF AckBacked, Covers
    <2>1. /\ byClient[c].st = "committed" /\ Covers(byClient[c], b)
          /\ \A j \in from..Len(table) : Covers(table[j][c], b)
      BY Zenon, <1>3, <1>8 DEF AckBacked
    <2>2. Covers(byClient'[c], b1)
      BY Zenon, <1>1, <1>2, <1>4, <1>8, <2>1 DEF Covers
    <2>3. \A j \in from..Len(table') : j \in 1..Len(table) /\ Covers(table'[j][c], b1)
      <3>1. \A j \in from..Len(table') : j \in 1..Len(table) /\ j \in from..Len(table)
        BY <1>0, <1>1, TableStates
      <3> QED
        BY Zenon, <1>2, <1>4, <1>5, <1>8, <2>1, <3>1 DEF Covers
    <2> QED
      BY Zenon, <1>1, <2>1, <2>2, <2>3
  <1>9. ASSUME NEW c \in Clients
        PROVE  AckBacked(c, granted[c], 1)'
    <2>1. CASE granted[c].left <= 1
      <3>1. granted'[c] = NotKept
        BY Zenon, <2>1 DEF Tick
      <3> QED
        BY <3>1 DEF AckBacked, NotKept
    <2>2. CASE ~(granted[c].left <= 1)
      <3>1. granted'[c] = [granted[c] EXCEPT !.left = Less(@)]
        BY Zenon, <2>2 DEF Tick
      <3>2. granted'[c].ip = granted[c].ip /\ granted'[c].left = Less(granted[c].left)
        BY Zenon, <1>0, <3>1 DEF Kept
      <3>3. ASSUME NEW b, NEW b1, b = granted[c], b1 = granted'[c]
            PROVE  AckBacked(c, b1, 1)'
        <4>1. AckBacked(c, b, 1) /\ 1 \in 1..Len(table) /\ b.left \in Nat
          BY SMTT(30), <1>0, <1>4, <3>3, TableStates DEF Backed
        <4> QED
          BY Zenon, <1>8, <3>2, <3>3, <4>1
      <3> QED
        BY Zenon, <3>3 DEF AckBacked
    <2> QED
      BY Zenon, <2>1, <2>2
  <1>10. ASSUME NEW i \in 1..Len(held'), held'[i].to \in Clients
         PROVE  AckBacked(held[i].to, held[i], i + 1)'
    <2>1. /\ i \in 1..Len(held) /\ i + 1 \in 1..Len(table)
      BY SMTT(30), <1>0, <1>1, TableStates DEF StoreType
    <2>2. AckBacked(held[i].to, held[i], i + 1) /\ held[i].to \in Clients /\ held'[i].to = held[i].to
      BY Zenon, <1>1, <1>10, <2>1 DEF Backed
    <2>3. ASSUME NEW b, NEW b1, b = held[i], b1 = held'[i]
          PROVE  AckBacked(b.to, b1, i + 1)'
      BY Zenon, <1>1, <1>4, <1>8, <2>1, <2>2, <2>3
    <2> QED
      BY Zenon, <2>2, <2>3 DEF AckBacked
  <1> QED
    BY Zenon, <1>6, <1>7, <1>9, <1>10 DEF Backed

-----------------------------------------------------------------------------

(* The pool's invariants, over every step.                                 *)

\* hold keeps the pool's invariants when the address may be given out.
LEMMA HoldKeeps ==
    ASSUME PoolType, PoolIndexed, DeclinedWithheld, PoolUsable,
           NEW c \in Clients, NEW ip \in IPs, ip \notin Reserved, declined[ip] = 0,
           NEW st \in {"offered", "committed"},
           Hold(c, ip, st), UNCHANGED declined
    PROVE  PoolKept'
  <1> DEFINE dur == IF st = "committed" THEN LeaseTime ELSE OfferHold
             prev == Unindexed(c)[ip]
             held1 == [ip |-> ip, left |-> dur, st |-> st]
  <1>1. dur \in Ticks /\ held1 \in Leases
    BY ConstantsAssumption DEF Ticks, Leases
  <1>2. /\ byClient' = [x \in Clients |-> IF x = c THEN held1
                                          ELSE IF x = prev THEN NoLease ELSE byClient[x]]
        /\ byIP' = [Unindexed(c) EXCEPT ![ip] = c]
    BY Zenon DEF Hold
  <1>3. prev = IF byIP[ip] = c THEN None ELSE byIP[ip]
    BY Zenon, UnindexedIs
  <1> HIDE DEF dur, prev
  <1>4. PoolType'
    BY Zenon, <1>1, <1>2, UnindexedIs DEF PoolType
  <1>5. \A a \in IPs : byIP'[a] = IF a = ip THEN c ELSE IF byIP[a] = c THEN None ELSE byIP[a]
    BY Zenon, <1>2, UnindexedIs
  <1>6. \A x \in Clients : byClient'[x] = IF x = c THEN held1
                                          ELSE IF x = byIP[ip] THEN NoLease ELSE byClient[x]
    BY Zenon, <1>2, <1>3, ConstantsAssumption
  <1>7. \A x \in Clients : byClient'[x].st # "none" =>
            \/ x = c /\ byClient'[x].ip = ip
            \/ x # c /\ x # byIP[ip] /\ byClient'[x] = byClient[x]
    BY SMTT(30), <1>6 DEF NoLease
  <1>8. PoolIndexed'
    <2>1. \A x \in Clients : byClient'[x].st # "none" => byIP'[byClient'[x].ip] = x
      BY <1>5, <1>7, EntryFields DEF PoolIndexed
    <2>2. ASSUME NEW a \in IPs, byIP'[a] # None
          PROVE  byClient'[byIP'[a]].st # "none" /\ byClient'[byIP'[a]].ip = a
      <3>1. CASE a = ip
        BY SMTT(30), <3>1, <1>5, <1>6
      <3>2. CASE a # ip
        <4>1. byIP'[a] = byIP[a] /\ byIP[a] # c /\ byIP[a] \in Clients
          BY Zenon, <3>2, <2>2, <1>5 DEF PoolType
        <4>2. byIP[a] # byIP[ip]
          BY <3>2, <4>1, ConstantsAssumption DEF PoolIndexed
        <4>3. byClient'[byIP[a]] = byClient[byIP[a]]
          BY Zenon, <4>1, <4>2, <1>6
        <4> QED
          BY <4>1, <4>3, <2>2 DEF PoolIndexed
      <3> QED
        BY Zenon, <3>1, <3>2
    <2> QED
      BY Zenon, <2>1, <2>2 DEF PoolIndexed
  <1>9. DeclinedWithheld'
    BY <1>5 DEF DeclinedWithheld
  <1>10. PoolUsable'
    BY Zenon, <1>7 DEF PoolUsable
  <1> QED
    BY Zenon, <1>4, <1>8, <1>9, <1>10 DEF PoolKept

\* clear keeps them, and may put the address it frees into quarantine.
LEMMA ClearKeeps ==
    ASSUME PoolType, PoolIndexed, DeclinedWithheld, PoolUsable,
           NEW c \in Clients, Clear(c),
           \A ip \in IPs : declined'[ip] = declined[ip] \/ byIP[ip] = c
    PROVE  PoolKept'
  <1>1. PoolType'
    BY Zenon, UnindexedIs DEF PoolType, Clear, Dropped
  <1>2. \A a \in IPs : byIP'[a] = IF byIP[a] = c THEN None ELSE byIP[a]
    BY Zenon, UnindexedIs DEF Clear
  <1>3. \A x \in Clients : byClient'[x] = IF x = c THEN NoLease ELSE byClient[x]
    BY Zenon DEF Clear, Dropped, PoolType
  <1>4. \A x \in Clients : byClient'[x].st # "none" => x # c /\ byClient'[x] = byClient[x]
    BY <1>3 DEF NoLease
  <1>5. PoolIndexed'
    BY <1>2, <1>3, <1>4, EntryFields DEF PoolIndexed, PoolType
  <1>6. DeclinedWithheld'
    BY Zenon, <1>2 DEF DeclinedWithheld
  <1>7. PoolUsable'
    BY Zenon, <1>4 DEF PoolUsable
  <1> QED
    BY Zenon, <1>1, <1>5, <1>6, <1>7 DEF PoolKept

\* A pool filled from a table satisfies them, whatever the table.
LEMMA RestoredKeeps ==
    ASSUME NEW kept \in [Clients -> Kept], NEW K \in Restorable(kept),
           byClient' = [c \in Clients |->
               IF c \in K THEN [ip |-> kept[c].ip, left |-> kept[c].left, st |-> "committed"]
               ELSE NoLease],
           byIP' = [ip \in IPs |-> IF \E c \in K : kept[c].ip = ip
                                   THEN CHOOSE c \in K : kept[c].ip = ip ELSE None],
           declined' = [ip \in IPs |-> 0]
    PROVE  PoolKept'
  <1>1. /\ K \subseteq Clients
        /\ \A c \in K : kept[c].ip \in IPs \ Reserved /\ kept[c].left \in Ticks
        /\ \A c, d \in K : kept[c].ip = kept[d].ip => c = d
    BY Zenon DEF Restorable, Kept, Reserved
  <1>2. \A c \in Clients : c \in K => byClient'[c].ip = kept[c].ip /\ byClient'[c].st = "committed"
    BY Zenon, <1>1
  <1>3. \A c \in Clients : c \notin K => byClient'[c].st = "none"
    BY Zenon, <1>1 DEF NoLease
  <1>4. \A ip \in IPs : \A c \in K : kept[c].ip = ip => byIP'[ip] = c
    BY Zenon, <1>1
  <1>5. \A ip \in IPs : byIP'[ip] # None => byIP'[ip] \in K /\ kept[byIP'[ip]].ip = ip
    BY Zenon
  <1>6. PoolType'
    BY Zenon, <1>1, <1>5 DEF PoolType, Leases
  <1>7. PoolIndexed'
    BY <1>1, <1>2, <1>3, <1>4, <1>5 DEF PoolIndexed
  <1>8. DeclinedWithheld' /\ PoolUsable'
    BY <1>1, <1>2, <1>3 DEF DeclinedWithheld, PoolUsable
  <1> QED
    BY Zenon, <1>6, <1>7, <1>8 DEF PoolKept

\* A write adds one state to the table and one ACK, or none, to those held.
LEMMA WriteKeeps ==
    ASSUME StoreType, NEW t \in [Clients -> Kept], NEW a \in Acks \cup {NoAck},
           NEW acks \in Seq(Acks \cup {NoAck}), Len(acks) = Len(held),
           table' = Append(table, t), held' = Append(acks, a)
    PROVE  StoreType'
  BY SMTT(30) DEF StoreType

LEMMA PutKeeps ==
    ASSUME StoreType, NEW c \in Clients, NEW ip \in IPs,
           NEW a \in {NoAck, [to |-> c, ip |-> ip, left |-> LeaseTime]}, Put(c, ip, a)
    PROVE  StoreType'
  <1>1. [Memory EXCEPT ![c] = [ip |-> ip, left |-> LeaseTime]] \in [Clients -> Kept]
    BY TableStates, ConstantsAssumption DEF Kept, Ticks
  <1>2. a \in Acks \cup {NoAck}
    BY ConstantsAssumption DEF Acks, Ticks
  <1> QED
    BY Zenon, <1>1, <1>2, WriteKeeps DEF Put, Write, StoreType

LEMMA GiveUpKeeps ==
    ASSUME StoreType, granted \in [Clients -> Kept], NEW c \in Clients, GiveUp(c)
    PROVE  StoreType' /\ granted' \in [Clients -> Kept]
  <1>1. NotKept \in Kept
    BY ConstantsAssumption DEF NotKept, Kept, IPs, Ticks
  <1>2. granted' \in [Clients -> Kept]
    BY Zenon, <1>1 DEF GiveUp
  <1>3. CASE byClient[c].st = "committed" /\ Bound(c)
    <2>1. [Memory EXCEPT ![c] = NotKept] \in [Clients -> Kept]
      BY Zenon, <1>1, TableStates
    <2> QED
      BY Zenon, <1>3, <2>1, IgnoredType, WriteKeeps DEF GiveUp, Ignored
  <1>4. CASE ~(byClient[c].st = "committed" /\ Bound(c))
    <2>1. table' = table /\ held' = Ignored(c)
      BY Zenon, <1>4 DEF GiveUp, Ignored
    <2> QED
      BY Zenon, <1>2, <2>1, IgnoredType DEF StoreType
  <1> QED
    BY Zenon, <1>2, <1>3, <1>4

\* A pool filled from the last state of t leaves a table of the same kind.
LEMMA RestoredType ==
    ASSUME NEW t \in Seq([Clients -> Kept]), t # <<>>,
           NEW acks \in Seq(Acks \cup {NoAck}), Len(t) = Len(acks) + 1,
           Restored(t, acks)
    PROVE  PoolKept' /\ StoreType'
  <1> DEFINE kept == t[Len(t)]
  <1>1. kept \in [Clients -> Kept] /\ NotKept \in Kept
    BY SMTT(30), ConstantsAssumption DEF NotKept, Kept, IPs, Ticks
  <1>2. PICK K \in Restorable(kept) :
        /\ byClient' = [c \in Clients |->
               IF c \in K THEN [ip |-> kept[c].ip, left |-> kept[c].left, st |-> "committed"]
               ELSE NoLease]
        /\ byIP' = [ip \in IPs |-> IF \E c \in K : kept[c].ip = ip
                                   THEN CHOOSE c \in K : kept[c].ip = ip ELSE None]
        /\ IF \A c \in Clients \ K : kept[c] = NotKept
           THEN table' = t /\ held' = acks
           ELSE /\ table' = Append(t, [c \in Clients |-> IF c \in K THEN kept[c] ELSE NotKept])
                /\ held' = Append(acks, NoAck)
    BY Zenon DEF Restored
  <1>3. declined' = [ip \in IPs |-> 0]
    BY Zenon DEF Restored
  <1> HIDE DEF kept
  <1>4. PoolKept'
    BY Zenon, <1>1, <1>2, <1>3, RestoredKeeps
  <1> DEFINE rest == [c \in Clients |-> IF c \in K THEN kept[c] ELSE NotKept]
  <1>5. rest \in [Clients -> Kept]
    BY Zenon, <1>1
  <1>6. \/ table' = t /\ held' = acks
        \/ table' = Append(t, rest) /\ held' = Append(acks, NoAck)
    BY Zenon, <1>2
  <1> HIDE DEF rest
  <1>7. StoreType'
    <2>1. CASE table' = t /\ held' = acks
      BY Zenon, <2>1 DEF StoreType
    <2>2. CASE table' = Append(t, rest) /\ held' = Append(acks, NoAck)
      <3>1. Append(t, rest) \in Seq([Clients -> Kept]) /\ Len(Append(t, rest)) = Len(t) + 1
        BY <1>5
      <3>2. Append(acks, NoAck) \in Seq(Acks \cup {NoAck}) /\ Len(Append(acks, NoAck)) = Len(acks) + 1
        OBVIOUS
      <3>3. Len(t) \in Nat /\ Len(acks) \in Nat
        OBVIOUS
      <3> QED
        BY <2>2, <3>1, <3>2, <3>3 DEF StoreType
    <2> QED
      BY Zenon, <1>6, <2>1, <2>2
  <1> QED
    BY Zenon, <1>4, <1>7

LEMMA DurableType ==
    ASSUME StoreType, granted \in [Clients -> Kept], Durable
    PROVE  StoreType' /\ granted' \in [Clients -> Kept]
  <1>1. /\ Len(table) \in Nat /\ Len(held) \in Nat /\ Len(held) > 0
        /\ Len(table) = Len(held) + 1
    BY DEF StoreType, Durable
  <1>2. Tail(table) \in Seq([Clients -> Kept]) /\ Len(Tail(table)) = Len(held)
    BY <1>1 DEF StoreType
  <1>3. Undone \in Seq([Clients -> Kept]) /\ Len(Undone) = Len(held)
    <2>1. \A i \in 1..Len(held) : [c \in Clients |->
              IF \A j \in 2..(i + 1) : table[j][c] = table[2][c] THEN table[1][c]
              ELSE table[i + 1][c]] \in [Clients -> Kept]
      BY <1>1, TableStates
    <2> QED
      BY SMTT(30), <1>1, <2>1 DEF Undone
  <1>4. held' \in Seq(Acks \cup {NoAck}) /\ Len(held') + 1 = Len(held)
    BY <1>1 DEF StoreType, Durable
  <1>5. StoreType'
    <2>1. table' \in Seq([Clients -> Kept]) /\ Len(table') = Len(held)
      BY Zenon, <1>2, <1>3 DEF Durable
    <2> QED
      BY <1>1, <1>4, <2>1 DEF StoreType
  <1>6. Head(held) \in Acks \cup {NoAck}
    BY <1>1, TableStates
  <1>7. Head(held) \in Acks => [ip |-> Head(held).ip, left |-> Head(held).left] \in Kept
    BY Zenon DEF Acks, Kept
  <1>8. granted' \in [Clients -> Kept]
    BY <1>6, <1>7, ConstantsAssumption DEF Durable, NoAck
  <1> QED
    BY Zenon, <1>5, <1>8

\* The expire timer deletes, from the table alone, leases that have run out.
LEMMA ExpireType ==
    ASSUME StoreType, Expire
    PROVE  StoreType'
  <1>1. NotKept \in Kept
    BY ConstantsAssumption DEF NotKept, Kept, IPs, Ticks
  <1>2. [c \in Clients |-> IF Expired(Memory[c]) THEN NotKept ELSE Memory[c]] \in [Clients -> Kept]
    BY Zenon, <1>1, TableStates
  <1> QED
    BY Zenon, <1>2, WriteKeeps DEF Expire, Write, StoreType

\* Every step keeps the pool's invariants: a REQUEST can only commit an address
\* that the client holds, hence one that is not declined, and a DISCOVER holds
\* an allocatable one.
LEMMA PoolStep == PoolInv /\ [Next]_vars => PoolInv'
  <1> SUFFICES ASSUME PoolInv, [Next]_vars
               PROVE  PoolInv'
    BY Zenon
  <1> USE DEF PoolInv
  <1>0. /\ TypeOK /\ PoolType /\ StoreType /\ declined \in [IPs -> 0..Quarantine]
        /\ granted \in [Clients -> Kept] /\ failed \in BOOLEAN
    BY Zenon, TypeSplit
  <1>1. PoolKept' /\ StoreType' /\ declined' \in [IPs -> 0..Quarantine]
        /\ granted' \in [Clients -> Kept] /\ failed' \in BOOLEAN => PoolInv'
    BY Zenon DEF TypeOK, PoolType, StoreType, PoolKept
  <1>2. \A c \in Clients : Bound(c) => byClient[c].st # "none"
    BY Zenon, <1>0, BoundLease
  <1>3. ASSUME NEW c \in Clients, NEW ip \in IPs, Discover(c, ip)
        PROVE  PoolInv'
    <2>1. UNCHANGED <<declined, granted, failed>>
      BY Zenon, <1>3 DEF Discover
    <2>2. CASE Bound(c) /\ Allocatable(byClient[c].ip)
      <3>1. byClient[c].st \in {"offered", "committed"} /\ byClient[c].ip \in IPs
        BY Zenon, <2>2, <1>2, <1>0, EntryFields
      <3>2. Hold(c, byClient[c].ip, byClient[c].st)
        BY Zenon, <2>2, <1>3 DEF Discover
      <3>3. PoolKept'
        BY Zenon, <1>0, <2>1, <2>2, <3>1, <3>2, HoldKeeps DEF Allocatable, Reserved
      <3>4. \/ Put(c, byClient[c].ip, NoAck)
            \/ UNCHANGED <<table, held>>
        BY Zenon, <2>2, <1>3 DEF Discover
      <3>5. StoreType'
        BY Zenon, <1>0, <3>1, <3>4, PutKeeps DEF StoreType
      <3> QED
        BY Zenon, <1>0, <1>1, <2>1, <3>3, <3>5
    <2>3. CASE ~(Bound(c) /\ Allocatable(byClient[c].ip))
      <3>1. PICK a \in Free(c) : Hold(c, a, "offered")
        BY Zenon, <2>3, <1>3 DEF Discover
      <3>2. PoolKept'
        BY Zenon, <1>0, <2>1, <3>1, HoldKeeps DEF Free, Allocatable, Reserved
      <3>3. StoreType'
        BY Zenon, <1>0, <2>3, <1>3 DEF Discover, StoreType
      <3> QED
        BY Zenon, <1>0, <1>1, <2>1, <3>2, <3>3
    <2> QED
      BY Zenon, <2>2, <2>3
  <1>4. ASSUME NEW c \in Clients, NEW ip \in IPs, Request(c, ip)
        PROVE  PoolInv'
    <2>1. UNCHANGED <<declined, granted, failed>> /\ Hold(c, ip, "committed")
          /\ Put(c, ip, [to |-> c, ip |-> ip, left |-> LeaseTime])
      BY Zenon, <1>4 DEF Request, Commits
    <2>2. byIP[ip] = c /\ ip \notin Reserved
      BY Zenon, <1>2, <1>4 DEF Request, PoolIndexed, PoolUsable
    <2>3. declined[ip] = 0
      BY <1>0, <2>2, ConstantsAssumption DEF DeclinedWithheld
    <2>4. PoolKept'
      BY Zenon, <1>0, <2>1, <2>2, <2>3, HoldKeeps
    <2>5. StoreType'
      BY Zenon, <1>0, <2>1, PutKeeps
    <2> QED
      BY Zenon, <1>0, <1>1, <2>1, <2>4, <2>5
  <1>5. ASSUME NEW c \in Clients, NEW ip \in IPs, Release(c, ip) \/ Decline(c, ip)
        PROVE  PoolInv'
    <2>1. Clear(c) /\ GiveUp(c) /\ UNCHANGED failed
      BY Zenon, <1>5 DEF Release, Decline
    <2>2. /\ declined' \in [IPs -> 0..Quarantine]
          /\ \A a \in IPs : declined'[a] = declined[a] \/ byIP[a] = c
      BY <1>5, <1>0, ConstantsAssumption DEF Release, Decline
    <2>3. PoolKept'
      BY Zenon, <1>0, <2>1, <2>2, ClearKeeps
    <2>4. StoreType' /\ granted' \in [Clients -> Kept]
      BY Zenon, <1>0, <2>1, GiveUpKeeps
    <2> QED
      BY Zenon, <1>0, <1>1, <2>1, <2>2, <2>3, <2>4
  <1>6. ASSUME NEW c \in Clients, SelectOther(c)
        PROVE  PoolInv'
    <2>1. PoolKept'
      BY Zenon, <1>0, <1>6, ClearKeeps DEF SelectOther
    <2> QED
      BY Zenon, <1>0, <1>1, <1>6, <2>1 DEF SelectOther, StoreType
  <1>7. CASE Durable
    <2>1. UNCHANGED <<byClient, byIP, declined>> /\ failed' \in BOOLEAN
      BY Zenon, <1>0, <1>7 DEF Durable
    <2>2. PoolKept'
      BY Zenon, <1>0, <2>1 DEF PoolKept, PoolType, PoolIndexed, DeclinedWithheld, PoolUsable
    <2> QED
      BY Zenon, <1>0, <1>1, <1>7, <2>1, <2>2, DurableType
  <1>8. CASE Expire
    <2>1. UNCHANGED <<byClient, byIP, declined, granted, failed>>
      BY Zenon, <1>8 DEF Expire
    <2>2. PoolKept'
      BY Zenon, <1>0, <2>1 DEF PoolKept, PoolType, PoolIndexed, DeclinedWithheld, PoolUsable
    <2> QED
      BY Zenon, <1>0, <1>1, <1>8, <2>1, <2>2, ExpireType
  <1>9. CASE Restart \/ Crash
    <2>1. UNCHANGED <<granted, failed>> /\ declined' = [ip \in IPs |-> 0]
      BY Zenon, <1>9 DEF Restart, Crash, Restored
    <2>2. PoolKept' /\ StoreType'
      <3>1. CASE Restart
        <4>1. [i \in DOMAIN held |-> NoAck] \in Seq(Acks \cup {NoAck})
              /\ Len([i \in DOMAIN held |-> NoAck]) = Len(held)
          BY <1>0 DEF StoreType
        <4> QED
          BY Zenon, <3>1, <4>1, <1>0, RestoredType DEF Restart, StoreType
      <3>2. CASE Crash
        <4>1. <<Disk>> \in Seq([Clients -> Kept]) /\ <<Disk>> # <<>> /\ Len(<<Disk>>) = 1
          BY <1>0, TableStates
        <4>2. << >> \in Seq(Acks \cup {NoAck}) /\ Len(<< >>) = 0
          OBVIOUS
        <4> QED
          <5>1. Restored(<<Disk>>, << >>)
            BY Zenon, <3>2 DEF Crash
          <5>2. Len(<<Disk>>) = Len(<< >>) + 1
            BY <4>1, <4>2
          <5> QED
            BY Zenon, <4>1, <4>2, <5>1, <5>2, RestoredType
      <3> QED
        BY Zenon, <1>9, <3>1, <3>2
    <2> QED
      BY SMTT(30), <1>0, <1>1, <2>1, <2>2, ConstantsAssumption
  <1>10. CASE Tick
    <2>1. TypeOK'
      BY Zenon, <1>10, TickIs
    <2>2. \A c \in Clients : byClient'[c].ip = byClient[c].ip /\ byClient'[c].st = byClient[c].st
      BY Zenon, <1>10, TickIs
    <2>3. byIP' = byIP /\ \A ip \in IPs : declined'[ip] > 0 => declined[ip] > 0
      BY SMTT(30), <1>0, <1>10, LessType DEF Tick, Less
    <2>4. PoolIndexed'
      BY <1>0, <2>2, <2>3 DEF PoolIndexed, PoolType
    <2>5. DeclinedWithheld' /\ PoolUsable'
      BY Zenon, <2>2, <2>3 DEF DeclinedWithheld, PoolUsable
    <2> QED
      BY Zenon, <2>1, <2>4, <2>5
  <1>11. CASE UNCHANGED vars
    BY Zenon, <1>11 DEF vars, TypeOK, PoolIndexed, DeclinedWithheld, PoolUsable
  <1> QED
    BY Zenon, <1>3, <1>4, <1>5, <1>6, <1>7, <1>8, <1>9, <1>10, <1>11 DEF Next

LEMMA PoolInit == Init => PoolInv
  <1> SUFFICES ASSUME Init
               PROVE  PoolInv
    BY Zenon
  <1> USE ConstantsAssumption
  <1>1. [c \in Clients |-> NotKept] \in [Clients -> Kept]
    BY DEF NotKept, Kept, IPs, Ticks
  <1>2. TypeOK
    <2>1. table \in Seq([Clients -> Kept]) /\ table # <<>> /\ Len(table) = 1
      BY <1>1 DEF Init
    <2>2. held \in Seq(Acks \cup {NoAck}) /\ Len(held) = 0
      BY DEF Init
    <2>3. /\ byClient \in [Clients -> Leases \cup {NoLease}] /\ byIP \in [IPs -> Clients \cup {None}]
          /\ declined \in [IPs -> 0..Quarantine] /\ granted \in [Clients -> Kept]
      BY <1>1 DEF Init
    <2>4. failed \in BOOLEAN
      BY Zenon DEF Init
    <2>5. Len(table) = Len(held) + 1
      BY <2>1, <2>2
    <2> QED
      BY Zenon, <2>1, <2>2, <2>3, <2>4, <2>5 DEF TypeOK
  <1>3. PoolIndexed /\ DeclinedWithheld /\ PoolUsable
    BY Zenon DEF Init, PoolIndexed, DeclinedWithheld, PoolUsable, NoLease
  <1> QED
    BY Zenon, <1>2, <1>3 DEF PoolInv

-----------------------------------------------------------------------------
(* The theorems.                                                           *)

LEMMA InvInit == Init => Inv
  <1> SUFFICES ASSUME Init
               PROVE  Inv
    OBVIOUS
  <1>1. /\ Len(table) = 1 /\ table[1] = [c \in Clients |-> NotKept] /\ Len(held) = 0
        /\ \A c \in Clients : granted[c] = NotKept
    BY Zenon DEF Init
  <1>2. \A c \in Clients : Memory[c].left = 0 /\ table[1][c].left = 0 /\ granted[c].left = 0
    <2>1. Memory = [c \in Clients |-> NotKept] /\ NotKept.left = 0
      BY Zenon, <1>1 DEF Memory, NotKept
    <2> QED
      BY Zenon, <1>1, <2>1
  <1>3. Backed
    BY <1>1, <1>2 DEF Backed, MemoryFollows, Whole, AckBacked
  <1> QED
    BY Zenon, <1>3, PoolInit DEF Inv

\* Every step keeps every ACK backed, as long as the table is written.
LEMMA InvStep == Inv /\ [Next]_vars => Inv'
  <1> SUFFICES ASSUME Inv, [Next]_vars, ~failed'
               PROVE  Backed'
    BY Zenon, PoolStep DEF Inv
  <1>0. PoolInv /\ PoolInv' /\ (~failed => Backed)
    BY Zenon, PoolStep DEF Inv
  <1>00. /\ PoolType /\ StoreType /\ PoolIndexed /\ DeclinedWithheld /\ PoolUsable
         /\ declined \in [IPs -> 0..Quarantine] /\ granted \in [Clients -> Kept]
    BY Zenon, <1>0, TypeSplit DEF PoolInv
  <1>1. \A c \in Clients : Bound(c) => byClient[c].st # "none" /\ byClient[c].ip \in IPs \ Reserved
                                       /\ byIP[byClient[c].ip] = c
    BY <1>00, EntryFields, ConstantsAssumption DEF Bound, NoLease, PoolIndexed, PoolUsable
  <1>2. \A c \in Clients : Bound(c) => Allocatable(byClient[c].ip) /\ IsFree(byClient[c].ip, c)
    BY <1>00, <1>1, ConstantsAssumption DEF Allocatable, IsFree, DeclinedWithheld, Reserved
  <1>3. ASSUME NEW c \in Clients, NEW ip \in IPs, Discover(c, ip)
        PROVE  Backed'
    <2>1. Backed /\ UNCHANGED granted
      BY Zenon, <1>0, <1>3 DEF Discover
    <2>2. CASE Bound(c) /\ byClient[c].st = "committed"
      BY Zenon, <1>0, <1>1, <1>2, <1>3, <2>1, <2>2, PutBacked DEF Discover
    <2>3. CASE ~(Bound(c) /\ byClient[c].st = "committed")
      <3>1. \E a \in IPs : IsFree(a, c) /\ Hold(c, a, "offered")
        <4>1. CASE Bound(c)
          <5>1. byClient[c].st = "offered"
            BY Zenon, <1>00, <1>1, <2>3, <4>1, EntryFields
          <5> QED
            BY Zenon, <1>1, <1>2, <1>3, <4>1, <5>1 DEF Discover
        <4>2. CASE ~Bound(c)
          BY Zenon, <1>3, <4>2 DEF Discover, Free
        <4> QED
          BY Zenon, <4>1, <4>2
      <3>2. UNCHANGED <<table, held>>
        BY Zenon, <1>1, <1>2, <1>3, <2>3 DEF Discover
      <3>3. PICK a \in IPs : IsFree(a, c) /\ Hold(c, a, "offered")
        BY Zenon, <3>1
      <3>4. /\ \A d \in Clients : Stays(d)
            /\ \A d \in Clients \ {c} : Bound(d) => byClient'[d] = byClient[d]
        BY Zenon, <1>0, <2>3, <3>3, HoldStays
      <3>5. \A d \in Clients : Memory[d].left > 0 => byClient'[d] = byClient[d]
        BY Zenon, <2>1, <2>3, <3>4, MemoryBound DEF Backed
      <3> QED
        BY Zenon, <1>0, <2>1, <3>2, <3>4, <3>5, PoolOnlyBacked
    <2> QED
      BY Zenon, <2>2, <2>3
  <1>4. ASSUME NEW c \in Clients, NEW ip \in IPs, Request(c, ip)
        PROVE  Backed'
    <2>1. /\ Backed /\ UNCHANGED granted /\ Bound(c) /\ byClient[c].ip = ip
          /\ Hold(c, ip, "committed") /\ Put(c, ip, [to |-> c, ip |-> ip, left |-> LeaseTime])
      BY Zenon, <1>0, <1>4 DEF Request, Commits
    <2> QED
      BY Zenon, <1>0, <1>2, <2>1, PutBacked
  <1>5. ASSUME NEW c \in Clients, NEW ip \in IPs, Release(c, ip) \/ Decline(c, ip)
        PROVE  Backed'
    <2>1. Backed /\ Clear(c) /\ GiveUp(c)
      BY Zenon, <1>0, <1>5 DEF Release, Decline
    <2> QED
      BY Zenon, <1>0, <2>1, GiveUpBacked
  <1>6. ASSUME NEW c \in Clients, SelectOther(c)
        PROVE  Backed'
    <2>1. Backed /\ UNCHANGED <<table, held, granted>> /\ byClient[c].st # "committed"
      BY Zenon, <1>0, <1>6 DEF SelectOther
    <2>2. \A d \in Clients \ {c} : byClient'[d] = byClient[d]
      BY Zenon, <1>00, <1>6 DEF SelectOther, Clear, Dropped, PoolType
    <2>3. \A d \in Clients : byClient[d].left \in Nat
      BY Zenon, <1>00, LeftIsNat
    <2>4. \A d \in Clients : Stays(d)
      BY <2>1, <2>2, <2>3 DEF Stays
    <2>5. \A d \in Clients : Memory[d].left > 0 => byClient'[d] = byClient[d]
      BY Zenon, <2>1, <2>2, MemoryBound DEF Backed
    <2> QED
      BY Zenon, <1>0, <2>1, <2>4, <2>5, PoolOnlyBacked
  <1>7. CASE Durable
    <2>1. Backed
      BY <1>0, <1>7 DEF Durable
    <2> QED
      BY Zenon, <1>0, <1>7, <2>1, DurableBacked
  <1>8. CASE Expire
    <2>1. Backed
      BY Zenon, <1>0, <1>8 DEF Expire
    <2> QED
      BY Zenon, <1>0, <1>8, <2>1, ExpireBacked
  <1>9. CASE Restart \/ Crash
    <2>1. Backed /\ UNCHANGED granted
      BY Zenon, <1>0, <1>9 DEF Restart, Crash, Restored
    <2>2. \A d \in Clients : granted[d].left > 0 =>
              \A i \in 1..Len(table) : Covers(table[i][d], granted[d])
      BY Zenon, <2>1 DEF Backed, AckBacked
    <2>3. \A i \in 1..Len(table) : Whole(table[i])
      BY Zenon, <2>1 DEF Backed
    <2>4. CASE Restart
      <3>1. /\ [i \in DOMAIN held |-> NoAck] \in Seq({NoAck})
            /\ Len([i \in DOMAIN held |-> NoAck]) = Len(held)
        BY <1>00 DEF StoreType
      <3> QED
        BY Zenon, <1>0, <1>00, <2>1, <2>2, <2>3, <2>4, <3>1, RestoredBacked DEF Restart, StoreType
    <2>5. CASE Crash
      <3>1. /\ <<Disk>> \in Seq([Clients -> Kept]) /\ <<Disk>> # <<>> /\ Len(<<Disk>>) = 1
            /\ <<Disk>>[1] = table[1] /\ 1 \in 1..Len(table)
        BY <1>00, TableStates DEF Disk
      <3>2. << >> \in Seq({NoAck}) /\ Len(<< >>) = 0
        OBVIOUS
      <3>3. Len(<<Disk>>) = Len(<< >>) + 1
        BY <3>1, <3>2
      <3>4. \A i \in 1..Len(<<Disk>>) : Whole(<<Disk>>[i])
        BY <2>3, <3>1
      <3>5. \A d \in Clients : granted[d].left > 0 =>
                \A i \in 1..Len(<<Disk>>) : Covers(<<Disk>>[i][d], granted[d])
        BY <2>2, <3>1
      <3>6. Restored(<<Disk>>, << >>)
        BY Zenon, <2>5 DEF Crash
      <3> QED
        BY Zenon, <1>0, <1>00, <2>1, <3>1, <3>2, <3>3, <3>4, <3>5, <3>6, RestoredBacked
    <2> QED
      BY Zenon, <1>9, <2>4, <2>5
  <1>10. CASE Tick
    <2>1. Backed
      BY Zenon, <1>0, <1>10 DEF Tick
    <2> QED
      BY Zenon, <1>0, <1>10, <2>1, TickBacked
  <1>11. CASE UNCHANGED vars
    BY Zenon, <1>0, <1>11 DEF vars, Backed, MemoryFollows, Memory, AckBacked
  <1> QED
    BY Zenon, <1>3, <1>4, <1>5, <1>6, <1>7, <1>8, <1>9, <1>10, <1>11 DEF Next

LEMMA Invariant == Spec => []Inv
  BY InvInit, InvStep, PTL DEF Spec

\* The pool and the table keep their shape, whatever the clients send and
\* however often the server restarts.
THEOREM TypeCorrect == Spec => []TypeOK
  <1>1. Inv => TypeOK
    BY Zenon DEF Inv, PoolInv
  <1> QED
    BY <1>1, Invariant, PTL

\* The pool's two indexes stay inverses of each other.
THEOREM PoolStaysIndexed == Spec => []PoolIndexed
  <1>1. Inv => PoolIndexed
    BY Zenon DEF Inv, PoolInv
  <1> QED
    BY <1>1, Invariant, PTL

\* A declined address is not handed out while its quarantine lasts.
THEOREM QuarantineHolds == Spec => []DeclinedWithheld
  <1>1. Inv => DeclinedWithheld
    BY Zenon DEF Inv, PoolInv
  <1> QED
    BY <1>1, Invariant, PTL

\* Every ACK sent is backed by the disk and by the pool, through crashes, restarts
\* and expiries, as long as no write to the table fails.
THEOREM AcksDurable == Spec => []AckDurable
  <1>1. Inv => AckDurable
    <2> SUFFICES ASSUME Inv, ~failed, NEW c \in Clients, granted[c].left > 0
                 PROVE  /\ Disk[c].ip = granted[c].ip /\ Disk[c].left >= granted[c].left
                        /\ byClient[c].st = "committed" /\ byClient[c].ip = granted[c].ip
                        /\ byClient[c].left >= granted[c].left
      BY Zenon DEF AckDurable
    <2>1. StoreType /\ Backed
      BY Zenon, TypeSplit DEF Inv, PoolInv
    <2>2. 1 \in 1..Len(table) /\ Disk = table[1]
      BY <2>1, TableStates DEF Disk
    <2>3. AckBacked(c, granted[c], 1)
      BY Zenon, <2>1 DEF Backed
    <2> QED
      BY Zenon, <2>2, <2>3 DEF AckBacked, Covers
  <1> QED
    BY <1>1, Invariant, PTL

\* No address is granted to two clients at one time: both ACKs would be backed by
\* the pool, whose indexes are inverses.
THEOREM GrantsDistinct == Spec => []NoDoubleGrant
  <1>1. Inv => NoDoubleGrant
    <2> SUFFICES ASSUME Inv, ~failed, NEW c \in Clients, NEW d \in Clients,
                        granted[c].left > 0, granted[d].left > 0, granted[c].ip = granted[d].ip
                 PROVE  c = d
      BY Zenon DEF NoDoubleGrant
    <2>1. Backed /\ PoolIndexed
      BY Zenon DEF Inv, PoolInv
    <2>2. /\ byClient[c].st = "committed" /\ byClient[c].ip = granted[c].ip
          /\ byClient[d].st = "committed" /\ byClient[d].ip = granted[d].ip
      BY Zenon, <2>1 DEF Backed, AckBacked, Covers
    <2> QED
      BY SMTT(30), <2>1, <2>2 DEF PoolIndexed
  <1> QED
    BY <1>1, Invariant, PTL

\* No step of another client, nor a DISCOVER or a choice of another server, ends or
\* shortens a committed lease.
THEOREM OwnersEnd == Spec => OnlyOwnerEnds
  <1>1. ASSUME Inv, [Next]_vars, NEW c \in Clients,
               byClient[c].st = "committed", byClient[c].left > 1
        PROVE  \/ /\ byClient'[c].st = "committed" /\ byClient'[c].ip = byClient[c].ip
                  /\ byClient'[c].left >= byClient[c].left - 1
               \/ \E ip \in IPs : Release(c, ip) \/ Decline(c, ip)
               \/ Restart \/ Crash
    <2> DEFINE Lasts == /\ byClient'[c].st = "committed" /\ byClient'[c].ip = byClient[c].ip
                        /\ byClient'[c].left >= byClient[c].left - 1
    <2>0. /\ PoolInv /\ TypeOK /\ PoolType /\ PoolIndexed /\ PoolUsable /\ DeclinedWithheld
          /\ declined \in [IPs -> 0..Quarantine]
      BY Zenon, <1>1, TypeSplit DEF Inv, PoolInv
    <2>1. byClient[c].left \in Nat /\ Bound(c)
      BY <1>1, <2>0, LeftIsNat DEF Bound
    <2>2. byClient'[c] = byClient[c] => Lasts
      BY <1>1, <2>1
    <2>3. ASSUME Stays(c), byClient'[c].left \in Nat
          PROVE  Lasts
      <3>1. /\ byClient'[c].st = "committed" /\ byClient'[c].ip = byClient[c].ip
            /\ byClient'[c].left >= byClient[c].left
        BY Zenon, <1>1, <2>1, <2>3 DEF Stays
      <3>2. \A m, n \in Nat : m >= n => m >= n - 1
        BY SMTT(30)
      <3> QED
        BY <2>1, <2>3, <3>1, <3>2, Zenon
    <2>4. byClient'[c].left \in Nat
      <3>1. PoolType'
        BY Zenon, <1>1, PoolStep DEF Inv, PoolInv, TypeOK, PoolType
      <3>2. byClient'[c] \in Leases \cup {NoLease}
        BY Zenon, <3>1 DEF PoolType
      <3>3. \A e \in Leases \cup {NoLease} : e.left \in Ticks \cup {0}
        BY DEF Leases, NoLease
      <3>4. \A n \in Ticks \cup {0} : n \in Nat
        BY SMTT(30), ConstantsAssumption DEF Ticks
      <3> QED
        BY Zenon, <3>2, <3>3, <3>4
    <2> HIDE DEF Lasts
    <2>5. \A d \in Clients : Bound(d) => /\ byClient[d].ip \in IPs \ Reserved
                                         /\ byClient[d].st \in {"offered", "committed"}
                                         /\ byIP[byClient[d].ip] = d
                                         /\ Allocatable(byClient[d].ip) /\ IsFree(byClient[d].ip, d)
      <3>1. \A d \in Clients : Bound(d) => /\ byClient[d].ip \in IPs \ Reserved
                                           /\ byClient[d].st \in {"offered", "committed"}
                                           /\ byIP[byClient[d].ip] = d
        BY <2>0, EntryFields, ConstantsAssumption DEF Bound, NoLease, PoolIndexed, PoolUsable
      <3> QED
        BY SMTT(30), <2>0, <3>1, ConstantsAssumption DEF Allocatable, IsFree, DeclinedWithheld, Reserved
    <2>6. ASSUME NEW d \in Clients, NEW ip \in IPs, Discover(d, ip)
          PROVE  Lasts
      <3>1. CASE Bound(d)
        <4>1. Hold(d, byClient[d].ip, byClient[d].st)
          BY Zenon, <2>5, <2>6, <3>1 DEF Discover
        <4>2. ASSUME NEW a, NEW st, a = byClient[d].ip, st = byClient[d].st
              PROVE  Stays(c)
          <5>1. a \in IPs /\ st \in {"offered", "committed"} /\ Hold(d, a, st) /\ IsFree(a, d)
            BY Zenon, <2>5, <3>1, <4>1, <4>2
          <5> QED
            BY Zenon, <2>0, <4>2, <5>1, HoldStays
        <4> QED
          BY Zenon, <2>3, <2>4, <4>2
      <3>2. CASE ~Bound(d)
        <4>1. PICK a \in IPs : IsFree(a, d) /\ Hold(d, a, "offered")
          BY Zenon, <2>6, <3>2 DEF Discover, Free
        <4>2. Stays(c)
          BY Zenon, <2>0, <3>2, <4>1, HoldStays
        <4> QED
          BY Zenon, <2>3, <2>4, <4>2
      <3> QED
        BY Zenon, <3>1, <3>2
    <2>7. ASSUME NEW d \in Clients, NEW ip \in IPs, Request(d, ip)
          PROVE  Lasts
      <3>1. Bound(d) /\ byClient[d].ip = ip /\ Hold(d, ip, "committed")
        BY Zenon, <2>7 DEF Request, Commits
      <3>2. Stays(c)
        BY Zenon, <2>0, <2>5, <3>1, HoldStays
      <3> QED
        BY Zenon, <2>3, <2>4, <3>2
    <2>8. ASSUME NEW d \in Clients \ {c}, Clear(d)
          PROVE  Lasts
      BY Zenon, <2>0, <2>2, <2>8 DEF Clear, Dropped, PoolType
    <2>9. ASSUME NEW d \in Clients, SelectOther(d)
          PROVE  Lasts
      <3>1. d # c
        BY Zenon, <1>1, <2>9 DEF SelectOther
      <3> QED
        BY Zenon, <2>8, <2>9, <3>1 DEF SelectOther
    <2>10. ASSUME NEW d \in Clients, NEW ip \in IPs, Release(d, ip) \/ Decline(d, ip)
           PROVE  Lasts \/ \E a \in IPs : Release(c, a) \/ Decline(c, a)
      BY Zenon, <2>8, <2>10 DEF Release, Decline
    <2>11. CASE Durable \/ Expire \/ UNCHANGED vars
      <3>1. byClient' = byClient
        BY Zenon, <2>11 DEF Durable, Expire, vars
      <3> QED
        BY Zenon, <2>2, <3>1 DEF Lasts
    <2>12. CASE Tick
      <3>1. /\ byClient'[c].st = byClient[c].st /\ byClient'[c].ip = byClient[c].ip
            /\ byClient'[c].left = Less(byClient[c].left)
        BY Zenon, <2>0, <2>12, TickIs
      <3>2. Less(byClient[c].left) >= byClient[c].left - 1
        BY SMTT(30), <1>1, <2>1, LessType
      <3> QED
        BY Zenon, <1>1, <3>1, <3>2 DEF Lasts
    <2> QED
      BY Zenon, <1>1, <2>6, <2>7, <2>9, <2>10, <2>11, <2>12 DEF Next, Lasts
  <1>2. Inv /\ [Next]_vars => [\A c \in Clients :
            byClient[c].st = "committed" /\ byClient[c].left > 1
            => \/ /\ byClient'[c].st = "committed" /\ byClient'[c].ip = byClient[c].ip
                  /\ byClient'[c].left >= byClient[c].left - 1
               \/ \E ip \in IPs : Release(c, ip) \/ Decline(c, ip)
               \/ Restart \/ Crash]_vars
    BY Zenon, <1>1
  <1> QED
    BY <1>2, Invariant, PTL DEF Spec, OnlyOwnerEnds

=============================================================================
