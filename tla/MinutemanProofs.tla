-------------------------- MODULE MinutemanProofs ---------------------------
(***************************************************************************)
(* Proofs about Minuteman.                                                 *)
(*                                                                         *)
(* The softwire's sizes, for any MTU of the WAN, any path MTUs learned,    *)
(* any packet and any number of companion pairs.  The unit the process     *)
(* writes is always a multiple of 8 (UnitAligned); a packet being carved   *)
(* keeps the unit it was carved with, and the fragments sent are those of  *)
(* the clones handled so far (CarvedRight).                                *)
(*                                                                         *)
(* The process, for any command lines and any number of failures, signals  *)
(* and kills.  run's calls keep one order on every command line (Rank), so *)
(* what a call relies on has been done before it (StartInv); each thing    *)
(* made or opened has a deferred call that undoes it, the settings on      *)
(* other interfaces apart (KernInv, OpenInv), and the applications are     *)
(* stopped before the tunnel and the datapath are closed (Sheltered,       *)
(* AppsInv).                                                               *)
(***************************************************************************)
EXTENDS Minuteman, WellFoundedInduction, TLAPS

-----------------------------------------------------------------------------
(* The derived sizes                                                       *)

\* softwireFragUnit, autoTCPMSSClamp and tunnelMTU leave room for the headers they
\* are to leave room for, at every MTU that IPv6 allows.
THEOREM SizesFit ==
    ASSUME NEW mtu \in Nat, mtu >= IPV6_MIN_MTU
    PROVE  /\ FragUnit(mtu) \in Nat /\ FragUnit(mtu) > 0 /\ FragUnit(mtu) % 8 = 0
           /\ FragUnit(mtu) + softwireFragOverhead <= mtu
           /\ mtu < FragUnit(mtu) + softwireFragOverhead + 8
           /\ AutoTCPMSSClamp(mtu) + 80 = mtu
           /\ TunnelMTU(mtu) + 40 = mtu
  BY DEF FragUnit, softwireFragOverhead, IPV6_MIN_MTU, AutoTCPMSSClamp, TunnelMTU

LEMMA FragUnitAligned ==
    ASSUME NEW mtu \in Nat
    PROVE  FragUnit(mtu) \in Nat /\ FragUnit(mtu) % 8 = 0
  BY DEF FragUnit, softwireFragOverhead

\* A set of readings has a smallest one.
LEMMA Smallest ==
    ASSUME NEW S, S \subseteq Nat, S # {}
    PROVE  \E m \in S : \A n \in S : m <= n
  <1>1. PICK m \in S : \A n \in S : ~(<<n, m>> \in OpToRel(<, Nat))
    BY Zenon, NatLessThanWellFounded, WFMin
  <1>2. \A n \in S : ~(n < m)
    BY Zenon, <1>1 DEF OpToRel
  <1> QED
    BY <1>2

LearnedType == learned \in [Slots -> Nat]

LEMMA EffectiveType ==
    ASSUME LearnedType
    PROVE  Effective \in Nat
  <1> DEFINE known == {learned[s] : s \in Slots} \ {0}
  <1>1. known \subseteq Nat
    BY Zenon DEF LearnedType
  <1>2. known # {} => \E m \in known : \A n \in known : m <= n
    BY Zenon, <1>1, Smallest
  <1>3. TunnelPMTU = IF known = {} THEN 0 ELSE CHOOSE m \in known : \A n \in known : m <= n
    BY Zenon DEF TunnelPMTU
  <1> HIDE DEF known
  <1>4. TunnelPMTU \in Nat
    BY Zenon, <1>1, <1>2, <1>3
  <1> QED
    BY Zenon, <1>4, SizesAssumption DEF Effective

-----------------------------------------------------------------------------
(* Carving                                                                 *)

UnitAligned == unit \in Nat /\ unit % 8 = 0

Clones == 0..(MaxSoftwireFrags - 1)

Packets == [clones : SUBSET Clones, unit : Nat, len : Nat, mtu : Nat,
            frags : SUBSET [off : Int, len : Int, more : BOOLEAN]]

\* The fragment of clone i of a packet of length l, carved by u.
Piece(u, l, i) ==
    [off |-> i * u, len |-> IF l - i * u > u THEN u ELSE l - i * u, more |-> l - i * u > u]

\* The fragments of the clones in K.
Pieces(u, l, K) == {Piece(u, l, i) : i \in {k \in K : Piece(u, l, k).len > 0}}

\* The packet being carved: what its clones still become was settled by encap.
CarvedRight ==
    packet # NoPacket =>
        /\ packet \in Packets
        /\ packet.unit % 8 = 0 /\ packet.unit > 0 /\ packet.len > 0
        /\ packet.unit + softwireFragOverhead <= packet.mtu
        /\ packet.len <= MaxSoftwireFrags * packet.unit
        /\ packet.frags = Pieces(packet.unit, packet.len, Clones \ packet.clones)

Inv == LearnedType /\ UnitAligned /\ CarvedRight

LEMMA PieceType ==
    ASSUME NEW u \in Nat, NEW l \in Nat, NEW i \in Nat
    PROVE  Piece(u, l, i) \in [off : Int, len : Int, more : BOOLEAN]
  BY DEF Piece

LEMMA ClonesNat == Clones \subseteq Nat
  BY SizesAssumption DEF Clones

\* The pieces of all clones tile the packet.
LEMMA PiecesTile ==
    ASSUME NEW u \in Nat, NEW l \in Nat, u > 0, l > 0, u % 8 = 0, l <= MaxSoftwireFrags * u
    PROVE  LET F == Pieces(u, l, Clones) IN
           /\ \E f \in F : f.off = 0
           /\ \A f \in F :
                /\ f.off % 8 = 0
                /\ f.more <=> f.off + f.len < l
                /\ f.more => f.len % 8 = 0 /\ \E g \in F : g.off = f.off + f.len
  <1> DEFINE F == Pieces(u, l, Clones)
  <1>0. MaxSoftwireFrags \in Nat /\ MaxSoftwireFrags > 0
    <2>1. MaxSoftwireFrags \in Nat
      BY Zenon, SizesAssumption
    <2>2. MaxSoftwireFrags # 0
      <3> SUFFICES ASSUME MaxSoftwireFrags = 0
                   PROVE  FALSE
        BY Zenon
      <3>1. MaxSoftwireFrags * u = 0
        OBVIOUS
      <3> QED
        BY <3>1
    <2> QED
      BY <2>1, <2>2
  <1>1. ASSUME NEW i \in Clones, l - i * u > 0
        PROVE  Piece(u, l, i) \in F
    <2>1. i \in Nat /\ i * u \in Nat
      BY ClonesNat
    <2>2. Piece(u, l, i).len > 0
      BY Zenon, <1>1, <2>1 DEF Piece
    <2> QED
      BY Zenon, <2>2 DEF Pieces
  <1>2. \E f \in F : f.off = 0
    <2>1. 0 \in Clones
      BY <1>0 DEF Clones
    <2>2. 0 * u = 0
      OBVIOUS
    <2>3. Piece(u, l, 0) \in F
      BY <1>1, <2>1, <2>2
    <2>4. Piece(u, l, 0).off = 0
      BY Zenon, <2>2 DEF Piece
    <2> QED
      BY Zenon, <2>3, <2>4
  <1>3. ASSUME NEW f \in F
        PROVE  /\ f.off % 8 = 0
               /\ f.more <=> f.off + f.len < l
               /\ f.more => f.len % 8 = 0 /\ \E g \in F : g.off = f.off + f.len
    <2>1. PICK i \in Clones : f = Piece(u, l, i) /\ f.len > 0
      BY Zenon, <1>3 DEF Pieces
    <2>2. i \in Nat /\ i * u \in Nat /\ i < MaxSoftwireFrags
      BY <1>0 DEF Clones
    <2>3. /\ f.off = i * u /\ f.len = (IF l - i * u > u THEN u ELSE l - i * u)
          /\ f.more = (l - i * u > u)
      BY Zenon, <2>1 DEF Piece
    <2>4. f.off % 8 = 0
      <3>1. PICK k \in Nat : u = 8 * k
        <4>1. u = 8 * (u \div 8) /\ u \div 8 \in Nat
          OBVIOUS
        <4> QED
          BY Zenon, <4>1
      <3>2. i * u = 8 * (i * k) /\ i * k \in Nat
        BY <2>2, <3>1
      <3>3. \A n \in Nat : (8 * n) % 8 = 0
        OBVIOUS
      <3> QED
        BY Zenon, <2>3, <3>2, <3>3
    <2>5. f.more <=> f.off + f.len < l
      <3>1. f.off + f.len < l <=> l - i * u > u
        BY <2>2, <2>3
      <3> QED
        BY <2>3, <3>1, Zenon
    <2>6. ASSUME f.more
          PROVE  f.len % 8 = 0 /\ \E g \in F : g.off = f.off + f.len
      <3>1. f.len = u /\ l - i * u > u
        BY Zenon, <2>3, <2>6
      <3>2. (i + 1) * u = i * u + u
        BY <2>2
      <3>3. i + 1 < MaxSoftwireFrags
        <4> SUFFICES ASSUME i + 1 = MaxSoftwireFrags
                     PROVE  FALSE
          BY <1>0, <2>2
        <4>1. MaxSoftwireFrags * u = i * u + u
          BY Zenon, <3>2
        <4> QED
          BY <2>2, <3>1, <4>1
      <3>4. i + 1 \in Clones /\ l - (i + 1) * u > 0
        BY <1>0, <2>2, <3>1, <3>2, <3>3 DEF Clones
      <3>5. Piece(u, l, i + 1) \in F
        BY Zenon, <1>1, <3>4
      <3>6. Piece(u, l, i + 1).off = f.off + f.len
        BY Zenon, <2>3, <3>1, <3>2 DEF Piece
      <3> QED
        BY Zenon, <3>1, <3>5, <3>6
    <2> QED
      BY Zenon, <2>4, <2>5, <2>6
  <1> QED
    BY Zenon, <1>2, <1>3

-----------------------------------------------------------------------------
(* The steps                                                               *)

LEMMA FragmentIsPiece ==
    ASSUME NEW i
    PROVE  Fragment(i) = Piece(packet.unit, packet.len, i)
  BY Zenon DEF Fragment, Piece

\* Encap carves only what it can carve whole, into fragments that fit.
LEMMA EncapKeeps ==
    ASSUME Inv, NEW s \in Slots, NEW len \in Lens, Encap(s, len)
    PROVE  Inv'
  <1>1. UNCHANGED <<learned, unit>>
    BY Zenon DEF Encap
  <1>2. /\ len \in Nat /\ EncapMTU(s) \in Nat /\ unit \in Nat /\ unit % 8 = 0
    BY Zenon, SizesAssumption DEF EncapMTU, Inv, LearnedType, UnitAligned
  <1>3. /\ len + 40 > EncapMTU(s) /\ unit > 0 /\ len <= MaxSoftwireFrags * unit
        /\ unit + softwireFragOverhead <= EncapMTU(s)
    BY <1>2 DEF Encap, Carves
  <1>4. len > 0
    BY <1>2, <1>3 DEF softwireFragOverhead
  <1>5. packet' = [clones |-> Clones, unit |-> unit, len |-> len, mtu |-> EncapMTU(s), frags |-> {}]
    BY Zenon DEF Encap, Clones
  <1>6. /\ packet'.clones = Clones /\ packet'.unit = unit /\ packet'.len = len
        /\ packet'.mtu = EncapMTU(s) /\ packet'.frags = {} /\ packet' \in Packets
    BY Zenon, <1>2, <1>5 DEF Packets
  <1>7. packet'.frags = Pieces(packet'.unit, packet'.len, Clones \ packet'.clones)
    BY Zenon, <1>6 DEF Pieces
  <1>8. CarvedRight'
    BY Zenon, <1>2, <1>3, <1>4, <1>6, <1>7 DEF CarvedRight
  <1> QED
    BY Zenon, <1>1, <1>8 DEF Inv, LearnedType, UnitAligned

\* A clone is cut by the unit it carries.
LEMMA EmitKeeps ==
    ASSUME Inv, NEW i \in packet.clones, Emit(i)
    PROVE  Inv'
  <1> DEFINE u == packet.unit
             l == packet.len
             f == Piece(u, l, i)
  <1>1. UNCHANGED <<learned, unit>>
    BY Zenon DEF Emit
  <1>2. packet # NoPacket
    BY DEF NoPacket
  <1>3. /\ packet \in Packets /\ u \in Nat /\ l \in Nat /\ i \in Clones /\ i \in Nat
        /\ packet.frags = Pieces(u, l, Clones \ packet.clones)
    BY Zenon, <1>2, ClonesNat DEF Inv, CarvedRight, Packets
  <1>4. packet' = [packet EXCEPT !.clones = packet.clones \ {i},
                                 !.frags = IF f.len > 0 THEN packet.frags \cup {f} ELSE packet.frags]
    BY Zenon, FragmentIsPiece DEF Emit
  <1>5. f \in [off : Int, len : Int, more : BOOLEAN]
    BY Zenon, <1>3, PieceType
  <1> HIDE DEF f
  <1>6. /\ packet'.clones = packet.clones \ {i} /\ packet'.unit = u /\ packet'.len = l
        /\ packet'.mtu = packet.mtu
        /\ packet'.frags = IF f.len > 0 THEN packet.frags \cup {f} ELSE packet.frags
        /\ packet' \in Packets
    BY Zenon, <1>3, <1>4, <1>5 DEF Packets
  <1>7. packet'.frags = Pieces(u, l, Clones \ packet'.clones)
    <2>1. Clones \ packet'.clones = (Clones \ packet.clones) \cup {i}
      BY Zenon, <1>3, <1>6 DEF Packets
    <2>2. Pieces(u, l, (Clones \ packet.clones) \cup {i})
          = Pieces(u, l, Clones \ packet.clones) \cup (IF f.len > 0 THEN {f} ELSE {})
      BY Zenon DEF Pieces, f
    <2> QED
      BY Zenon, <1>3, <1>6, <2>1, <2>2
  <1>8. CarvedRight'
    BY Zenon, <1>2, <1>6, <1>7 DEF Inv, CarvedRight
  <1> QED
    BY Zenon, <1>1, <1>8 DEF Inv, LearnedType, UnitAligned

LEMMA InvStep == Inv /\ [Next]_vars => Inv'
  <1> SUFFICES ASSUME Inv, [Next]_vars
               PROVE  Inv'
    BY Zenon
  <1>0. ASSUME UNCHANGED packet
        PROVE  CarvedRight'
    BY Zenon, <1>0 DEF Inv, CarvedRight
  <1>1. CASE Process
    <2>1. CASE UNCHANGED mtuVars
      BY Zenon, <1>0, <2>1 DEF mtuVars, Inv, LearnedType, UnitAligned
    <2>2. CASE Afresh
      <3>1. UnitAligned'
        BY Zenon, <2>2, FragUnitAligned, SizesAssumption DEF Afresh, UnitAligned
      <3> QED
        BY Zenon, <2>2, <3>1 DEF Afresh, Inv, LearnedType, CarvedRight, NoPacket
    <2> QED
      BY Zenon, <1>1, <2>1, <2>2 DEF Process
  <1>2. ASSUME NEW fragOk \in BOOLEAN, NEW tunOk \in BOOLEAN, Polls(fragOk, tunOk)
        PROVE  Inv'
    <2>1. UNCHANGED <<learned, packet>> /\ unit' \in {unit, FragUnit(Effective)}
      BY Zenon, <1>2 DEF Polls, Poll
    <2>2. Effective \in Nat
      BY Zenon, EffectiveType DEF Inv
    <2>3. UnitAligned'
      BY Zenon, <2>1, <2>2, FragUnitAligned DEF UnitAligned, Inv
    <2> QED
      BY Zenon, <1>0, <2>1, <2>3 DEF Inv, LearnedType
  <1>3. CASE PollerRestarts
    BY Zenon, <1>0, <1>3 DEF PollerRestarts, PollerStops, Inv, LearnedType, UnitAligned
  <1>4. ASSUME NEW s \in Slots, NEW reported \in Paths, Learns(s, reported)
        PROVE  Inv'
    <2>1. LearnedType'
      BY <1>4, SizesAssumption DEF Learns, Learn, Inv, LearnedType, IPV6_MIN_MTU
    <2> QED
      BY Zenon, <1>0, <1>4, <2>1 DEF Learns, Learn, Inv, UnitAligned
  <1>5. ASSUME NEW s \in Slots, Forget(s)
        PROVE  Inv'
    BY Zenon, <1>0, <1>5 DEF Forget, Inv, LearnedType, UnitAligned
  <1>6. CASE Datapath
    BY Zenon, <1>5, <1>6, EncapKeeps, EmitKeeps DEF Datapath
  <1>7. CASE UNCHANGED vars
    BY Zenon, <1>0, <1>7 DEF vars, mtuVars, Inv, LearnedType, UnitAligned
  <1> QED
    BY Zenon, <1>1, <1>2, <1>3, <1>4, <1>6, <1>7 DEF Next

LEMMA Invariant == Spec => []Inv
  <1>1. Init => Inv
    BY FragUnitAligned, SizesAssumption
    DEF Init, MtuInit, Inv, LearnedType, UnitAligned, CarvedRight
  <1> QED
    BY <1>1, InvStep, PTL DEF Spec

\* No fragment is larger than the path MTU that encap honoured for its packet,
\* whatever the poller writes meanwhile.
THEOREM FragmentsAlwaysFit == Spec => []FragmentsFit
  <1>1. Inv => FragmentsFit
    <2> SUFFICES ASSUME Inv, NEW f \in packet.frags
                 PROVE  f.len + softwireFragOverhead <= packet.mtu
      BY Zenon DEF FragmentsFit
    <2>1. packet # NoPacket
      BY DEF NoPacket
    <2>2. /\ packet \in Packets /\ packet.unit + softwireFragOverhead <= packet.mtu
          /\ f \in Pieces(packet.unit, packet.len, Clones \ packet.clones)
      BY Zenon, <2>1 DEF Inv, CarvedRight
    <2>3. PICK i \in Clones : f = Piece(packet.unit, packet.len, i)
      BY Zenon, <2>2 DEF Pieces
    <2>4. packet.unit \in Nat /\ packet.len \in Nat /\ packet.mtu \in Nat /\ i * packet.unit \in Nat
      BY <2>2, ClonesNat DEF Packets
    <2>5. f.len \in Int /\ f.len <= packet.unit
      BY <2>3, <2>4 DEF Piece
    <2> QED
      BY <2>2, <2>4, <2>5 DEF softwireFragOverhead
  <1> QED
    BY <1>1, Invariant, PTL

\* The fragments of a packet all of whose clones were handled tile it.
THEOREM FragmentsReassemble == Spec => []Reassembles
  <1>1. Inv => Reassembles
    <2> SUFFICES ASSUME Inv, packet # NoPacket, packet.clones = {}
                 PROVE  /\ \E f \in packet.frags : f.off = 0
                        /\ \A f \in packet.frags :
                             /\ f.off % 8 = 0
                             /\ f.more <=> f.off + f.len < packet.len
                             /\ f.more => /\ f.len % 8 = 0
                                          /\ \E g \in packet.frags : g.off = f.off + f.len
      BY Zenon DEF Reassembles
    <2>1. /\ packet.unit \in Nat /\ packet.len \in Nat /\ packet.unit > 0 /\ packet.len > 0
          /\ packet.unit % 8 = 0 /\ packet.len <= MaxSoftwireFrags * packet.unit
          /\ packet.frags = Pieces(packet.unit, packet.len, Clones)
      BY Zenon DEF Inv, CarvedRight, Packets
    <2> QED
      BY <2>1, PiecesTile
  <1> QED
    BY <1>1, Invariant, PTL


-----------------------------------------------------------------------------
(* What a start has done and has left to do                                *)

\* run's calls, and the two deferred ones that are not named after a call.
Names ==
    {"apps", "client", "acquire", "aftr", "upstreams", "load", "wan", "veth", "frag", "b4",
     "config", "tunnel", "lan", "dns", "radvd", "pd", "ndproxy", "prefix", "watch",
     "leases", "dhcpv4", "nl", "control", "pmtu", "pidfile", "stopApps", "dp"}

Elems(s) == {s[i] : i \in DOMAIN s}

Left == Elems(todo)
Pending == Elems(defers)

\* The place of a call in run, whatever the command line.
Rank(c) ==
    CASE c = "apps" -> 1 [] c = "client" -> 2 [] c = "acquire" -> 3 [] c = "aftr" -> 4
      [] c = "upstreams" -> 5 [] c = "load" -> 6 [] c = "wan" -> 7 [] c = "veth" -> 8
      [] c = "frag" -> 9 [] c = "b4" -> 10 [] c = "config" -> 11 [] c = "tunnel" -> 12
      [] c = "lan" -> 13 [] c = "dns" -> 14 [] c = "radvd" -> 15 [] c = "pd" -> 16
      [] c = "ndproxy" -> 17 [] c = "prefix" -> 18 [] c = "watch" -> 19 [] c = "leases" -> 20
      [] c = "dhcpv4" -> 21 [] c = "nl" -> 22 [] c = "control" -> 23 [] c = "pmtu" -> 24
      [] c = "pidfile" -> 25 [] OTHER -> 26

\* The calls of s are in order, and of these ranks.
Ordered(s, lo, hi) ==
    /\ s \in Seq(Names)
    /\ \A i \in DOMAIN s : Rank(s[i]) \in lo..hi
    /\ \A i, j \in DOMAIN s : i < j => Rank(s[i]) < Rank(s[j])

LEMMA ElemsNone == Elems(<<>>) = {}
  BY DEF Elems

LEMMA ElemsOne == ASSUME NEW x PROVE Elems(<<x>>) = {x}
  BY DEF Elems

LEMMA ElemsJoin ==
    ASSUME NEW s \in Seq(Names), NEW t \in Seq(Names)
    PROVE  s \o t \in Seq(Names) /\ Elems(s \o t) = Elems(s) \cup Elems(t)
  <1>1. s \o t \in Seq(Names) /\ Len(s \o t) = Len(s) + Len(t) /\ Len(s) \in Nat /\ Len(t) \in Nat
    OBVIOUS
  <1>2. Elems(s \o t) \subseteq Elems(s) \cup Elems(t)
    <2> SUFFICES ASSUME NEW i \in 1..(Len(s) + Len(t))
                 PROVE  (s \o t)[i] \in Elems(s) \cup Elems(t)
      BY <1>1 DEF Elems
    <2>1. CASE i <= Len(s)
      <3>1. (s \o t)[i] = s[i] /\ i \in DOMAIN s
        BY <1>1, <2>1
      <3> QED
        BY Zenon, <3>1 DEF Elems
    <2>2. CASE ~(i <= Len(s))
      <3>1. (s \o t)[i] = t[i - Len(s)] /\ i - Len(s) \in DOMAIN t
        BY <1>1, <2>2
      <3> QED
        BY Zenon, <3>1 DEF Elems
    <2> QED
      BY Zenon, <2>1, <2>2
  <1>3. ASSUME NEW i \in DOMAIN s
        PROVE  s[i] \in Elems(s \o t)
    <2>1. (s \o t)[i] = s[i] /\ i \in DOMAIN (s \o t)
      BY <1>1
    <2> QED
      BY Zenon, <2>1 DEF Elems
  <1>4. ASSUME NEW i \in DOMAIN t
        PROVE  t[i] \in Elems(s \o t)
    <2>1. (s \o t)[Len(s) + i] = t[i] /\ Len(s) + i \in DOMAIN (s \o t)
      BY <1>1
    <2> QED
      BY Zenon, <2>1 DEF Elems
  <1> QED
    BY Zenon, <1>1, <1>2, <1>3, <1>4 DEF Elems

LEMMA ElemsHead ==
    ASSUME NEW s \in Seq(Names), s # <<>>
    PROVE  /\ Head(s) \in Names /\ Tail(s) \in Seq(Names)
           /\ Elems(s) = {Head(s)} \cup Elems(Tail(s))
  <1>1. /\ Head(s) \in Names /\ Tail(s) \in Seq(Names) /\ Head(s) = s[1]
        /\ Len(Tail(s)) = Len(s) - 1 /\ Len(s) \in Nat /\ Len(s) > 0
        /\ \A i \in 1..(Len(s) - 1) : Tail(s)[i] = s[i + 1]
    OBVIOUS
  <1>2. ASSUME NEW i \in DOMAIN s
        PROVE  s[i] \in {Head(s)} \cup Elems(Tail(s))
    <2>1. CASE i = 1
      BY Zenon, <1>1, <2>1
    <2>2. CASE i # 1
      <3>1. i - 1 \in DOMAIN Tail(s) /\ Tail(s)[i - 1] = s[i]
        BY <1>1, <2>2
      <3> QED
        BY Zenon, <3>1 DEF Elems
    <2> QED
      BY Zenon, <2>1, <2>2
  <1>3. ASSUME NEW i \in DOMAIN Tail(s)
        PROVE  Tail(s)[i] \in Elems(s)
    <2>1. i + 1 \in DOMAIN s /\ Tail(s)[i] = s[i + 1]
      BY <1>1
    <2> QED
      BY Zenon, <2>1 DEF Elems
  <1>4. Head(s) \in Elems(s)
    <2>1. 1 \in DOMAIN s
      BY <1>1
    <2> QED
      BY Zenon, <1>1, <2>1 DEF Elems
  <1> QED
    BY Zenon, <1>1, <1>2, <1>3, <1>4 DEF Elems

LEMMA OrderedJoin ==
    ASSUME NEW s, NEW t, NEW lo \in Int, NEW m \in Int, NEW k \in Int, NEW hi \in Int,
           Ordered(s, lo, m), Ordered(t, k, hi), m < k, lo <= m, k <= hi
    PROVE  Ordered(s \o t, lo, hi)
  <1> USE DEF Ordered
  <1>1. /\ s \o t \in Seq(Names) /\ Len(s \o t) = Len(s) + Len(t)
        /\ Len(s) \in Nat /\ Len(t) \in Nat
    OBVIOUS
  <1>2. \A i \in 1..(Len(s) + Len(t)) :
          \/ i \in DOMAIN s /\ (s \o t)[i] = s[i]
          \/ i > Len(s) /\ i - Len(s) \in DOMAIN t /\ (s \o t)[i] = t[i - Len(s)]
    BY <1>1
  <1>3. \A i \in DOMAIN (s \o t) : Rank((s \o t)[i]) \in lo..hi
    BY <1>1, <1>2
  <1>4. ASSUME NEW i \in DOMAIN (s \o t), NEW j \in DOMAIN (s \o t), i < j
        PROVE  Rank((s \o t)[i]) < Rank((s \o t)[j])
    <2>1. CASE i \in DOMAIN s /\ j \in DOMAIN s
      <3>1. (s \o t)[i] = s[i] /\ (s \o t)[j] = s[j]
        BY <1>1, <2>1
      <3> QED
        BY Zenon, <1>4, <2>1, <3>1
    <2>2. CASE i \in DOMAIN s /\ j \notin DOMAIN s
      <3>1. Rank((s \o t)[i]) \in lo..m
        BY <1>1, <2>2
      <3>2. Rank((s \o t)[j]) \in k..hi
        BY SMTT(30), <1>1, <1>2, <2>2
      <3> QED
        BY SMTT(30), <3>1, <3>2
    <2>3. CASE i \notin DOMAIN s
      <3>1. /\ i - Len(s) \in DOMAIN t /\ (s \o t)[i] = t[i - Len(s)]
            /\ j - Len(s) \in DOMAIN t /\ (s \o t)[j] = t[j - Len(s)]
        BY SMTT(30), <1>1, <1>2, <1>4, <2>3
      <3>2. i - Len(s) < j - Len(s)
        BY <1>1, <1>4
      <3> QED
        BY Zenon, <3>1, <3>2
    <2> QED
      BY Zenon, <2>1, <2>2, <2>3
  <1> QED
    BY Zenon, <1>1, <1>3, <1>4

LEMMA OrderedWhen ==
    ASSUME NEW c, NEW s, NEW lo, NEW hi, Ordered(s, lo, hi)
    PROVE  Ordered(When(c, s), lo, hi)
  <1>1. <<>> \in Seq(Names) /\ DOMAIN <<>> = {}
    OBVIOUS
  <1>2. Ordered(<<>>, lo, hi)
    BY Zenon, <1>1 DEF Ordered
  <1> QED
    BY Zenon, <1>2 DEF When

LEMMA OrderedOne ==
    ASSUME NEW c \in Names, NEW r \in Int, Rank(c) = r
    PROVE  Ordered(<<c>>, r, r)
  <1>1. <<c>> \in Seq(Names) /\ DOMAIN <<c>> = {1} /\ <<c>>[1] = c
    OBVIOUS
  <1> QED
    BY <1>1 DEF Ordered

LEMMA OrderedHead ==
    ASSUME NEW s, NEW lo, NEW hi, Ordered(s, lo, hi), s # <<>>
    PROVE  /\ Ordered(Tail(s), lo, hi)
           /\ \A c \in Elems(Tail(s)) : Rank(Head(s)) < Rank(c)
  <1>1. /\ s \in Seq(Names) /\ Tail(s) \in Seq(Names) /\ Head(s) = s[1]
        /\ Len(Tail(s)) = Len(s) - 1 /\ Len(s) \in Nat /\ Len(s) > 0
        /\ \A i \in 1..(Len(s) - 1) : Tail(s)[i] = s[i + 1]
    BY DEF Ordered
  <1>2. \A i \in DOMAIN Tail(s) : i + 1 \in DOMAIN s /\ Tail(s)[i] = s[i + 1]
    BY <1>1
  <1>3. \A i \in DOMAIN Tail(s) : Rank(Tail(s)[i]) \in lo..hi
    BY Zenon, <1>2 DEF Ordered
  <1>4. ASSUME NEW i \in DOMAIN Tail(s), NEW j \in DOMAIN Tail(s), i < j
        PROVE  Rank(Tail(s)[i]) < Rank(Tail(s)[j])
    <2>1. i + 1 < j + 1
      BY <1>1, <1>4
    <2> QED
      BY Zenon, <1>2, <2>1 DEF Ordered
  <1>5. ASSUME NEW i \in DOMAIN Tail(s)
        PROVE  Rank(Head(s)) < Rank(Tail(s)[i])
    <2>1. 1 \in DOMAIN s /\ 1 < i + 1
      BY <1>1
    <2> QED
      BY Zenon, <1>1, <1>2, <2>1 DEF Ordered
  <1> QED
    BY Zenon, <1>1, <1>3, <1>4, <1>5 DEF Ordered, Elems

LEMMA RankType == \A c : Rank(c) \in 1..26
  BY DEF Rank

LEMMA RankOf ==
    /\ Rank("apps") = 1 /\ Rank("client") = 2 /\ Rank("load") = 6 /\ Rank("wan") = 7
    /\ Rank("frag") = 9 /\ Rank("tunnel") = 12 /\ Rank("lan") = 13 /\ Rank("pd") = 16
    /\ Rank("leases") = 20 /\ Rank("dhcpv4") = 21 /\ Rank("nl") = 22 /\ Rank("control") = 23
    /\ Rank("pmtu") = 24 /\ Rank("pidfile") = 25
  BY Zenon DEF Rank

LEMMA NotBelowItself == ASSUME NEW n \in 1..25 PROVE ~(n < n)
  OBVIOUS

LEMMA OrderedPair ==
    ASSUME NEW a \in Names, NEW b \in Names, NEW r \in Int, Rank(a) = r, Rank(b) = r + 1
    PROVE  Ordered(<<a, b>>, r, r + 1)
  <1>1. <<a, b>> \in Seq(Names) /\ DOMAIN <<a, b>> = 1..2 /\ <<a, b>>[1] = a /\ <<a, b>>[2] = b
    OBVIOUS
  <1>2. \A i \in 1..2 : i = 1 \/ i = 2
    OBVIOUS
  <1> QED
    BY <1>1, <1>2 DEF Ordered

AllCalls(f) == SetupCalls(f) \o AttachCalls \o ServiceCalls(f) \o LastCalls

LEMMA SetupOrdered == ASSUME NEW f PROVE Ordered(SetupCalls(f), 1, 5)
  <1> DEFINE s2 == <<"apps">> \o When({"pd", "aftrDynamic"} \cap f # {}, <<"client">>)
             s3 == s2 \o When("pd" \in f, <<"acquire">>)
             s4 == s3 \o <<"aftr">>
  <1>1. Ordered(<<"apps">>, 1, 1)
    BY OrderedOne DEF Rank, Names
  <1>2. Ordered(When({"pd", "aftrDynamic"} \cap f # {}, <<"client">>), 2, 2)
    BY OrderedOne, OrderedWhen DEF Rank, Names
  <1>3. Ordered(When("pd" \in f, <<"acquire">>), 3, 3)
    BY OrderedOne, OrderedWhen DEF Rank, Names
  <1>4. Ordered(<<"aftr">>, 4, 4)
    BY OrderedOne DEF Rank, Names
  <1>5. Ordered(When("dns" \in f, <<"upstreams">>), 5, 5)
    BY OrderedOne, OrderedWhen DEF Rank, Names
  <1>6. Ordered(s2, 1, 2)
    BY <1>1, <1>2, OrderedJoin
  <1> HIDE DEF s2
  <1>7. Ordered(s3, 1, 3)
    BY <1>3, <1>6, OrderedJoin
  <1> HIDE DEF s3
  <1>8. Ordered(s4, 1, 4)
    BY <1>4, <1>7, OrderedJoin
  <1> HIDE DEF s4
  <1>9. Ordered(s4 \o When("dns" \in f, <<"upstreams">>), 1, 5)
    BY <1>5, <1>8, OrderedJoin
  <1> QED
    BY Zenon, <1>9 DEF SetupCalls, s4, s3, s2


\* Calls that follow one another on every command line.
LEMMA OrderedRun ==
    ASSUME NEW s \in Seq(Names), NEW n \in Nat, \A i \in 1..Len(s) : Rank(s[i]) = n + i
    PROVE  Ordered(s, n + 1, n + Len(s))
  <1>1. Len(s) \in Nat /\ DOMAIN s = 1..Len(s)
    OBVIOUS
  <1> QED
    BY <1>1 DEF Ordered

LEMMA AttachOrdered == Ordered(AttachCalls, 6, 13)
  <1>1. AttachCalls \in Seq(Names) /\ Len(AttachCalls) = 8
    BY DEF AttachCalls, Names
  <1>2. /\ AttachCalls[1] = "load" /\ AttachCalls[2] = "wan" /\ AttachCalls[3] = "veth"
        /\ AttachCalls[4] = "frag" /\ AttachCalls[5] = "b4" /\ AttachCalls[6] = "config"
        /\ AttachCalls[7] = "tunnel" /\ AttachCalls[8] = "lan"
    BY Zenon DEF AttachCalls
  <1>3. ASSUME NEW i \in 1..8
        PROVE  Rank(AttachCalls[i]) = 5 + i
    <2>1. i = 1 \/ i = 2 \/ i = 3 \/ i = 4 \/ i = 5 \/ i = 6 \/ i = 7 \/ i = 8
      OBVIOUS
    <2> QED
      BY <1>2, <2>1 DEF Rank
  <1>4. Ordered(AttachCalls, 5 + 1, 5 + 8)
    BY Zenon, <1>1, <1>3, OrderedRun
  <1> QED
    BY <1>4

LEMMA ServiceOrdered == ASSUME NEW f PROVE Ordered(ServiceCalls(f), 14, 23)
  <1> DEFINE r == When({"pd", "ndproxy"} \cap f # {}, <<"radvd">>)
             w == When("ndproxy" \in f, <<"ndproxy", "prefix", "watch">>)
             l == When("dhcpv4" \in f, <<"leases", "dhcpv4">>)
             c == When({"aftrDynamic", "b4Dynamic"} \cap f # {}, <<"control">>)
             s2 == When("dns" \in f, <<"dns">>) \o r
             s3 == s2 \o When("pd" \in f, <<"pd">>)
             s4 == s3 \o w
             s5 == s4 \o l
             s6 == s5 \o When("b4Dynamic" \in f, <<"nl">>)
  <1>1. Ordered(When("dns" \in f, <<"dns">>), 14, 14)
    BY OrderedOne, OrderedWhen DEF Rank, Names
  <1>2. Ordered(r, 15, 15)
    BY OrderedOne, OrderedWhen DEF Rank, Names
  <1>3. Ordered(When("pd" \in f, <<"pd">>), 16, 16)
    BY OrderedOne, OrderedWhen DEF Rank, Names
  <1>4. Ordered(w, 17, 19)
    <2> DEFINE s == <<"ndproxy", "prefix", "watch">>
    <2>1. s \in Seq(Names) /\ Len(s) = 3
      BY DEF Names
    <2>2. s[1] = "ndproxy" /\ s[2] = "prefix" /\ s[3] = "watch"
      BY Zenon
    <2> HIDE DEF s
    <2>3. ASSUME NEW i \in 1..3
          PROVE  Rank(s[i]) = 16 + i
      <3>1. i = 1 \/ i = 2 \/ i = 3
        OBVIOUS
      <3> QED
        BY <2>2, <3>1 DEF Rank
    <2>4. Ordered(s, 16 + 1, 16 + 3)
      BY Zenon, <2>1, <2>3, OrderedRun
    <2> QED
      BY <2>4, OrderedWhen DEF s
  <1>5. Ordered(l, 20, 21)
    <2>1. /\ Rank("leases") = 20 /\ Rank("dhcpv4") = 20 + 1
          /\ "leases" \in Names /\ "dhcpv4" \in Names
      BY DEF Rank, Names
    <2>2. Ordered(<<"leases", "dhcpv4">>, 20, 20 + 1)
      BY <2>1, OrderedPair
    <2> QED
      BY <2>2, OrderedWhen
  <1>6. Ordered(When("b4Dynamic" \in f, <<"nl">>), 22, 22)
    BY OrderedOne, OrderedWhen DEF Rank, Names
  <1>7. Ordered(c, 23, 23)
    BY OrderedOne, OrderedWhen DEF Rank, Names
  <1> HIDE DEF r, w, l, c
  <1>8. Ordered(s2, 14, 15)
    BY <1>1, <1>2, OrderedJoin
  <1> HIDE DEF s2
  <1>9. Ordered(s3, 14, 16)
    BY <1>3, <1>8, OrderedJoin
  <1> HIDE DEF s3
  <1>10. Ordered(s4, 14, 19)
    BY <1>4, <1>9, OrderedJoin
  <1> HIDE DEF s4
  <1>11. Ordered(s5, 14, 21)
    BY <1>5, <1>10, OrderedJoin
  <1> HIDE DEF s5
  <1>12. Ordered(s6, 14, 22)
    BY <1>6, <1>11, OrderedJoin
  <1> HIDE DEF s6
  <1>13. Ordered(s6 \o c, 14, 23)
    BY <1>7, <1>12, OrderedJoin
  <1> QED
    BY Zenon, <1>13 DEF ServiceCalls, s6, s5, s4, s3, s2, r, w, l, c

\* A start makes its calls in order, on any command line, and each that the
\* others rely on is among them.
LEMMA AllOrdered == ASSUME NEW f PROVE Ordered(AllCalls(f), 1, 25)
  <1>1. Ordered(SetupCalls(f) \o AttachCalls, 1, 13)
    BY SetupOrdered, AttachOrdered, OrderedJoin
  <1>2. Ordered(SetupCalls(f) \o AttachCalls \o ServiceCalls(f), 1, 23)
    BY <1>1, ServiceOrdered, OrderedJoin
  <1>3. Ordered(LastCalls, 24, 25)
    <2>1. /\ Rank("pmtu") = 24 /\ Rank("pidfile") = 24 + 1
          /\ "pmtu" \in Names /\ "pidfile" \in Names
      BY DEF Rank, Names
    <2>2. Ordered(<<"pmtu", "pidfile">>, 24, 24 + 1)
      BY <2>1, OrderedPair
    <2> QED
      BY <2>2 DEF LastCalls
  <1> QED
    BY <1>2, <1>3, OrderedJoin DEF AllCalls

LEMMA ElemsWhen ==
    ASSUME NEW c, NEW s \in Seq(Names)
    PROVE  When(c, s) \in Seq(Names) /\ Elems(When(c, s)) = IF c THEN Elems(s) ELSE {}
  <1>1. <<>> \in Seq(Names)
    OBVIOUS
  <1> QED
    BY Zenon, <1>1, ElemsNone DEF When

LEMMA ElemsPair == ASSUME NEW a, NEW b PROVE Elems(<<a, b>>) = {a, b}
  <1>1. DOMAIN <<a, b>> = 1..2 /\ <<a, b>>[1] = a /\ <<a, b>>[2] = b
    OBVIOUS
  <1>2. \A i \in 1..2 : i = 1 \/ i = 2
    OBVIOUS
  <1> QED
    BY <1>1, <1>2 DEF Elems

LEMMA SetupHas ==
    ASSUME NEW f
    PROVE  /\ SetupCalls(f) \in Seq(Names) /\ "apps" \in Elems(SetupCalls(f))
           /\ "pd" \in f => "client" \in Elems(SetupCalls(f))
           /\ {"pd", "leases", "dhcpv4", "nl"} \cap Elems(SetupCalls(f)) = {}
  <1> DEFINE c == When({"pd", "aftrDynamic"} \cap f # {}, <<"client">>)
             a == When("pd" \in f, <<"acquire">>)
             u == When("dns" \in f, <<"upstreams">>)
             s2 == <<"apps">> \o c
             s3 == s2 \o a
             s4 == s3 \o <<"aftr">>
  <1>1. \A x \in Names : <<x>> \in Seq(Names)
    OBVIOUS
  <1>2. {"apps", "client", "acquire", "aftr", "upstreams"} \subseteq Names
    BY Zenon DEF Names
  <1>3. /\ c \in Seq(Names) /\ Elems(c) = IF {"pd", "aftrDynamic"} \cap f # {} THEN {"client"} ELSE {}
        /\ a \in Seq(Names) /\ Elems(a) \subseteq {"acquire"}
        /\ u \in Seq(Names) /\ Elems(u) \subseteq {"upstreams"}
    <2>1. c \in Seq(Names) /\ Elems(c) = IF {"pd", "aftrDynamic"} \cap f # {} THEN {"client"} ELSE {}
      BY Zenon, <1>1, <1>2, ElemsWhen, ElemsOne
    <2>2. a \in Seq(Names) /\ Elems(a) \subseteq {"acquire"}
      BY Zenon, <1>1, <1>2, ElemsWhen, ElemsOne
    <2>3. u \in Seq(Names) /\ Elems(u) \subseteq {"upstreams"}
      BY Zenon, <1>1, <1>2, ElemsWhen, ElemsOne
    <2> QED
      BY Zenon, <2>1, <2>2, <2>3
  <1> HIDE DEF c, a, u
  <1>4. s2 \in Seq(Names) /\ Elems(s2) = {"apps"} \cup Elems(c)
    <2>1. <<"apps">> \in Seq(Names) /\ Elems(<<"apps">>) = {"apps"}
      BY Zenon, <1>1, <1>2, ElemsOne
    <2> QED
      BY Zenon, <1>3, <2>1, ElemsJoin
  <1> HIDE DEF s2
  <1>5. s3 \in Seq(Names) /\ Elems(s3) = Elems(s2) \cup Elems(a)
    BY Zenon, <1>3, <1>4, ElemsJoin
  <1> HIDE DEF s3
  <1>6. s4 \in Seq(Names) /\ Elems(s4) = Elems(s3) \cup {"aftr"}
    BY ZenonT(30), <1>1, <1>2, <1>5, ElemsOne, ElemsJoin
  <1> HIDE DEF s4
  <1>7. s4 \o u \in Seq(Names) /\ Elems(s4 \o u) = Elems(s4) \cup Elems(u)
    BY Zenon, <1>3, <1>6, ElemsJoin
  <1>8. SetupCalls(f) = s4 \o u
    BY Zenon DEF SetupCalls, s4, s3, s2, c, a, u
  <1> QED
    BY Zenon, <1>3, <1>4, <1>5, <1>6, <1>7, <1>8

LEMMA AttachHas ==
    /\ AttachCalls \in Seq(Names) /\ {"load", "tunnel"} \subseteq Elems(AttachCalls)
    /\ {"pd", "leases", "dhcpv4", "nl"} \cap Elems(AttachCalls) = {}
  <1>1. AttachCalls \in Seq(Names) /\ DOMAIN AttachCalls = 1..8
    BY DEF AttachCalls, Names
  <1>2. /\ AttachCalls[1] = "load" /\ AttachCalls[2] = "wan" /\ AttachCalls[3] = "veth"
        /\ AttachCalls[4] = "frag" /\ AttachCalls[5] = "b4" /\ AttachCalls[6] = "config"
        /\ AttachCalls[7] = "tunnel" /\ AttachCalls[8] = "lan"
    BY DEF AttachCalls
  <1>3. \A i \in 1..8 : i = 1 \/ i = 2 \/ i = 3 \/ i = 4 \/ i = 5 \/ i = 6 \/ i = 7 \/ i = 8
    OBVIOUS
  <1>4. Elems(AttachCalls) = {"load", "wan", "veth", "frag", "b4", "config", "tunnel", "lan"}
    <2>1. Elems(AttachCalls) \subseteq {"load", "wan", "veth", "frag", "b4", "config", "tunnel", "lan"}
      BY Zenon, <1>1, <1>2, <1>3 DEF Elems
    <2>2. 1 \in 1..8 /\ 2 \in 1..8 /\ 3 \in 1..8 /\ 4 \in 1..8 /\ 5 \in 1..8 /\ 6 \in 1..8 /\ 7 \in 1..8 /\ 8 \in 1..8
      OBVIOUS
    <2>3. \A i \in 1..8 : AttachCalls[i] \in Elems(AttachCalls)
      BY Zenon, <1>1 DEF Elems
    <2> QED
      BY Zenon, <1>2, <2>1, <2>2, <2>3
  <1> QED
    BY Zenon, <1>1, <1>4

LEMMA ServiceHas ==
    ASSUME NEW f
    PROVE  /\ ServiceCalls(f) \in Seq(Names)
           /\ "pd" \in Elems(ServiceCalls(f)) => "pd" \in f
           /\ "leases" \in Elems(ServiceCalls(f)) <=> "dhcpv4" \in Elems(ServiceCalls(f))
           /\ "nl" \in Elems(ServiceCalls(f)) => "control" \in Elems(ServiceCalls(f))
  <1> DEFINE d == When("dns" \in f, <<"dns">>)
             r == When({"pd", "ndproxy"} \cap f # {}, <<"radvd">>)
             p == When("pd" \in f, <<"pd">>)
             w == When("ndproxy" \in f, <<"ndproxy", "prefix", "watch">>)
             l == When("dhcpv4" \in f, <<"leases", "dhcpv4">>)
             n == When("b4Dynamic" \in f, <<"nl">>)
             c == When({"aftrDynamic", "b4Dynamic"} \cap f # {}, <<"control">>)
             s2 == d \o r
             s3 == s2 \o p
             s4 == s3 \o w
             s5 == s4 \o l
             s6 == s5 \o n
  <1>1. \A x \in Names : <<x>> \in Seq(Names)
    OBVIOUS
  <1>2. {"dns", "radvd", "pd", "ndproxy", "prefix", "watch", "leases", "dhcpv4", "nl", "control"} \subseteq Names
    BY Zenon DEF Names
  <1>3. d \in Seq(Names) /\ Elems(d) \subseteq {"dns"}
    BY Zenon, <1>1, <1>2, ElemsWhen, ElemsOne
  <1>4. r \in Seq(Names) /\ Elems(r) \subseteq {"radvd"}
    BY Zenon, <1>1, <1>2, ElemsWhen, ElemsOne
  <1>5. p \in Seq(Names) /\ Elems(p) = IF "pd" \in f THEN {"pd"} ELSE {}
    BY Zenon, <1>1, <1>2, ElemsWhen, ElemsOne
  <1>6. w \in Seq(Names) /\ Elems(w) \subseteq {"ndproxy", "prefix", "watch"}
    <2> DEFINE s == <<"ndproxy", "prefix", "watch">>
    <2>1. s \in Seq(Names) /\ DOMAIN s = 1..3 /\ s[1] = "ndproxy" /\ s[2] = "prefix" /\ s[3] = "watch"
      BY DEF Names
    <2> HIDE DEF s
    <2>2. \A i \in 1..3 : i = 1 \/ i = 2 \/ i = 3
      OBVIOUS
    <2>3. Elems(s) \subseteq {"ndproxy", "prefix", "watch"}
      BY Zenon, <2>1, <2>2 DEF Elems
    <2>4. When("ndproxy" \in f, s) \in Seq(Names) /\ Elems(When("ndproxy" \in f, s)) \subseteq Elems(s)
      BY Zenon, <2>1, ElemsWhen
    <2> QED
      BY Zenon, <2>3, <2>4 DEF s
  <1>7. l \in Seq(Names) /\ Elems(l) = IF "dhcpv4" \in f THEN {"leases", "dhcpv4"} ELSE {}
    <2>1. <<"leases", "dhcpv4">> \in Seq(Names)
      BY <1>2
    <2> QED
      BY Zenon, <2>1, ElemsWhen, ElemsPair
  <1>8. n \in Seq(Names) /\ Elems(n) = IF "b4Dynamic" \in f THEN {"nl"} ELSE {}
    BY Zenon, <1>1, <1>2, ElemsWhen, ElemsOne
  <1>9. c \in Seq(Names) /\ Elems(c) = IF {"aftrDynamic", "b4Dynamic"} \cap f # {} THEN {"control"} ELSE {}
    BY Zenon, <1>1, <1>2, ElemsWhen, ElemsOne
  <1> HIDE DEF d, r, p, w, l, n, c
  <1>10. s2 \in Seq(Names) /\ Elems(s2) = Elems(d) \cup Elems(r)
    BY Zenon, <1>3, <1>4, ElemsJoin
  <1> HIDE DEF s2
  <1>11. s3 \in Seq(Names) /\ Elems(s3) = Elems(s2) \cup Elems(p)
    BY Zenon, <1>5, <1>10, ElemsJoin
  <1> HIDE DEF s3
  <1>12. s4 \in Seq(Names) /\ Elems(s4) = Elems(s3) \cup Elems(w)
    BY Zenon, <1>6, <1>11, ElemsJoin
  <1> HIDE DEF s4
  <1>13. s5 \in Seq(Names) /\ Elems(s5) = Elems(s4) \cup Elems(l)
    BY Zenon, <1>7, <1>12, ElemsJoin
  <1> HIDE DEF s5
  <1>14. s6 \in Seq(Names) /\ Elems(s6) = Elems(s5) \cup Elems(n)
    BY Zenon, <1>8, <1>13, ElemsJoin
  <1> HIDE DEF s6
  <1>15. s6 \o c \in Seq(Names) /\ Elems(s6 \o c) = Elems(s6) \cup Elems(c)
    BY Zenon, <1>9, <1>14, ElemsJoin
  <1>16. ServiceCalls(f) = s6 \o c
    BY Zenon DEF ServiceCalls, s6, s5, s4, s3, s2, d, r, p, w, l, n, c
  <1>17. Elems(ServiceCalls(f)) = Elems(d) \cup Elems(r) \cup Elems(p) \cup Elems(w)
                                  \cup Elems(l) \cup Elems(n) \cup Elems(c)
    BY Zenon, <1>10, <1>11, <1>12, <1>13, <1>14, <1>15, <1>16
  <1>18. /\ "pd" \in Elems(p) => "pd" \in f
         /\ "leases" \in Elems(l) <=> "dhcpv4" \in Elems(l)
         /\ "nl" \in Elems(n) => "control" \in Elems(c)
         /\ Elems(p) \subseteq {"pd"} /\ Elems(l) \subseteq {"leases", "dhcpv4"}
         /\ Elems(n) \subseteq {"nl"} /\ Elems(c) \subseteq {"control"}
    <2>1. /\ "pd" \in Elems(p) => "pd" \in f
          /\ Elems(p) \subseteq {"pd"}
      BY Zenon, <1>5
    <2>2. /\ "leases" \in Elems(l) <=> "dhcpv4" \in Elems(l)
          /\ Elems(l) \subseteq {"leases", "dhcpv4"}
      BY Zenon, <1>7
    <2>3. /\ "nl" \in Elems(n) => "control" \in Elems(c)
          /\ Elems(n) \subseteq {"nl"} /\ Elems(c) \subseteq {"control"}
      BY Zenon, <1>8, <1>9
    <2> QED
      BY Zenon, <2>1, <2>2, <2>3
  <1>19. \A x \in Elems(ServiceCalls(f)) : x \in Elems(d) \/ x \in Elems(r) \/ x \in Elems(p)
           \/ x \in Elems(w) \/ x \in Elems(l) \/ x \in Elems(n) \/ x \in Elems(c)
    BY Zenon, <1>17
  <1>20. Elems(l) \cup Elems(c) \subseteq Elems(ServiceCalls(f))
    BY Zenon, <1>17
  <1>21. /\ "pd" \in Elems(ServiceCalls(f)) => "pd" \in Elems(p)
         /\ "leases" \in Elems(ServiceCalls(f)) => "leases" \in Elems(l)
         /\ "dhcpv4" \in Elems(ServiceCalls(f)) => "dhcpv4" \in Elems(l)
         /\ "nl" \in Elems(ServiceCalls(f)) => "nl" \in Elems(n)
    BY Zenon, <1>3, <1>4, <1>6, <1>18, <1>19
  <1> QED
    BY Zenon, <1>15, <1>16, <1>18, <1>20, <1>21

LEMMA AllHas ==
    ASSUME NEW f
    PROVE  /\ {"apps", "load", "tunnel", "pmtu", "pidfile"} \subseteq Elems(AllCalls(f))
           /\ "pd" \in Elems(AllCalls(f)) => "client" \in Elems(AllCalls(f))
           /\ "leases" \in Elems(AllCalls(f)) <=> "dhcpv4" \in Elems(AllCalls(f))
           /\ "nl" \in Elems(AllCalls(f)) => "control" \in Elems(AllCalls(f))
  <1> DEFINE u == SetupCalls(f)
             v == ServiceCalls(f)
             s == u \o AttachCalls
             t == s \o v
  <1>1. LastCalls \in Seq(Names) /\ Elems(LastCalls) = {"pmtu", "pidfile"}
    BY ElemsPair DEF LastCalls, Names
  <1>2. s \in Seq(Names) /\ Elems(s) = Elems(u) \cup Elems(AttachCalls)
    BY Zenon, SetupHas, AttachHas, ElemsJoin
  <1>3. t \in Seq(Names) /\ Elems(t) = Elems(s) \cup Elems(v)
    <2> HIDE DEF s
    <2> QED
      BY Zenon, <1>2, ServiceHas, ElemsJoin
  <1>4. Elems(AllCalls(f)) = Elems(t) \cup {"pmtu", "pidfile"}
    <2>1. AllCalls(f) = t \o LastCalls
      BY Zenon DEF AllCalls
    <2> HIDE DEF t
    <2> QED
      BY Zenon, <1>1, <1>3, <2>1, ElemsJoin
  <1>5. Elems(AllCalls(f)) = Elems(u) \cup Elems(AttachCalls) \cup Elems(v) \cup {"pmtu", "pidfile"}
    <2> HIDE DEF s, t, u, v
    <2> QED
      BY Zenon, <1>2, <1>3, <1>4
  <1> QED
    BY Zenon, <1>5, SetupHas, AttachHas, ServiceHas

-----------------------------------------------------------------------------
(* The applications, what they use and what run leaves                     *)

\* The deferred calls s stop the applications before they close the tunnel or
\* the datapath.
Sheltered(s) ==
    \E i \in DOMAIN s : s[i] = "stopApps" /\ \A j \in 1..i : s[j] \notin {"tunnel", "dp"}

LifeShape ==
    /\ todo \in Seq(Names) /\ defers \in Seq(Names) /\ apps \in Seq(Names)
    /\ phase = "starting" <=> todo # <<>>
    /\ phase = "down" => defers = <<>> /\ apps = <<>> /\ open = {}
    /\ leaked \subseteq kern \ Settings

\* What a call of run relies on has been done, or is still ahead of it.
StartInv ==
    phase = "starting" =>
        /\ Ordered(todo, 1, 25)
        /\ "pidfile" \in Left
        /\ "pd" \in Left => "client" \in Left \cup Running
        /\ "leases" \in Left => "dhcpv4" \in Left
        /\ "dhcpv4" \in Left => "leases" \in Left \cup open
        /\ "nl" \in Left => "control" \in Left
        /\ "apps" \in Left \/ "stopApps" \in Pending
        /\ "load" \in Left \/ "dp" \in Pending \cap open
        /\ "tunnel" \in Left \/ "tun" \in open
        /\ "pmtu" \in Left \/ (Sheltered(defers) /\ Left \subseteq {"pidfile"})
        /\ Left \cap Running = {}

\* A deferred call removes each thing that run is to remove,
KernInv == \A k \in kern \ (leaked \cup Settings) : \E d \in Pending : k \in Removes(d)

\* and closes each thing it opened, if the next call does not.
OpenInv ==
    \A o \in open :
        \/ \E d \in Pending : o \in Closes(d)
        \/ phase = "starting" /\ o = "leases" /\ Head(todo) = "dhcpv4"
        \/ phase = "starting" /\ o = "nl" /\ Head(todo) = "control"

AppsInv ==
    /\ apps # <<>> => "stopApps" \in Pending
    /\ phase \in {"up", "ending"} => apps = <<>> \/ Sheltered(defers)
    /\ \A i \in DOMAIN apps : apps[i] = "pd" => \E j \in 1..(i - 1) : apps[j] = "client"
    /\ \A a \in Running : (phase # "aborting" \/ a = "dhcpv4") => Uses(a) \subseteq open

LifeInv == LifeShape /\ StartInv /\ KernInv /\ OpenInv /\ AppsInv

LEMMA ShelterPut ==
    ASSUME NEW s \in Seq(Names), NEW d \in Names,
           d = "stopApps" \/ (d \notin {"tunnel", "dp"} /\ Sheltered(s))
    PROVE  Sheltered(<<d>> \o s)
  <1> DEFINE t == <<d>> \o s
  <1>1. /\ DOMAIN t = 1..(Len(s) + 1) /\ t[1] = d /\ Len(s) \in Nat /\ DOMAIN s = 1..Len(s)
        /\ \A i \in 1..Len(s) : t[i + 1] = s[i]
    OBVIOUS
  <1> HIDE DEF t
  <1>2. CASE d = "stopApps"
    <2>1. 1 \in DOMAIN t /\ \A j \in 1..1 : j = 1
      BY <1>1
    <2> QED
      BY Zenon, <1>1, <1>2, <2>1 DEF Sheltered, t
  <1>3. CASE d \notin {"tunnel", "dp"} /\ Sheltered(s)
    <2>1. PICK i \in DOMAIN s : s[i] = "stopApps" /\ \A j \in 1..i : s[j] \notin {"tunnel", "dp"}
      BY Zenon, <1>3 DEF Sheltered
    <2>2. i + 1 \in DOMAIN t /\ t[i + 1] = "stopApps"
      BY <1>1, <2>1
    <2>3. ASSUME NEW j \in 1..(i + 1)
          PROVE  t[j] \notin {"tunnel", "dp"}
      <3>1. CASE j = 1
        BY Zenon, <1>1, <1>3, <3>1
      <3>2. CASE j # 1
        <4>1. j - 1 \in 1..i /\ j - 1 \in 1..Len(s) /\ (j - 1) + 1 = j
          BY <1>1, <3>2
        <4>2. t[(j - 1) + 1] = s[j - 1]
          BY Zenon, <1>1, <4>1
        <4> QED
          BY Zenon, <2>1, <4>1, <4>2
      <3> QED
        BY Zenon, <3>1, <3>2
    <2> QED
      BY Zenon, <2>2, <2>3 DEF Sheltered, t
  <1> QED
    BY Zenon, <1>2, <1>3

LEMMA ShelterNext ==
    ASSUME NEW s \in Seq(Names), s # <<>>, Sheltered(s)
    PROVE  Head(s) \notin {"tunnel", "dp"} /\ (Head(s) = "stopApps" \/ Sheltered(Tail(s)))
  <1>1. PICK i \in DOMAIN s : s[i] = "stopApps" /\ \A j \in 1..i : s[j] \notin {"tunnel", "dp"}
    BY Zenon DEF Sheltered
  <1>2. /\ Head(s) = s[1] /\ Len(s) \in Nat /\ DOMAIN s = 1..Len(s)
        /\ DOMAIN Tail(s) = 1..(Len(s) - 1)
        /\ \A k \in 1..(Len(s) - 1) : Tail(s)[k] = s[k + 1]
    OBVIOUS
  <1>3. Head(s) \notin {"tunnel", "dp"}
    BY <1>1, <1>2
  <1>4. CASE i # 1
    <2>1. i - 1 \in DOMAIN Tail(s) /\ Tail(s)[i - 1] = s[i]
      BY <1>2, <1>4
    <2>2. ASSUME NEW j \in 1..(i - 1)
          PROVE  Tail(s)[j] \notin {"tunnel", "dp"}
      <3>1. j + 1 \in 1..i /\ Tail(s)[j] = s[j + 1]
        BY <1>2
      <3> QED
        BY Zenon, <1>1, <3>1
    <2> QED
      BY Zenon, <1>1, <1>3, <2>1, <2>2 DEF Sheltered
  <1> QED
    BY Zenon, <1>1, <1>2, <1>3, <1>4

\* What the calls that others rely on do.
Effects(c, opened, started, deferred) ==
    /\ c = "apps" => deferred = <<"stopApps">> /\ started = <<>>
    /\ c = "client" => started = <<"client">>
    /\ c = "load" => deferred = <<"dp">> /\ "dp" \in opened
    /\ c = "tunnel" => "tun" \in opened
    /\ c = "leases" => "leases" \in opened
    /\ c = "dhcpv4" => deferred = <<"leases">>
    /\ c = "control" => deferred = <<"nl">>
    /\ c = "pmtu" => deferred = <<"stopApps">>
    /\ c = "pidfile" => deferred = <<"pidfile">> /\ started = <<>>

\* What is made and opened is removed and closed again.
Accounted(c, made, opened, deferred) ==
    /\ \A k \in made \ Settings : \E d \in Pending \cup Elems(deferred) : k \in Removes(d)
    /\ \A o \in opened : \/ \E d \in Elems(deferred) : o \in Closes(d)
                         \/ o = c /\ c \in {"leases", "nl"}

\* The call c succeeds and defers D.
Succeeds(c, made, opened, started, deferred, D) ==
    /\ phase = "starting" /\ c = Head(todo) /\ started \in {<<>>, <<c>>}
    /\ \/ deferred = <<>> /\ D = {}
       \/ \E d \in Names : deferred = <<d>> /\ D = {d}
    /\ Goes(made, opened, started, deferred)

LEMMA GoesMoves ==
    ASSUME LifeShape, StartInv,
           NEW c, NEW made, NEW opened, NEW started, NEW deferred, NEW D,
           Succeeds(c, made, opened, started, deferred, D)
    PROVE  /\ todo' \in Seq(Names) /\ defers' \in Seq(Names) /\ apps' \in Seq(Names)
           /\ c \in Names /\ c \in Left /\ Left = {c} \cup Left'
           /\ Rank(c) \in 1..25 /\ \A x \in Left' : Rank(c) < Rank(x) /\ Rank(x) \in 1..25
           /\ Ordered(todo', 1, 25)
           /\ Elems(deferred) = D /\ Pending' = Pending \cup D
           /\ Running' = Running \cup Elems(started)
           /\ todo' = <<>> <=> Left' = {}
  <1>1. /\ todo \in Seq(Names) /\ todo # <<>> /\ Ordered(todo, 1, 25)
        /\ defers \in Seq(Names) /\ apps \in Seq(Names) /\ c = Head(todo)
        /\ todo' = Tail(todo) /\ defers' = deferred \o defers /\ apps' = apps \o started
    BY Zenon DEF LifeShape, StartInv, Goes, Succeeds
  <1>2. /\ c \in Names /\ Tail(todo) \in Seq(Names)
        /\ Left = {c} \cup Elems(Tail(todo))
    BY Zenon, <1>1, ElemsHead DEF Left
  <1>3. /\ Ordered(Tail(todo), 1, 25)
        /\ Rank(c) \in 1..25 /\ \A x \in Elems(Tail(todo)) : Rank(c) < Rank(x) /\ Rank(x) \in 1..25
    <2>1. Ordered(Tail(todo), 1, 25) /\ \A x \in Elems(Tail(todo)) : Rank(c) < Rank(x)
      BY Zenon, <1>1, OrderedHead
    <2>2. \A x \in Elems(Tail(todo)) : Rank(x) \in 1..25
      BY Zenon, <2>1 DEF Ordered, Elems
    <2>3. c = todo[1] /\ 1 \in DOMAIN todo
      BY <1>1
    <2> QED
      BY Zenon, <1>1, <2>1, <2>2, <2>3 DEF Ordered
  <1>4. Elems(deferred) = D /\ deferred \in Seq(Names)
    <2>1. <<>> \in Seq(Names) /\ \A d \in Names : <<d>> \in Seq(Names)
      OBVIOUS
    <2> QED
      BY Zenon, <2>1, ElemsNone, ElemsOne DEF Succeeds
  <1>5. defers' \in Seq(Names) /\ Pending' = Pending \cup D
    <2>1. deferred \o defers \in Seq(Names) /\ Elems(deferred \o defers) = D \cup Elems(defers)
      BY Zenon, <1>1, <1>4, ElemsJoin
    <2> QED
      BY Zenon, <1>1, <2>1 DEF Pending
  <1>6. apps' \in Seq(Names) /\ Running' = Running \cup Elems(started)
    <2>1. started \in Seq(Names)
      <3>1. <<>> \in Seq(Names) /\ \A d \in Names : <<d>> \in Seq(Names)
        OBVIOUS
      <3> QED
        BY Zenon, <1>2, <3>1 DEF Succeeds
    <2>2. apps \o started \in Seq(Names) /\ Elems(apps \o started) = Elems(apps) \cup Elems(started)
      BY Zenon, <1>1, <2>1, ElemsJoin
    <2>3. Running = Elems(apps) /\ Running' = Elems(apps')
      BY Zenon DEF Running, Elems
    <2> QED
      BY Zenon, <1>1, <2>2, <2>3
  <1>7. todo' = <<>> <=> Left' = {}
    <2>1. CASE Tail(todo) = <<>>
      BY Zenon, <1>1, <2>1, ElemsNone DEF Left
    <2>2. CASE Tail(todo) # <<>>
      <3>1. Head(Tail(todo)) \in Elems(Tail(todo))
        BY Zenon, <1>2, <2>2, ElemsHead
      <3> QED
        BY Zenon, <1>1, <2>2, <3>1 DEF Left
    <2> QED
      BY Zenon, <2>1, <2>2
  <1> QED
    BY Zenon, <1>1, <1>2, <1>3, <1>4, <1>5, <1>6, <1>7 DEF Left

LEMMA GoesKeeps ==
    ASSUME LifeInv,
           NEW c, NEW made, NEW opened, NEW started, NEW deferred, NEW D,
           Succeeds(c, made, opened, started, deferred, D),
           Effects(c, opened, started, deferred), Accounted(c, made, opened, deferred)
    PROVE  LifeInv'
  <1>0. LifeShape /\ StartInv /\ phase = "starting"
    BY Zenon DEF LifeInv, Succeeds
  <1>1. /\ todo' \in Seq(Names) /\ defers' \in Seq(Names) /\ apps' \in Seq(Names)
        /\ c \in Names /\ c \in Left /\ Left = {c} \cup Left'
        /\ Rank(c) \in 1..25 /\ \A x \in Left' : Rank(c) < Rank(x) /\ Rank(x) \in 1..25
        /\ Ordered(todo', 1, 25)
        /\ Elems(deferred) = D /\ Pending' = Pending \cup D
        /\ Running' = Running \cup Elems(started)
        /\ todo' = <<>> <=> Left' = {}
    BY Zenon, <1>0, GoesMoves
  <1>2. /\ kern' = kern \cup made /\ leaked' = leaked \ made /\ open' = open \cup opened
        /\ defers' = deferred \o defers /\ apps' = apps \o started /\ todo' = Tail(todo)
        /\ phase' = IF todo' = <<>> THEN "up" ELSE "starting"
    BY Zenon DEF Succeeds, Goes
  <1>3. Elems(started) \subseteq {c} /\ (started = <<>> => apps' = apps)
    <2>1. started = <<>> => apps \o started = apps
      BY DEF LifeInv, LifeShape
    <2> QED
      BY Zenon, <1>2, <2>1, ElemsNone, ElemsOne DEF Succeeds
  <1>4. LifeShape'
    <2>1. leaked' \subseteq kern' \ Settings
      BY Zenon, <1>2 DEF LifeInv, LifeShape
    <2> QED
      BY Zenon, <1>1, <1>2, <2>1 DEF LifeShape
  <1>5. "pidfile" \in Left /\ (todo' = <<>> => c = "pidfile")
    BY Zenon, <1>0, <1>1 DEF StartInv
  <1>6. StartInv'
    <2> SUFFICES ASSUME todo' # <<>>
                 PROVE  StartInv'
      BY Zenon, <1>2 DEF StartInv
    <2>1. c # "pidfile" /\ "pidfile" \in Left'
      <3>1. PICK x \in Left' : TRUE
        BY Zenon, <1>1
      <3>2. Rank(c) < Rank(x) /\ Rank(x) \in 1..25 /\ Rank(c) \in 1..25
        BY Zenon, <1>1
      <3>3. c # "pidfile"
        BY SMTT(30), <3>2, RankOf
      <3> QED
        BY Zenon, <1>1, <1>5, <3>3
    <2>2. "pd" \in Left' => "client" \in Left' \cup Running'
      BY Zenon, <1>0, <1>1, ElemsOne DEF StartInv, Effects
    <2>3. "leases" \in Left' => "dhcpv4" \in Left'
      BY SMTT(30), <1>0, <1>1, RankOf DEF StartInv
    <2>4. "dhcpv4" \in Left' => "leases" \in Left' \cup open'
      BY Zenon, <1>0, <1>1, <1>2 DEF StartInv, Effects
    <2>5. "nl" \in Left' => "control" \in Left'
      BY <1>0, <1>1, RankOf DEF StartInv
    <2>6. "apps" \in Left' \/ "stopApps" \in Pending'
      BY <1>0, <1>1, ElemsOne DEF StartInv, Effects
    <2>7. "load" \in Left' \/ "dp" \in Pending' \cap open'
      BY SMTT(30), <1>0, <1>1, <1>2, ElemsOne DEF StartInv, Effects
    <2>8. "tunnel" \in Left' \/ "tun" \in open'
      BY Zenon, <1>0, <1>1, <1>2 DEF StartInv, Effects
    <2>9. "pmtu" \in Left' \/ (Sheltered(defers') /\ Left' \subseteq {"pidfile"})
      <3>1. CASE c = "pmtu"
        <4>1. Sheltered(defers')
          BY Zenon, <1>0, <1>2, <3>1, ShelterPut DEF Effects, LifeShape, Names
        <4>2. ASSUME NEW x \in Left'
              PROVE  x = "pidfile"
          <5>1. Rank("pmtu") < Rank(x) /\ Rank(x) \in 1..25
            BY Zenon, <1>1, <3>1
          <5>2. Rank(x) = 25
            BY SMTT(30), <5>1, RankOf
          <5> QED
            BY <5>2 DEF Rank
        <4> QED
          BY Zenon, <4>1, <4>2
      <3>2. CASE c # "pmtu"
        BY Zenon, <1>0, <1>1, <2>1, <3>2 DEF StartInv
      <3> QED
        BY Zenon, <3>1, <3>2
    <2>10. Left' \cap Running' = {}
      <3>1. ~(Rank(c) < Rank(c))
        BY Zenon, <1>1, NotBelowItself
      <3>2. c \notin Left'
        BY Zenon, <1>1, <3>1
      <3> QED
        BY Zenon, <1>0, <1>1, <1>3, <3>2 DEF StartInv
    <2> QED
      BY Zenon, <1>0, <1>1, <2>1, <2>2, <2>3, <2>4, <2>5, <2>6, <2>7, <2>8, <2>9, <2>10 DEF StartInv
  <1>7. KernInv'
    BY Zenon, <1>0, <1>1, <1>2 DEF LifeInv, KernInv, Accounted
  <1>8. OpenInv'
    <2> SUFFICES ASSUME NEW o \in open'
                 PROVE  \/ \E d \in Pending' : o \in Closes(d)
                        \/ phase' = "starting" /\ o = "leases" /\ Head(todo') = "dhcpv4"
                        \/ phase' = "starting" /\ o = "nl" /\ Head(todo') = "control"
      BY Zenon DEF OpenInv
    <2>1. CASE \E d \in Pending \cup D : o \in Closes(d)
      BY Zenon, <1>1, <2>1
    <2>2. CASE o = "leases" /\ c = "dhcpv4"
      <3>1. D = {"leases"}
        BY Zenon, <1>1, <2>2, ElemsOne DEF Effects
      <3> QED
        BY Zenon, <1>1, <2>2, <3>1 DEF Closes
    <2>3. CASE o = "nl" /\ c = "control"
      <3>1. D = {"nl"}
        BY Zenon, <1>1, <2>3, ElemsOne DEF Effects
      <3> QED
        BY Zenon, <1>1, <2>3, <3>1 DEF Closes
    <2>4. ASSUME c \in {"leases", "nl"}
          PROVE  /\ phase' = "starting"
                 /\ c = "leases" => Head(todo') = "dhcpv4"
                 /\ c = "nl" => Head(todo') = "control"
      <3>1. phase' = "starting" /\ todo' # <<>>
        BY Zenon, <1>2, <1>5, <2>4
      <3> DEFINE h == Head(todo')
      <3>2. h \in Left' /\ \A x \in Left' : x = h \/ Rank(h) < Rank(x)
        <4>1. Left' = {h} \cup Elems(Tail(todo')) /\ \A x \in Elems(Tail(todo')) : Rank(h) < Rank(x)
          BY Zenon, <1>1, <3>1, ElemsHead, OrderedHead DEF Left
        <4> QED
          BY Zenon, <4>1
      <3> HIDE DEF h
      <3>3. Rank(c) < Rank(h) /\ Rank(h) \in 1..25
        BY Zenon, <1>1, <3>2
      <3>4. CASE c = "leases"
        <4>1. "dhcpv4" \in Left'
          BY Zenon, <1>0, <1>1, <3>4 DEF StartInv
        <4>2. "dhcpv4" = h \/ Rank(h) < Rank("dhcpv4")
          BY Zenon, <3>2, <4>1
        <4>3. "dhcpv4" = h
          BY <3>3, <3>4, <4>2, RankOf
        <4> QED
          BY Zenon, <3>1, <3>4, <4>3 DEF h
      <3>5. CASE c = "nl"
        <4>1. "control" \in Left'
          BY Zenon, <1>0, <1>1, <3>5 DEF StartInv
        <4>2. "control" = h \/ Rank(h) < Rank("control")
          BY Zenon, <3>2, <4>1
        <4>3. "control" = h
          BY <3>3, <3>5, <4>2, RankOf
        <4> QED
          BY Zenon, <3>1, <3>5, <4>3 DEF h
      <3> QED
        BY Zenon, <2>4, <3>4, <3>5
    <2>5. CASE o = c /\ c \in {"leases", "nl"}
      BY Zenon, <2>4, <2>5
    <2>6. CASE o \in opened
      BY Zenon, <1>1, <2>1, <2>5, <2>6 DEF Accounted
    <2>7. CASE o \in open
      <3>1. \/ \E d \in Pending : o \in Closes(d)
            \/ o = "leases" /\ c = "dhcpv4"
            \/ o = "nl" /\ c = "control"
        BY Zenon, <2>7 DEF LifeInv, OpenInv, Succeeds
      <3> QED
        BY Zenon, <2>1, <2>2, <2>3, <3>1
    <2> QED
      BY Zenon, <1>2, <2>6, <2>7
  <1>9. \A x \in Left : x = c \/ Rank(c) < Rank(x)
    BY Zenon, <1>1
  <1>10. AppsInv'
    <2>1. CASE started = <<>>
      <3>1. apps' = apps /\ Running' = Running
        BY Zenon, <1>1, <1>3, <2>1, ElemsNone
      <3>2. apps' # <<>> => "stopApps" \in Pending'
        BY Zenon, <1>1, <3>1 DEF LifeInv, AppsInv
      <3>3. phase' \in {"up", "ending"} => Sheltered(defers')
        <4> SUFFICES ASSUME phase' \in {"up", "ending"}
                     PROVE  Sheltered(defers')
          BY Zenon
        <4>1. c = "pidfile" /\ deferred = <<"pidfile">> /\ Left' = {}
          BY Zenon, <1>1, <1>2, <1>5 DEF Effects
        <4>2. Sheltered(defers)
          BY Zenon, <1>0, <1>1, <4>1 DEF StartInv
        <4> QED
          BY Zenon, <1>0, <1>2, <4>1, <4>2, ShelterPut DEF LifeShape, Names
      <3>4. \A a \in Running' : Uses(a) \subseteq open'
        BY Zenon, <1>0, <1>2, <3>1 DEF LifeInv, AppsInv
      <3> QED
        BY Zenon, <3>1, <3>2, <3>3, <3>4 DEF LifeInv, AppsInv
    <2>2. CASE started = <<c>>
      <3>1. c # "apps" /\ c # "pidfile" /\ apps' = Append(apps, c) /\ Running' = Running \cup {c}
        BY SMTT(30), <1>0, <1>1, <1>2, <2>2, ElemsOne DEF Effects, LifeShape
      <3>2. "stopApps" \in Pending'
        <4>1. Rank(c) \in 1..25 /\ ("apps" \in Left => Rank(c) < Rank("apps"))
          BY Zenon, <1>1, <1>9, <3>1
        <4>2. "apps" \notin Left
          BY <4>1, RankOf
        <4> QED
          BY Zenon, <1>0, <1>1, <4>2 DEF StartInv
      <3>3. phase' = "starting"
        BY Zenon, <1>2, <1>5, <3>1
      <3>4. ASSUME NEW i \in DOMAIN apps', apps'[i] = "pd"
            PROVE  \E j \in 1..(i - 1) : apps'[j] = "client"
        <4>1. /\ Len(apps) \in Nat /\ DOMAIN apps = 1..Len(apps) /\ DOMAIN apps' = 1..(Len(apps) + 1)
              /\ apps'[Len(apps) + 1] = c /\ \A k \in 1..Len(apps) : apps'[k] = apps[k]
          BY <1>0, <3>1 DEF LifeShape
        <4>2. CASE i \in DOMAIN apps
          <5>1. PICK j \in 1..(i - 1) : apps[j] = "client"
            BY Zenon, <3>4, <4>1, <4>2 DEF LifeInv, AppsInv
          <5>2. apps'[j] = apps[j]
            BY <4>1, <4>2
          <5> QED
            BY Zenon, <5>1, <5>2
        <4>3. CASE i \notin DOMAIN apps
          <5>1. i = Len(apps) + 1 /\ c = "pd"
            BY <3>4, <4>1, <4>3
          <5>2. "client" \in Left => Rank("pd") < Rank("client")
            BY Zenon, <1>9, <5>1
          <5>3. "client" \in Running
            BY SMTT(30), <1>0, <1>1, <5>1, <5>2, RankOf DEF StartInv
          <5>4. PICK j \in DOMAIN apps : apps[j] = "client"
            BY Zenon, <5>3 DEF Running
          <5> QED
            BY <4>1, <5>1, <5>4
        <4> QED
          BY Zenon, <4>2, <4>3
      <3>5. Uses(c) \subseteq open
        <4>1. /\ "load" \in Left => c = "load" \/ Rank(c) < Rank("load")
              /\ "tunnel" \in Left => c = "tunnel" \/ Rank(c) < Rank("tunnel")
              /\ "leases" \in Left => c = "leases" \/ Rank(c) < Rank("leases")
          BY Zenon, <1>9
        <4>2. CASE c \in {"control", "pmtu"}
          <5>1. "load" \notin Left /\ "tunnel" \notin Left
            BY <4>1, <4>2, RankOf
          <5> QED
            BY Zenon, <1>0, <4>2, <5>1 DEF StartInv, Uses
        <4>3. CASE c = "dhcpv4"
          <5>1. "leases" \notin Left
            BY <4>1, <4>3, RankOf
          <5> QED
            BY Zenon, <1>0, <1>1, <4>3, <5>1 DEF StartInv, Uses
        <4>4. CASE c \notin {"control", "pmtu", "dhcpv4"}
          BY Zenon, <4>4 DEF Uses
        <4> QED
          BY Zenon, <4>2, <4>3, <4>4
      <3> QED
        BY Zenon, <1>0, <1>2, <3>1, <3>2, <3>3, <3>4, <3>5 DEF LifeInv, AppsInv
    <2> QED
      BY Zenon, <2>1, <2>2 DEF Succeeds
  <1> QED
    BY Zenon, <1>4, <1>6, <1>7, <1>8, <1>10 DEF LifeInv

\* Settings are not programs, and no deferred call undoes one.
LEMMA SettingsApart ==
    /\ Settings \cap Programs = {}
    /\ \A d : Removes(d) \cap Settings = {}
  <1>1. Settings \cap Programs = {}
    BY DEF Settings, Programs
  <1>2. ASSUME NEW d
        PROVE  Removes(d) \subseteq {"pins", "veth", "ip6tnl", "pidfile"} \cup Programs
    BY Zenon DEF Removes, Programs
  <1>3. {"pins", "veth", "ip6tnl", "pidfile"} \cap Settings = {}
    BY DEF Settings
  <1> QED
    BY Zenon, <1>1, <1>2, <1>3

\* The call fails: what it leaves or closes is in order.
Leaves(c, left, closed) ==
    /\ left \cap Programs # {} => c \in {"wan", "frag", "lan"}
    /\ closed = IF c = "dhcpv4" THEN {"leases"} ELSE IF c = "control" THEN {"nl"} ELSE {}

LEMMA ReturnsKeeps ==
    ASSUME LifeInv, phase = "starting", NEW c, c = Head(todo),
           NEW things, NEW left, NEW closed, NEW waits,
           Leaves(c, left, closed), Returns(things, left, closed, waits)
    PROVE  LifeInv'
  <1>1. /\ kern' = (kern \ things) \cup left
        /\ leaked' = (leaked \ things) \cup (left \ (Programs \cup Settings))
        /\ open' = open \ closed
        /\ phase' = "aborting" /\ todo' = <<>> /\ defers' = defers /\ apps' = apps
        /\ Pending' = Pending /\ Running' = Running
    BY Zenon DEF Returns, Pending, Running, Elems
  <1>2. LifeShape'
    <2>1. leaked' \subseteq kern' \ Settings
      BY Zenon, <1>1 DEF LifeInv, LifeShape
    <2>2. <<>> \in Seq(Names)
      OBVIOUS
    <2> QED
      BY Zenon, <1>1, <2>1, <2>2 DEF LifeInv, LifeShape
  <1>3. StartInv'
    BY Zenon, <1>1 DEF StartInv
  <1>4. c \in Left /\ \A x \in Left : x = c \/ Rank(c) < Rank(x)
    <2>1. todo \in Seq(Names) /\ todo # <<>> /\ Ordered(todo, 1, 25)
      BY Zenon DEF LifeInv, LifeShape, StartInv
    <2>2. Left = {c} \cup Elems(Tail(todo)) /\ \A x \in Elems(Tail(todo)) : Rank(c) < Rank(x)
      BY Zenon, <2>1, ElemsHead, OrderedHead DEF Left
    <2> QED
      BY Zenon, <2>2
  <1>5. KernInv'
    <2>1. ASSUME NEW k \in left \cap Programs
          PROVE  \E d \in Pending : k \in Removes(d)
      <3>1. c \in {"wan", "frag", "lan"}
        BY Zenon, <2>1 DEF Leaves
      <3>2. "load" \in Left => Rank(c) < Rank("load")
        BY Zenon, <1>4, <3>1
      <3>3. "load" \notin Left
        BY <3>1, <3>2, RankOf
      <3>4. "dp" \in Pending
        BY Zenon, <3>3 DEF LifeInv, StartInv
      <3> QED
        BY Zenon, <2>1, <3>4 DEF Removes
    <2> QED
      BY Zenon, <1>1, <2>1 DEF LifeInv, KernInv
  <1>6. OpenInv'
    <2> SUFFICES ASSUME NEW o \in open'
                 PROVE  \E d \in Pending' : o \in Closes(d)
      BY Zenon DEF OpenInv
    <2>1. o \in open /\ o \notin closed
      BY Zenon, <1>1
    <2>2. \/ \E d \in Pending : o \in Closes(d)
          \/ o = "leases" /\ c = "dhcpv4"
          \/ o = "nl" /\ c = "control"
      BY Zenon, <2>1 DEF LifeInv, OpenInv
    <2> QED
      BY Zenon, <1>1, <2>1, <2>2 DEF Leaves
  <1>7. ASSUME "dhcpv4" \in Running
        PROVE  "leases" \in open'
    <2>1. Uses("dhcpv4") \subseteq open
      BY Zenon, <1>7 DEF LifeInv, AppsInv
    <2>2. c # "dhcpv4"
      BY Zenon, <1>4, <1>7 DEF LifeInv, StartInv
    <2> QED
      BY Zenon, <1>1, <2>1, <2>2 DEF Uses, Leaves
  <1>8. AppsInv'
    BY Zenon, <1>1, <1>7 DEF LifeInv, AppsInv, Uses
  <1> QED
    BY Zenon, <1>2, <1>3, <1>5, <1>6, <1>8 DEF LifeInv


\* Starting an application, past settings that nothing is to undo.
LEMMA StartKeeps ==
    ASSUME LifeInv, NEW a \in {"client", "dns", "radvd", "pd", "ndproxy", "watch"}, At(a),
           NEW made \in SUBSET Settings,
           Goes(made, {}, <<a>>, <<>>) \/ Returns({}, made, {}, TRUE)
    PROVE  LifeInv'
  <1>1. phase = "starting" /\ a = Head(todo)
    BY Zenon DEF At
  <1>2. CASE Goes(made, {}, <<a>>, <<>>)
    <2>1. Succeeds(a, made, {}, <<a>>, <<>>, {})
      BY Zenon, <1>1, <1>2 DEF Succeeds
    <2>2. Effects(a, {}, <<a>>, <<>>) /\ Accounted(a, made, {}, <<>>)
      BY Zenon DEF Effects, Accounted
    <2> QED
      BY Zenon, <2>1, <2>2, GoesKeeps
  <1>3. CASE Returns({}, made, {}, TRUE)
    <2>1. Leaves(a, made, {})
      BY Zenon, SettingsApart DEF Leaves
    <2> QED
      BY Zenon, <1>1, <1>3, <2>1, ReturnsKeeps
  <1> QED
    BY Zenon, <1>2, <1>3

\* A call that neither makes, opens, starts nor defers anything.
LEMMA PlainKeeps ==
    ASSUME LifeInv, NEW c \in {"acquire", "aftr", "upstreams", "b4", "config", "prefix"}, At(c),
           NEW waits, Goes({}, {}, <<>>, <<>>) \/ Returns({}, {}, {}, waits)
    PROVE  LifeInv'
  <1>1. phase = "starting" /\ c = Head(todo)
    BY Zenon DEF At
  <1>2. CASE Goes({}, {}, <<>>, <<>>)
    <2>1. Succeeds(c, {}, {}, <<>>, <<>>, {})
      BY Zenon, <1>1, <1>2 DEF Succeeds
    <2>2. Effects(c, {}, <<>>, <<>>) /\ Accounted(c, {}, {}, <<>>)
      BY Zenon DEF Effects, Accounted
    <2> QED
      BY Zenon, <2>1, <2>2, GoesKeeps
  <1>3. CASE Returns({}, {}, {}, waits)
    <2>1. Leaves(c, {}, {})
      BY Zenon DEF Leaves
    <2> QED
      BY Zenon, <1>1, <1>3, <2>1, ReturnsKeeps
  <1> QED
    BY Zenon, <1>2, <1>3

\* A call that attaches a program, which the datapath takes with it.
LEMMA AttachKeeps ==
    ASSUME LifeInv, NEW c \in {"wan", "frag", "lan"}, At(c),
           NEW made \in SUBSET (Programs \cup Settings),
           \/ Goes(made, {}, <<>>, <<>>)
           \/ \E left \in SUBSET made : Returns({}, left, {}, FALSE)
    PROVE  LifeInv'
  <1>1. phase = "starting" /\ c = Head(todo)
    BY Zenon DEF At
  <1>2. CASE Goes(made, {}, <<>>, <<>>)
    <2>1. Succeeds(c, made, {}, <<>>, <<>>, {})
      BY Zenon, <1>1, <1>2 DEF Succeeds
    <2>2. "dp" \in Pending
      <3>1. todo \in Seq(Names) /\ todo # <<>> /\ Ordered(todo, 1, 25)
        BY Zenon, <1>1 DEF LifeInv, LifeShape, StartInv
      <3>2. Left = {c} \cup Elems(Tail(todo)) /\ \A x \in Elems(Tail(todo)) : Rank(c) < Rank(x)
        BY Zenon, <1>1, <3>1, ElemsHead, OrderedHead DEF Left
      <3>3. "load" \notin Left
        BY <3>2, RankOf
      <3> QED
        BY Zenon, <1>1, <3>3 DEF LifeInv, StartInv
    <2>3. Effects(c, {}, <<>>, <<>>) /\ Accounted(c, made, {}, <<>>)
      BY Zenon, <2>2 DEF Effects, Accounted, Removes
    <2> QED
      BY Zenon, <2>1, <2>3, GoesKeeps
  <1>3. ASSUME NEW left \in SUBSET made, Returns({}, left, {}, FALSE)
        PROVE  LifeInv'
    <2>1. Leaves(c, left, {})
      BY Zenon DEF Leaves
    <2> QED
      BY Zenon, <1>1, <1>3, <2>1, ReturnsKeeps
  <1> QED
    BY Zenon, <1>2, <1>3

LEMMA EnsureKeeps ==
    ASSUME LifeInv, NEW call, NEW dev, NEW opened,
           <<call, dev, opened>> \in {<<"veth", "veth", {}>>, <<"tunnel", "ip6tnl", {"tun"}>>},
           Ensure(call, dev, opened)
    PROVE  LifeInv'
  <1>0. \/ call = "veth" /\ dev = "veth" /\ opened = {}
        \/ call = "tunnel" /\ dev = "ip6tnl" /\ opened = {"tun"}
    BY Zenon
  <1>1. phase = "starting" /\ call = Head(todo)
    BY Zenon DEF Ensure, At
  <1>2. CASE Goes({dev}, opened, <<>>, <<call>>)
    <2>1. Succeeds(call, {dev}, opened, <<>>, <<call>>, {call})
      BY Zenon, <1>0, <1>1, <1>2 DEF Succeeds, Names
    <2>2. Effects(call, opened, <<>>, <<call>>)
      BY Zenon, <1>0 DEF Effects
    <2>3. Accounted(call, {dev}, opened, <<call>>)
      <3>1. call \in Elems(<<call>>)
        BY Zenon, ElemsOne
      <3>2. dev \in Removes(call) /\ opened \subseteq Closes(call)
        BY Zenon, <1>0 DEF Removes, Closes
      <3> QED
        BY Zenon, <3>1, <3>2 DEF Accounted
    <2> QED
      BY Zenon, <2>1, <2>2, <2>3, GoesKeeps
  <1>3. ASSUME NEW left \in SUBSET {dev}, Returns({dev}, left, {}, FALSE)
        PROVE  LifeInv'
    <2>1. Leaves(call, left, {})
      BY Zenon, <1>0 DEF Leaves, Programs
    <2> QED
      BY Zenon, <1>1, <1>3, <2>1, ReturnsKeeps
  <1> QED
    BY Zenon, <1>2, <1>3 DEF Ensure

LEMMA StartingKeeps == ASSUME LifeInv, Starting PROVE LifeInv'
  <1>0. \A c : At(c) => phase = "starting" /\ c = Head(todo)
    BY Zenon DEF At
  <1>1. CASE StartApps
    <2>1. CASE Goes({}, {}, <<>>, <<"stopApps">>)
      <3>1. Succeeds("apps", {}, {}, <<>>, <<"stopApps">>, {"stopApps"})
        BY Zenon, <1>0, <1>1, <2>1 DEF StartApps, Succeeds, Names
      <3>2. Effects("apps", {}, <<>>, <<"stopApps">>) /\ Accounted("apps", {}, {}, <<"stopApps">>)
        BY Zenon DEF Effects, Accounted
      <3> QED
        BY Zenon, <3>1, <3>2, GoesKeeps
    <2>2. CASE Returns({}, {}, {}, TRUE)
      <3>1. Leaves("apps", {}, {})
        BY Zenon DEF Leaves
      <3> QED
        BY Zenon, <1>0, <1>1, <2>2, <3>1, ReturnsKeeps DEF StartApps
    <2> QED
      BY Zenon, <1>1, <2>1, <2>2 DEF StartApps
  <1>s. ASSUME NEW a \in {"client", "dns", "radvd", "ndproxy", "watch"}, Start(a)
        PROVE  LifeInv'
    <2>1. {} \in SUBSET Settings
      BY Zenon
    <2> QED
      BY Zenon, <1>s, <2>1, StartKeeps DEF Start
  <1>2. CASE StartClient \/ StartDNSProxy \/ StartRadvd
    BY Zenon, <1>2, <1>s DEF StartClient, StartDNSProxy, StartRadvd
  <1>p. CASE RunPrefixDelegation
    <2>1. PICK added \in SUBSET {"addrs"} :
            Goes(added, {}, <<"pd">>, <<>>) \/ Returns({}, added, {}, TRUE)
      BY Zenon, <1>p DEF RunPrefixDelegation
    <2>2. added \in SUBSET Settings
      BY Zenon DEF Settings
    <2> QED
      BY Zenon, <1>p, <2>1, <2>2, StartKeeps DEF RunPrefixDelegation
  <1>3. CASE Acquire \/ ResolveAFTR \/ ResolveB4
    BY Zenon, <1>3, PlainKeeps DEF Acquire, ResolveAFTR, ResolveB4, Waits
  <1>4. CASE ChooseUpstreams \/ SetB4Config
    BY Zenon, <1>4, PlainKeeps DEF ChooseUpstreams, SetB4Config
  <1>5. CASE Load
    <2>1. CASE Goes({"pins"}, {"dp"}, <<>>, <<"dp">>)
      <3>1. Succeeds("load", {"pins"}, {"dp"}, <<>>, <<"dp">>, {"dp"})
        BY Zenon, <1>0, <1>5, <2>1 DEF Load, Succeeds, Names
      <3>2. Effects("load", {"dp"}, <<>>, <<"dp">>)
        BY Zenon DEF Effects
      <3>3. Accounted("load", {"pins"}, {"dp"}, <<"dp">>)
        BY Zenon, ElemsOne DEF Accounted, Removes, Closes
      <3> QED
        BY Zenon, <3>1, <3>2, <3>3, GoesKeeps
    <2>2. CASE Returns({}, {}, {}, FALSE)
      <3>1. Leaves("load", {}, {})
        BY Zenon DEF Leaves
      <3> QED
        BY Zenon, <1>0, <1>5, <2>2, <3>1, ReturnsKeeps DEF Load
    <2> QED
      BY Zenon, <1>5, <2>1, <2>2 DEF Load
  <1>6. CASE EnableSoftwireFrag \/ AttachLAN
    <2>1. {"frag"} \in SUBSET (Programs \cup Settings) /\ {"encap"} \in SUBSET (Programs \cup Settings)
      BY Zenon DEF Programs
    <2> QED
      BY Zenon, <1>6, <2>1, AttachKeeps DEF EnableSoftwireFrag, AttachLAN
  <1>w. CASE AttachWAN
    <2>1. {"sysctls", "decap"} \in SUBSET (Programs \cup Settings)
      BY Zenon DEF Programs, Settings
    <2>2. \A left \in {{}, {"sysctls"}, {"sysctls", "decap"}} : left \in SUBSET {"sysctls", "decap"}
      BY Zenon
    <2> QED
      BY Zenon, <1>w, <2>1, <2>2, AttachKeeps DEF AttachWAN
  <1>7. CASE Ensure("veth", "veth", {}) \/ Ensure("tunnel", "ip6tnl", {"tun"})
    BY <1>7, EnsureKeeps
  <1>8. CASE RunNDProxy
    BY Zenon, <1>8, <1>s, PlainKeeps DEF RunNDProxy, Waits
  <1>9. CASE OpenLeases
    <2>1. CASE Goes({}, {"leases"}, <<>>, <<>>)
      <3>1. Succeeds("leases", {}, {"leases"}, <<>>, <<>>, {})
        BY Zenon, <1>0, <1>9, <2>1 DEF OpenLeases, Succeeds
      <3>2. Effects("leases", {"leases"}, <<>>, <<>>) /\ Accounted("leases", {}, {"leases"}, <<>>)
        BY Zenon DEF Effects, Accounted
      <3> QED
        BY Zenon, <3>1, <3>2, GoesKeeps
    <2>2. CASE Returns({}, {}, {}, FALSE)
      <3>1. Leaves("leases", {}, {})
        BY Zenon DEF Leaves
      <3> QED
        BY Zenon, <1>0, <1>9, <2>2, <3>1, ReturnsKeeps DEF OpenLeases
    <2> QED
      BY Zenon, <1>9, <2>1, <2>2 DEF OpenLeases
  <1>10. CASE RunDHCPv4
    <2>1. CASE Goes({}, {}, <<"dhcpv4">>, <<"leases">>)
      <3>1. Succeeds("dhcpv4", {}, {}, <<"dhcpv4">>, <<"leases">>, {"leases"})
        BY Zenon, <1>0, <1>10, <2>1 DEF RunDHCPv4, Succeeds, Names
      <3>2. Effects("dhcpv4", {}, <<"dhcpv4">>, <<"leases">>) /\ Accounted("dhcpv4", {}, {}, <<"leases">>)
        BY Zenon DEF Effects, Accounted
      <3> QED
        BY Zenon, <3>1, <3>2, GoesKeeps
    <2>2. CASE Returns({}, {}, {"leases"}, TRUE)
      <3>1. Leaves("dhcpv4", {}, {"leases"})
        BY Zenon DEF Leaves
      <3> QED
        BY Zenon, <1>0, <1>10, <2>2, <3>1, ReturnsKeeps DEF RunDHCPv4
    <2> QED
      BY Zenon, <1>10, <2>1, <2>2 DEF RunDHCPv4
  <1>11. CASE OpenNL
    <2>1. PICK opened \in SUBSET {"nl"} : Goes({}, opened, <<>>, <<>>)
      BY Zenon, <1>11 DEF OpenNL
    <2>2. Succeeds("nl", {}, opened, <<>>, <<>>, {})
      BY Zenon, <1>0, <1>11, <2>1 DEF OpenNL, Succeeds
    <2>3. Effects("nl", opened, <<>>, <<>>) /\ Accounted("nl", {}, opened, <<>>)
      BY Zenon DEF Effects, Accounted
    <2> QED
      BY Zenon, <2>2, <2>3, GoesKeeps
  <1>12. CASE StartSoftwireControl
    <2>1. CASE Goes({}, {}, <<"control">>, <<"nl">>)
      <3>1. Succeeds("control", {}, {}, <<"control">>, <<"nl">>, {"nl"})
        BY Zenon, <1>0, <1>12, <2>1 DEF StartSoftwireControl, Succeeds, Names
      <3>2. Effects("control", {}, <<"control">>, <<"nl">>) /\ Accounted("control", {}, {}, <<"nl">>)
        BY Zenon DEF Effects, Accounted
      <3> QED
        BY Zenon, <3>1, <3>2, GoesKeeps
    <2>2. CASE Returns({}, {}, {"nl"}, TRUE)
      <3>1. Leaves("control", {}, {"nl"})
        BY Zenon DEF Leaves
      <3> QED
        BY Zenon, <1>0, <1>12, <2>2, <3>1, ReturnsKeeps DEF StartSoftwireControl
    <2> QED
      BY Zenon, <1>12, <2>1, <2>2 DEF StartSoftwireControl
  <1>13. CASE StartTunnelPMTU
    <2>1. CASE Goes({}, {}, <<"pmtu">>, <<"stopApps">>)
      <3>1. Succeeds("pmtu", {}, {}, <<"pmtu">>, <<"stopApps">>, {"stopApps"})
        BY Zenon, <1>0, <1>13, <2>1 DEF StartTunnelPMTU, Succeeds, Names
      <3>2. Effects("pmtu", {}, <<"pmtu">>, <<"stopApps">>) /\ Accounted("pmtu", {}, {}, <<"stopApps">>)
        BY Zenon DEF Effects, Accounted
      <3> QED
        BY Zenon, <3>1, <3>2, GoesKeeps
    <2>2. CASE Returns({}, {}, {}, TRUE)
      <3>1. Leaves("pmtu", {}, {})
        BY Zenon DEF Leaves
      <3> QED
        BY Zenon, <1>0, <1>13, <2>2, <3>1, ReturnsKeeps DEF StartTunnelPMTU
    <2> QED
      BY Zenon, <1>13, <2>1, <2>2 DEF StartTunnelPMTU
  <1>14. CASE WritePidfile
    <2>1. CASE Goes({"pidfile"}, {}, <<>>, <<"pidfile">>)
      <3>1. Succeeds("pidfile", {"pidfile"}, {}, <<>>, <<"pidfile">>, {"pidfile"})
        BY Zenon, <1>0, <1>14, <2>1 DEF WritePidfile, Succeeds, Names
      <3>2. Effects("pidfile", {}, <<>>, <<"pidfile">>)
        BY Zenon DEF Effects
      <3>3. Accounted("pidfile", {"pidfile"}, {}, <<"pidfile">>)
        BY Zenon, ElemsOne DEF Accounted, Removes
      <3> QED
        BY Zenon, <3>1, <3>2, <3>3, GoesKeeps
    <2>2. ASSUME NEW left \in SUBSET {"pidfile"}, Returns({}, left, {}, FALSE)
          PROVE  LifeInv'
      <3>1. Leaves("pidfile", left, {})
        BY Zenon DEF Leaves, Programs
      <3> QED
        BY Zenon, <1>0, <1>14, <2>2, <3>1, ReturnsKeeps DEF WritePidfile
    <2> QED
      BY Zenon, <1>14, <2>1, <2>2 DEF WritePidfile
  <1> QED
    BY Zenon, <1>1, <1>2, <1>p, <1>3, <1>4, <1>5, <1>6, <1>w, <1>7, <1>8, <1>9, <1>10, <1>11, <1>12,
       <1>13, <1>14
    DEF Starting

\* Running.Stop stops in reverse order: who came earlier still runs.
LEMMA StopAppKeeps == ASSUME LifeInv, StopApp PROVE LifeInv'
  <1>1. /\ apps \in Seq(Names) /\ apps # <<>> /\ apps' = SubSeq(apps, 1, Len(apps) - 1)
        /\ phase \in {"ending", "aborting"}
        /\ UNCHANGED <<phase, todo, defers, kern, open, leaked>>
    BY Zenon DEF StopApp, Stopped, Ending, LifeInv, LifeShape
  <1>2. /\ Len(apps) \in Nat /\ DOMAIN apps = 1..Len(apps)
        /\ apps' \in Seq(Names) /\ DOMAIN apps' = 1..(Len(apps) - 1)
        /\ \A i \in 1..(Len(apps) - 1) : apps'[i] = apps[i]
    <2>1. Len(apps) \in Nat /\ Len(apps) > 0
      BY <1>1
    <2> QED
      BY <1>1, <2>1
  <1>3. Running' \subseteq Running
    <2> SUFFICES ASSUME NEW i \in DOMAIN apps'
                 PROVE  apps'[i] \in Running
      BY Zenon DEF Running
    <2>1. i \in DOMAIN apps /\ apps'[i] = apps[i]
      BY <1>2
    <2> QED
      BY Zenon, <2>1 DEF Running
  <1>4. Pending' = Pending
    BY Zenon, <1>1 DEF Pending
  <1>5. LifeShape'
    BY Zenon, <1>1, <1>2 DEF LifeInv, LifeShape
  <1>6. StartInv' /\ KernInv' /\ OpenInv'
    BY Zenon, <1>1, <1>4 DEF LifeInv, StartInv, KernInv, OpenInv
  <1>7. \A i \in DOMAIN apps' : apps'[i] = "pd" => \E j \in 1..(i - 1) : apps'[j] = "client"
    <2> SUFFICES ASSUME NEW i \in DOMAIN apps', apps'[i] = "pd"
                 PROVE  \E j \in 1..(i - 1) : apps'[j] = "client"
      BY Zenon
    <2>1. i \in DOMAIN apps /\ apps[i] = "pd" /\ i <= Len(apps) - 1
      BY <1>2
    <2>2. PICK j \in 1..(i - 1) : apps[j] = "client"
      BY Zenon, <2>1 DEF LifeInv, AppsInv
    <2>3. j \in 1..(Len(apps) - 1)
      BY <1>2, <2>1
    <2> QED
      BY Zenon, <1>2, <2>2, <2>3
  <1>8. AppsInv'
    BY Zenon, <1>1, <1>3, <1>4, <1>7 DEF LifeInv, AppsInv
  <1> QED
    BY Zenon, <1>5, <1>6, <1>8 DEF LifeInv

LEMMA DeferredKeeps == ASSUME LifeInv, NEW kept, Deferred(kept) PROVE LifeInv'
  <1> DEFINE h == Head(defers)
  <1>1. /\ phase \in {"ending", "aborting"} /\ defers \in Seq(Names) /\ defers # <<>>
        /\ h \in {"stopApps", "leases"} => apps = <<>>
        /\ kern' = kern \ (Removes(h) \ kept)
        /\ leaked' = (leaked \cup kept) \cap kern' /\ kept \subseteq Removes(h)
        /\ open' = open \ Closes(h)
        /\ defers' = Tail(defers) /\ UNCHANGED <<phase, todo, apps>>
    BY Zenon DEF Deferred, Ending, LifeInv, LifeShape
  <1>2. defers' \in Seq(Names) /\ Pending = {h} \cup Pending' /\ h # "tun"
    BY Zenon, <1>1, ElemsHead DEF Pending, Names
  <1> HIDE DEF h
  <1>3. LifeShape'
    <2>1. leaked' \subseteq kern' \ Settings
      BY Zenon, <1>1, SettingsApart DEF LifeInv, LifeShape
    <2> QED
      BY Zenon, <1>1, <1>2, <2>1 DEF LifeInv, LifeShape
  <1>4. StartInv'
    BY Zenon, <1>1 DEF StartInv
  <1>5. KernInv'
    <2> SUFFICES ASSUME NEW k \in kern' \ (leaked' \cup Settings)
                 PROVE  \E d \in Pending' : k \in Removes(d)
      BY Zenon DEF KernInv
    <2>1. k \in kern \ (leaked \cup Settings) /\ k \notin Removes(h)
      BY Zenon, <1>1
    <2>2. PICK d \in Pending : k \in Removes(d)
      BY Zenon, <2>1 DEF LifeInv, KernInv
    <2> QED
      BY Zenon, <1>2, <2>1, <2>2
  <1>6. OpenInv'
    <2> SUFFICES ASSUME NEW o \in open'
                 PROVE  \E d \in Pending' : o \in Closes(d)
      BY Zenon DEF OpenInv
    <2>1. o \in open /\ o \notin Closes(h)
      BY Zenon, <1>1
    <2>2. PICK d \in Pending : o \in Closes(d)
      BY Zenon, <1>1, <2>1 DEF LifeInv, OpenInv
    <2> QED
      BY Zenon, <1>2, <2>1, <2>2
  <1>7. AppsInv'
    <2>1. CASE apps = <<>>
      BY SMTT(30), <1>1, <2>1 DEF AppsInv, Running
    <2>2. CASE apps # <<>>
      <3>1. h \notin {"stopApps", "leases"}
        BY Zenon, <1>1, <2>2
      <3>2. "stopApps" \in Pending'
        BY Zenon, <1>2, <2>2, <3>1 DEF LifeInv, AppsInv
      <3>3. ASSUME phase = "ending"
            PROVE  h \notin {"tunnel", "dp"} /\ Sheltered(defers')
        <4>1. Sheltered(defers)
          BY Zenon, <2>2, <3>3 DEF LifeInv, AppsInv
        <4> QED
          BY Zenon, <1>1, <3>1, <4>1, ShelterNext DEF h
      <3>4. ASSUME NEW a \in Running, phase # "aborting" \/ a = "dhcpv4"
            PROVE  Uses(a) \subseteq open'
        <4>1. Uses(a) \subseteq open
          BY Zenon, <3>4 DEF LifeInv, AppsInv
        <4>2. CASE phase = "ending"
          <5>1. Closes(h) = {h} /\ h \notin {"tunnel", "dp", "leases", "tun"}
            BY Zenon, <1>2, <3>1, <3>3, <4>2 DEF Closes
          <5>2. Uses(a) \subseteq {"dp", "tun", "leases"}
            BY Zenon DEF Uses
          <5> QED
            BY Zenon, <1>1, <4>1, <5>1, <5>2
        <4>3. CASE a = "dhcpv4"
          BY Zenon, <1>1, <3>1, <4>1, <4>3 DEF Uses, Closes
        <4> QED
          BY Zenon, <1>1, <3>4, <4>2, <4>3
      <3>5. Running' = Running
        BY Zenon, <1>1 DEF Running
      <3> QED
        BY Zenon, <1>1, <3>2, <3>3, <3>4, <3>5 DEF LifeInv, AppsInv
    <2> QED
      BY Zenon, <2>1, <2>2
  <1> QED
    BY Zenon, <1>3, <1>4, <1>5, <1>6, <1>7 DEF LifeInv

LEMMA BootKeeps == ASSUME LifeInv, Boot PROVE LifeInv'
  <1>1. /\ phase = "down" /\ phase' = "starting" /\ todo' = AllCalls(flags)
        /\ UNCHANGED <<defers, apps, kern, open, leaked>>
        /\ defers = <<>> /\ apps = <<>> /\ open = {}
    BY Zenon DEF Boot, AllCalls, LifeInv, LifeShape
  <1>2. Ordered(todo', 1, 25) /\ Left' = Elems(AllCalls(flags))
    BY Zenon, <1>1, AllOrdered DEF Left
  <1>3. Running' = {} /\ Pending' = Pending
    BY <1>1 DEF Running, Pending
  <1>4. todo' \in Seq(Names) /\ todo' # <<>>
    <2>1. "apps" \in Left'
      BY Zenon, <1>2, AllHas
    <2> QED
      BY Zenon, <1>2, <2>1, ElemsNone DEF Ordered, Left
  <1>5. LifeShape'
    BY Zenon, <1>1, <1>4 DEF LifeInv, LifeShape
  <1>6. StartInv'
    <2>1. /\ {"apps", "load", "tunnel", "pmtu", "pidfile"} \subseteq Left'
          /\ "pd" \in Left' => "client" \in Left'
          /\ "leases" \in Left' <=> "dhcpv4" \in Left'
          /\ "nl" \in Left' => "control" \in Left'
      BY Zenon, <1>2, AllHas
    <2> QED
      BY Zenon, <1>2, <1>3, <2>1 DEF StartInv
  <1>7. KernInv' /\ OpenInv' /\ AppsInv'
    BY Zenon, <1>1, <1>3 DEF LifeInv, KernInv, OpenInv, AppsInv
  <1> QED
    BY Zenon, <1>5, <1>6, <1>7 DEF LifeInv

LEMMA LifeKept ==
    ASSUME LifeInv, UNCHANGED <<phase, todo, defers, apps, kern, open, leaked>>
    PROVE  LifeInv'
  <1>1. Left' = Left /\ Pending' = Pending /\ Running' = Running
    BY Zenon DEF Left, Pending, Running
  <1>2. LifeShape' /\ StartInv'
    BY Zenon, <1>1 DEF LifeInv, LifeShape, StartInv
  <1>3. KernInv' /\ OpenInv' /\ AppsInv'
    BY Zenon, <1>1 DEF LifeInv, KernInv, OpenInv, AppsInv
  <1> QED
    BY Zenon, <1>2, <1>3 DEF LifeInv

\* What the applications set is no deferred call's to undo.
LEMMA SetsKeeps ==
    ASSUME LifeInv, NEW a, NEW setting \in Settings, Sets(a, setting)
    PROVE  LifeInv'
  <1>1. /\ UNCHANGED <<phase, todo, defers, apps, open, leaked>>
        /\ kern' \ Settings = kern \ Settings
    BY Zenon DEF Sets
  <1>2. Left' = Left /\ Pending' = Pending /\ Running' = Running
    BY Zenon, <1>1 DEF Left, Pending, Running
  <1>3. LifeShape'
    BY Zenon, <1>1 DEF LifeInv, LifeShape
  <1>4. StartInv' /\ OpenInv' /\ AppsInv'
    BY Zenon, <1>1, <1>2 DEF LifeInv, StartInv, OpenInv, AppsInv
  <1>5. KernInv'
    BY Zenon, <1>1, <1>2 DEF LifeInv, KernInv
  <1> QED
    BY Zenon, <1>3, <1>4, <1>5 DEF LifeInv

LEMMA LifeStep == LifeInv /\ [Next]_vars => LifeInv'
  <1> SUFFICES ASSUME LifeInv, [Next]_vars
               PROVE  LifeInv'
    OBVIOUS
  <1>1. CASE Finish
    <2>1. /\ phase = "up" /\ phase' = "ending" /\ UNCHANGED <<todo, defers, apps, kern, open, leaked>>
          /\ Pending' = Pending /\ Running' = Running
      BY Zenon, <1>1 DEF Finish, Pending, Running
    <2>2. LifeShape' /\ StartInv' /\ KernInv'
      BY Zenon, <2>1 DEF LifeInv, LifeShape, StartInv, KernInv
    <2>3. OpenInv' /\ AppsInv'
      BY Zenon, <2>1 DEF LifeInv, OpenInv, AppsInv
    <2> QED
      BY Zenon, <2>2, <2>3 DEF LifeInv
  <1>2. CASE Exit
    <2>1. /\ phase \in {"ending", "aborting"} /\ phase' = "down" /\ defers = <<>>
          /\ UNCHANGED <<todo, defers, apps, kern, open, leaked>>
          /\ Pending' = Pending /\ Running' = Running
      BY Zenon, <1>2 DEF Exit, Ending, Pending, Running
    <2>2. Pending = {}
      BY Zenon, <2>1, ElemsNone DEF Pending
    <2>3. open = {} /\ apps = <<>>
      BY Zenon, <2>1, <2>2 DEF LifeInv, OpenInv, AppsInv
    <2>4. LifeShape' /\ StartInv' /\ KernInv'
      BY Zenon, <2>1, <2>3 DEF LifeInv, LifeShape, StartInv, KernInv
    <2>5. OpenInv' /\ AppsInv'
      BY <2>1, <2>3 DEF OpenInv, AppsInv, Running
    <2> QED
      BY <2>4, <2>5 DEF LifeInv
  <1>3. CASE Cancel
    BY Zenon, <1>3, LifeKept DEF Cancel
  <1>4. CASE Kill
    <2>1. /\ phase' = "down" /\ todo' = <<>> /\ defers' = <<>> /\ apps' = <<>> /\ open' = {}
          /\ leaked' = kern' \ Settings
      BY Zenon, <1>4 DEF Kill
    <2>2. <<>> \in Seq(Names) /\ Running' = {}
      BY <2>1 DEF Running
    <2> QED
      BY <2>1, <2>2 DEF LifeInv, LifeShape, StartInv, KernInv, OpenInv, AppsInv
  <1>5. CASE Process
    <2>1. LifeNext
      BY Zenon, <1>5 DEF Process
    <2>2. CASE ReconcileLANs \/ SyncHostRoutes
      BY Zenon, <2>2, SetsKeeps DEF ReconcileLANs, SyncHostRoutes, Settings
    <2> QED
      BY Zenon, <1>1, <1>2, <1>3, <1>4, <2>1, <2>2, StartingKeeps, StopAppKeeps, BootKeeps, DeferredKeeps
      DEF LifeNext, Runs
  <1>6. CASE Up
    BY Zenon, <1>6, LifeKept DEF Up
  <1>7. ASSUME NEW fragOk \in BOOLEAN, NEW tunOk \in BOOLEAN, Polls(fragOk, tunOk)
        PROVE  LifeInv'
    BY Zenon, <1>6, <1>7 DEF Polls
  <1>8. CASE PollerRestarts \/ Datapath
    BY Zenon, <1>6, <1>8 DEF PollerRestarts, Datapath
  <1>9. ASSUME NEW s \in Slots, NEW reported \in Paths, Learns(s, reported)
        PROVE  LifeInv'
    BY Zenon, <1>6, <1>9 DEF Learns
  <1>10. CASE UNCHANGED vars
    BY Zenon, <1>10, LifeKept DEF vars, lifeVars
  <1> QED
    BY Zenon, <1>5, <1>7, <1>8, <1>9, <1>10 DEF Next

LEMMA LifeInvariant == Spec => []LifeInv
  <1>1. Init => LifeInv
    <2> SUFFICES ASSUME Init
                 PROVE  LifeInv
      BY Zenon
    <2>1. /\ phase = "down" /\ todo = <<>> /\ defers = <<>> /\ apps = <<>>
          /\ kern = {} /\ open = {} /\ leaked = {}
      BY Zenon DEF Init, LifeInit
    <2>2. <<>> \in Seq(Names) /\ Running = {}
      BY <2>1 DEF Running
    <2> QED
      BY <2>1, <2>2 DEF LifeInv, LifeShape, StartInv, KernInv, OpenInv, AppsInv
  <1> QED
    BY <1>1, LifeStep, PTL DEF Spec

\* On any command line, whichever calls fail and whenever the process is told
\* to stop or is killed, the applications stopped after a full start, and the
\* DHCPv4 server always, do so before what they drive is closed; and DHCPv6-PD
\* before the client it releases its lease through.
THEOREM AppsStopFirst == Spec => []StoppedBeforeClosed
  <1>1. LifeInv => StoppedBeforeClosed
    <2> SUFFICES ASSUME LifeInv
                 PROVE  StoppedBeforeClosed
      BY Zenon
    <2>1. ASSUME "pd" \in Running
          PROVE  "client" \in Running
      <3>1. PICK i \in DOMAIN apps : apps[i] = "pd"
        BY Zenon, <2>1 DEF Running
      <3>2. PICK j \in 1..(i - 1) : apps[j] = "client"
        BY Zenon, <3>1 DEF LifeInv, AppsInv
      <3>3. j \in DOMAIN apps
        BY DEF LifeInv, LifeShape
      <3> QED
        BY Zenon, <3>2, <3>3 DEF Running
    <2> QED
      BY Zenon, <2>1 DEF StoppedBeforeClosed, LifeInv, AppsInv
  <1> QED
    BY <1>1, LifeInvariant, PTL

\* Once run has returned, or has been killed, nothing it opened is open, no
\* application runs, and of its devices, programs, pins and pidfile those
\* remain that a kill, a failed delete or a failed lookup left: every error
\* path closes what it opened, and each deferred call removes what its step
\* made.  The settings made on other interfaces are not among them.
THEOREM ExitsClean == Spec => []CleanExit
  <1>1. LifeInv => CleanExit
    <2> SUFFICES ASSUME LifeInv, phase = "down"
                 PROVE  kern \ Settings = leaked /\ open = {} /\ apps = <<>> /\ defers = <<>>
      BY Zenon DEF CleanExit
    <2>1. defers = <<>> /\ apps = <<>> /\ open = {} /\ leaked \subseteq kern \ Settings
      BY Zenon DEF LifeInv, LifeShape
    <2>2. Pending = {}
      BY Zenon, <2>1, ElemsNone DEF Pending
    <2>3. kern \ Settings \subseteq leaked
      BY Zenon, <2>2 DEF LifeInv, KernInv
    <2> QED
      BY Zenon, <2>1, <2>3
  <1> QED
    BY <1>1, LifeInvariant, PTL
=============================================================================
