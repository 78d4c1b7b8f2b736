---------------------------- MODULE SoftwireMtu -----------------------------
(***************************************************************************)
(* The sizes that follow the softwire's path MTU: what the datapath learns *)
(* from Packet Too Big messages, the process that applies it               *)
(* (internal/tunnelpmtu) to the fragmenter and the MSS clamp (pkg/datapath)*)
(* and to the companion ip6tnl (internal/slowpath), and the XDP stages     *)
(* that carve an oversized packet into fragments, one clone each, while    *)
(* the sizes change.                                                       *)
(*                                                                         *)
(* learned is tunnel_pmtus, 0 where there is no reading.  One packet is    *)
(* carved at a time: the clones still to be trimmed, the unit and length   *)
(* they carry, the MTU encap honoured, and the fragments sent so far.      *)
(***************************************************************************)
EXTENDS Integers, FiniteSets

CONSTANTS
    Slots,          \* next_hop slots
    WANMTU,         \* the WAN device's MTU
    Paths,          \* MTUs that a Packet Too Big reports
    Lens,           \* lengths of inner packets
    MSSPolicy,      \* -tcp-mss-clamp: -1 is auto, 0 off
    MaxSoftwireFrags, MaxInnerLen

ASSUME SizesAssumption ==
    /\ WANMTU \in Nat /\ Paths \subseteq Nat /\ Lens \subseteq Nat
    /\ MSSPolicy \in Int
    /\ {MaxSoftwireFrags, MaxInnerLen} \subseteq Nat

VARIABLES
    learned,    \* the path MTU learned of each slot
    unit, mss,  \* b4_config's frag_unit and mss_clamp
    device,     \* the ip6tnl's MTU
    applied,    \* what the process has applied; 0 is not known
    packet      \* the packet being carved

-----------------------------------------------------------------------------
\* The derived sizes

softwireFragOverhead == 48
IPV6_MIN_MTU == 1280

\* softwireFragUnit
FragUnit(mtu) ==
    IF mtu <= softwireFragOverhead + 8 THEN 0
    ELSE (mtu - softwireFragOverhead) - ((mtu - softwireFragOverhead) % 8)

\* autoTCPMSSClamp
AutoTCPMSSClamp(mtu) == IF mtu - 80 < 536 THEN 0 ELSE mtu - 80

\* resolveMSSClamp
ResolveMSSClamp(mtu) ==
    IF MSSPolicy = -1 THEN AutoTCPMSSClamp(mtu) ELSE IF MSSPolicy <= 0 THEN 0 ELSE MSSPolicy

\* slowpath.tunnelMTU
TunnelMTU(mtu) == (IF mtu > IPV6_MIN_MTU THEN mtu ELSE IPV6_MIN_MTU) - 40

\* Loader.TunnelPMTU, over the readings that have not aged out: the
\* smallest, 0 if there is none.
TunnelPMTU ==
    LET known == {learned[s] : s \in Slots} \ {0}
    IN  IF known = {} THEN 0 ELSE CHOOSE m \in known : \A n \in known : m <= n

\* tunnelpmtu.effective
Effective == IF TunnelPMTU # 0 /\ TunnelPMTU < WANMTU THEN TunnelPMTU ELSE WANMTU

-----------------------------------------------------------------------------
\* The process

SharedPoll(fragOk, tunOk) ==
    LET mtu == Effective
        resized == fragOk /\ mtu # applied.frag
    IN  /\ unit' = IF resized THEN FragUnit(mtu) ELSE unit
        /\ mss' = IF resized /\ MSSPolicy = -1 THEN AutoTCPMSSClamp(mtu) ELSE mss
        /\ device' = IF tunOk /\ mtu # applied.tunnel THEN TunnelMTU(mtu) ELSE device
        /\ applied' = [frag |-> mtu, tunnel |-> mtu]
        /\ UNCHANGED <<learned, packet>>

\* watcher.HandleInfo of a tick: Loader.SetSoftwireMTU and
\* Tunnel.SetSoftwireMTU, either of which may fail, apart.
Poll(fragOk, tunOk) ==
    LET mtu == Effective
        resized == fragOk /\ mtu # applied.frag
    IN  /\ unit' = IF resized THEN FragUnit(mtu) ELSE unit
        /\ mss' = IF resized /\ MSSPolicy = -1 THEN AutoTCPMSSClamp(mtu) ELSE mss
        /\ device' = IF tunOk /\ mtu # applied.tunnel THEN TunnelMTU(mtu) ELSE device
        /\ applied' = [frag |-> IF fragOk THEN mtu ELSE applied.frag,
                       tunnel |-> IF tunOk THEN mtu ELSE applied.tunnel]
        /\ UNCHANGED <<learned, packet>>

Unknown == [frag |-> 0, tunnel |-> 0]

\* The process restarts, knowing nothing of what was applied.
PollerStops ==
    /\ applied' = Unknown
    /\ UNCHANGED <<learned, unit, mss, device, packet>>

-----------------------------------------------------------------------------
\* The datapath

\* learn_tunnel_pmtu
Learn(s, reported) ==
    LET mtu == IF reported < IPV6_MIN_MTU THEN IPV6_MIN_MTU ELSE reported IN
    /\ learned[s] = 0 \/ mtu < learned[s]
    /\ learned' = [learned EXCEPT ![s] = mtu]
    /\ UNCHANGED <<unit, mss, device, applied, packet>>

\* A reading ages out, or clearTunnelPMTU forgets it with its slot.
Forget(s) ==
    /\ learned[s] # 0
    /\ learned' = [learned EXCEPT ![s] = 0]
    /\ UNCHANGED <<unit, mss, device, applied, packet>>

NoPacket == [clones |-> {}, unit |-> 0, len |-> 0, mtu |-> 0, frags |-> {}]

\* do_xdp_dslite_encap: the MTU it honours for a packet of slot s.
EncapMTU(s) == IF learned[s] # 0 /\ learned[s] < WANMTU THEN learned[s] ELSE WANMTU

UnguardedCarves(s, len) ==
    /\ len + 40 > EncapMTU(s)
    /\ unit # 0 /\ len <= MaxSoftwireFrags * unit /\ len <= MaxInnerLen

\* encap_fragment_outer does not leave the packet to the ip6tnl.
Carves(s, len) ==
    /\ len + 40 > EncapMTU(s)
    /\ unit # 0 /\ len <= MaxSoftwireFrags * unit /\ len <= MaxInnerLen
    /\ unit + softwireFragOverhead <= EncapMTU(s)

\* encap_fragment_outer: one clone per companion pair, with the unit.
Encap(s, len) ==
    /\ packet.clones = {} /\ Carves(s, len)
    /\ packet' = [clones |-> 0..(MaxSoftwireFrags - 1), unit |-> unit, len |-> len,
                  mtu |-> EncapMTU(s), frags |-> {}]
    /\ UNCHANGED <<learned, unit, mss, device, applied>>

LiveFragment(i) ==
    LET start == i * unit
        rest  == packet.len - start
    IN  [off |-> start, len |-> IF rest > unit THEN unit ELSE rest, more |-> rest > unit]

\* emit_softwire_fragment: what clone i is trimmed to.
Fragment(i) ==
    LET start == i * packet.unit
        rest  == packet.len - start
    IN  [off |-> start, len |-> IF rest > packet.unit THEN packet.unit ELSE rest,
         more |-> rest > packet.unit]

\* A companion program handles its clone; one beyond the end is dropped.
Emit(i) ==
    /\ i \in packet.clones
    /\ packet' = [packet EXCEPT !.clones = @ \ {i},
                                !.frags = IF Fragment(i).len > 0 THEN @ \cup {Fragment(i)} ELSE @]
    /\ UNCHANGED <<learned, unit, mss, device, applied>>

\* SetB4Config and slowpath.New, at startup.
MtuInit ==
    /\ learned = [s \in Slots |-> 0]
    /\ unit = FragUnit(WANMTU) /\ mss = ResolveMSSClamp(WANMTU)
    /\ device = TunnelMTU(WANMTU)
    /\ applied = Unknown
    /\ packet = NoPacket

=============================================================================
