----------------------------- MODULE Minuteman ------------------------------
(***************************************************************************)
(* The process (Lifecycle) with the softwire sizes it keeps while it runs  *)
(* (SoftwireMtu).  The maps behind the sizes are loaded by a start and go  *)
(* with it, so the sizes change only while it is up; SetB4Config and       *)
(* slowpath.New set them afresh.                                           *)
(***************************************************************************)
EXTENDS Lifecycle, SoftwireMtu

CONSTANT MaxLearns    \* how many Packet Too Big messages are learned from

ASSUME LearnsAssumption == MaxLearns \in Nat

VARIABLE learns       \* how many MaxLearns leaves

mtuVars == <<learned, unit, mss, device, applied, packet>>
vars == <<lifeVars, mtuVars, learns>>

Init == LifeInit /\ MtuInit /\ learns = MaxLearns

\* The sizes of the next start.
Afresh ==
    /\ learned' = [s \in Slots |-> 0]
    /\ unit' = FragUnit(WANMTU) /\ mss' = ResolveMSSClamp(WANMTU)
    /\ device' = TunnelMTU(WANMTU)
    /\ applied' = Unknown /\ packet' = NoPacket

Process ==
    /\ LifeNext
    /\ IF phase = "up" /\ phase' # "up" THEN Afresh ELSE UNCHANGED mtuVars
    /\ UNCHANGED learns

Up == phase = "up" /\ UNCHANGED <<flags, phase, todo, defers, apps, kern, open, leaked, done, signals, kills>>

\* The poller's calls fail, or it restarts, as often as the bound allows.
Polls(fragOk, tunOk) ==
    /\ Up /\ "pmtu" \in {apps[i] : i \in DOMAIN apps}
    /\ (fragOk /\ tunOk) \/ fails > 0
    /\ fails' = IF fragOk /\ tunOk THEN fails ELSE fails - 1
    /\ Poll(fragOk, tunOk)
    /\ UNCHANGED learns

PollerRestarts ==
    /\ Up /\ fails > 0 /\ fails' = fails - 1
    /\ PollerStops
    /\ UNCHANGED learns

Learns(s, reported) ==
    /\ Up /\ learns > 0 /\ learns' = learns - 1
    /\ Learn(s, reported)
    /\ UNCHANGED fails

Datapath ==
    /\ Up /\ UNCHANGED <<fails, learns>>
    /\ \/ \E s \in Slots : Forget(s)
       \/ \E s \in Slots, len \in Lens : Encap(s, len)
       \/ \E i \in packet.clones : Emit(i)

Next ==
    \/ Process \/ PollerRestarts \/ Datapath
    \/ \E fragOk, tunOk \in BOOLEAN : Polls(fragOk, tunOk)
    \/ \E s \in Slots, reported \in Paths : Learns(s, reported)

Spec == Init /\ [][Next]_vars

\* run goes on, with calls that return and a network that answers at last;
\* something starts minuteman again; the poller's ticks come.
FairSpec ==
    /\ Spec
    /\ WF_vars(Runs /\ Process)
    /\ WF_vars(\E fragOk, tunOk \in BOOLEAN : Polls(fragOk, tunOk))

-----------------------------------------------------------------------------
\* Properties

Running == {apps[i] : i \in DOMAIN apps}

\* What an application uses of what run opened.
Uses(a) ==
    CASE a = "control" -> {"dp", "tun"}
      [] a = "pmtu"    -> {"dp", "tun"}
      [] a = "dhcpv4"  -> {"leases"}
      [] OTHER         -> {}

\* Every variable keeps its type.
TypeOK ==
    /\ flags \in Flags
    /\ phase \in {"down", "starting", "up", "ending", "aborting"}
    /\ leaked \subseteq kern
    /\ phase = "starting" <=> todo # <<>>

\* An application that run stops after a full start, and the DHCPv4 server
\* however far the start got, never outlives what it drives: the second
\* stopApps runs before Tunnel.Close and Loader.Close, and the leases close
\* after the server has stopped.  DHCPv6-PD, which releases its lease as it
\* stops, never outlives the DHCPv6 client it releases through: Running.Stop
\* stops in reverse order.
StoppedBeforeClosed ==
    /\ \A a \in Running : (phase # "aborting" \/ a = "dhcpv4") => Uses(a) \subseteq open
    /\ "pd" \in Running => "client" \in Running

\* Of its devices, programs, pins and pidfile minuteman leaves nothing behind
\* but what a kill, a delete that failed or a device it made and could not
\* look up left: each step's deferred close removes what it made.  (Settings
\* on interfaces it does not own stay: the sysctls, the LAN addresses and the
\* host routes have no such close.)  Once run has returned no application
\* runs and nothing it opened is open, whichever call failed: every error path
\* of run, runDHCPv4 and startSoftwireControl closes what it opened.
CleanExit ==
    phase = "down" => kern \ Settings = leaked /\ open = {} /\ apps = <<>> /\ defers = <<>>

\* Once failures, signals and kills end, minuteman comes up and stays up,
\* whatever earlier processes left behind: Ensure and pinMaps replace it.
ComesUp == <>[](phase = "up")

\* Every fragment fits the path MTU that encap honoured for its packet, the
\* one learned for its own next hop: encap_fragment_outer leaves a packet to
\* the ip6tnl when the unit is still the wider one the poller has not lowered.
FragmentsFit ==
    \A f \in packet.frags : f.len + softwireFragOverhead <= packet.mtu

\* When every clone has been handled, the fragments tile the packet, whatever
\* sizes were applied between the clones: they were cut with the unit that
\* encap wrote into the clones.
Reassembles ==
    (packet # NoPacket /\ packet.clones = {}) =>
        /\ \E f \in packet.frags : f.off = 0
        /\ \A f \in packet.frags :
             /\ f.off % 8 = 0
             /\ f.more <=> f.off + f.len < packet.len
             /\ f.more => f.len % 8 = 0 /\ \E g \in packet.frags : g.off = f.off + f.len

\* Fragment size, MSS clamp and ip6tnl settle on the smallest path MTU still
\* in force, each of them, though applying one failed while the other
\* succeeded, or the poller restarted.
SizesSettle ==
    <>[](/\ unit = FragUnit(Effective)
         /\ mss = ResolveMSSClamp(Effective)
         /\ device = TunnelMTU(Effective))

=============================================================================
