----------------------------- MODULE Lifecycle ------------------------------
(***************************************************************************)
(* cmd/minuteman's run: what a start brings up, in order, what it defers,  *)
(* and what its end takes down, however far the start got.                 *)
(*                                                                         *)
(* todo is what is left of run, an action per call.  A call that fails, or *)
(* a done context, makes run return: its deferred calls then run, the last *)
(* first.  kern is what run leaves in the kernel and on disk, open what it *)
(* opened for the applications (its supervision trees) to use.  apps is    *)
(* the list that Running.Stop walks: an application that gave up is still  *)
(* on it.  Whatever supervises minuteman starts it again once it is down.  *)
(*                                                                         *)
(* Nothing in the code undoes the settings it makes on interfaces it does  *)
(* not own: AttachWAN's sysctls, and what the applications leave there of  *)
(* the LAN addresses and the host routes.                                  *)
(***************************************************************************)
EXTENDS Naturals, Sequences, FiniteSets

CONSTANTS
    Flags,        \* the command lines minuteman may be started with
    MaxFails,     \* how many calls fail
    MaxSignals,   \* how often it is told to stop, or an application gives up
    MaxKills      \* how often it is killed

\* A command line is the set of the optional parts it asks for.
Switches == {"pd", "ndproxy", "dns", "dhcpv4", "aftrDynamic", "b4Dynamic"}

ASSUME FlagsAssumption ==
    /\ \A f \in Flags : f \subseteq Switches /\ ~({"pd", "ndproxy"} \subseteq f)
    /\ {MaxFails, MaxSignals, MaxKills} \subseteq Nat

VARIABLES
    flags,      \* the command line
    phase,      \* "down", "starting", "up", "ending", or "aborting": a start that failed
    todo,       \* the calls of run still to come
    defers,     \* the deferred calls, the next to run first
    apps,       \* the applications, in the order they started
    kern, open,
    leaked,     \* what of kern, settings apart, no deferred call will remove (history)
    done,       \* the context is done
    fails, signals, kills   \* what the bounds leave

lifeVars == <<flags, phase, todo, defers, apps, kern, open, leaked, done, fails, signals, kills>>

Devices  == {"veth", "ip6tnl"}
Programs == {"decap", "frag", "encap"}    \* attached by links, which die with the process
Settings == {"sysctls", "addrs", "routes"}   \* set on interfaces that are not minuteman's own

-----------------------------------------------------------------------------
\* The calls of run

When(c, calls) == IF c THEN calls ELSE <<>>

\* run, past its flags, which it checks before anything else: up to the
\* datapath,
SetupCalls(f) ==
    <<"apps">>
    \o When({"pd", "aftrDynamic"} \cap f # {}, <<"client">>)
    \o When("pd" \in f, <<"acquire">>)
    \o <<"aftr">>
    \o When("dns" \in f, <<"upstreams">>)

\* the datapath and its devices,
AttachCalls == <<"load", "wan", "veth", "frag", "b4", "config", "tunnel", "lan">>

\* the services,
ServiceCalls(f) ==
    When("dns" \in f, <<"dns">>)
    \o When({"pd", "ndproxy"} \cap f # {}, <<"radvd">>)
    \o When("pd" \in f, <<"pd">>)
    \o When("ndproxy" \in f, <<"ndproxy", "prefix", "watch">>)
    \o When("dhcpv4" \in f, <<"leases", "dhcpv4">>)
    \o When("b4Dynamic" \in f, <<"nl">>)
    \o When({"aftrDynamic", "b4Dynamic"} \cap f # {}, <<"control">>)

\* and the end of it.
LastCalls == <<"pmtu", "pidfile">>

At(call) == phase = "starting" /\ Head(todo) = call

\* The call succeeds: it makes, opens, starts and defers these.
Goes(made, opened, started, deferred) ==
    /\ kern' = kern \cup made /\ leaked' = leaked \ made
    /\ open' = open \cup opened
    /\ apps' = apps \o started
    /\ defers' = deferred \o defers
    /\ todo' = Tail(todo)
    /\ phase' = IF Tail(todo) = <<>> THEN "up" ELSE phase
    /\ UNCHANGED <<flags, done, fails, signals, kills>>

\* The call fails and run returns; of things it leaves left, and has closed
\* what it closes.  A call given the context also returns once it is done.
Returns(things, left, closed, waits) ==
    /\ fails > 0 \/ (waits /\ done)
    /\ fails' = IF waits /\ done THEN fails ELSE fails - 1
    /\ kern' = (kern \ things) \cup left
    /\ leaked' = (leaked \ things) \cup (left \ (Programs \cup Settings))
    /\ open' = open \ closed
    /\ phase' = "aborting" /\ todo' = <<>>
    /\ UNCHANGED <<flags, defers, apps, done, signals, kills>>

\* startApps
StartApps ==
    /\ At("apps")
    /\ Goes({}, {}, <<>>, <<"stopApps">>) \/ Returns({}, {}, {}, TRUE)

\* apps.Start of application a.
Start(a) ==
    /\ At(a)
    /\ Goes({}, {}, <<a>>, <<>>) \/ Returns({}, {}, {}, TRUE)

\* A call that retries until the network answers or the context is done.
Waits(call) ==
    /\ At(call)
    /\ Goes({}, {}, <<>>, <<>>) \/ Returns({}, {}, {}, TRUE)

\* The DHCPv6 client, before whoever exchanges through it.
StartClient == Start("client")

\* Acquire, and resolveAFTR, for which a failed discovery is never the last.
Acquire == Waits("acquire")
ResolveAFTR == Waits("aftr")

\* The DNS proxy's upstreams: neither discovery nor the lease may have any.
ChooseUpstreams ==
    /\ At("upstreams")
    /\ Goes({}, {}, <<>>, <<>>) \/ Returns({}, {}, {}, FALSE)

\* datapath.Load: pinMaps replaces stale pins, all of them or none.
Load ==
    /\ At("load")
    /\ Goes({"pins"}, {"dp"}, <<>>, <<"dp">>) \/ Returns({}, {}, {}, FALSE)

\* AttachWAN: the sysctls, which nothing restores, and then the program; and
\* the lookup of the WAN's MTU.
AttachWAN ==
    /\ At("wan")
    /\ \/ Goes({"sysctls", "decap"}, {}, <<>>, <<>>)
       \/ \E left \in {{}, {"sysctls"}, {"sysctls", "decap"}} : Returns({}, left, {}, FALSE)

UnsweptEnsure(call, device, opened) ==
    /\ At(call)
    /\ \/ device \notin kern /\ Goes({device}, opened, <<>>, <<call>>)
       \/ device \in kern /\ phase' = "aborting" /\ todo' = <<>>
          /\ UNCHANGED <<flags, defers, apps, kern, open, leaked, done, fails, signals, kills>>
       \/ \E left \in SUBSET {device} : Returns({device}, left, {}, FALSE)

UndeferredEnsure(call, device, opened) ==
    /\ At(call)
    /\ \/ Goes({device}, opened, <<>>, <<>>)
       \/ \E left \in SUBSET {device} : Returns({device}, left, {}, FALSE)

\* fragpath's and slowpath's Ensure: delete a stale device, make a new one
\* and look it up.  The Close after a failure deletes it, unless it could
\* not be looked up, or it is a stale one that could not be deleted.
Ensure(call, device, opened) ==
    /\ At(call)
    /\ \/ Goes({device}, opened, <<>>, <<call>>)
       \/ \E left \in SUBSET {device} : Returns({device}, left, {}, FALSE)

\* EnableSoftwireFrag: a program on each pair, and then its port.
EnableSoftwireFrag ==
    /\ At("frag")
    /\ \/ Goes({"frag"}, {}, <<>>, <<>>)
       \/ \E left \in SUBSET {"frag"} : Returns({}, left, {}, FALSE)

ResolveB4 == Waits("b4")

\* SetB4Config: the device, the maps behind the encap, and the active slot.
SetB4Config ==
    /\ At("config")
    /\ Goes({}, {}, <<>>, <<>>) \/ Returns({}, {}, {}, FALSE)

\* attachLAN, of every -lan.
AttachLAN ==
    /\ At("lan")
    /\ \/ Goes({"encap"}, {}, <<>>, <<>>)
       \/ \E left \in SUBSET {"encap"} : Returns({}, left, {}, FALSE)

\* The listeners bind before any Router Advertisement names them.
StartDNSProxy == Start("dns")

\* An advertiser per LAN, idle until it is given a prefix.
StartRadvd == Start("radvd")

\* runPrefixDelegation: the lease is applied, an error being only logged, and
\* then kept by an application.
RunPrefixDelegation == At("pd") /\ \E added \in SUBSET {"addrs"} :
    /\ added = {} => fails > 0
    /\ Goes(added, {}, <<"pd">>, <<>>) \/ Returns({}, added, {}, TRUE)

\* runNDProxy: the proxy, the WAN's prefix, and its watch.
RunNDProxy == Start("ndproxy") \/ Waits("prefix") \/ Start("watch")

\* OpenLeases of every interface, closing those that did open.
OpenLeases ==
    /\ At("leases")
    /\ Goes({}, {"leases"}, <<>>, <<>>) \/ Returns({}, {}, {}, FALSE)

\* The rest of runDHCPv4: what run defers after it stops the applications
\* and then closes the leases.
RunDHCPv4 ==
    /\ At("dhcpv4")
    /\ Goes({}, {}, <<"dhcpv4">>, <<"leases">>) \/ Returns({}, {}, {"leases"}, TRUE)

\* startSoftwireControl: without a netlink socket the B4 is not watched.
OpenNL == At("nl") /\ \E opened \in SUBSET {"nl"} :
    /\ opened = {} => fails > 0
    /\ Goes({}, opened, <<>>, <<>>)

StartSoftwireControl ==
    /\ At("control")
    /\ Goes({}, {}, <<"control">>, <<"nl">>) \/ Returns({}, {}, {"nl"}, TRUE)

OneStopTunnelPMTU ==
    /\ At("pmtu")
    /\ Goes({}, {}, <<"pmtu">>, <<>>) \/ Returns({}, {}, {}, TRUE)

\* The last application, and the stopApps that precedes every close.
StartTunnelPMTU ==
    /\ At("pmtu")
    /\ Goes({}, {}, <<"pmtu">>, <<"stopApps">>) \/ Returns({}, {}, {}, TRUE)

WritePidfile ==
    /\ At("pidfile")
    /\ \/ Goes({"pidfile"}, {}, <<>>, <<"pidfile">>)
       \/ \E left \in SUBSET {"pidfile"} : Returns({}, left, {}, FALSE)

Starting ==
    \/ StartApps \/ StartClient \/ Acquire \/ ResolveAFTR \/ ChooseUpstreams
    \/ Load \/ AttachWAN \/ Ensure("veth", "veth", {}) \/ EnableSoftwireFrag
    \/ ResolveB4 \/ SetB4Config \/ Ensure("tunnel", "ip6tnl", {"tun"}) \/ AttachLAN
    \/ StartDNSProxy \/ StartRadvd \/ RunPrefixDelegation \/ RunNDProxy
    \/ OpenLeases \/ RunDHCPv4 \/ OpenNL \/ StartSoftwireControl
    \/ StartTunnelPMTU \/ WritePidfile

\* logStatsUntilDone returns.
Finish ==
    /\ phase = "up" /\ done
    /\ phase' = "ending"
    /\ UNCHANGED <<flags, todo, defers, apps, kern, open, leaked, done, fails, signals, kills>>

-----------------------------------------------------------------------------
\* What the applications set

\* Application a makes its setting, or takes it away.
Sets(a, setting) ==
    /\ \E i \in 1 .. Len(apps) : apps[i] = a
    /\ kern' \in {kern \cup {setting}, kern \ {setting}}
    /\ UNCHANGED <<flags, phase, todo, defers, apps, open, leaked, done, fails, signals, kills>>

\* Reconcile of a later lease; one that fails half-way takes the address away.
ReconcileLANs == Sets("pd", "addrs")

\* HostRoutes' Install and Remove, for the hosts the proxy hears of.
SyncHostRoutes == Sets("ndproxy", "routes")

-----------------------------------------------------------------------------
\* The deferred calls

Ending == phase \in {"ending", "aborting"}

\* Running.Stop stops the applications in reverse order.
Stopped == SubSeq(apps, 1, Len(apps) - 1)

\* stopApps; the call that comes first stops them all.
StopApp ==
    /\ Ending /\ defers # <<>> /\ Head(defers) \in {"stopApps", "leases"}
    /\ apps # <<>> /\ apps' = Stopped
    /\ UNCHANGED <<flags, phase, todo, defers, kern, open, leaked, done, fails, signals, kills>>

\* Loader.Close, Pairs.Close (whose programs go with it), Tunnel.Close.
Removes(d) ==
    CASE d = "dp"      -> {"pins"} \cup Programs
      [] d = "veth"    -> {"veth", "frag"}
      [] d = "tunnel"  -> {"ip6tnl"}
      [] d = "pidfile" -> {"pidfile"}
      [] OTHER         -> {}

Closes(d) == IF d = "tunnel" THEN {"tun"} ELSE {d}

\* The next deferred call; a device or file it fails to delete stays.
Deferred(kept) ==
    /\ Ending /\ defers # <<>>
    /\ Head(defers) \in {"stopApps", "leases"} => apps = <<>>
    /\ kept \subseteq Removes(Head(defers)) \ Programs
    /\ kept = {} \/ fails > 0
    /\ fails' = IF kept = {} THEN fails ELSE fails - 1
    /\ kern' = kern \ (Removes(Head(defers)) \ kept)
    /\ leaked' = (leaked \cup kept) \cap kern'
    /\ open' = open \ Closes(Head(defers))
    /\ defers' = Tail(defers)
    /\ UNCHANGED <<flags, phase, todo, apps, done, signals, kills>>

Exit ==
    /\ Ending /\ defers = <<>>
    /\ phase' = "down"
    /\ UNCHANGED <<flags, todo, defers, apps, kern, open, leaked, done, fails, signals, kills>>

-----------------------------------------------------------------------------
\* What happens to the process

\* A signal, or an application past its restart intensity.
Cancel ==
    /\ phase \in {"starting", "up"} /\ ~done
    /\ signals > 0 /\ signals' = signals - 1
    /\ done' = TRUE
    /\ UNCHANGED <<flags, phase, todo, defers, apps, kern, open, leaked, fails, kills>>

Kill ==
    /\ phase # "down"
    /\ kills > 0 /\ kills' = kills - 1
    /\ phase' = "down" /\ todo' = <<>> /\ defers' = <<>> /\ apps' = <<>> /\ open' = {}
    /\ kern' = kern \ Programs /\ leaked' = kern' \ Settings
    /\ UNCHANGED <<flags, done, fails, signals>>

Boot ==
    /\ phase = "down"
    /\ phase' = "starting" /\ done' = FALSE
    /\ todo' = SetupCalls(flags) \o AttachCalls \o ServiceCalls(flags) \o LastCalls
    /\ UNCHANGED <<flags, defers, apps, kern, open, leaked, fails, signals, kills>>

LifeInit ==
    /\ flags \in Flags
    /\ phase = "down" /\ todo = <<>> /\ defers = <<>> /\ apps = <<>>
    /\ kern = {} /\ open = {} /\ leaked = {} /\ done = FALSE
    /\ fails = MaxFails /\ signals = MaxSignals /\ kills = MaxKills

\* The program's own steps.
Runs ==
    \/ Starting \/ Finish \/ StopApp \/ Exit \/ Boot
    \/ \E kept \in SUBSET (Devices \cup {"pins", "pidfile"}) : Deferred(kept)

LifeNext == Runs \/ ReconcileLANs \/ SyncHostRoutes \/ Cancel \/ Kill

=============================================================================
