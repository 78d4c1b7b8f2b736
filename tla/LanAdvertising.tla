--------------------------- MODULE LanAdvertising ---------------------------
(***************************************************************************)
(* What the LANs advertise, and where it comes from: a delegated prefix    *)
(* (DelegatedLan, main.go's runPrefixDelegation) or the WAN's own          *)
(* (WanExtend, runNDProxy).  main.go runs one of the two, mode; both drive *)
(* the same advertisers.  The environment's prefix changes, failing calls  *)
(* and stopping processes are bounded.                                     *)
(***************************************************************************)
EXTENDS DelegatedLan, WanExtend, FiniteSets

CONSTANTS
    MaxChanges,   \* how often the prefix changes
    MaxFails,     \* how many calls fail
    MaxStops      \* how often a process stops

ASSUME BoundsAssumption == {MaxChanges, MaxFails, MaxStops} \subseteq Nat

VARIABLES mode, changes, fails, stops

bounds == <<changes, fails, stops>>
vars == <<radvdVars, lanVars, watchVars, mode, bounds>>

\* A step of the environment uses up one of its bounds.
Spend(c, f, s) ==
    /\ c <= changes /\ f <= fails /\ s <= stops
    /\ changes' = changes - c /\ fails' = fails - f /\ stops' = stops - s

Free == UNCHANGED bounds

NoFailure == [i \in Ifaces |-> "none"]

\* runPrefixDelegation: the lease process and the apply process.
Delegates ==
    /\ mode = "pd"
    /\ UNCHANGED <<watchVars, mode>>
    /\ \/ \E outs \in [Ifaces -> {"none", "lookup", "del", "add"}] :
            Apply(outs) /\ Spend(0, Cardinality({i \in Ifaces : outs[i] # "none"}), 0)
       \/ ApplyNoSocket /\ Spend(0, 1, 0)
       \/ ApplyStops /\ Spend(0, 0, 1)
       \/ \E p \in Configs : Granted(p) /\ Spend(1, 0, 0)
       \/ Renewed /\ Free

\* runNDProxy's watch.
Watches ==
    /\ mode = "ndproxy"
    /\ UNCHANGED <<lanVars, mode>>
    /\ \/ WatchTick(FALSE) /\ Free
       \/ WatchTick(TRUE) /\ Spend(0, 1, 0)
       \/ WatchStops /\ Spend(0, 0, 1)
       \/ \E p \in Configs \cup {None} : Renumbered(p) /\ Spend(1, 0, 0)

\* The advertisers.
Advertises(i) ==
    /\ UNCHANGED <<lanVars, watchVars, mode>>
    /\ \/ \E ok \in BOOLEAN :
            \/ Unsolicited(i, ok) /\ Spend(0, IF ok THEN 0 ELSE 1, 0)
            \/ Reply(i, ok) /\ Spend(0, IF ok THEN 0 ELSE 1, 0)
            \/ Stop(i, ok) /\ Spend(0, 0, 1)
       \/ Quiet(i) /\ Free
       \/ Solicited(i) /\ Free
       \/ SendError(i) /\ Free

Init ==
    /\ LanInit /\ WatchInit
    /\ wire = [i \in Ifaces |-> None]
    /\ changes = MaxChanges /\ fails = MaxFails /\ stops = MaxStops
    /\ \/ mode = "pd" /\ adv = [i \in Ifaces |-> Idle]
       \/ mode = "ndproxy" /\ adv = [i \in Ifaces |-> HandleCast(Idle, Initial)]

Next == Delegates \/ Watches \/ \E i \in Ifaces : Advertises(i)

\* The lease is renewed at every T1, the processes run, their timers expire.
Fairness ==
    /\ WF_vars(Delegates /\ Renewed)
    /\ WF_vars(Delegates /\ Apply(NoFailure))
    /\ WF_vars(Watches /\ WatchTick(FALSE))
    /\ \A i \in Ifaces :
         /\ WF_vars(Advertises(i) /\ Unsolicited(i, TRUE))
         /\ WF_vars(Advertises(i) /\ Quiet(i))
         /\ WF_vars(Advertises(i) /\ SendError(i))

Spec == Init /\ [][Next]_vars

FairSpec == Spec /\ Fairness

-----------------------------------------------------------------------------
\* Every variable keeps its type.
TypeOK ==
    /\ RadvdTypeOK /\ LanTypeOK /\ WatchTypeOK
    /\ mode \in {"pd", "ndproxy"}
    /\ bounds \in (0..MaxChanges) \X (0..MaxFails) \X (0..MaxStops)

(***************************************************************************)
(* A LAN none of whose calls failed ends up with an address of the prefix  *)
(* delegated, and hears of that prefix, although casts to the apply        *)
(* process may be lost and an advertiser that restarts forgets what it     *)
(* advertised: the next renewal repairs both.                              *)
(***************************************************************************)
CatchesUp ==
    mode = "pd" => <>[](\A i \in Ifaces : clean[i] /\ SubnetFor(lease, i) # None =>
                            kern[i] = {lease} /\ wire[i] = lease)

(***************************************************************************)
(* While no process stops, every LAN ends up hearing of the WAN's prefix,  *)
(* however often it is renumbered, also back, its address goes for a while *)
(* or cannot be read, and RAs fail.                                        *)
(***************************************************************************)
ExtendsWan ==
    mode = "ndproxy" =>
        <>[](stops = MaxStops /\ wan # None => \A i \in Ifaces : wire[i] = wan)

(***************************************************************************)
(* "a restarted watch, which doesn't know what its last incarnation        *)
(* extended, so extends a prefix the WAN has meanwhile changed to"         *)
(* (watch.go): no LAN is left advertising a prefix the WAN no longer has.  *)
(* It does not hold (README, known limits).                                *)
(***************************************************************************)
RestartedWatchExtends ==
    mode = "ndproxy" => <>[](wan # None => \A i \in Ifaces : adv[i].cfg \in {wan, None})

(***************************************************************************)
(* "the returned []Assignment always has one entry per lanIfaces (even     *)
(* ones that errored, so the next Reconcile call can retry them)"          *)
(* (reconcile.go): once calls have stopped failing and the lease goes on   *)
(* being renewed, an interface has its address.                            *)
(***************************************************************************)
Retried ==
    mode = "pd" => <>[](\A i \in Ifaces : changes = 0 /\ SubnetFor(lease, i) # None =>
                            lease \in kern[i])

=============================================================================
