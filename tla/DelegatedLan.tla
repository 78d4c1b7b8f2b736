---------------------------- MODULE DelegatedLan ----------------------------
(***************************************************************************)
(* The LAN side of the delegated prefix: each lease the prefix delegation  *)
(* holds is cast to the apply process (internal/pdlease), which carves a   *)
(* /64 of it for every LAN interface, gives the interface an address in it *)
(* (internal/lanprefix, over pkg/netlink) and hands it to the interface's  *)
(* advertiser (RAManager, internal/radvd).                                 *)
(*                                                                         *)
(* An interface is its index in the -lan flags.  The /64 of interface i in *)
(* prefix p exists while i is below p's capacity, and is named by p.  The  *)
(* kernel's addresses are kern; assigned is what reconcileAndLog remembers *)
(* of them.  clean is a history variable: no step of Reconcile has failed  *)
(* for the interface yet.                                                  *)
(***************************************************************************)
EXTENDS Radvd, Sequences

CONSTANTS
    Capacity,     \* Capacity[p]: the /64s of prefix p
    First,        \* the prefix LAN and WAN start with
    MaxBox        \* casts the apply process has not handled

ASSUME LanAssumption ==
    /\ Ifaces \subseteq Nat
    /\ Capacity \in [Configs -> Nat]
    /\ First \in Configs
    /\ MaxBox \in Nat \ {0}

VARIABLES
    lease,     \* the prefix of the lease held
    box,       \* the leases cast to the apply process
    assigned,  \* the /64 recorded for each interface
    kern,      \* the /64s each interface has an address of
    clean      \* no step failed for the interface

lanVars == <<lease, box, assigned, kern, clean>>

-----------------------------------------------------------------------------
\* internal/lanprefix

\* SubnetFor
SubnetFor(p, i) == IF i < Capacity[p] THEN p ELSE None

KeepReconcileOne(i, p, out) ==
    LET prev == assigned[i]
        done(addrs, ok) == [sub |-> p, addrs |-> addrs, ok |-> ok]
    IN  IF SubnetFor(p, i) = None THEN [sub |-> None, addrs |-> kern[i], ok |-> FALSE]
        ELSE IF out = "lookup" THEN done(kern[i], FALSE)
        ELSE IF prev = p THEN done(kern[i], TRUE)
        ELSE IF out = "add" THEN done(kern[i], FALSE)
        ELSE done(kern[i] \cup {p}, TRUE)

\* reconcileOne: the entry it returns, the addresses it leaves, and whether
\* it succeeds; out is the call that fails, if any.  An address that is not
\* there cannot be removed.
ReconcileOne(i, p, out) ==
    LET prev == assigned[i]
        done(addrs, ok) == [sub |-> p, addrs |-> addrs, ok |-> ok]
    IN  IF SubnetFor(p, i) = None THEN [sub |-> None, addrs |-> kern[i], ok |-> FALSE]
        ELSE IF out = "lookup" THEN done(kern[i], FALSE)
        ELSE IF prev = p THEN done(kern[i], TRUE)
        ELSE IF prev # None /\ (out = "del" \/ prev \notin kern[i]) THEN done(kern[i], FALSE)
        ELSE IF out = "add" THEN done(kern[i] \ {prev}, FALSE)
        ELSE done((kern[i] \ {prev}) \cup {p}, TRUE)

LazySync(subs) ==
    adv' = [i \in Ifaces |-> IF subs[i] \in {None, assigned[i]} THEN adv[i]
                             ELSE HandleCast(adv[i], subs[i])]

\* RAManager.Sync: every interface with a /64 advertises it.
Sync(subs) ==
    adv' = [i \in Ifaces |-> IF subs[i] = None THEN adv[i] ELSE HandleCast(adv[i], subs[i])]

\* reconcileAndLog in the apply process: Reconcile, each interface in turn
\* with the call that fails for it, and Sync.
Apply(outs) ==
    LET done == [i \in Ifaces |-> ReconcileOne(i, Head(box), outs[i])] IN
    /\ box # <<>>
    /\ box' = Tail(box)
    /\ assigned' = [i \in Ifaces |-> done[i].sub]
    /\ kern' = [i \in Ifaces |-> done[i].addrs]
    /\ clean' = [i \in Ifaces |-> clean[i] /\ done[i].ok]
    /\ Sync([i \in Ifaces |-> done[i].sub])
    /\ UNCHANGED <<wire, lease>>

\* Reconcile fails to open its netlink socket, and returns no entries.
ApplyNoSocket ==
    /\ box # <<>>
    /\ box' = Tail(box)
    /\ assigned' = [i \in Ifaces |-> None]
    /\ clean' = [i \in Ifaces |-> FALSE]
    /\ UNCHANGED <<radvdVars, lease, kern>>

\* The apply process restarts: what was cast to it is lost, what
\* reconcileAndLog remembers is not.
ApplyStops ==
    /\ box # <<>>
    /\ box' = <<>>
    /\ UNCHANGED <<radvdVars, lease, assigned, kern, clean>>

-----------------------------------------------------------------------------
\* The lease process casts every lease it binds: another prefix, or the
\* same one renewed.

Granted(p) ==
    /\ p # lease
    /\ Len(box) < MaxBox
    /\ lease' = p
    /\ box' = Append(box, p)
    /\ UNCHANGED <<radvdVars, assigned, kern, clean>>

Renewed ==
    /\ box = <<>>
    /\ box' = <<lease>>
    /\ UNCHANGED <<radvdVars, lease, assigned, kern, clean>>

LanInit ==
    /\ lease = First
    /\ box = <<First>>
    /\ assigned = [i \in Ifaces |-> None]
    /\ kern = [i \in Ifaces |-> {}]
    /\ clean = [i \in Ifaces |-> TRUE]

LanTypeOK ==
    /\ lease \in Configs
    /\ box \in Seq(Configs) /\ Len(box) <= MaxBox
    /\ assigned \in [Ifaces -> Configs \cup {None}]
    /\ kern \in [Ifaces -> SUBSET Configs]
    /\ clean \in [Ifaces -> BOOLEAN]

(***************************************************************************)
(* As long as no call failed for it and every prefix had a /64 for it, an  *)
(* interface has an address of exactly the /64 recorded for it, whatever   *)
(* casts were lost: an address of an earlier delegation never stays        *)
(* behind.                                                                 *)
(***************************************************************************)
AddressesFollow ==
    \A i \in Ifaces : clean[i] => kern[i] = {assigned[i]} \ {None}

=============================================================================
