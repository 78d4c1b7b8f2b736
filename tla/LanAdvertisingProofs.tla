------------------------ MODULE LanAdvertisingProofs ------------------------
(***************************************************************************)
(* Proofs about LanAdvertising, for any number of interfaces, prefixes,    *)
(* failing calls and restarts: a change of what an interface advertises is *)
(* never left to the next scheduled RA, and an address of an earlier       *)
(* delegation never stays behind.  Both are inductive once the types are   *)
(* known: an advertiser's configuration, and what was cast to the apply    *)
(* process, is never None.                                                 *)
(***************************************************************************)
EXTENDS LanAdvertising, TLAPS

Types ==
    /\ RadvdTypeOK /\ WatchTypeOK
    /\ lease \in Configs
    /\ box \in Seq(Configs)
    /\ assigned \in [Ifaces -> Configs \cup {None}]
    /\ kern \in [Ifaces -> SUBSET Configs]
    /\ clean \in [Ifaces -> BOOLEAN]

\* What ChangeIsDue says of one advertiser a whose LAN last heard w.
Due(a, w) ==
    a.cfg # None /\ w # a.cfg =>
        a.due \in {"now", "soon"} \/ (a.pending /\ a.recent) \/ a.err

\* An advertiser given a configuration still has its change due.
LEMMA CastIsDue ==
    ASSUME NEW a \in Advertisers, NEW w, NEW c \in Configs, Due(a, w)
    PROVE  HandleCast(a, c) \in Advertisers /\ Due(HandleCast(a, c), w)
  BY Zenon, RadvdAssumption DEF HandleCast, Advertisers, Due

\* Every step of an advertiser keeps its type and its changes due.
LEMMA AdvertiserStep ==
    ASSUME RadvdTypeOK, ChangeIsDue, NEW i \in Ifaces, Advertises(i)
    PROVE  RadvdTypeOK' /\ ChangeIsDue'
  <1> USE RadvdAssumption
  <1>1. ASSUME NEW a, NEW w, a \in Advertisers, w \in Configs \cup {None}, Due(a, w),
               adv' = [adv EXCEPT ![i] = a], wire' = [wire EXCEPT ![i] = w]
        PROVE  RadvdTypeOK' /\ ChangeIsDue'
    BY Zenon, <1>1 DEF RadvdTypeOK, ChangeIsDue, Due
  <1>2. adv[i] \in Advertisers /\ wire[i] \in Configs \cup {None} /\ Due(adv[i], wire[i])
        /\ wire = [wire EXCEPT ![i] = wire[i]]
    BY Zenon DEF RadvdTypeOK, ChangeIsDue, Due
  <1>3. ASSUME NEW a \in Advertisers, NEW ok \in BOOLEAN, Send(i, a, ok)
        PROVE  RadvdTypeOK' /\ ChangeIsDue'
    <2> DEFINE b == [a EXCEPT !.recent = TRUE, !.err = @ \/ ~ok]
    <2>1. b \in Advertisers /\ b.cfg = a.cfg /\ (ok \/ b.err = TRUE)
      BY Zenon DEF Advertisers
    <2>2. CASE ok
      BY Zenon, <1>1, <1>3, <2>1, <2>2 DEF Send, Due, Advertisers
    <2>3. CASE ~ok
      <3>1. Due(b, wire[i]) /\ adv' = [adv EXCEPT ![i] = b] /\ wire' = wire
        BY Zenon, <1>3, <2>1, <2>3 DEF Send, Due
      <3> QED
        BY Zenon, <1>1, <1>2, <2>1, <3>1
    <2> QED
      BY Zenon, <2>2, <2>3
  <1>4. ASSUME NEW a \in Advertisers, Due(a, wire[i]), Become(i, a)
        PROVE  RadvdTypeOK' /\ ChangeIsDue'
    BY Zenon, <1>1, <1>2, <1>4 DEF Become
  <1>5. ASSUME NEW ok \in BOOLEAN, Unsolicited(i, ok)
        PROVE  RadvdTypeOK' /\ ChangeIsDue'
    <2>1. [adv[i] EXCEPT !.due = "later"] \in Advertisers
      BY Zenon, <1>2 DEF Advertisers
    <2> QED
      BY Zenon, <1>3, <1>5, <2>1 DEF Unsolicited
  <1>6. ASSUME NEW ok \in BOOLEAN, Reply(i, ok)
        PROVE  RadvdTypeOK' /\ ChangeIsDue'
    <2> DEFINE a == [adv[i] EXCEPT !.replying = FALSE]
    <2>1. a \in Advertisers /\ Due(a, wire[i])
      BY Zenon, <1>2 DEF Advertisers, Due
    <2>2. Become(i, a) \/ Send(i, a, ok)
      BY Zenon, <1>6 DEF Reply
    <2> QED
      BY Zenon, <1>3, <1>4, <2>1, <2>2
  <1>7. ASSUME NEW ok \in BOOLEAN, Stop(i, ok)
        PROVE  RadvdTypeOK' /\ ChangeIsDue'
    <2>1. Idle \in Advertisers /\ Due(Idle, wire[i]) /\ Due(Idle, None)
      BY Zenon DEF Idle, Advertisers, Due
    <2>2. adv' = [adv EXCEPT ![i] = Idle]
          /\ (wire' = [wire EXCEPT ![i] = None] \/ wire' = wire)
      BY Zenon, <1>7 DEF Stop
    <2> QED
      BY Zenon, <1>1, <1>2, <2>1, <2>2
  <1>8. CASE Quiet(i)
    <2>1. [adv[i] EXCEPT !.recent = FALSE, !.pending = FALSE, !.due = "now"] \in Advertisers
          /\ [adv[i] EXCEPT !.recent = FALSE] \in Advertisers
      BY Zenon, <1>2 DEF Advertisers
    <2>2. CASE adv[i].pending
      BY Zenon, <1>2, <1>4, <1>8, <2>1, <2>2 DEF Quiet, Due, Advertisers
    <2>3. CASE ~adv[i].pending
      BY Zenon, <1>2, <1>4, <1>8, <2>1, <2>3 DEF Quiet, Due, Advertisers
    <2> QED
      BY Zenon, <2>2, <2>3
  <1>9. CASE Solicited(i)
    <2>1. [adv[i] EXCEPT !.replying = TRUE] \in Advertisers
          /\ Due([adv[i] EXCEPT !.replying = TRUE], wire[i])
      BY Zenon, <1>2 DEF Advertisers, Due
    <2> QED
      BY Zenon, <1>4, <1>9, <2>1 DEF Solicited
  <1>10. CASE SendError(i)
    <2>1. [adv[i] EXCEPT !.err = FALSE, !.due = "soon"] \in Advertisers
          /\ Due([adv[i] EXCEPT !.err = FALSE, !.due = "soon"], wire[i])
      BY Zenon, <1>2 DEF Advertisers, Due
    <2> QED
      BY Zenon, <1>4, <1>10, <2>1 DEF SendError
  <1> QED
    BY Zenon, <1>5, <1>6, <1>7, <1>8, <1>9, <1>10 DEF Advertises

-----------------------------------------------------------------------------
\* What reconcileOne returns is well typed, and keeps AddressesFollow.
LEMMA ReconcileOneFollows ==
    ASSUME Types, AddressesFollow, NEW i \in Ifaces, NEW p \in Configs, NEW out
    PROVE  LET d == ReconcileOne(i, p, out) IN
           /\ d.sub \in Configs \cup {None} /\ d.addrs \in SUBSET Configs /\ d.ok \in BOOLEAN
           /\ clean[i] /\ d.ok => d.addrs = {d.sub} \ {None}
  <1> DEFINE d == ReconcileOne(i, p, out)
  <1>1. kern[i] \in SUBSET Configs /\ p # None
    BY Zenon, RadvdAssumption DEF Types
  <1>2. d.sub \in Configs \cup {None} /\ d.addrs \in SUBSET Configs /\ d.ok \in BOOLEAN
    BY Zenon, <1>1 DEF ReconcileOne
  <1>3. ASSUME clean[i], d.ok
        PROVE  d.addrs = {d.sub} \ {None}
    <2>1. kern[i] = {assigned[i]} \ {None}
      BY Zenon, <1>3 DEF AddressesFollow
    <2> QED
      BY Zenon, <1>1, <1>3, <2>1 DEF ReconcileOne
  <1> QED
    BY Zenon, <1>2, <1>3

\* The apply process, its leases and the failing of its calls.
LEMMA DelegatesStep ==
    ASSUME Types, ChangeIsDue, AddressesFollow, Delegates
    PROVE  Types' /\ ChangeIsDue' /\ AddressesFollow'
  <1> USE RadvdAssumption
  <1>w. WatchTypeOK'
    BY Zenon DEF Delegates, Types, WatchTypeOK, watchVars
  <1>b. ASSUME box # <<>>
        PROVE  Head(box) \in Configs /\ Tail(box) \in Seq(Configs)
    BY <1>b DEF Types
  <1>1. ASSUME NEW outs, Apply(outs)
        PROVE  Types' /\ ChangeIsDue' /\ AddressesFollow'
    <2> DEFINE done == [i \in Ifaces |-> ReconcileOne(i, Head(box), outs[i])]
    <2>1. /\ box # <<>> /\ box' = Tail(box) /\ lease' = lease /\ wire' = wire
          /\ assigned' = [i \in Ifaces |-> done[i].sub]
          /\ kern' = [i \in Ifaces |-> done[i].addrs]
          /\ clean' = [i \in Ifaces |-> clean[i] /\ done[i].ok]
          /\ adv' = [i \in Ifaces |-> IF done[i].sub = None THEN adv[i]
                                      ELSE HandleCast(adv[i], done[i].sub)]
      BY Zenon, <1>1 DEF Apply, Sync
    <2>2. \A i \in Ifaces :
            /\ done[i].sub \in Configs \cup {None} /\ done[i].addrs \in SUBSET Configs
            /\ done[i].ok \in BOOLEAN
            /\ clean[i] /\ done[i].ok => done[i].addrs = {done[i].sub} \ {None}
      BY Zenon, <1>b, <2>1, ReconcileOneFollows
    <2> HIDE DEF done
    <2>3. \A i \in Ifaces : adv'[i] \in Advertisers /\ Due(adv'[i], wire[i])
      <3> TAKE i \in Ifaces
      <3>1. adv[i] \in Advertisers /\ Due(adv[i], wire[i])
        BY Zenon DEF Types, RadvdTypeOK, ChangeIsDue, Due
      <3> QED
        BY Zenon, <2>1, <2>2, <3>1, CastIsDue
    <2>4. RadvdTypeOK' /\ ChangeIsDue'
      <3>1. adv' \in [Ifaces -> Advertisers]
        BY Zenon, <2>1, <2>3
      <3> QED
        BY Zenon, <2>1, <2>3, <3>1 DEF Types, RadvdTypeOK, ChangeIsDue, Due
    <2>5. /\ assigned' \in [Ifaces -> Configs \cup {None}]
          /\ kern' \in [Ifaces -> SUBSET Configs]
          /\ clean' \in [Ifaces -> BOOLEAN]
      BY Zenon, <2>1, <2>2 DEF Types
    <2>6. AddressesFollow'
      BY Zenon, <2>1, <2>2 DEF AddressesFollow
    <2> QED
      BY Zenon, <1>b, <1>w, <2>1, <2>4, <2>5, <2>6 DEF Types
  <1>2. CASE ApplyNoSocket
    BY Zenon, <1>2, <1>b, <1>w
    DEF ApplyNoSocket, Types, RadvdTypeOK, ChangeIsDue, AddressesFollow, radvdVars
  <1>3. CASE ApplyStops
    BY <1>3, <1>w
    DEF ApplyStops, Types, RadvdTypeOK, ChangeIsDue, AddressesFollow, radvdVars
  <1>4. ASSUME NEW p \in Configs, Granted(p)
        PROVE  Types' /\ ChangeIsDue' /\ AddressesFollow'
    BY <1>4, <1>w
    DEF Granted, Types, RadvdTypeOK, ChangeIsDue, AddressesFollow, radvdVars
  <1>5. CASE Renewed
    BY <1>5, <1>w
    DEF Renewed, Types, RadvdTypeOK, ChangeIsDue, AddressesFollow, radvdVars
  <1> QED
    BY Zenon, <1>1, <1>2, <1>3, <1>4, <1>5 DEF Delegates

\* The watch of the WAN's prefix.
LEMMA WatchesStep ==
    ASSUME Types, ChangeIsDue, AddressesFollow, Watches
    PROVE  Types' /\ ChangeIsDue' /\ AddressesFollow'
  <1> USE RadvdAssumption, WatchAssumption
  <1>1. UNCHANGED <<lease, box, assigned, kern, clean>>
    BY Zenon DEF Watches, lanVars
  <1>2. ASSUME UNCHANGED radvdVars, WatchTypeOK'
        PROVE  Types' /\ ChangeIsDue' /\ AddressesFollow'
    BY Zenon, <1>1, <1>2 DEF Types, RadvdTypeOK, ChangeIsDue, AddressesFollow, radvdVars
  <1>3. ASSUME NEW err \in BOOLEAN, WatchTick(err)
        PROVE  Types' /\ ChangeIsDue' /\ AddressesFollow'
    <2> DEFINE next == NextWatchState(current, wan, err)
    <2>1. next \in Configs
      BY Zenon DEF NextWatchState, Types, WatchTypeOK
    <2>2. WatchTypeOK' /\ (Extend(next) \/ UNCHANGED radvdVars)
      BY Zenon, <1>3, <2>1 DEF WatchTick, Types, WatchTypeOK
    <2> HIDE DEF next
    <2>3. CASE Extend(next)
      <3>1. wire' = wire /\ adv' = [i \in Ifaces |-> HandleCast(adv[i], next)]
        BY Zenon, <2>3 DEF Extend
      <3>2. \A i \in Ifaces : adv'[i] \in Advertisers /\ Due(adv'[i], wire[i])
        <4> TAKE i \in Ifaces
        <4>1. adv[i] \in Advertisers /\ Due(adv[i], wire[i])
          BY Zenon DEF Types, RadvdTypeOK, ChangeIsDue, Due
        <4> QED
          BY Zenon, <2>1, <3>1, <4>1, CastIsDue
      <3>3. adv' \in [Ifaces -> Advertisers]
        BY Zenon, <3>1, <3>2
      <3> QED
        BY Zenon, <1>1, <2>2, <3>1, <3>2, <3>3
        DEF Types, RadvdTypeOK, ChangeIsDue, AddressesFollow, Due
    <2> QED
      BY Zenon, <1>2, <2>2, <2>3
  <1>4. CASE WatchStops
    BY Zenon, <1>2, <1>4 DEF WatchStops, Types, WatchTypeOK
  <1>5. ASSUME NEW p \in Configs \cup {None}, Renumbered(p)
        PROVE  Types' /\ ChangeIsDue' /\ AddressesFollow'
    BY Zenon, <1>2, <1>5 DEF Renumbered, Types, WatchTypeOK
  <1> QED
    BY Zenon, <1>3, <1>4, <1>5 DEF Watches

Inv == Types /\ ChangeIsDue /\ AddressesFollow

LEMMA InvInit == Init => Inv
  <1> SUFFICES ASSUME Init PROVE Inv
    BY Zenon
  <1> USE RadvdAssumption, WatchAssumption, LanAssumption
  <1>1. Idle \in Advertisers /\ Due(Idle, None) /\ HandleCast(Idle, Initial) \in Advertisers
        /\ Due(HandleCast(Idle, Initial), None)
    <2>1. Idle \in Advertisers /\ Due(Idle, None)
      BY Zenon DEF Idle, Advertisers, Due
    <2> QED
      BY Zenon, <2>1, CastIsDue
  <1>2. RadvdTypeOK /\ ChangeIsDue
    BY Zenon, <1>1 DEF Init, RadvdTypeOK, ChangeIsDue, Due
  <1> QED
    BY <1>2 DEF Init, LanInit, WatchInit, Inv, Types, WatchTypeOK, AddressesFollow

LEMMA InvStep == Inv /\ [Next]_vars => Inv'
  <1> SUFFICES ASSUME Inv, [Next]_vars PROVE Inv'
    BY Zenon
  <1>1. CASE Delegates
    BY Zenon, <1>1, DelegatesStep DEF Inv
  <1>2. CASE Watches
    BY <1>2, WatchesStep DEF Inv
  <1>3. ASSUME NEW i \in Ifaces, Advertises(i)
        PROVE  Inv'
    <2>1. RadvdTypeOK' /\ ChangeIsDue'
      BY Zenon, <1>3, AdvertiserStep DEF Inv, Types
    <2> QED
      BY Zenon, <1>3, <2>1
      DEF Advertises, lanVars, watchVars, Inv, Types, WatchTypeOK, AddressesFollow
  <1>4. CASE UNCHANGED vars
    BY Zenon, <1>4 DEF vars, radvdVars, lanVars, watchVars, Inv, Types, RadvdTypeOK, WatchTypeOK,
                ChangeIsDue, AddressesFollow
  <1> QED
    BY Zenon, <1>1, <1>2, <1>3, <1>4 DEF Next

\* What an interface advertises is corrected without waiting for the next
\* scheduled RA, whichever of the two modes the program runs in.
THEOREM ChangesAreDue == Spec => []ChangeIsDue
  <1>1. Inv => ChangeIsDue
    BY Zenon DEF Inv
  <1> QED
    BY <1>1, InvInit, InvStep, PTL DEF Spec

\* An interface no call failed for has an address of exactly the /64 recorded
\* for it, after any delegations, lost casts and restarts.
THEOREM AddressesStay == Spec => []AddressesFollow
  <1>1. Inv => AddressesFollow
    BY Zenon DEF Inv
  <1> QED
    BY <1>1, InvInit, InvStep, PTL DEF Spec

=============================================================================
