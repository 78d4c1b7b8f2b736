--------------------------- MODULE NDProxyProofs ----------------------------
(***************************************************************************)
(* Proofs about NDProxy, for any targets, LANs and activeTTL.  The proxy   *)
(* never claims a target that has not lately answered: a confirmation is   *)
(* never younger than the last answer (Confirmed), although answers, the   *)
(* timer, sweeps and restarts come in any order.  And the host routes      *)
(* follow the confirmed targets, because a cast that removes a route finds *)
(* the route it names once those before it are handled (RemovesThere).     *)
(***************************************************************************)
EXTENDS NDProxy, FiniteSetTheorems, TLAPS

Shape ==
    /\ active \in [Targets -> [iface : Iface, age : Nat]]
    /\ heard \in [Targets -> Nat]
    /\ said \in [Targets -> Nat]

\* The last answer of a confirmed target is no older than its confirmation.
Confirmed == \A t \in Targets : active[t].iface # None => heard[t] <= active[t].age

Inv == Shape /\ Confirmed /\ ClaimsAreFresh

\* Ages stop being told apart at activeTTL.
Bounded == \A t \in Targets : heard[t] <= activeTTL

LEMMA InvStep == Inv /\ Bounded /\ [Next]_vars => Inv' /\ Bounded'
  <1> SUFFICES ASSUME Inv, Bounded, [Next]_vars
               PROVE  Inv' /\ Bounded'
    BY Zenon
  <1> USE NDProxyAssumption
  <1>0. ASSUME UNCHANGED <<active, heard, said>>
        PROVE  Inv' /\ Bounded'
    BY Zenon, <1>0 DEF Inv, Bounded, Shape, Confirmed, ClaimsAreFresh
  <1>1. ASSUME NEW t \in Targets, NEW lost, Solicited(t, lost)
        PROVE  Inv' /\ Bounded'
    <2>1. UNCHANGED <<active, heard>>
      BY Zenon, <1>1 DEF Solicited
    <2>2. CASE Reply(t)
      <3>1. said' = [said EXCEPT ![t] = heard[t]]
        BY Zenon, <1>1, <2>1, <2>2 DEF Solicited, Answer
      <3>2. heard[t] < activeTTL
        BY <2>2 DEF Reply, Fresh, Inv, Shape, Confirmed
      <3> QED
        BY Zenon, <2>1, <3>1, <3>2 DEF Inv, Bounded, Shape, Confirmed, ClaimsAreFresh
    <2>3. CASE ~Reply(t)
      <3>1. UNCHANGED said
        BY Zenon, <1>1, <2>3 DEF Solicited
      <3> QED
        BY Zenon, <1>0, <2>1, <3>1
    <2> QED
      BY Zenon, <2>2, <2>3
  <1>2. ASSUME NEW t \in Targets, NEW iface \in Lans, Advertised(t, iface)
        PROVE  Inv' /\ Bounded'
    <2>1. heard' = [heard EXCEPT ![t] = 0]
      BY Zenon, <1>2 DEF Advertised
    <2>2. \/ UNCHANGED <<active, said>>
          \/ /\ active' = [active EXCEPT ![t] = [iface |-> iface, age |-> 0]]
             /\ said' = [said EXCEPT ![t] = heard'[t]]
      BY Zenon, <1>2 DEF Advertised, Answer
    <2>3. Shape'
      <3>1. 0 \in Nat /\ [iface |-> iface, age |-> 0] \in [iface : Iface, age : Nat]
        BY DEF Iface
      <3>2. heard' \in [Targets -> Nat] /\ heard'[t] \in Nat
        BY Zenon, <2>1, <3>1 DEF Inv, Shape
      <3> QED
        BY Zenon, <2>2, <3>1, <3>2 DEF Inv, Shape
    <2>4. Confirmed' /\ Bounded'
      BY <2>1, <2>2 DEF Inv, Bounded, Shape, Confirmed
    <2>5. ClaimsAreFresh'
      BY <2>1, <2>2 DEF Inv, Shape, ClaimsAreFresh
    <2> QED
      BY Zenon, <2>3, <2>4, <2>5 DEF Inv
  <1>3. ASSUME NEW lost, Sweep(lost)
        PROVE  Inv' /\ Bounded'
    <2>1. UNCHANGED <<heard, said>>
      BY Zenon, <1>3 DEF Sweep, ghosts
    <2>2. \E expired : active' = [t \in Targets |-> IF t \in expired THEN Inactive ELSE active[t]]
      BY Zenon, <1>3 DEF Sweep
    <2>3. active' \in [Targets -> [iface : Iface, age : Nat]]
          /\ \A t \in Targets : active'[t].iface # None => active'[t] = active[t]
      BY <2>2 DEF Inv, Shape, Inactive, Iface
    <2> QED
      BY Zenon, <2>1, <2>3 DEF Inv, Bounded, Shape, Confirmed, ClaimsAreFresh
  <1>4. ASSUME NEW ok \in BOOLEAN, HandleCast(ok)
        PROVE  Inv' /\ Bounded'
    BY Zenon, <1>0, <1>4 DEF HandleCast, stateVars
  <1>5. ASSUME NEW routesToo \in BOOLEAN, Stops(routesToo)
        PROVE  Inv' /\ Bounded'
    <2>1. UNCHANGED <<heard, said>> /\ active' = [t \in Targets |-> Inactive]
      BY Zenon, <1>5 DEF Stops
    <2> QED
      BY Zenon, <2>1 DEF Inv, Bounded, Shape, Confirmed, ClaimsAreFresh, Inactive, Iface
  <1>6. CASE Tick
    <2>1. /\ UNCHANGED said /\ heard' = [t \in Targets |-> Older(heard[t])]
          /\ active' = [t \in Targets |->
                IF active[t] = Inactive THEN Inactive ELSE [active[t] EXCEPT !.age = Older(active[t].age)]]
      BY Zenon, <1>6 DEF Tick
    <2>2. /\ \A t \in Targets : Older(heard[t]) \in Nat /\ Older(heard[t]) <= activeTTL
          /\ \A t \in Targets : Older(active[t].age) \in Nat
      BY DEF Older, Inv, Bounded, Shape
    <2>3. Shape' /\ Bounded'
      BY Zenon, <2>1, <2>2 DEF Inv, Bounded, Shape, Inactive, Iface
    <2>4. ASSUME NEW t \in Targets, active'[t].iface # None
          PROVE  heard'[t] <= active'[t].age
      <3>1. active[t].iface # None /\ active'[t].age = Older(active[t].age) /\ heard'[t] = Older(heard[t])
        BY Zenon, <2>1, <2>4 DEF Inv, Shape, Inactive
      <3>2. heard[t] <= active[t].age /\ heard[t] <= activeTTL
            /\ heard[t] \in Nat /\ active[t].age \in Nat
        BY Zenon, <3>1 DEF Inv, Bounded, Shape, Confirmed
      <3> QED
        BY <3>1, <3>2 DEF Older
    <2> QED
      BY Zenon, <2>1, <2>3, <2>4 DEF Inv, Confirmed, ClaimsAreFresh
  <1>7. ASSUME NEW t \in Targets, NEW iface \in Iface, Moves(t, iface)
        PROVE  Inv' /\ Bounded'
    BY Zenon, <1>0, <1>7 DEF Moves, stateVars, ghosts
  <1>8. CASE UNCHANGED vars
    BY Zenon, <1>0, <1>8 DEF vars
  <1> QED
    BY Zenon, <1>1, <1>2, <1>3, <1>4, <1>5, <1>6, <1>7, <1>8 DEF Next

\* The proxy answers the WAN only for targets that answered a probe less than
\* activeTTL ago.
THEOREM ClaimsStayFresh == Spec => []ClaimsAreFresh
  <1>1. Init => Inv /\ Bounded
    BY NDProxyAssumption
    DEF Init, Inv, Bounded, Shape, Confirmed, ClaimsAreFresh, Inactive, Iface
  <1>2. Inv => ClaimsAreFresh
    BY Zenon DEF Inv
  <1> QED
    BY <1>1, <1>2, InvStep, PTL DEF Spec


-----------------------------------------------------------------------------
(* The host routes                                                         *)

BoxShape ==
    /\ box \in Seq(Casts)
    /\ route \in [Targets -> Iface]
    /\ active \in [Targets -> [iface : Iface, age : Nat]]

\* A cast that removes a route finds that route, once those before it are handled.
RemovesThere ==
    \A i \in DOMAIN box : box[i].op = "remove" => Leads(box[i].target, i - 1, box[i].iface)

RouteInv ==
    /\ BoxShape
    /\ clean => RemovesThere /\ \A t \in Targets : Leads(t, Len(box), active[t].iface)

\* Casts about other targets do not change where the route of t leads,
LEMMA LeadsOn ==
    ASSUME NEW t, NEW l \in Nat, NEW n \in Nat, NEW iface, l <= n, Leads(t, l, iface), route' = route,
           \A i \in 1..l : box'[i] = box[i],
           \A i \in (l + 1)..n : box'[i].target # t
    PROVE  Leads(t, n, iface)'
  <1>1. CASE route[t] = iface /\ \A i \in 1..l : box[i].target # t
    <2>1. \A i \in 1..n : i \in 1..l \/ i \in (l + 1)..n
      OBVIOUS
    <2>2. \A i \in 1..n : box'[i].target # t
      BY Zenon, <1>1, <2>1
    <2> QED
      BY Zenon, <1>1, <2>2 DEF Leads
  <1>2. ASSUME NEW i \in 1..l, box[i].target = t, \A j \in (i + 1)..l : box[j].target # t,
               iface = IF box[i].op = "install" THEN box[i].iface ELSE None
        PROVE  Leads(t, n, iface)'
    <2>1. i \in 1..n /\ box'[i] = box[i]
      OBVIOUS
    <2>2. \A j \in (i + 1)..n : (j \in (i + 1)..l /\ j \in 1..l) \/ j \in (l + 1)..n
      OBVIOUS
    <2>3. \A j \in (i + 1)..n : box'[j].target # t
      BY Zenon, <1>2, <2>2
    <2> QED
      BY Zenon, <1>2, <2>1, <2>3 DEF Leads
  <1> QED
    BY Zenon, <1>1, <1>2 DEF Leads

\* and a cast about t decides where it leads after it.
LEMMA LeadsLast ==
    ASSUME NEW t, NEW n \in Nat, NEW i \in 1..n, NEW iface, box'[i].target = t,
           \A j \in (i + 1)..n : box'[j].target # t,
           iface = IF box'[i].op = "install" THEN box'[i].iface ELSE None
    PROVE  Leads(t, n, iface)'
  BY Zenon DEF Leads

\* A cast that is handled leads the route of its target where it says.
LEMMA LeadsHandled ==
    ASSUME BoxShape, box # <<>>, RemovesThere, box' = Tail(box),
           IF Head(box).op = "install" THEN Install(Head(box).target, Head(box).iface)
           ELSE Uninstall(Head(box).target, Head(box).iface),
           NEW t \in Targets, NEW n \in 1..Len(box), NEW iface, Leads(t, n, iface)
    PROVE  Leads(t, n - 1, iface)'
  <1> DEFINE m == Head(box)
  <1>1. /\ Len(box) \in Nat /\ Len(box) > 0 /\ m = box[1] /\ m \in Casts /\ 1 \in DOMAIN box
        /\ \A i \in 1..(Len(box) - 1) : box'[i] = box[i + 1]
    BY DEF BoxShape
  <1>2. m.target \in Targets /\ m.iface \in Lans /\ m.op \in {"install", "remove"}
    BY Zenon, <1>1 DEF Casts
  <1>3. /\ \A u \in Targets : u # m.target => route'[u] = route[u]
        /\ route'[m.target] = IF m.op = "install" THEN m.iface ELSE None
    <2>1. CASE m.op = "install"
      BY Zenon, <1>2, <2>1 DEF Install, BoxShape
    <2>2. CASE m.op = "remove"
      <3>1. Leads(m.target, 1 - 1, m.iface)
        BY Zenon, <1>1, <2>2 DEF RemovesThere
      <3>2. route[m.target] = m.iface
        BY <3>1 DEF Leads
      <3> QED
        BY Zenon, <1>2, <2>2, <3>2 DEF Uninstall, BoxShape
    <2> QED
      BY Zenon, <1>2, <2>1, <2>2
  <1> HIDE DEF m
  <1>4. CASE route[t] = iface /\ \A i \in 1..n : box[i].target # t
    <2>1. m.target # t
      BY <1>1, <1>4
    <2>2. \A i \in 1..(n - 1) : i + 1 \in 1..n /\ box'[i] = box[i + 1]
      BY <1>1
    <2> QED
      BY Zenon, <1>3, <1>4, <2>1, <2>2 DEF Leads
  <1>5. ASSUME NEW i \in 1..n, box[i].target = t, \A j \in (i + 1)..n : box[j].target # t,
               iface = IF box[i].op = "install" THEN box[i].iface ELSE None
        PROVE  Leads(t, n - 1, iface)'
    <2>1. \A j \in i..(n - 1) : j + 1 \in (i + 1)..n /\ box'[j] = box[j + 1]
      BY <1>1
    <2>2. \A j \in i..(n - 1) : box'[j].target # t
      BY Zenon, <1>5, <2>1
    <2>3. CASE i = 1
      BY Zenon, <1>1, <1>3, <1>5, <2>2, <2>3 DEF Leads
    <2>4. CASE i # 1
      <3>1. i - 1 \in 1..(n - 1) /\ box'[i - 1] = box[i] /\ (i - 1) + 1 = i
        BY <1>1, <2>4
      <3> QED
        BY Zenon, <1>5, <2>2, <3>1 DEF Leads
    <2> QED
      BY Zenon, <2>3, <2>4
  <1> QED
    BY Zenon, <1>4, <1>5 DEF Leads

\* Sweep's expired targets, each once, in the order s.
LEMMA ExpireOnce ==
    ASSUME NEW ts \in SUBSET Targets, NEW s \in [1..Cardinality(ts) -> ts], {s[k] : k \in DOMAIN s} = ts
    PROVE  Cardinality(ts) \in Nat /\ \A j, k \in 1..Cardinality(ts) : s[j] = s[k] => j = k
  <1>1. IsFiniteSet(ts) /\ Cardinality(ts) \in Nat
    BY Zenon, NDProxyAssumption, FS_Subset, FS_CardinalityType
  <1>2. IsFiniteSet(1..Cardinality(ts)) /\ Cardinality(1..Cardinality(ts)) = Cardinality(ts)
    <2>1. PICK c \in Nat : c = Cardinality(ts)
      BY Zenon, <1>1
    <2>2. 1 \in Int /\ c \in Int /\ c = IF 1 > c THEN 0 ELSE c - 1 + 1
      OBVIOUS
    <2>3. IsFiniteSet(1..c) /\ Cardinality(1..c) = IF 1 > c THEN 0 ELSE c - 1 + 1
      BY Zenon, <2>2, FS_Interval
    <2> QED
      BY Zenon, <2>1, <2>2, <2>3
  <1>3. s \in Surjection(1..Cardinality(ts), ts)
    BY Zenon DEF Surjection
  <1>4. s \in Injection(1..Cardinality(ts), ts)
    BY Zenon, <1>1, <1>2, <1>3, FS_SurjSameCardinalityImpliesInj
  <1> QED
    BY Zenon, <1>1, <1>4 DEF Injection, IsInjective

LEMMA RemovesKept ==
    ASSUME BoxShape',
           \A i \in DOMAIN box', u \in Targets, x \in Lans :
             box'[i].op = "remove" /\ box'[i].target = u /\ box'[i].iface = x => Leads(u, i - 1, x)'
    PROVE  RemovesThere'
  <1>1. ASSUME NEW i \in DOMAIN box', box'[i].op = "remove"
        PROVE  Leads(box[i].target, i - 1, box[i].iface)'
    <2>0. box'[i] \in Casts
      BY DEF BoxShape
    <2>1. box'[i].target \in Targets /\ box'[i].iface \in Lans
      BY Zenon, <2>0 DEF Casts
    <2>2. PICK u \in Targets, x \in Lans : u = box'[i].target /\ x = box'[i].iface
      BY Zenon, <2>1
    <2>3. Leads(u, i - 1, x)'
      BY Zenon, <1>1, <2>2
    <2> QED
      BY Zenon, <2>2, <2>3 DEF Leads
  <1> QED
    BY Zenon, <1>1 DEF RemovesThere

LEMMA RemovesSaid ==
    ASSUME RemovesThere, NEW i \in DOMAIN box, NEW u, NEW x,
           box[i].op = "remove", box[i].target = u, box[i].iface = x
    PROVE  Leads(u, i - 1, x)
  BY Zenon DEF RemovesThere

LEMMA RouteStep == RouteInv /\ [Next]_vars => RouteInv'
  <1> SUFFICES ASSUME RouteInv, [Next]_vars
               PROVE  RouteInv'
    BY Zenon
  <1> USE NDProxyAssumption
  <1>0. ASSUME UNCHANGED <<box, route, clean>>, active' \in [Targets -> [iface : Iface, age : Nat]],
               \A t \in Targets : active'[t].iface = active[t].iface
        PROVE  RouteInv'
    <2>1. BoxShape'
      BY Zenon, <1>0 DEF RouteInv, BoxShape
    <2>2. ASSUME RemovesThere, NEW i \in DOMAIN box, box[i].op = "remove"
          PROVE  Leads(box[i].target, i - 1, box[i].iface)'
      <3>1. Leads(box[i].target, i - 1, box[i].iface)
        BY Zenon, <2>2 DEF RemovesThere
      <3> QED
        BY Zenon, <1>0, <3>1 DEF Leads
    <2>3. RemovesThere => RemovesThere'
      BY Zenon, <1>0, <2>2 DEF RemovesThere
    <2>4. ASSUME NEW t \in Targets, Leads(t, Len(box), active[t].iface)
          PROVE  Leads(t, Len(box), active[t].iface)'
      BY Zenon, <1>0, <2>4 DEF Leads
    <2> QED
      BY Zenon, <1>0, <2>1, <2>3, <2>4 DEF RouteInv
  <1>1. ASSUME NEW t \in Targets, NEW lost, Solicited(t, lost)
        PROVE  RouteInv'
    BY Zenon, <1>0, <1>1 DEF Solicited, RouteInv, BoxShape
  <1>2. ASSUME NEW t \in Targets, NEW iface \in Lans, Advertised(t, iface)
        PROVE  RouteInv'
    <2>1. CASE UNCHANGED <<active, box>>
      BY Zenon, <1>0, <1>2, <2>1 DEF Advertised, RouteInv, BoxShape
    <2>2. CASE /\ active' = [active EXCEPT ![t] = [iface |-> iface, age |-> 0]]
               /\ box' = Append(box, [op |-> "install", target |-> t, iface |-> iface])
      <3> DEFINE m == [op |-> "install", target |-> t, iface |-> iface]
      <3>1. m \in Casts /\ m.op = "install" /\ m.target = t /\ m.iface = iface
        BY Zenon DEF Casts
      <3> HIDE DEF m
      <3>2. /\ Len(box) \in Nat /\ box \in Seq(Casts) /\ box' \in Seq(Casts) /\ Len(box') = Len(box) + 1
            /\ DOMAIN box = 1..Len(box) /\ DOMAIN box' = 1..(Len(box) + 1)
            /\ box'[Len(box) + 1] = m /\ \A i \in 1..Len(box) : box'[i] = box[i]
        BY <2>2, <3>1 DEF RouteInv, BoxShape, m
      <3>3. route' = route /\ clean' = clean
        BY Zenon, <1>2 DEF Advertised
      <3>4. /\ active' \in [Targets -> [iface : Iface, age : Nat]] /\ active'[t].iface = iface
            /\ \A u \in Targets : u # t => active'[u] = active[u]
        BY Zenon, <2>2 DEF RouteInv, BoxShape, Iface
      <3>5. BoxShape'
        BY Zenon, <3>2, <3>3, <3>4 DEF RouteInv, BoxShape
      <3> SUFFICES ASSUME clean
                   PROVE  RemovesThere' /\ \A u \in Targets : Leads(u, Len(box), active[u].iface)'
        BY Zenon, <3>3, <3>5 DEF RouteInv
      <3>6. ASSUME NEW i \in DOMAIN box', NEW u \in Targets, NEW x \in Lans,
                   box'[i].op = "remove", box'[i].target = u, box'[i].iface = x
            PROVE  Leads(u, i - 1, x)'
        <4>1. i \in DOMAIN box /\ box'[i] = box[i] /\ i - 1 \in Nat /\ \A j \in 1..(i - 1) : box'[j] = box[j]
          BY <3>1, <3>2, <3>6
        <4>2. Leads(u, i - 1, x)
          BY Zenon, <3>6, <4>1, RemovesSaid DEF RouteInv
        <4>3. i - 1 <= i - 1 /\ \A j \in ((i - 1) + 1)..(i - 1) : box'[j].target # u
          BY <4>1
        <4> QED
          BY Zenon, <3>3, <4>1, <4>2, <4>3, LeadsOn
      <3>7. ASSUME NEW u \in Targets
            PROVE  Leads(u, Len(box), active[u].iface)'
        <4>0. PICK n \in Nat, x \in {active[u].iface} : n = Len(box) /\ x = active[u].iface
          BY Zenon, <3>2
        <4>1. CASE u = t
          <5>1. /\ n + 1 \in Nat /\ n + 1 \in 1..(n + 1) /\ box'[n + 1] = m
                /\ \A j \in ((n + 1) + 1)..(n + 1) : box'[j].target # t
            BY <3>2, <4>0
          <5>2. box'[n + 1].target = t /\ iface = IF box'[n + 1].op = "install" THEN box'[n + 1].iface ELSE None
            BY Zenon, <3>1, <5>1
          <5>3. Leads(t, n + 1, iface)'
            BY Zenon, <5>1, <5>2, LeadsLast
          <5> QED
            BY Zenon, <3>2, <3>4, <4>0, <4>1, <5>3 DEF Leads
        <4>2. CASE u # t
          <5>1. Leads(u, n, x)
            BY Zenon, <4>0 DEF RouteInv
          <5>2. \A i \in (n + 1)..(n + 1) : box'[i].target # u
            BY <3>1, <3>2, <4>0, <4>2
          <5>3. Leads(u, n + 1, x)'
            BY <3>2, <3>3, <4>0, <5>1, <5>2, LeadsOn
          <5> QED
            BY Zenon, <3>2, <3>4, <4>0, <4>2, <5>3 DEF Leads
        <4> QED
          BY Zenon, <4>1, <4>2
      <3> QED
        BY Zenon, <3>5, <3>6, <3>7, RemovesKept
    <2> QED
      BY Zenon, <1>2, <2>1, <2>2 DEF Advertised
  <1>3. ASSUME NEW lost, Sweep(lost)
        PROVE  RouteInv'
    <2> DEFINE ts == {t \in Targets : active[t].iface # None /\ ~Fresh(t)}
    <2>1. /\ Expire(ts) /\ route' = route /\ clean' = clean
          /\ active' = [t \in Targets |-> IF t \in ts THEN Inactive ELSE active[t]]
      BY Zenon, <1>3 DEF Sweep, ghosts
    <2>2. ts \in SUBSET Targets /\ \A t \in ts : active[t].iface \in Lans
      BY Zenon DEF RouteInv, BoxShape, Iface
    <2> HIDE DEF ts
    <2>3. PICK s \in [1..Cardinality(ts) -> ts] :
            /\ {s[k] : k \in DOMAIN s} = ts
            /\ box' = box \o [k \in DOMAIN s |->
                         [op |-> "remove", target |-> s[k], iface |-> active[s[k]].iface]]
      BY Zenon, <2>1 DEF Expire
    <2>4. Cardinality(ts) \in Nat /\ \A j, k \in 1..Cardinality(ts) : s[j] = s[k] => j = k
      BY Zenon, <2>2, <2>3, ExpireOnce
    <2>5. PICK n \in Nat, c \in Nat : n = Len(box) /\ c = Cardinality(ts)
      BY SMTT(30), <2>4 DEF RouteInv, BoxShape
    <2> DEFINE added == [k \in 1..c |-> [op |-> "remove", target |-> s[k], iface |-> active[s[k]].iface]]
    <2>6. /\ \A k \in 1..c : s[k] \in ts /\ s[k] \in Targets
          /\ \A t \in ts : \E k \in 1..c : s[k] = t
          /\ DOMAIN s = 1..c
      BY Zenon, <2>2, <2>3, <2>5
    <2>7. /\ added \in Seq(Casts) /\ Len(added) = c
          /\ \A k \in 1..c : added[k].op = "remove" /\ added[k].target = s[k] /\ added[k].iface = active[s[k]].iface
      <3>1. \A k \in 1..c : [op |-> "remove", target |-> s[k], iface |-> active[s[k]].iface] \in Casts
        BY Zenon, <2>2, <2>6 DEF Casts
      <3> QED
        BY SMTT(30), <3>1
    <2>8. box' = box \o added
      BY Zenon, <2>3, <2>6
    <2> HIDE DEF added
    <2>9. /\ box \in Seq(Casts) /\ box' \in Seq(Casts) /\ Len(box') = n + c
          /\ DOMAIN box = 1..n /\ DOMAIN box' = 1..(n + c)
          /\ \A i \in 1..n : box'[i] = box[i]
          /\ \A k \in 1..c : box'[n + k] = added[k]
      <3>1. box \in Seq(Casts) /\ Len(box) = n /\ DOMAIN box = 1..n
        BY <2>5 DEF RouteInv, BoxShape
      <3>2. box \in Seq(Casts) /\ added \in Seq(Casts)
        BY Zenon, <2>7, <3>1
      <3>3. box' \in Seq(Casts)
        BY <2>8, <3>2
      <3>4. Len(box') = Len(box) + Len(added)
        BY <2>8, <3>2
      <3>5. DOMAIN box' = 1..(n + c)
        BY <2>7, <3>1, <3>3, <3>4
      <3>6. \A i \in 1..Len(box) : box'[i] = box[i]
        BY <2>8, <3>2
      <3>7. \A k \in 1..Len(added) : box'[Len(box) + k] = added[k]
        BY <2>8, <3>2
      <3> QED
        BY Zenon, <2>7, <3>1, <3>3, <3>4, <3>5, <3>6, <3>7
    <2>10. /\ active' \in [Targets -> [iface : Iface, age : Nat]]
           /\ \A t \in Targets : active'[t].iface = IF t \in ts THEN None ELSE active[t].iface
      BY Zenon, <2>1 DEF RouteInv, BoxShape, Inactive, Iface
    <2>11. BoxShape'
      BY Zenon, <2>1, <2>9, <2>10 DEF RouteInv, BoxShape
    <2> SUFFICES ASSUME clean
                 PROVE  RemovesThere' /\ \A u \in Targets : Leads(u, Len(box), active[u].iface)'
      BY Zenon, <2>1, <2>11 DEF RouteInv
    <2>12. ASSUME NEW i \in DOMAIN box', NEW u \in Targets, NEW x \in Lans,
                  box'[i].op = "remove", box'[i].target = u, box'[i].iface = x
           PROVE  Leads(u, i - 1, x)'
      <3>1. i \in 1..(n + c)
        BY Zenon, <2>9
      <3>2. CASE i <= n
        <4>1. i \in DOMAIN box /\ box'[i] = box[i] /\ i - 1 \in Nat /\ \A j \in 1..(i - 1) : box'[j] = box[j]
          BY SMTT(30), <2>9, <3>1, <3>2
        <4>2. Leads(u, i - 1, x)
          BY Zenon, <2>12, <4>1, RemovesSaid DEF RouteInv
        <4>3. i - 1 <= i - 1 /\ \A j \in ((i - 1) + 1)..(i - 1) : box'[j].target # u
          BY SMTT(30), <4>1
        <4> QED
          BY Zenon, <2>1, <4>1, <4>2, <4>3, LeadsOn
      <3>3. CASE ~(i <= n)
        <4>1. PICK k \in 1..c : i = n + k
          <5>1. i - n \in 1..c /\ i = n + (i - n)
            BY <3>1, <3>3
          <5> QED
            BY Zenon, <5>1
        <4>2. u = s[k] /\ x = active[u].iface
          <5>1. box'[i] = added[k]
            BY Zenon, <2>9, <4>1
          <5>2. u = added[k].target /\ x = added[k].iface
            BY Zenon, <2>12, <5>1
          <5> QED
            BY Zenon, <2>7, <5>2
        <4>3. Leads(u, n, x)
          BY Zenon, <2>5, <4>2 DEF RouteInv
        <4>4. ASSUME NEW j \in (n + 1)..(i - 1)
              PROVE  box'[j].target # u
          <5>1. j - n \in 1..c /\ j - n # k /\ j = n + (j - n)
            BY <4>1
          <5>2. box'[j].target = s[j - n]
            BY SMTT(30), <2>7, <2>9, <5>1
          <5> QED
            BY Zenon, <2>4, <2>5, <4>2, <5>1, <5>2
        <4>5. n <= i - 1 /\ i - 1 \in Nat
          BY <4>1
        <4> QED
          BY Zenon, <2>1, <2>9, <4>3, <4>4, <4>5, LeadsOn
      <3> QED
        BY Zenon, <3>2, <3>3
    <2>13. ASSUME NEW u \in Targets
           PROVE  Leads(u, Len(box), active[u].iface)'
      <3>1. CASE u \in ts
        <4>1. PICK k \in 1..c : s[k] = u
          BY Zenon, <2>6, <3>1
        <4>2. n + k \in 1..(n + c) /\ box'[n + k].target = u /\ box'[n + k].op = "remove"
          BY SMTT(30), <2>7, <2>9, <4>1
        <4>3. ASSUME NEW j \in ((n + k) + 1)..(n + c)
              PROVE  box'[j].target # u
          <5>1. j - n \in 1..c /\ j - n # k /\ j = n + (j - n)
            OBVIOUS
          <5>2. box'[j].target = s[j - n]
            BY SMTT(30), <2>7, <2>9, <5>1
          <5> QED
            BY Zenon, <2>4, <2>5, <4>1, <5>1, <5>2
        <4>4. None = IF box'[n + k].op = "install" THEN box'[n + k].iface ELSE None
          BY Zenon, <4>2
        <4>5. PICK i \in 1..(n + c) : i = n + k
          BY Zenon, <4>2
        <4>6. PICK e \in Nat : e = n + c
          OBVIOUS
        <4>7. /\ i \in 1..e /\ box'[i].target = u /\ \A j \in (i + 1)..e : box'[j].target # u
              /\ None = IF box'[i].op = "install" THEN box'[i].iface ELSE None
          BY Zenon, <4>2, <4>3, <4>4, <4>5, <4>6
        <4>8. Leads(u, e, None)'
          BY Zenon, <4>7, LeadsLast
        <4> QED
          BY ZenonT(30), <2>9, <2>10, <3>1, <4>6, <4>8 DEF Leads
      <3>2. CASE u \notin ts
        <4>1. PICK x : x = active[u].iface
          BY Zenon
        <4>2. Leads(u, n, x)
          BY Zenon, <2>5, <4>1 DEF RouteInv
        <4>3. ASSUME NEW j \in (n + 1)..(n + c)
              PROVE  box'[j].target # u
          <5>1. j - n \in 1..c /\ j = n + (j - n)
            OBVIOUS
          <5>2. box'[j].target = s[j - n]
            BY <2>7, <2>9, <5>1
          <5> QED
            BY Zenon, <2>6, <3>2, <5>1, <5>2
        <4>4. Leads(u, n + c, x)'
          BY SMTT(30), <2>1, <2>9, <4>2, <4>3, LeadsOn
        <4> QED
          BY Zenon, <2>9, <2>10, <3>2, <4>1, <4>4 DEF Leads
      <3> QED
        BY Zenon, <3>1, <3>2
    <2> QED
      BY Zenon, <2>11, <2>12, <2>13, RemovesKept
  <1>4. ASSUME NEW ok \in BOOLEAN, HandleCast(ok)
        PROVE  RouteInv'
    <2>1. /\ box # <<>> /\ box' = Tail(box) /\ active' = active /\ Head(box) \in Casts
          /\ Len(box) \in Nat /\ Len(box) > 0 /\ box' \in Seq(Casts) /\ Len(box') = Len(box) - 1
          /\ DOMAIN box = 1..Len(box) /\ DOMAIN box' = 1..(Len(box) - 1)
          /\ \A i \in 1..(Len(box) - 1) : box'[i] = box[i + 1]
      BY <1>4 DEF HandleCast, stateVars, RouteInv, BoxShape
    <2>2. CASE ~clean' /\ UNCHANGED route
      BY Zenon, <2>1, <2>2 DEF RouteInv, BoxShape
    <2>3. CASE /\ clean' = clean
               /\ IF Head(box).op = "install" THEN Install(Head(box).target, Head(box).iface)
                  ELSE Uninstall(Head(box).target, Head(box).iface)
      <3>1. BoxShape'
        <4>1. Head(box).target \in Targets /\ Head(box).iface \in Iface
          BY Zenon, <2>1 DEF Casts, Iface
        <4>2. route' \in [Targets -> Iface]
          BY Zenon, <2>3, <4>1 DEF Install, Uninstall, RouteInv, BoxShape, Iface
        <4> QED
          BY Zenon, <2>1, <4>2 DEF RouteInv, BoxShape
      <3> SUFFICES ASSUME clean
                   PROVE  RemovesThere' /\ \A u \in Targets : Leads(u, Len(box), active[u].iface)'
        BY Zenon, <2>3, <3>1 DEF RouteInv
      <3>2. BoxShape /\ RemovesThere
        BY Zenon DEF RouteInv
      <3>3. ASSUME NEW i \in DOMAIN box', NEW u \in Targets, NEW x \in Lans,
                   box'[i].op = "remove", box'[i].target = u, box'[i].iface = x
            PROVE  Leads(u, i - 1, x)'
        <4>1. i + 1 \in DOMAIN box /\ box[i + 1] = box'[i] /\ i \in 1..Len(box) /\ (i + 1) - 1 = i
          BY <2>1
        <4>2. Leads(u, (i + 1) - 1, x)
          BY Zenon, <3>2, <3>3, <4>1, RemovesSaid
        <4>3. Leads(u, i, x)
          BY Zenon, <4>1, <4>2
        <4> QED
          BY Zenon, <2>1, <2>3, <3>2, <4>1, <4>3, LeadsHandled
      <3>4. ASSUME NEW u \in Targets
            PROVE  Leads(u, Len(box), active[u].iface)'
        <4>0. Len(box) \in 1..Len(box)
          BY <2>1
        <4>1. PICK n \in 1..Len(box), x \in {active[u].iface} : n = Len(box) /\ x = active[u].iface
          BY Zenon, <4>0
        <4>2. Leads(u, n, x)
          BY Zenon, <4>1 DEF RouteInv
        <4>3. Leads(u, n - 1, x)'
          BY Zenon, <2>1, <2>3, <3>2, <4>2, LeadsHandled
        <4> QED
          BY ZenonT(30), <2>1, <4>1, <4>3 DEF Leads
      <3> QED
        BY Zenon, <3>1, <3>3, <3>4, RemovesKept
    <2> QED
      BY Zenon, <1>4, <2>2, <2>3 DEF HandleCast
  <1>5. ASSUME NEW routesToo \in BOOLEAN, Stops(routesToo)
        PROVE  RouteInv'
    <2>1. /\ ~clean' /\ UNCHANGED route /\ active' = [t \in Targets |-> Inactive]
          /\ box' = <<>> \/ box' = box
      BY Zenon, <1>5 DEF Stops
    <2>2. <<>> \in Seq(Casts)
      OBVIOUS
    <2> QED
      BY Zenon, <2>1, <2>2 DEF RouteInv, BoxShape, Inactive, Iface
  <1>6. CASE Tick
    <2>1. /\ UNCHANGED <<box, route, clean>>
          /\ active' = [t \in Targets |->
                IF active[t] = Inactive THEN Inactive ELSE [active[t] EXCEPT !.age = Older(active[t].age)]]
      BY Zenon, <1>6 DEF Tick
    <2>2. \A t \in Targets : Older(active[t].age) \in Nat
      BY DEF Older, RouteInv, BoxShape
    <2>3. active \in [Targets -> [iface : Iface, age : Nat]]
      BY Zenon DEF RouteInv, BoxShape
    <2>4. /\ active' \in [Targets -> [iface : Iface, age : Nat]]
          /\ \A t \in Targets : active'[t].iface = active[t].iface
      BY Zenon, <2>1, <2>2, <2>3 DEF Inactive
    <2> QED
      BY Zenon, <1>0, <2>1, <2>4
  <1>7. ASSUME NEW t \in Targets, NEW iface \in Iface, Moves(t, iface)
        PROVE  RouteInv'
    BY Zenon, <1>0, <1>7 DEF Moves, stateVars, ghosts, RouteInv, BoxShape
  <1>8. CASE UNCHANGED vars
    BY Zenon, <1>0, <1>8 DEF vars, RouteInv, BoxShape
  <1> QED
    BY Zenon, <1>1, <1>2, <1>3, <1>4, <1>5, <1>6, <1>7, <1>8 DEF Next

\* While nothing fails or stops, the host routes are on their way to being
\* exactly those of the confirmed targets, for any number of targets and LANs
\* and however long the routes process's mailbox: each removal the proxy casts
\* names the LAN its target's route leads to by then, so DelRoute finds it.
THEOREM RoutesAlwaysFollow == Spec => []RoutesFollow
  <1>1. Init => RouteInv
    <2> SUFFICES ASSUME Init
                 PROVE  RouteInv
      BY Zenon
    <2>1. box = <<>> /\ Len(box) = 0 /\ DOMAIN box = {} /\ box \in Seq(Casts)
      BY DEF Init
    <2>2. BoxShape
      BY Zenon, <2>1 DEF Init, BoxShape, Inactive, Iface
    <2>3. \A t \in Targets : route[t] = active[t].iface
      BY Zenon DEF Init, Inactive
    <2> QED
      BY <2>1, <2>2, <2>3 DEF RouteInv, RemovesThere, Leads
  <1>2. RouteInv => RoutesFollow
    BY Zenon DEF RouteInv, RoutesFollow
  <1> QED
    BY <1>1, <1>2, RouteStep, PTL DEF Spec

=============================================================================
