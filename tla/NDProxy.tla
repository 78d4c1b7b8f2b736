------------------------------ MODULE NDProxy -------------------------------
(***************************************************************************)
(* The Neighbor Discovery proxy: pkg/ndproxy's State in internal/ndppd's   *)
(* proxy process, and the routes process that installs and removes the     *)
(* host routes (internal/wanextend's HostRoutes).  The WAN asks for a      *)
(* target, the proxy probes for it on every LAN, a host that answers is    *)
(* confirmed for activeTTL, and its route is installed on its LAN.         *)
(*                                                                         *)
(* The environment is the hosts: loc is the LAN each is on, and an answer  *)
(* to a probe may be lost, or arrive after its host has moved.  Time is in *)
(* sweep intervals.  heard and said are history variables: how long ago    *)
(* the target last answered a probe, and how long before the proxy last    *)
(* answered for it that was.  clean says that nothing failed or stopped.   *)
(***************************************************************************)
EXTENDS Naturals, Sequences, FiniteSets

CONSTANTS
    Targets,               \* the addresses the WAN asks for
    Lans,                  \* the LAN interfaces
    None,                  \* no LAN
    activeTTL,             \* in sweep intervals
    maxMulticastSolicit,   \* probes of one target
    MaxBox,                \* casts the routes process has not handled
    MaxMoves,              \* how often hosts move
    MaxFails,              \* how many calls fail, or answers are lost
    MaxStops               \* how often a process stops

ASSUME NDProxyAssumption ==
    /\ None \notin Lans /\ IsFiniteSet(Targets)
    /\ {activeTTL, maxMulticastSolicit} \subseteq Nat \ {0}
    /\ {MaxBox, MaxMoves, MaxFails, MaxStops} \subseteq Nat

VARIABLES
    pending,    \* the probes sent for each target, and whether the next is due
    active,     \* the LAN each target is confirmed on, and since when
    due,        \* the sweep timer has expired
    box,        \* the casts to the routes process
    route,      \* the kernel's host routes
    loc, nas,   \* the hosts, and their answers on the way
    heard, said, clean,
    moves, fails, stops

stateVars == <<pending, active>>
ghosts == <<heard, said, clean>>
bounds == <<moves, fails, stops>>
vars == <<pending, active, due, box, route, loc, nas, heard, said, clean, moves, fails, stops>>

Ages == 0..activeTTL
Iface == Lans \cup {None}

NoProbe == [attempts |-> 0, due |-> FALSE]
Inactive == [iface |-> None, age |-> 0]

Fresh(t) == active[t].iface # None /\ active[t].age < activeTTL

-----------------------------------------------------------------------------
\* The proxy process

\* A probe of the targets ts on every LAN, and the answers of the hosts
\* whose answer is not in lost.
Probe(ts, lost) ==
    /\ nas' = nas \cup {<<t, loc[t]>> : t \in {u \in ts \ lost : loc[u] # None}}
    /\ fails' = fails - Cardinality(lost)
    /\ lost \subseteq ts /\ Cardinality(lost) <= fails

\* The proxy's Neighbor Advertisement on the WAN.
Answer(t) == said' = [said EXCEPT ![t] = heard'[t]]

StaleReply(t) == active[t].iface # None

\* OnWANSolicit answers at once.
Reply(t) == Fresh(t)

\* proxy.solicited, OnWANSolicit
Solicited(t, lost) ==
    /\ UNCHANGED <<active, due, box, route, loc, heard, clean, moves, stops>>
    /\ IF Reply(t) THEN lost = {} /\ Answer(t) /\ UNCHANGED <<pending, nas, fails>>
       ELSE IF pending[t] # NoProbe THEN lost = {} /\ UNCHANGED <<pending, said, nas, fails>>
       ELSE /\ pending' = [pending EXCEPT ![t] = [attempts |-> 1, due |-> FALSE]]
            /\ Probe({t}, lost)
            /\ UNCHANGED said

\* proxy.advertised, OnLANAdvert: the answer of t arrives from iface.
Advertised(t, iface) ==
    /\ <<t, iface>> \in nas
    /\ nas' = nas \ {<<t, iface>>}
    /\ UNCHANGED <<due, route, loc, clean, bounds>>
    /\ heard' = [heard EXCEPT ![t] = 0]
    /\ IF pending[t] = NoProbe THEN UNCHANGED <<pending, active, box, said>>
       ELSE /\ Len(box) < MaxBox
            /\ pending' = [pending EXCEPT ![t] = NoProbe]
            /\ active' = [active EXCEPT ![t] = [iface |-> iface, age |-> 0]]
            /\ box' = Append(box, [op |-> "install", target |-> t, iface |-> iface])
            /\ Answer(t)

ForgetfulExpire(ts) == UNCHANGED box

\* proxy.swept has the routes of the expired targets removed, in whatever order
\* Sweep's map yields them.
Expire(ts) ==
    \E s \in [1..Cardinality(ts) -> ts] :
        /\ {s[k] : k \in DOMAIN s} = ts
        /\ box' = box \o [k \in DOMAIN s |->
                     [op |-> "remove", target |-> s[k], iface |-> active[s[k]].iface]]

\* Sweep gives up on t.
Exhausted(t) == pending[t].attempts >= maxMulticastSolicit

\* proxy.swept, Sweep
Sweep(lost) ==
    LET expired == {t \in Targets : active[t].iface # None /\ ~Fresh(t)}
        ready   == {t \in Targets : pending[t].due}
        gaveUp  == {t \in ready : Exhausted(t)}
    IN  /\ due
        /\ due' = FALSE
        /\ Len(box) + Cardinality(expired) <= MaxBox
        /\ pending' = [t \in Targets |->
                         IF t \in gaveUp THEN NoProbe
                         ELSE IF t \in ready
                         THEN [attempts |-> pending[t].attempts + 1, due |-> FALSE]
                         ELSE pending[t]]
        /\ active' = [t \in Targets |-> IF t \in expired THEN Inactive ELSE active[t]]
        /\ Expire(expired)
        /\ Probe(ready \ gaveUp, lost)
        /\ UNCHANGED <<route, loc, ghosts, moves, stops>>

-----------------------------------------------------------------------------
\* The routes process

PlainInstall(t, iface) ==
    route' = IF route[t] = None THEN [route EXCEPT ![t] = iface] ELSE route

\* HostRoutes.Install: AddRoute replaces a route there is.
Install(t, iface) == route' = [route EXCEPT ![t] = iface]

\* HostRoutes.Remove: DelRoute removes the route on that interface only.
Uninstall(t, iface) == route' = IF route[t] = iface THEN [route EXCEPT ![t] = None] ELSE route

\* routes.HandleCast; a call that fails is only logged.
HandleCast(ok) ==
    LET m == Head(box) IN
    /\ box # <<>>
    /\ box' = Tail(box)
    /\ \/ ~ok /\ fails > 0 /\ fails' = fails - 1 /\ clean' = FALSE /\ UNCHANGED route
       \/ ok /\ UNCHANGED <<fails, clean>>
          /\ IF m.op = "install" THEN Install(m.target, m.iface) ELSE Uninstall(m.target, m.iface)
    /\ UNCHANGED <<stateVars, due, loc, nas, heard, said, moves, stops>>

-----------------------------------------------------------------------------
\* Stops (rest_for_one), time, and the hosts

\* The proxy restarts with a new State; with the routes process, if that
\* stops.  The kernel's routes stay.
Stops(routesToo) ==
    /\ stops > 0 /\ stops' = stops - 1
    /\ pending' = [t \in Targets |-> NoProbe]
    /\ active' = [t \in Targets |-> Inactive]
    /\ box' = IF routesToo THEN <<>> ELSE box
    /\ clean' = FALSE
    /\ due' = FALSE
    /\ UNCHANGED <<route, loc, nas, heard, said, moves, fails>>

Older(n) == IF n < activeTTL THEN n + 1 ELSE n

Tick ==
    /\ ~due /\ due' = TRUE
    /\ pending' = [t \in Targets |-> [pending[t] EXCEPT !.due = pending[t] # NoProbe]]
    /\ active' = [t \in Targets |->
                    IF active[t] = Inactive THEN Inactive ELSE [active[t] EXCEPT !.age = Older(@)]]
    /\ heard' = [t \in Targets |-> Older(heard[t])]
    /\ UNCHANGED <<box, route, loc, nas, said, clean, bounds>>

Moves(t, iface) ==
    /\ moves > 0 /\ moves' = moves - 1
    /\ iface # loc[t]
    /\ loc' = [loc EXCEPT ![t] = iface]
    /\ UNCHANGED <<stateVars, due, box, route, nas, ghosts, fails, stops>>

Init ==
    /\ pending = [t \in Targets |-> NoProbe]
    /\ active = [t \in Targets |-> Inactive]
    /\ due = FALSE /\ box = <<>> /\ nas = {}
    /\ route = [t \in Targets |-> None]
    /\ loc \in [Targets -> Iface]
    /\ heard = [t \in Targets |-> activeTTL]
    /\ said = [t \in Targets |-> 0]
    /\ clean = TRUE
    /\ moves = MaxMoves /\ fails = MaxFails /\ stops = MaxStops

Next ==
    \/ \E t \in Targets, lost \in SUBSET Targets : Solicited(t, lost)
    \/ \E t \in Targets, iface \in Lans : Advertised(t, iface)
    \/ \E lost \in SUBSET Targets : Sweep(lost)
    \/ \E ok \in BOOLEAN : HandleCast(ok)
    \/ \E routesToo \in BOOLEAN : Stops(routesToo)
    \/ Tick
    \/ \E t \in Targets, iface \in Iface : Moves(t, iface)

\* The WAN goes on asking, the processes and the timer run, and the hosts
\* do not for ever answer only after the proxy has given up.
Fairness ==
    /\ \A t \in Targets : WF_vars(Solicited(t, {}))
    /\ \A t \in Targets, iface \in Lans : SF_vars(pending[t] # NoProbe /\ Advertised(t, iface))
    /\ WF_vars(Sweep({}))
    /\ WF_vars(HandleCast(TRUE))
    /\ WF_vars(Tick)

Spec == Init /\ [][Next]_vars

FairSpec == Spec /\ Fairness

-----------------------------------------------------------------------------
Casts == [op : {"install", "remove"}, target : Targets, iface : Lans]

\* Every variable keeps its type.
TypeOK ==
    /\ pending \in [Targets -> [attempts : 0..maxMulticastSolicit, due : BOOLEAN]]
    /\ active \in [Targets -> [iface : Iface, age : Ages]]
    /\ box \in Seq(Casts) /\ Len(box) <= MaxBox
    /\ {route, loc} \subseteq [Targets -> Iface]
    /\ nas \subseteq Targets \X Lans
    /\ {heard, said} \subseteq [Targets -> Ages]
    /\ {due, clean} \subseteq BOOLEAN

(***************************************************************************)
(* The proxy answers the WAN only for a target that has itself answered a  *)
(* probe less than activeTTL ago: "correctly not claiming a target that    *)
(* doesn't exist" (state.go), also in the gap between the end of a         *)
(* confirmation and the sweep that drops it.                               *)
(***************************************************************************)
ClaimsAreFresh == \A t \in Targets : said[t] < activeTTL

\* Once the routes process has handled the first n casts, the route of t leads
\* to iface: as the last of them that is about t says.
Leads(t, n, iface) ==
    \/ route[t] = iface /\ \A i \in 1..n : box[i].target # t
    \/ \E i \in 1..n :
          /\ box[i].target = t
          /\ \A j \in (i + 1)..n : box[j].target # t
          /\ iface = IF box[i].op = "install" THEN box[i].iface ELSE None

(***************************************************************************)
(* While nothing fails or stops, the host routes are on their way to being *)
(* exactly those of the confirmed targets, on the LAN each was confirmed   *)
(* on: hosts that move between LANs, expire and come back never leave one  *)
(* behind.                                                                 *)
(***************************************************************************)
RoutesFollow == clean => \A t \in Targets : Leads(t, Len(box), active[t].iface)

(***************************************************************************)
(* Once a host that the WAN goes on asking for stays where it is, no route *)
(* to it leads to another LAN for ever, and it gets its own route again    *)
(* and again: neither a stopped proxy, which leaves its routes in the      *)
(* kernel, nor a failed call, nor an answer from the LAN the host has left *)
(* keeps it from that.                                                     *)
(***************************************************************************)
RoutesCatchUp ==
    \A t \in Targets :
        /\ <>[](loc[t] # None => route[t] \in {loc[t], None})
        /\ []<>(loc[t] # None => route[t] = loc[t])

=============================================================================
