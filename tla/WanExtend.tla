----------------------------- MODULE WanExtend ------------------------------
(***************************************************************************)
(* internal/wanextend's watch: where no prefix is delegated, the LANs      *)
(* advertise the WAN's own, which the watch process reads again on a timer *)
(* and extends onto the LANs when it has changed.                          *)
(***************************************************************************)
EXTENDS Radvd

CONSTANT Initial    \* the prefix DiscoverPrefix found

ASSUME WatchAssumption == Initial \in Configs

VARIABLES
    wan,      \* the prefix of the WAN's address; None while it has none
    current   \* the prefix the watch last extended

watchVars == <<wan, current>>

OnceNextWatchState(cur, next, err) ==
    IF err \/ next = None \/ next = Initial THEN cur ELSE next

\* nextWatchState: an error, or no prefix, is not a change.
NextWatchState(cur, next, err) == IF err \/ next = None \/ next = cur THEN cur ELSE next

\* Config.Extend: every LAN advertises p.
Extend(p) == adv' = [i \in Ifaces |-> HandleCast(adv[i], p)] /\ UNCHANGED wire

\* The watch timer; err says that the addresses cannot be read.
WatchTick(err) ==
    LET next == NextWatchState(current, wan, err) IN
    /\ current' = next
    /\ IF next # current THEN Extend(next) ELSE UNCHANGED radvdVars
    /\ UNCHANGED wan

\* A restarted watch starts from the prefix the program started with.
WatchStops ==
    /\ current' = Initial
    /\ UNCHANGED <<radvdVars, wan>>

\* The provider renumbers the WAN, or its address goes for a while.
Renumbered(p) ==
    /\ p # wan
    /\ wan' = p
    /\ UNCHANGED <<radvdVars, current>>

\* DiscoverPrefix, and Extend before the watch starts.
WatchInit == wan = Initial /\ current = Initial

WatchTypeOK == wan \in Configs \cup {None} /\ current \in Configs

=============================================================================
