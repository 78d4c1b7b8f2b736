------------------------------- MODULE Radvd --------------------------------
(***************************************************************************)
(* internal/radvd: the processes sending the Router Advertisements of the  *)
(* LAN interfaces, one each, and pkg/routeradvert's timing.  An advertiser *)
(* is idle until it is given a configuration, advertises it at once and    *)
(* then on a timer, answers Router Solicitations after a delay, and holds  *)
(* off what it can for MinDelayBetweenRAs after each RA.                   *)
(*                                                                         *)
(* Timers are kept by what they promise: the unsolicited RA is due "now",  *)
(* "soon" (the retry of a send that failed) or "later"; the quiet timer    *)
(* runs while recent, the reply timer while replying.  A send may fail,    *)
(* the link-local address being tentative, of which the process learns by  *)
(* a message (err).  A configuration is the prefix it advertises.          *)
(***************************************************************************)
EXTENDS Naturals

CONSTANTS
    Ifaces,     \* the LAN interfaces
    Configs,    \* what they may advertise
    None        \* nothing, or no router: not a configuration

ASSUME RadvdAssumption == None \notin Configs

VARIABLES
    adv,    \* the state of each advertiser
    wire    \* what the last RA each LAN has heard advertises

radvdVars == <<adv, wire>>

Advertisers ==
    [cfg : Configs \cup {None}, recent : BOOLEAN, pending : BOOLEAN, replying : BOOLEAN,
     due : {"never", "now", "soon", "later"}, err : BOOLEAN]

\* advertiser.Init
Idle == [cfg |-> None, recent |-> FALSE, pending |-> FALSE, replying |-> FALSE,
         due |-> "never", err |-> FALSE]

SilentCast(a, c) ==
    IF a.cfg = None THEN [a EXCEPT !.cfg = c, !.due = "now"]
    ELSE IF c = a.cfg THEN a
    ELSE IF a.recent THEN [a EXCEPT !.cfg = c]
    ELSE [a EXCEPT !.cfg = c, !.due = "now"]

\* advertiser.HandleCast: a after it is given the configuration c.
HandleCast(a, c) ==
    IF a.cfg = None THEN [a EXCEPT !.cfg = c, !.due = "now"]
    ELSE IF c = a.cfg THEN a
    ELSE IF a.recent THEN [a EXCEPT !.cfg = c, !.pending = TRUE]
    ELSE [a EXCEPT !.cfg = c, !.due = "now"]

\* advertiser.send of a; ok says that the RA goes out.
Send(i, a, ok) ==
    /\ adv' = [adv EXCEPT ![i] = [a EXCEPT !.recent = TRUE, !.err = @ \/ ~ok]]
    /\ wire' = IF ok THEN [wire EXCEPT ![i] = a.cfg] ELSE wire

Become(i, a) == adv' = [adv EXCEPT ![i] = a] /\ UNCHANGED wire

\* The unsolicited timer.
Unsolicited(i, ok) ==
    /\ adv[i].due # "never"
    /\ Send(i, [adv[i] EXCEPT !.due = "later"], ok)

\* The quiet timer.
Quiet(i) ==
    /\ adv[i].recent
    /\ Become(i, IF adv[i].pending
                 THEN [adv[i] EXCEPT !.recent = FALSE, !.pending = FALSE, !.due = "now"]
                 ELSE [adv[i] EXCEPT !.recent = FALSE])

\* A Router Solicitation that a recent RA does not answer.
Solicited(i) ==
    /\ adv[i].cfg # None /\ ~adv[i].recent /\ ~adv[i].replying
    /\ Become(i, [adv[i] EXCEPT !.replying = TRUE])

\* The reply timer.
Reply(i, ok) ==
    LET a == [adv[i] EXCEPT !.replying = FALSE] IN
    /\ adv[i].replying
    /\ IF a.recent THEN Become(i, a) /\ ok ELSE Send(i, a, ok)

\* A socket.SendErrorMsg, the address being tentative.
SendError(i) ==
    /\ adv[i].err
    /\ Become(i, [adv[i] EXCEPT !.err = FALSE, !.due = "soon"])

\* A socket error: Terminate withdraws the router, if it can, and the
\* supervisor starts the advertiser again, idle.
Stop(i, ok) ==
    /\ adv' = [adv EXCEPT ![i] = Idle]
    /\ wire' = IF ok /\ adv[i].cfg # None THEN [wire EXCEPT ![i] = None] ELSE wire

RadvdInit ==
    /\ adv = [i \in Ifaces |-> Idle]
    /\ wire = [i \in Ifaces |-> None]

RadvdTypeOK ==
    /\ adv \in [Ifaces -> Advertisers]
    /\ wire \in [Ifaces -> Configs \cup {None}]

(***************************************************************************)
(* An advertiser whose LAN last heard something else than its              *)
(* configuration has the correction on its way: an RA due now or soon, one *)
(* that follows the quiet timer, or a failed send still to be learned of.  *)
(* No order of configurations, RAs, failed sends, solicitations and timers *)
(* leaves a change to the next scheduled RA, minutes away.                 *)
(***************************************************************************)
ChangeIsDue ==
    \A i \in Ifaces :
        adv[i].cfg # None /\ wire[i] # adv[i].cfg =>
            \/ adv[i].due \in {"now", "soon"}
            \/ adv[i].pending /\ adv[i].recent
            \/ adv[i].err

=============================================================================
