---------------------------- MODULE LeaseTimers -----------------------------
(***************************************************************************)
(* pkg/prefixdelegation: which of the server's answers are leases, and the *)
(* timers such a lease runs on.  An IA_PD is one delegated prefix's; ok    *)
(* says that it carries no failure status.  Durations are in a unit in     *)
(* which the second the protocol counts in is at least two.                *)
(***************************************************************************)
EXTENDS Integers

CONSTANTS
    minDerivedT1,   \* the floor of a T1 the client chooses
    Infinite        \* infiniteLifetime

ASSUME TimersAssumption == minDerivedT1 \in Nat \ {0} /\ Infinite \in Nat /\ minDerivedT1 <= Infinite

Durations == {0} \cup 2..Infinite

IAPDType == [ok : BOOLEAN, T1 : Durations, T2 : Durations, pref : Durations, valid : Durations]

\* usableIAPD
Usable(ia) == ia.ok /\ ia.pref <= ia.valid /\ ~(ia.T2 > 0 /\ ia.T1 > ia.T2)

\* earlier: the first of two deadlines, 0 being none.
Earlier(a, b) == IF a = 0 \/ (b > 0 /\ b < a) THEN b ELSE a

\* recommendedTimers
RecT1(pref) == IF pref = Infinite THEN Infinite ELSE pref \div 2

RecT2(pref) == IF pref = Infinite THEN Infinite ELSE (pref \div 5) * 4

FlooredT1(ia) == IF RecT1(ia.pref) < minDerivedT1 THEN minDerivedT1 ELSE RecT1(ia.pref)

\* effectiveTimers' T1, given one left to the client.
DerivedT1(ia) ==
    LET t     == IF RecT1(ia.pref) < minDerivedT1 THEN minDerivedT1 ELSE RecT1(ia.pref)
        limit == Earlier(ia.T2, ia.valid)
    IN  IF limit > 0 /\ limit # Infinite /\ t >= limit THEN limit \div 2 ELSE t

\* effectiveTimers' T2, given one left to the client.
DerivedT2(ia, t1) ==
    LET t == CASE t1 = Infinite -> Infinite
               [] t1 # Infinite /\ RecT2(ia.pref) > t1 -> RecT2(ia.pref)
               [] OTHER -> t1 + t1 \div 2
    IN  IF ia.valid > t1 /\ t > ia.valid THEN ia.valid ELSE t

\* effectiveTimers: what the server set is used as it is.
T1(ia) == IF ia.T1 > 0 THEN ia.T1 ELSE DerivedT1(ia)

T2(ia) == IF ia.T2 > 0 THEN ia.T2 ELSE DerivedT2(ia, T1(ia))

=============================================================================
