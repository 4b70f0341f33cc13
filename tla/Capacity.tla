------------------------------ MODULE Capacity ------------------------------
(***************************************************************************)
(* CapacityProfile (capacity.hpp): the bandwidth kinds of one domain and   *)
(* the effective and residual capacity derived from them.  Rates are       *)
(* integers in one unit.  Kinds and provenance matter only as far as a     *)
(* rate of kind UNKNOWN does not count.                                    *)
(***************************************************************************)
EXTENDS Integers

CONSTANTS
    Unknown,        \* a Rate of kind UNKNOWN, whatever its value
    NotARate,       \* a Rate of a known kind that is negative or not finite
    NoBound         \* std::nullopt

ASSUME RateAssumption ==
    {Unknown, NotARate, NoBound} \cap Int = {} /\ Unknown # NotARate

Layers == {"theoretical", "configured", "measured_service"}

Rate == Nat \cup {Unknown, NotARate}
Profile == [Layers \cup {"reserved"} -> Rate]

\* The finite, non-negative bounds of known kind.
Bounds(p) == {p[l] : l \in Layers} \cap Nat

Least(S) == CHOOSE x \in S : \A y \in S : x <= y

EffectiveBeforeReservation(p) == IF Bounds(p) = {} THEN NoBound ELSE Least(Bounds(p))

\* Mutant: the reservation is not taken off.
EffectiveUnreserved(p) == EffectiveBeforeReservation(p)

Effective(p) ==
    LET bound    == EffectiveBeforeReservation(p)
        reserved == IF p["reserved"] \in Nat THEN p["reserved"] ELSE 0
    IN  IF bound = NoBound THEN NoBound
        ELSE IF reserved > bound THEN NoBound
        ELSE bound - reserved

ReservationIsConsistent(p) ==
    \/ p["reserved"] = Unknown
    \/ /\ EffectiveBeforeReservation(p) # NoBound
       /\ p["reserved"] \in Nat
       /\ p["reserved"] <= EffectiveBeforeReservation(p)

\* CapacityProfile::valid, which create_domain and load insist on.
ProfileValid(p) ==
    /\ \A k \in DOMAIN p : p[k] # NotARate
    /\ ReservationIsConsistent(p)

\* Mutant: the residual is not clamped.
ResidualUnclamped(eff, offered) == IF eff = NoBound \/ offered < 0 THEN NoBound ELSE eff - offered

\* CapacityProfile::residual, given the effective capacity.
Residual(eff, offered) ==
    IF eff = NoBound \/ offered < 0 THEN NoBound
    ELSE IF eff < offered THEN 0 ELSE eff - offered
=============================================================================
