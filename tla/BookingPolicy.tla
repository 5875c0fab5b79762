---------------------------- MODULE BookingPolicy ---------------------------
(* The commercial limits of rentals/domain/policy.py on a new booking.       *)
EXTENDS RentalPeriod

CONSTANTS
    MinDuration,              \* policy.min_duration
    MaxDuration,              \* policy.max_duration
    MaxAdvance,               \* policy.max_advance
    StartGrace,               \* policy.start_grace
    DaylightSavingAllowance   \* _DAYLIGHT_SAVING_ALLOWANCE

ASSUME PolicyAssumption ==
    /\ MinDuration \in Nat
    /\ MaxDuration \in Nat
    /\ MaxAdvance \in Nat
    /\ StartGrace \in Nat
    /\ DaylightSavingAllowance \in Nat

\* A bug: the clocks going back count against the customer.
WithoutAllowance(p, now) ==
    /\ p.start >= now - StartGrace
    /\ Duration(p) >= MinDuration
    /\ Duration(p) <= MaxDuration
    /\ p.start - now <= MaxAdvance

\* validate() raises InvalidRentalPeriod unless all four limits hold.
Permits(p, now) ==
    /\ p.start >= now - StartGrace
    /\ Duration(p) >= MinDuration
    /\ Duration(p) <= MaxDuration + DaylightSavingAllowance
    /\ p.start - now <= MaxAdvance
=============================================================================
