------------------------------- MODULE Booking ------------------------------
(* rentals/domain/booking.py: one reservation of one car of a type.  The     *)
(* status column is not kept apart from the cancellation time: the table's   *)
(* CHECK reservation_cancelled_at_matches_status makes one say the other.    *)
EXTENDS RentalPeriod

CONSTANTS
    Customers,   \* the people who ask: customers and staff
    Staff,       \* those of them with is_staff
    CarTypes,    \* the closed set of car types
    Keys,        \* well-formed idempotency keys
    Instants,    \* the points of time periods are made of
    Periods      \* the periods clients ask for

ASSUME BookingAssumption ==
    /\ Staff \subseteq Customers
    /\ Instants \subseteq Nat
    /\ Periods \subseteq Period(Instants)

NotCancelled == -1

BookingRecord ==
    [id : Nat, customer : Customers, carType : CarTypes, period : Periods,
     key : Keys, cancelledAt : Nat \cup {NotCancelled}]

IsCancelled(b) == b.cancelledAt # NotCancelled

\* Made with exactly these parameters.
IsFor(b, carType, period) == b.carType = carType /\ b.period = period

MayBeManagedBy(b, actor) == actor \in Staff \/ actor = b.customer

\* A bug: the new state is not saved.
ForgetToSave(b, now) == b

Cancelled(b, now) == [b EXCEPT !.cancelledAt = now]
=============================================================================
