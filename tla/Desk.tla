-------------------------------- MODULE Desk --------------------------------
(* What is asked of a reservation desk and how it answers, whichever ledger  *)
(* keeps its bookings: the arguments of reserve() and cancel(), their        *)
(* results and errors (rentals/domain/desk.py, rentals/domain/errors.py).    *)
EXTENDS Booking, FleetSchedule, BookingPolicy

CONSTANT Workers   \* the threads that handle requests, one request at a time

\* The business has no fleet of a type.
NoFleet == -1

ReserveRequest == [customer : Customers, carType : CarTypes, period : Periods, key : Keys]
CancelRequest == [actor : Customers, id : Nat]
NoRequest == [nothing |-> "asked"]
NoBooking == [nothing |-> "booked"]

DomainErrors ==
    {"InvalidRentalPeriod", "CarTypeNotFound", "NoAvailability", "FleetBusy",
     "IdempotencyConflict", "InvalidIdempotencyKey", "ReservationNotFound",
     "ReservationNotCancellable"}
\* A call returns a booking, raises a domain error, or raises something else.
Answers == DomainErrors \cup {"booked", "replayed", "cancelled", "ServerError"}

\* A replay answers the booking the key stands for, or refuses to.
ReplayResult(b, r) ==
    IF IsFor(b, r.carType, r.period) THEN "replayed" ELSE "IdempotencyConflict"

\* The booking under the key of a reserve request.
IsAbout(b, r) == b.customer = r.customer /\ b.key = r.key
=============================================================================
