---------------------------- MODULE FleetSchedule ---------------------------
(* rentals/domain/schedule.py: is there a car free for the whole window?     *)
(*                                                                           *)
(* The sweep line is stated here by what it computes.  After every event at  *)
(* or before t the running total is the number of pick-ups so far minus the  *)
(* number of returns so far; since returns sort first, the total right after *)
(* the pick-ups of an instant is a local maximum, and the largest total is   *)
(* the largest of those (or 0, the value the sweep starts from).             *)
(* A schedule's bookings are records with a period; they are told apart by   *)
(* their ids, so two bookings of one period count twice.                     *)
EXTENDS RentalPeriod, FiniteSetsExt

\* The bookings that share a moment with the window.
Within(booked, window) == {b \in booked : Overlaps(b.period, window)}

ClippedStart(p, window) == IF p.start < window.start THEN window.start ELSE p.start
ClippedEnd(p, window)   == IF p.end > window.end THEN window.end ELSE p.end

PickUpsBy(booked, window, t) ==
    {b \in Within(booked, window) : ClippedStart(b.period, window) <= t}
ReturnsBy(booked, window, t) ==
    {b \in Within(booked, window) : ClippedEnd(b.period, window) <= t}

\* The sweep's running total once every event at or before t is consumed.
InUseAfter(booked, window, t) ==
    Cardinality(PickUpsBy(booked, window, t)) - Cardinality(ReturnsBy(booked, window, t))

PickUpTimes(booked, window) ==
    {ClippedStart(b.period, window) : b \in Within(booked, window)}

PeakUsage(booked, window) ==
    Max({0} \cup {InUseAfter(booked, window, t) : t \in PickUpTimes(booked, window)})

CanAccommodate(fleetSize, booked, window) == PeakUsage(booked, window) < fleetSize

\* A bug: every booking that meets the window takes a car away.
RemainingByCount(fleetSize, booked, window) ==
    Max({0, fleetSize - Cardinality(Within(booked, window))})

\* Cars free for the entire window, never negative.
Remaining(fleetSize, booked, window) ==
    Max({0, fleetSize - PeakUsage(booked, window)})

\* The independent meaning of "in use": the bookings whose period covers t.
UsageAt(booked, t) == Cardinality({b \in booked : Covers(b.period, t)})
=============================================================================
