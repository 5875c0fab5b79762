----------------------------- MODULE PeakSweep -----------------------------
(***************************************************************************)
(* The sweep line of FleetSchedule.peak_usage as the loop it is            *)
(* (rentals/domain/schedule.py): two events per booking that meets the     *)
(* window, clipped to it, taken in the order in which Python sorts the     *)
(* pairs (instant, delta), and a running total.  FleetSchedule says what   *)
(* it computes, and the proofs about the desk rest on that.                *)
(***************************************************************************)
EXTENDS FleetSchedule

VARIABLES
    events,  \* those the loop has still to take
    inUse,   \* in_use
    peak

sweep == <<events, inUse, peak>>

Pickup == 1
Return == -1

\* An event of a booking; the name stands for its place in the list.
Event(b, t, delta) == [of |-> b.id, at |-> t, delta |-> delta]

PickupOf(b, window) == Event(b, ClippedStart(b.period, window), Pickup)
ReturnOf(b, window) == Event(b, ClippedEnd(b.period, window), Return)

EventsOf(booked, window) ==
    {PickupOf(b, window) : b \in Within(booked, window)}
    \cup {ReturnOf(b, window) : b \in Within(booked, window)}

\* A bug: at one instant, pick-ups are sorted before returns.
PickUpsFirst(e, f) == e.at < f.at \/ (e.at = f.at /\ e.delta >= f.delta)

\* events.sort() puts e no later than f: by instant, a return before a pick-up.
SortsBefore(e, f) == e.at < f.at \/ (e.at = f.at /\ e.delta <= f.delta)

StartSweep(booked, window) ==
    /\ events = EventsOf(booked, window)
    /\ inUse = 0
    /\ peak = 0

\* One turn of the loop takes the next event, any of those that sort equal.
Turn ==
    \E e \in events :
        /\ \A f \in events : SortsBefore(e, f)
        /\ events' = events \ {e}
        /\ inUse' = inUse + e.delta
        /\ peak' = IF inUse' > peak THEN inUse' ELSE peak

SweepEnds == events = {}
=============================================================================
