------------------------------ MODULE WallClock -----------------------------
(***************************************************************************)
(* Rentals of a whole number of days, counted on the customer's clock      *)
(* (RentalPeriod.for_days) and judged in elapsed time (BookingPolicy),     *)
(* across daylight-saving changes.  A zone is a clock that is moved        *)
(* forward once and back once; which instants a wall-clock time may mean   *)
(* is how Python's zoneinfo (PEP 495) reads it, and what the booking form  *)
(* refuses is how Django's DateTimeField does.                             *)
(***************************************************************************)
EXTENDS BookingPolicy, FiniteSetsExt

CONSTANTS
    Day,        \* wall-clock hours in a day
    Zones,      \* records: standard offset, shift, when moved forward and back
    FirstWall,  \* datetime.min, the first time the calendar can name
    LastWall    \* datetime.max, the last

ASSUME WallClockAssumption ==
    /\ Day \in Nat \ {0}
    /\ Zones \subseteq [standard : Int, shift : Nat, forward : Int, back : Int]
    /\ FirstWall \in Int
    /\ LastWall \in Int

OverflowError == [start |-> 0, end |-> -1]

Offset(zone, u) ==
    zone.standard + IF zone.forward <= u /\ u < zone.back THEN zone.shift ELSE 0

\* What the clock shows.
WallAt(zone, u) == u + Offset(zone, u)

\* The instants at which the clock shows this time: none in the hour that is
\* skipped, two in the hour that is repeated.
Readings(zone, wall) ==
    {u \in {wall - zone.standard, wall - zone.standard - zone.shift} : WallAt(zone, u) = wall}

\* astimezone(UTC): a repeated time is told apart by its fold; a skipped one is
\* read with the offset from before the change, or after it if fold is 1.
Normalised(zone, wall, fold) ==
    LET R == Readings(zone, wall) IN
    IF R = {} THEN wall - zone.standard - fold * zone.shift
              ELSE IF fold = 0 THEN Min(R) ELSE Max(R)

\* BookingForm.start: Django refuses skipped and repeated times.
FormAccepts(zone, wall) == Cardinality(Readings(zone, wall)) = 1

\* A time, or its conversion to UTC, that the calendar cannot name.
OutOfRange(zone, wall, fold) ==
    \E t \in {wall, Normalised(zone, wall, fold)} : t < FirstWall \/ t > LastWall

\* A bug: days are added to the UTC instant.
ElapsedDays(zone, wall, fold, days) ==
    LET start == Normalised(zone, wall, fold) IN
    [start |-> start, end |-> start + days * Day]

\* The days are added on the wall clock; the sum starts again at fold 0. Both
\* ends are then converted to UTC.
\* for_days checks that there are days, not how many.
ForDays(zone, wall, fold, days) ==
    LET end == wall + days * Day IN
    IF OutOfRange(zone, wall, fold) \/ OutOfRange(zone, end, 0) THEN OverflowError
    ELSE [start |-> Normalised(zone, wall, fold), end |-> Normalised(zone, end, 0)]
=============================================================================
