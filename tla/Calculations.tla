---------------------------- MODULE Calculations ----------------------------
(***************************************************************************)
(* The parts of the program that keep no state, each over every input of a *)
(* bounded set, against a reference definition of its own: the sweep line, *)
(* rentals of whole days, and the header of the health probe.  A behaviour *)
(* is one input; the sweep takes its turns on it, the others are computed  *)
(* at once.                                                                *)
(***************************************************************************)
EXTENDS PeakSweep, WallClock, HealthProbe

CONSTANTS
    Bookings,   \* names for the bookings of a schedule
    Instants,   \* the points of time of the schedules
    MaxFleet,   \* bound: the largest fleet asked about
    Walls,      \* bound: the wall-clock times asked for
    MaxDays,    \* bound: the longest rental asked for
    MaxEntries  \* bound: the entries of DJANGO_ALLOWED_HOSTS

ASSUME CalculationsAssumption ==
    /\ IsFiniteSet(Bookings)
    /\ Instants \subseteq Nat /\ IsFiniteSet(Instants)
    /\ Walls \subseteq Int
    /\ {MaxFleet, MaxDays, MaxEntries} \subseteq Nat

\* The default policy counts in whole days, and its allowance is "one hour": it
\* is for clocks that are moved by no more than that.
ASSUME LengthAssumption ==
    /\ \A zone \in Zones : zone.shift <= DaylightSavingAllowance
    /\ MaxDuration % Day = 0
    /\ MinDuration + DaylightSavingAllowance <= Day
    /\ 2 * DaylightSavingAllowance < Day

VARIABLE input

\* Some of the bookings are made, each for some period.
Schedules ==
    UNION {{{[id |-> b, period |-> p[b]] : b \in B} : p \in [B -> Period(Instants)]}
              : B \in SUBSET Bookings}

Sweeps == [schedule : Schedules, window : Period(Instants)]
Rentals == [zone : Zones, wall : Walls, fold : {0, 1}, days : 1 .. MaxDays]
Probes == [hosts : SeqOf(Entries, MaxEntries) \cup {Unset}]

vars == <<input, sweep>>

NoSweep == events = {} /\ inUse = 0 /\ peak = 0

Init ==
    \/ input \in Sweeps /\ StartSweep(input.schedule, input.window)
    \/ input \in Rentals \cup Probes /\ NoSweep

Sweep == Turn /\ UNCHANGED input

Finished == SweepEnds /\ UNCHANGED vars

Next == Sweep \/ Finished

Spec == Init /\ [][Next]_vars

Given(what) == what \in DOMAIN input

-----------------------------------------------------------------------------
InUseAt(t) == UsageAt(input.schedule, t)

LargestUse == Max({InUseAt(t) : t \in {u \in Instants : Covers(input.window, u)}})

\* The loop ends with the largest number of cars out at any instant of the
\* window, which is also what FleetSchedule.PeakUsage computes: a booking that
\* only touches the window does not count, and neither do two that hand over.
PeakIsLargestUse ==
    Given("schedule") /\ SweepEnds =>
        peak = LargestUse /\ peak = PeakUsage(input.schedule, input.window)

\* "Cars guaranteed free for the entire window": the most rentals of the whole
\* window that still fit at every one of its instants, and never less than 0.
RemainingIsMost ==
    Given("schedule") => \A n \in 0 .. MaxFleet :
        LET Fits(k) == \A t \in Instants : Covers(input.window, t) => InUseAt(t) + k <= n IN
        Remaining(n, input.schedule, input.window) = Max({0} \cup {k \in 0 .. n : Fits(k)})

-----------------------------------------------------------------------------
Rental == ForDays(input.zone, input.wall, input.fold, input.days)

\* for_days has returned a period.
Made == Rental # OverflowError

ReturnWall == input.wall + input.days * Day

\* The car is due when the clock shows the time of day it went out, whenever
\* it shows that time at all, and the first time it does; and it goes out at
\* the only instant that a pick-up time the form accepts can mean.
DueWhenTheClockShows ==
    Given("wall") /\ Made =>
        /\ Readings(input.zone, ReturnWall) # {} =>
              Rental.end = Min(Readings(input.zone, ReturnWall))
        /\ FormAccepts(input.zone, input.wall) =>
              Readings(input.zone, input.wall) = {Rental.start}

\* The policy's limit is in days: a rental of so many days is never refused
\* because the clocks went back, and a longer one never accepted because they
\* went forward.
DaysDecideTheLength ==
    Given("wall") /\ Made =>
        (Permits(Rental, Rental.start) <=> input.days * Day <= MaxDuration)

\* "How many days are allowed is a business rule, and BookingPolicy's to
\* decide" (BookingForm.days): no number of days fails before it is asked.
PolicyDecidesTheDays == Given("wall") => Made

-----------------------------------------------------------------------------
\* Whatever hosts a deployment allows, if it allows any, the probe is answered:
\* the container is not unhealthy for ever because of the name it asks for.
ProbeIsAccepted ==
    Given("hosts") =>
        LET allowed == AllowedHosts(input.hosts) IN
        allowed # {} => Accepts(allowed, AllowedHostHeader(input.hosts))
=============================================================================
