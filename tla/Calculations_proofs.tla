------------------------- MODULE Calculations_proofs ------------------------
(* Why the loop of the sweep computes the peak, and the remaining cars, the  *)
(* days and the probe come out right, for every input.                       *)
EXTENDS Calculations, FleetSchedule_proofs

-----------------------------------------------------------------------------
(* The loop *)

\* The bookings whose pick-up, and those whose return, is not among the events E.
PickedUp(B, w, E) == {b \in Within(B, w) : PickupOf(b, w) \notin E}
Returned(B, w, E) == {b \in Within(B, w) : ReturnOf(b, w) \notin E}

\* What is taken sorts before what is not, and in_use counts it.
CountInv(B, w) ==
    /\ events \subseteq EventsOf(B, w)
    /\ \A e \in EventsOf(B, w) \ events, f \in events : SortsBefore(e, f)
    /\ inUse = Cardinality(PickedUp(B, w, events)) - Cardinality(Returned(B, w, events))

\* The peak is never ahead of the bookings, and never behind an instant whose
\* events have all been taken.
PeakInv(B, w) ==
    /\ peak \in Nat
    /\ inUse <= peak
    /\ peak <= PeakUsage(B, w)
    /\ \A t \in PickUpTimes(B, w) :
          (\A f \in events : t < f.at) => InUseAfter(B, w, t) <= peak

SweepInv ==
    /\ input \in Sweeps \cup Rentals \cup Probes
    /\ IF input \in Sweeps
       THEN CountInv(input.schedule, input.window) /\ PeakInv(input.schedule, input.window)
       ELSE events = {}

\* A schedule as the loop gets it.
Listed(B) ==
    /\ IsFiniteSet(B)
    /\ \A b \in B : b.period \in Period(Int)
    /\ \A b, c \in B : b.id = c.id => b = c

LEMMA EventFields ==
    ASSUME NEW B, Listed(B), NEW w \in Period(Int)
    PROVE  /\ IsFiniteSet(Within(B, w))
           /\ \A b \in Within(B, w) :
                 /\ PickupOf(b, w).at = ClippedStart(b.period, w)
                 /\ ReturnOf(b, w).at = ClippedEnd(b.period, w)
                 /\ PickupOf(b, w).delta = 1 /\ ReturnOf(b, w).delta = -1
                 /\ ClippedStart(b.period, w) \in Int /\ ClippedEnd(b.period, w) \in Int
                 /\ ClippedStart(b.period, w) \in PickUpTimes(B, w)
                 /\ PickupOf(b, w) \in EventsOf(B, w) /\ ReturnOf(b, w) \in EventsOf(B, w)
           /\ \A b, c \in Within(B, w) :
                 /\ PickupOf(b, w) = PickupOf(c, w) => b = c
                 /\ ReturnOf(b, w) = ReturnOf(c, w) => b = c
                 /\ PickupOf(b, w) # ReturnOf(c, w)
           /\ \A e \in EventsOf(B, w) :
                 /\ e.at \in Int /\ e.delta \in {1, -1}
                 /\ \E b \in Within(B, w) : e = PickupOf(b, w) \/ e = ReturnOf(b, w)
  <1>1. Within(B, w) \subseteq B
    BY DEF Within
  <1>2. IsFiniteSet(Within(B, w))
    BY <1>1, FS_Subset DEF Listed
  <1>3. ASSUME NEW b \in Within(B, w)
        PROVE  /\ PickupOf(b, w).at = ClippedStart(b.period, w)
               /\ ReturnOf(b, w).at = ClippedEnd(b.period, w)
               /\ PickupOf(b, w).delta = 1 /\ ReturnOf(b, w).delta = -1
               /\ PickupOf(b, w).of = b.id /\ ReturnOf(b, w).of = b.id
    BY DEF PickupOf, ReturnOf, Event, Pickup, Return
  <1>4. ASSUME NEW b \in Within(B, w)
        PROVE  /\ ClippedStart(b.period, w) \in Int /\ ClippedEnd(b.period, w) \in Int
               /\ ClippedStart(b.period, w) \in PickUpTimes(B, w)
               /\ PickupOf(b, w) \in EventsOf(B, w) /\ ReturnOf(b, w) \in EventsOf(B, w)
    <2>1. b.period \in Period(Int)
      BY <1>1 DEF Listed
    <2>2. ClippedStart(b.period, w) \in Int /\ ClippedEnd(b.period, w) \in Int
      BY <2>1 DEF Period, ClippedStart, ClippedEnd
    <2> QED
      BY <2>2 DEF EventsOf, PickUpTimes
  <1>5. ASSUME NEW b \in Within(B, w), NEW c \in Within(B, w)
        PROVE  /\ PickupOf(b, w) = PickupOf(c, w) => b = c
               /\ ReturnOf(b, w) = ReturnOf(c, w) => b = c
               /\ PickupOf(b, w) # ReturnOf(c, w)
    <2>1. b.id = c.id => b = c
      BY <1>1 DEF Listed
    <2> QED
      BY <2>1, <1>3
  <1>6. ASSUME NEW e \in EventsOf(B, w)
        PROVE  /\ e.at \in Int /\ e.delta \in {1, -1}
               /\ \E b \in Within(B, w) : e = PickupOf(b, w) \/ e = ReturnOf(b, w)
    <2>1. PICK b \in Within(B, w) : e = PickupOf(b, w) \/ e = ReturnOf(b, w)
      BY DEF EventsOf
    <2> QED
      BY <2>1, <1>3, <1>4
  <1> QED
    BY <1>2, <1>3, <1>4, <1>5, <1>6

\* A turn takes one event: the pick-up of a booking, or its return.
LEMMA TurnTakesOne ==
    ASSUME NEW B, Listed(B), NEW w \in Period(Int), NEW E \in SUBSET EventsOf(B, w), NEW e \in E
    PROVE  LET Out(D) == Cardinality(PickedUp(B, w, D)) - Cardinality(Returned(B, w, D))
           IN  Out(E) \in Int /\ Out(E \ {e}) = Out(E) + e.delta
  <1> DEFINE P(D) == PickedUp(B, w, D)
             R(D) == Returned(B, w, D)
             D == E \ {e}
  <1>1. IsFiniteSet(P(E)) /\ IsFiniteSet(R(E))
    BY EventFields, FS_Subset DEF PickedUp, Returned
  <1>2. Cardinality(P(E)) \in Nat /\ Cardinality(R(E)) \in Nat
    BY <1>1, FS_CardinalityType
  <1>3. PICK b \in Within(B, w) : e = PickupOf(b, w) \/ e = ReturnOf(b, w)
    BY EventFields
  <1>4. CASE e = PickupOf(b, w)
    <2>1. b \notin P(E) /\ e.delta = 1 /\ P(D) = P(E) \cup {b} /\ R(D) = R(E)
      BY <1>3, <1>4, EventFields DEF PickedUp, Returned
    <2> HIDE DEF P, R, D
    <2>2. Cardinality(P(D)) = Cardinality(P(E)) + 1
      BY <1>1, <2>1, FS_AddElement
    <2> QED
      BY <1>2, <2>1, <2>2 DEF P, R, D
  <1>5. CASE e = ReturnOf(b, w)
    <2>1. b \notin R(E) /\ e.delta = -1 /\ R(D) = R(E) \cup {b} /\ P(D) = P(E)
      BY <1>3, <1>5, EventFields DEF PickedUp, Returned
    <2> HIDE DEF P, R, D
    <2>2. Cardinality(R(D)) = Cardinality(R(E)) + 1
      BY <1>1, <2>1, FS_AddElement
    <2> QED
      BY <1>2, <2>1, <2>2 DEF P, R, D
  <1> QED
    BY <1>3, <1>4, <1>5

\* When nothing after an instant t is taken, and of the events up to t at most
\* some pick-ups are not, the total is at most that of the instant, and equal
\* to it if all of them are taken.
LEMMA TotalAtInstant ==
    ASSUME NEW B, Listed(B), NEW w \in Period(Int), NEW E \in SUBSET EventsOf(B, w),
           NEW t \in Int, \A g \in EventsOf(B, w) \ E : g.at <= t
    PROVE  LET out == Cardinality(PickedUp(B, w, E)) - Cardinality(Returned(B, w, E)) IN
           /\ (\A f \in E : t < f.at) => out = InUseAfter(B, w, t)
           /\ (\A f \in E : t < f.at \/ (f.at = t /\ f.delta = 1)) => out <= InUseAfter(B, w, t)
  <1>1. /\ PickedUp(B, w, E) \subseteq PickUpsBy(B, w, t)
        /\ Returned(B, w, E) \subseteq ReturnsBy(B, w, t)
    BY EventFields DEF PickedUp, Returned, PickUpsBy, ReturnsBy
  <1>2. (\A f \in E : t < f.at \/ (f.at = t /\ f.delta = 1))
           => ReturnsBy(B, w, t) = Returned(B, w, E)
    <2>1. ASSUME \A f \in E : t < f.at \/ (f.at = t /\ f.delta = 1),
                 NEW b \in ReturnsBy(B, w, t)
          PROVE  b \in Returned(B, w, E)
      BY <2>1, EventFields DEF ReturnsBy, Returned
    <2> QED
      BY <1>1, <2>1
  <1>3. (\A f \in E : t < f.at) => PickUpsBy(B, w, t) = PickedUp(B, w, E)
    <2>1. ASSUME \A f \in E : t < f.at, NEW b \in PickUpsBy(B, w, t)
          PROVE  b \in PickedUp(B, w, E)
      BY <2>1, EventFields DEF PickUpsBy, PickedUp
    <2> QED
      BY <1>1, <2>1
  <1>4. IsFiniteSet(PickUpsBy(B, w, t)) /\ IsFiniteSet(ReturnsBy(B, w, t))
    BY EventFields, FS_Subset DEF PickUpsBy, ReturnsBy
  <1>5. /\ Cardinality(PickUpsBy(B, w, t)) \in Nat /\ Cardinality(ReturnsBy(B, w, t)) \in Nat
        /\ Cardinality(PickedUp(B, w, E)) \in Nat
        /\ Cardinality(PickedUp(B, w, E)) <= Cardinality(PickUpsBy(B, w, t))
    BY <1>1, <1>4, FS_Subset, FS_CardinalityType
  <1> QED
    BY <1>2, <1>3, <1>5 DEF InUseAfter

\* The loop starts with nothing taken.
LEMMA SweepStarts ==
    ASSUME NEW B, Listed(B), NEW w \in Period(Int), StartSweep(B, w)
    PROVE  CountInv(B, w) /\ PeakInv(B, w)
  <1>1. events = EventsOf(B, w) /\ inUse = 0 /\ peak = 0
    BY DEF StartSweep
  <1>2. PickedUp(B, w, events) = {} /\ Returned(B, w, events) = {}
    BY <1>1, EventFields DEF PickedUp, Returned
  <1>3. CountInv(B, w)
    BY <1>1, <1>2, FS_EmptySet DEF CountInv
  <1>4. PeakUsage(B, w) \in Nat
    BY PeakIsMax DEF Listed
  <1>5. ASSUME NEW t \in PickUpTimes(B, w) PROVE ~ \A f \in events : t < f.at
    <2>1. PICK b \in Within(B, w) : t = ClippedStart(b.period, w)
      BY DEF PickUpTimes
    <2>2. PickupOf(b, w) \in events /\ PickupOf(b, w).at = t /\ t \in Int
      BY <1>1, <2>1, EventFields
    <2> QED
      BY <2>2
  <1>6. PeakInv(B, w)
    BY <1>1, <1>4, <1>5 DEF PeakInv
  <1> QED
    BY <1>3, <1>6

LEMMA TurnKeepsCount ==
    ASSUME NEW B, Listed(B), NEW w \in Period(Int), CountInv(B, w), Turn
    PROVE  CountInv(B, w)' /\ inUse \in Int
  <1>1. PICK e \in events :
            /\ \A f \in events : SortsBefore(e, f)
            /\ events' = events \ {e}
            /\ inUse' = inUse + e.delta
    BY DEF Turn
  <1>2. events' \subseteq EventsOf(B, w)
    BY <1>1 DEF CountInv
  <1>3. \A g \in EventsOf(B, w) \ events', f \in events' : SortsBefore(g, f)
    BY <1>1 DEF CountInv
  <1>4. /\ inUse' = Cardinality(PickedUp(B, w, events')) - Cardinality(Returned(B, w, events'))
        /\ inUse \in Int
    BY <1>1, TurnTakesOne DEF CountInv
  <1> QED
    BY <1>2, <1>3, <1>4 DEF CountInv

\* A turn that raises the peak is a pick-up, and all returns before it are taken.
LEMMA TurnKeepsPeak ==
    ASSUME NEW B, Listed(B), NEW w \in Period(Int), CountInv(B, w), PeakInv(B, w), Turn
    PROVE  PeakInv(B, w)'
  <1>1. PICK e \in events :
            /\ \A f \in events : SortsBefore(e, f)
            /\ events' = events \ {e}
            /\ inUse' = inUse + e.delta
            /\ peak' = IF inUse' > peak THEN inUse' ELSE peak
    BY DEF Turn
  <1>2. CountInv(B, w)' /\ inUse \in Int
    BY TurnKeepsCount
  <1>3. e.at \in Int /\ e.delta \in {1, -1} /\ peak \in Nat /\ inUse <= peak
    BY <1>1, EventFields DEF CountInv, PeakInv
  <1>4. \A g \in EventsOf(B, w) \ events' : g.at <= e.at /\ g.at \in Int
    <2>1. \A g \in EventsOf(B, w) \ events : SortsBefore(g, e)
      BY DEF CountInv
    <2> QED
      BY <1>1, <1>3, <2>1, EventFields DEF SortsBefore
  <1>5. peak' \in Nat /\ inUse' <= peak'
    BY <1>1, <1>2, <1>3
  <1>6. PeakUsage(B, w) \in Nat
    BY PeakIsMax DEF Listed
  <1>7. peak' <= PeakUsage(B, w)
    <2>1. CASE e.delta = -1
      BY <1>1, <1>2, <1>3, <2>1 DEF PeakInv
    <2>2. CASE e.delta = 1
      <3>1. e.at \in PickUpTimes(B, w)
        BY <1>1, <2>2, EventFields DEF CountInv
      <3>2. \A f \in events' : e.at < f.at \/ (f.at = e.at /\ f.delta = 1)
        BY <1>1, <2>2, EventFields DEF CountInv, SortsBefore
      <3>3. inUse' <= InUseAfter(B, w, e.at)
        BY <1>2, <1>3, <1>4, <3>2, TotalAtInstant DEF CountInv
      <3>4. InUseAfter(B, w, e.at) \in Nat /\ InUseAfter(B, w, e.at) <= PeakUsage(B, w)
        BY <3>1, PeakIsMax DEF Listed
      <3> QED
        BY <1>1, <1>2, <1>3, <1>6, <3>3, <3>4 DEF PeakInv
    <2> QED
      BY <1>3, <2>1, <2>2
  <1>8. ASSUME NEW t \in PickUpTimes(B, w), \A f \in events' : t < f.at
        PROVE  InUseAfter(B, w, t) <= peak'
    <2>1. InUseAfter(B, w, t) \in Nat /\ t \in Int
      BY PeakIsMax, PickUpsAreCovered DEF Listed
    <2>2. CASE t < e.at
      <3>1. \A f \in events : t < f.at
        BY <1>1, <1>8, <2>2
      <3> QED
        BY <1>1, <1>2, <1>3, <2>1, <3>1 DEF PeakInv
    <2>3. CASE e.at <= t
      <3>1. t <= e.at
        <4>1. PICK b \in Within(B, w) : t = ClippedStart(b.period, w)
          BY DEF PickUpTimes
        <4>2. PickupOf(b, w) \in EventsOf(B, w) /\ PickupOf(b, w).at = t
          BY <4>1, EventFields
        <4> QED
          BY <1>4, <1>8, <2>1, <4>2
      <3>2. t = e.at
        BY <1>3, <2>1, <2>3, <3>1
      <3>3. inUse' = InUseAfter(B, w, t)
        BY <1>2, <1>4, <1>8, <2>1, <3>2, TotalAtInstant DEF CountInv
      <3> QED
        BY <1>5, <3>3
    <2> QED
      BY <1>3, <2>1, <2>2, <2>3
  <1> QED
    BY <1>5, <1>7, <1>8 DEF PeakInv

\* When all events are taken the loop has computed the peak.
LEMMA SweepEndsAtPeak ==
    ASSUME NEW B, Listed(B), NEW w \in Period(Int), PeakInv(B, w), SweepEnds
    PROVE  peak = PeakUsage(B, w)
  <1>1. \A t \in PickUpTimes(B, w) : InUseAfter(B, w, t) <= peak
    BY DEF PeakInv, SweepEnds
  <1>2. PeakUsage(B, w) <= peak /\ PeakUsage(B, w) \in Nat
    BY <1>1, PeakIsMax DEF PeakInv, Listed
  <1> QED
    BY <1>2 DEF PeakInv

-----------------------------------------------------------------------------
(* The inputs of the sweep *)

LEMMA InputKinds ==
    /\ \A i \in Sweeps : /\ "schedule" \in DOMAIN i
                         /\ "wall" \notin DOMAIN i /\ "hosts" \notin DOMAIN i
    /\ \A i \in Rentals : /\ "wall" \in DOMAIN i
                          /\ "schedule" \notin DOMAIN i /\ "hosts" \notin DOMAIN i
    /\ \A i \in Probes : /\ "hosts" \in DOMAIN i
                         /\ "schedule" \notin DOMAIN i /\ "wall" \notin DOMAIN i
  BY DEF Sweeps, Rentals, Probes

\* A schedule has one booking for each of finitely many names.
LEMMA SchedulesAreListed ==
    ASSUME NEW B \in Schedules
    PROVE  Listed(B) /\ \A b \in B : b.period \in Period(Instants)
  <1>1. PICK N \in SUBSET Bookings : \E p \in [N -> Period(Instants)] :
            B = {[id |-> b, period |-> p[b]] : b \in N}
    BY DEF Schedules
  <1>2. PICK p \in [N -> Period(Instants)] : B = {[id |-> b, period |-> p[b]] : b \in N}
    BY <1>1
  <1>3. \A b \in B : b.id \in N /\ b.period = p[b.id] /\ b = [id |-> b.id, period |-> p[b.id]]
    BY <1>2
  <1>4. \A b, c \in B : b.id = c.id => b = c
    BY <1>3
  <1>5. \A b \in B : b.period \in Period(Instants) /\ b.period \in Period(Int)
    BY <1>3, CalculationsAssumption DEF Period
  <1>6. IsFiniteSet(B)
    <2> DEFINE f == [b \in B |-> b.id]
    <2>1. f \in Injection(B, N)
      BY <1>3, <1>4 DEF Injection, IsInjective
    <2>2. IsFiniteSet(N)
      BY FS_Subset, CalculationsAssumption
    <2> HIDE DEF f
    <2> QED
      BY <2>1, <2>2, FS_Injection
  <1> QED
    BY <1>4, <1>5, <1>6 DEF Listed

LEMMA SweepInputs ==
    ASSUME NEW i \in Sweeps
    PROVE  /\ Listed(i.schedule)
           /\ i.window \in Period(Instants) /\ i.window \in Period(Int)
  <1>1. i.schedule \in Schedules /\ i.window \in Period(Instants)
    BY DEF Sweeps
  <1>2. i.window \in Period(Int)
    <2>1. Instants \subseteq Int
      BY CalculationsAssumption
    <2> QED
      BY <1>1, <2>1 DEF Period
  <1> QED
    BY <1>1, <1>2, SchedulesAreListed

LEMMA MaxIs ==
    ASSUME NEW S, S \subseteq Int, NEW m \in S, \A n \in S : n <= m
    PROVE  Max(S) = m
  <1>1. \A n \in S : (\A k \in S : n >= k) => n = m
    OBVIOUS
  <1> QED
    BY <1>1 DEF Max

\* The largest number of cars out in the window is the peak: it is attained at
\* an instant of the window at which something starts.
LEMMA LargestIsPeak ==
    ASSUME input \in Sweeps
    PROVE  LargestUse = PeakUsage(input.schedule, input.window)
  <1> DEFINE B == input.schedule
             w == input.window
             S == {InUseAt(t) : t \in {u \in Instants : Covers(w, u)}}
  <1>1. Listed(B) /\ w \in Period(Int) /\ w \in Period(Instants)
    BY SweepInputs
  <1>2. \A b \in B : b.period.start \in Instants
    BY SchedulesAreListed DEF Sweeps, Period
  <1>3. PeakUsage(B, w) \in Nat
    BY <1>1, PeakIsMax DEF Listed
  <1>4. \A n \in S : n \in Nat /\ n <= PeakUsage(B, w)
    BY <1>1, PeakIsEnough, SweepCountsUsage, CalculationsAssumption DEF Listed, InUseAt
  <1>5. PeakUsage(B, w) \in S
    <2>1. PICK t \in Int : /\ t = w.start \/ \E b \in B : t = b.period.start
                           /\ Covers(w, t)
                           /\ PeakUsage(B, w) <= UsageAt(B, t)
      BY <1>1, PeakIsReached DEF Listed
    <2>2. t \in Instants
      BY <1>1, <1>2, <2>1 DEF Period
    <2>3. UsageAt(B, t) \in S
      BY <2>1, <2>2 DEF InUseAt
    <2>4. UsageAt(B, t) = PeakUsage(B, w)
      BY <1>3, <1>4, <2>1, <2>3
    <2> QED
      BY <2>3, <2>4
  <1> HIDE DEF S
  <1>6. Max(S) = PeakUsage(B, w)
    BY <1>4, <1>5, MaxIs
  <1> QED
    BY <1>6 DEF S, LargestUse

-----------------------------------------------------------------------------
(* The invariants *)

LEMMA SweepInvInit == Init => SweepInv
  <1> SUFFICES ASSUME Init PROVE SweepInv
    OBVIOUS
  <1>1. CASE input \in Sweeps /\ StartSweep(input.schedule, input.window)
    BY <1>1, SweepInputs, SweepStarts DEF SweepInv
  <1>2. CASE input \in Rentals \cup Probes /\ NoSweep
    BY <1>2, InputKinds DEF SweepInv, NoSweep
  <1> QED
    BY <1>1, <1>2 DEF Init

LEMMA SweepInvNext == SweepInv /\ [Next]_vars => SweepInv'
  <1> SUFFICES ASSUME SweepInv, [Next]_vars PROVE SweepInv'
    OBVIOUS
  <1>1. CASE UNCHANGED vars
    BY <1>1 DEF SweepInv, CountInv, PeakInv, vars, sweep
  <1>2. CASE Sweep
    <2>1. Turn /\ input' = input
      BY <1>2 DEF Sweep
    <2>2. CASE input \in Sweeps
      <3>1. PICK B, w : B = input.schedule /\ w = input.window
        OBVIOUS
      <3>2. Listed(B) /\ w \in Period(Int) /\ CountInv(B, w) /\ PeakInv(B, w)
        BY <2>2, <3>1, SweepInputs DEF SweepInv
      <3>3. CountInv(B, w)' /\ PeakInv(B, w)'
        BY <2>1, <3>2, TurnKeepsCount, TurnKeepsPeak
      <3>4. input'.schedule = B /\ input'.window = w
        BY <2>1, <3>1
      <3> QED
        BY <2>1, <2>2, <3>3, <3>4 DEF SweepInv, CountInv, PeakInv
    <2>3. CASE input \notin Sweeps
      BY <2>1, <2>3 DEF SweepInv, Turn
    <2> QED
      BY <2>2, <2>3
  <1> QED
    BY <1>1, <1>2 DEF Next, Finished

LEMMA SweepInvariant == Spec => []SweepInv
  BY SweepInvInit, SweepInvNext, PTL DEF Spec

\* The loop of peak_usage ends with the peak, and the peak is the largest number
\* of cars that are out at an instant of the window: for any bookings, in
\* whatever order the sort leaves events that compare equal.
THEOREM LoopComputesThePeak == Spec => []PeakIsLargestUse
  <1>1. SweepInv => PeakIsLargestUse
    <2> SUFFICES ASSUME SweepInv, Given("schedule"), SweepEnds
                 PROVE  peak = LargestUse /\ peak = PeakUsage(input.schedule, input.window)
      BY DEF PeakIsLargestUse
    <2>1. input \in Sweeps
      BY InputKinds DEF SweepInv, Given
    <2>2. peak = PeakUsage(input.schedule, input.window)
      BY <2>1, SweepInputs, SweepEndsAtPeak DEF SweepInv
    <2> QED
      BY <2>1, <2>2, LargestIsPeak
  <1> QED
    BY <1>1, SweepInvariant, PTL

\* The cars said to remain are the most that fit at every instant of the window.
THEOREM RemainingFits == Spec => []RemainingIsMost
  <1>1. SweepInv => RemainingIsMost
    <2> SUFFICES ASSUME input \in Sweeps, NEW n \in 0 .. MaxFleet
                 PROVE  LET Fits(k) == \A t \in Instants :
                                          Covers(input.window, t) => InUseAt(t) + k <= n
                        IN  Remaining(n, input.schedule, input.window)
                               = Max({0} \cup {k \in 0 .. n : Fits(k)})
      BY InputKinds DEF RemainingIsMost, SweepInv, Given
    <2> DEFINE B == input.schedule
               w == input.window
               Fits(k) == \A t \in Instants : Covers(w, t) => InUseAt(t) + k <= n
               T == {0} \cup {k \in 0 .. n : Fits(k)}
    <2>1. Listed(B) /\ w \in Period(Int) /\ w \in Period(Instants)
      BY SweepInputs
    <2>2. PeakUsage(B, w) \in Nat /\ n \in Nat
      BY <2>1, PeakIsMax, CalculationsAssumption DEF Listed
    <2>3. \A t \in Int : Covers(w, t) => UsageAt(B, t) \in Nat /\ UsageAt(B, t) <= PeakUsage(B, w)
      BY <2>1, PeakIsEnough, SweepCountsUsage DEF Listed
    <2>4. PICK t \in Instants : Covers(w, t) /\ PeakUsage(B, w) = UsageAt(B, t)
      <3>1. PICK t \in Int : /\ t = w.start \/ \E b \in B : t = b.period.start
                             /\ Covers(w, t)
                             /\ PeakUsage(B, w) <= UsageAt(B, t)
        BY <2>1, PeakIsReached DEF Listed
      <3>2. \A b \in B : b.period.start \in Instants
        BY SchedulesAreListed DEF Sweeps, Period
      <3>3. t \in Instants
        BY <2>1, <3>1, <3>2 DEF Period
      <3> QED
        BY <2>2, <2>3, <3>1, <3>3
    <2>5. ASSUME NEW k \in 0 .. n PROVE Fits(k) <=> PeakUsage(B, w) + k <= n
      <3>1. ASSUME Fits(k) PROVE PeakUsage(B, w) + k <= n
        BY <2>4, <3>1 DEF InUseAt
      <3>2. ASSUME PeakUsage(B, w) + k <= n, NEW u \in Instants, Covers(w, u)
            PROVE  InUseAt(u) + k <= n
        BY <2>2, <2>3, <3>2, CalculationsAssumption DEF InUseAt
      <3> QED
        BY <3>1, <3>2
    <2>6. Remaining(n, B, w) = IF PeakUsage(B, w) < n THEN n - PeakUsage(B, w) ELSE 0
      BY <2>2, RemainingIs
    <2> HIDE DEF Fits
    <2>7. Remaining(n, B, w) \in T /\ \A k \in T : k <= Remaining(n, B, w)
      BY <2>2, <2>5, <2>6
    <2>8. T \subseteq Int
      BY <2>2
    <2> HIDE DEF T
    <2>9. Max(T) = Remaining(n, B, w)
      BY <2>7, <2>8, MaxIs
    <2> QED
      BY <2>9 DEF T, Fits
  <1> QED
    BY <1>1, SweepInvariant, PTL

-----------------------------------------------------------------------------
(* The clock *)

LEMMA OneOfTwo ==
    ASSUME NEW a \in Int, NEW b \in Int, NEW R \in SUBSET {a, b}, R # {}
    PROVE  Min(R) \in R /\ Max(R) \in R
  <1>1. R = {a} \/ R = {b} \/ R = {a, b}
    OBVIOUS
  <1>2. \E x \in R : \A y \in R : x <= y
    BY <1>1
  <1>3. \E x \in R : \A y \in R : x >= y
    BY <1>1
  <1> QED
    BY <1>2, <1>3 DEF Min, Max

\* A time is read with the offset before a change, or with the one after it.
LEMMA ReadWithAnOffset ==
    ASSUME NEW z \in Zones, NEW wall \in Int, NEW fold \in {0, 1}
    PROVE  /\ Normalised(z, wall, fold) \in {wall - z.standard, wall - z.standard - z.shift}
           /\ z.standard \in Int /\ z.shift \in Nat
           /\ Readings(z, wall) # {} => Normalised(z, wall, fold) \in Readings(z, wall)
  <1>1. z.standard \in Int /\ z.shift \in Nat
    BY WallClockAssumption
  <1> DEFINE a == wall - z.standard
             b == wall - z.standard - z.shift
             R == Readings(z, wall)
  <1>2. R \subseteq {a, b} /\ a \in Int /\ b \in Int
    BY <1>1 DEF Readings
  <1>3. CASE R = {}
    BY <1>1, <1>3 DEF Normalised
  <1>4. CASE R # {}
    <2>1. Min(R) \in R /\ Max(R) \in R
      <3> HIDE DEF R, a, b
      <3> QED
        BY <1>2, <1>4, OneOfTwo
    <2> QED
      BY <1>1, <1>2, <1>4, <2>1 DEF Normalised
  <1> QED
    BY <1>1, <1>3, <1>4

LEMMA RentalIs ==
    ASSUME input \in Rentals, Made
    PROVE  /\ input.zone \in Zones /\ input.wall \in Int /\ input.fold \in {0, 1}
           /\ input.days \in Nat \ {0} /\ ReturnWall \in Int
           /\ Rental.start = Normalised(input.zone, input.wall, input.fold)
           /\ Rental.end = Normalised(input.zone, ReturnWall, 0)
  <1>1. /\ input.zone \in Zones /\ input.wall \in Int /\ input.fold \in {0, 1}
        /\ input.days \in Nat \ {0}
    <2>1. Walls \subseteq Int /\ MaxDays \in Nat
      BY CalculationsAssumption
    <2>2. 1 .. MaxDays \subseteq Nat \ {0}
      BY <2>1
    <2> QED
      BY <2>1, <2>2 DEF Rentals
  <1>2. ReturnWall \in Int
    BY <1>1, WallClockAssumption DEF ReturnWall
  <1>3. Rental = [start |-> Normalised(input.zone, input.wall, input.fold),
                  end |-> Normalised(input.zone, ReturnWall, 0)]
    BY DEF Made, Rental, ForDays, ReturnWall
  <1> QED
    BY <1>1, <1>2, <1>3

LEMMA RentalInputs ==
    ASSUME SweepInv, Given("wall")
    PROVE  input \in Rentals
  BY InputKinds DEF SweepInv, Given

\* The car is due at the first instant at which the clock shows the time of day
\* it went out, unless that time is skipped; a pick-up time the form accepts has
\* one reading, and that is when it goes out.
THEOREM DueOnTheClock == Spec => []DueWhenTheClockShows
  <1>1. SweepInv => DueWhenTheClockShows
    <2> SUFFICES ASSUME SweepInv, Given("wall"), Made
                 PROVE  /\ Readings(input.zone, ReturnWall) # {} =>
                              Rental.end = Min(Readings(input.zone, ReturnWall))
                        /\ FormAccepts(input.zone, input.wall) =>
                              Readings(input.zone, input.wall) = {Rental.start}
      BY DEF DueWhenTheClockShows
    <2>1. input \in Rentals
      BY RentalInputs
    <2> DEFINE R == Readings(input.zone, input.wall)
    <2>2. Readings(input.zone, ReturnWall) # {} =>
             Rental.end = Min(Readings(input.zone, ReturnWall))
      BY <2>1, RentalIs DEF Normalised
    <2>3. ASSUME FormAccepts(input.zone, input.wall) PROVE R = {Rental.start}
      <3>1. IsFiniteSet(R)
        <4> DEFINE a == input.wall - input.zone.standard
                   b == input.wall - input.zone.standard - input.zone.shift
        <4>1. R \subseteq {a} \cup {b}
          BY DEF Readings
        <4>2. IsFiniteSet({a} \cup {b})
          <5> HIDE DEF a, b
          <5> QED
            BY FS_Singleton, FS_AddElement
        <4> HIDE DEF R, a, b
        <4> QED
          BY <4>1, <4>2, FS_Subset
      <3>2. PICK x : R = {x}
        <4> HIDE DEF R
        <4> QED
          BY <2>3, <3>1, FS_Singleton DEF FormAccepts, R
      <3>3. Rental.start \in R
        BY <2>1, <3>2, RentalIs, ReadWithAnOffset
      <3> QED
        BY <3>2, <3>3
    <2> QED
      BY <2>2, <2>3
  <1> QED
    BY <1>1, SweepInvariant, PTL

\* A whole number of days is at most a limit of whole days, or a day longer.
LEMMA WholeDays ==
    ASSUME NEW d \in Nat, NEW m \in Nat, NEW day \in Nat \ {0}, m % day = 0
    PROVE  /\ d * day \in Nat
           /\ m < d * day => m + day <= d * day
           /\ d # 0 => day <= d * day
  <1>1. PICK q \in Nat : m = q * day
    OBVIOUS
  <1>2. d <= q => d * day <= q * day
    OBVIOUS
  <1>3. q + 1 <= d => (q + 1) * day <= d * day
    OBVIOUS
  <1>4. (q + 1) * day = q * day + day
    OBVIOUS
  <1>5. 1 <= d => 1 * day <= d * day
    OBVIOUS
  <1>6. d * day \in Nat /\ q * day \in Nat
    OBVIOUS
  <1> QED
    BY <1>1, <1>2, <1>3, <1>4, <1>5, <1>6

\* A change of the clocks never decides whether a rental is too long: so many
\* days pass the policy if they are within its limit, and no more days do.
THEOREM DaysDecide == Spec => []DaysDecideTheLength
  <1>1. SweepInv => DaysDecideTheLength
    <2> SUFFICES ASSUME SweepInv, Given("wall"), Made
                 PROVE  Permits(Rental, Rental.start) <=> input.days * Day <= MaxDuration
      BY DEF DaysDecideTheLength
    <2>1. input \in Rentals
      BY RentalInputs
    <2> DEFINE length == input.days * Day
               shift == input.zone.shift
               start == Rental.start
               end == Rental.end
    <2>2. /\ Day \in Nat \ {0} /\ MaxDuration \in Nat /\ MinDuration \in Nat
          /\ MaxAdvance \in Nat /\ StartGrace \in Nat /\ DaylightSavingAllowance \in Nat
      BY WallClockAssumption, PolicyAssumption
    <2>3. /\ length \in Nat /\ Day <= length
          /\ MaxDuration < length => MaxDuration + Day <= length
      BY <2>1, <2>2, RentalIs, WholeDays, LengthAssumption
    <2>4. /\ input.zone.standard \in Int /\ shift \in Nat /\ shift <= DaylightSavingAllowance
          /\ start \in {input.wall - input.zone.standard, input.wall - input.zone.standard - shift}
          /\ end \in {ReturnWall - input.zone.standard, ReturnWall - input.zone.standard - shift}
      BY <2>1, RentalIs, ReadWithAnOffset, LengthAssumption
    <2>5. ReturnWall = input.wall + length /\ input.wall \in Int
      BY <2>1, RentalIs DEF ReturnWall
    <2>6. /\ MinDuration + DaylightSavingAllowance <= Day
          /\ 2 * DaylightSavingAllowance < Day
      BY LengthAssumption
    <2>7. Permits(Rental, start) <=>
             /\ start >= start - StartGrace
             /\ end - start >= MinDuration
             /\ end - start <= MaxDuration + DaylightSavingAllowance
             /\ start - start <= MaxAdvance
      BY DEF Permits, Duration
    <2> HIDE DEF length, shift, start, end
    <2>8. /\ start \in Int /\ end \in Int
          /\ length - shift <= end - start /\ end - start <= length + shift
      BY <2>3, <2>4, <2>5
    <2> QED
      BY <2>2, <2>3, <2>4, <2>6, <2>7, <2>8 DEF length, start
  <1> QED
    BY <1>1, SweepInvariant, PTL

-----------------------------------------------------------------------------
(* The probe *)

LEMMA EntryKinds ==
    /\ \A e \in Entries : e.kind \in {"exact", "dotted"} \/ e = Star \/ e = Blank
    /\ Blank.kind = "blank"
  <1>1. \A kind, name : Entry(kind, name).kind = kind
    BY DEF Entry
  <1>2. Blank.kind = "blank"
    BY <1>1, Zenon DEF Blank
  <1>3. ASSUME NEW e \in Entries, e # Star, e # Blank
        PROVE  \E k \in {"exact", "dotted"}, n \in HostNames : e = Entry(k, n)
    BY <1>3 DEF Entries
  <1>4. ASSUME NEW e \in Entries, e # Star, e # Blank
        PROVE  e.kind \in {"exact", "dotted"}
    BY <1>1, <1>3, <1>4
  <1> QED
    BY <1>2, <1>4

LEMMA SmallestOf ==
    ASSUME NEW n \in Nat, NEW I \in SUBSET (1 .. n), I # {}
    PROVE  Min(I) \in I
  <1> DEFINE f == [i \in I |-> n - i]
  <1>1. f \in [I -> Int]
    OBVIOUS
  <1>2. IsFiniteSet(I)
    <2>1. IsFiniteSet(1 .. n)
      BY FS_Interval
    <2> QED
      BY <2>1, FS_Subset
  <1>3. PICK x \in I : \A y \in I : f[y] <= f[x]
    <2> HIDE DEF f
    <2> QED
      BY <1>1, <1>2, LargestValue
  <1>4. \A y \in I : x <= y
    BY <1>3
  <1> QED
    BY <1>4 DEF Min

\* The host that is asked for is that of the first name on the list.
LEMMA FirstName ==
    ASSUME NEW n \in Nat, NEW s \in [1 .. n -> Entries],
           NEW k \in 1 .. n, s[k].kind \in {"exact", "dotted"}
    PROVE  \E i \in 1 .. n : s[i].kind \in {"exact", "dotted"} /\ AllowedHostHeader(s) = s[i].name
  <1> DEFINE I == {i \in 1 .. Len(s) : s[i].kind \in {"exact", "dotted"}}
             j == Min(I)
  <1>1. Len(s) = n
    OBVIOUS
  <1>2. k \in I /\ I \subseteq 1 .. n
    BY <1>1
  <1>3. j \in I
    <2> HIDE DEF I
    <2> QED
      BY <1>2, SmallestOf
  <1>4. SelectInSeq(s, LAMBDA e : e.kind \in {"exact", "dotted"}) = j
    BY <1>2 DEF SelectInSeq
  <1> HIDE DEF j
  <1>5. j \in 1 .. n /\ s[j].kind \in {"exact", "dotted"} /\ j # 0
    BY <1>2, <1>3
  <1>6. AllowedHostHeader(s) = s[j].name
    BY <1>4, <1>5 DEF AllowedHostHeader
  <1> QED
    BY <1>5, <1>6

LEMMA DefaultHost ==
    Accepts(AllowedHosts(Unset), AllowedHostHeader(Unset))
  <1>1. Len(Unset) = 1 /\ Unset[1].kind = "unset"
    BY DEF Unset, Entry
  <1>2. SelectInSeq(Unset, LAMBDA e : e.kind \in {"exact", "dotted"}) = 0
    BY <1>1 DEF SelectInSeq
  <1>3. AllowedHostHeader(Unset) = "localhost"
    BY <1>2 DEF AllowedHostHeader
  <1>4. Entry("exact", "localhost") \in AllowedHosts(Unset)
    BY DEF AllowedHosts
  <1>5. Entry("exact", "localhost").name = "localhost"
    BY DEF Entry
  <1> QED
    BY <1>3, <1>4, <1>5 DEF Accepts

\* Whatever hosts are allowed, if any are, the probe asks for one of them.
THEOREM ProbeIsAnswered == Spec => []ProbeIsAccepted
  <1>1. SweepInv => ProbeIsAccepted
    <2> SUFFICES ASSUME SweepInv, Given("hosts"), AllowedHosts(input.hosts) # {}
                 PROVE  Accepts(AllowedHosts(input.hosts), AllowedHostHeader(input.hosts))
      BY DEF ProbeIsAccepted
    <2> DEFINE s == input.hosts
    <2>1. input \in Probes
      BY InputKinds DEF SweepInv, Given
    <2>2. CASE s = Unset
      BY <2>2, DefaultHost
    <2>3. CASE s # Unset
      <3>1. PICK n \in Nat : s \in [1 .. n -> Entries]
        BY <2>1, <2>3 DEF Probes, SeqOf
      <3>2. AllowedHosts(s) = {s[i] : i \in 1 .. n} \ {Blank}
        BY <2>3, <3>1 DEF AllowedHosts, ToSet
      <3>3. PICK k \in 1 .. n : s[k] # Blank
        BY <3>2
      <3> HIDE DEF s
      <3>4. CASE \E i \in 1 .. n : s[i].kind \in {"exact", "dotted"}
        <4>1. PICK i \in 1 .. n : /\ s[i].kind \in {"exact", "dotted"}
                                  /\ AllowedHostHeader(s) = s[i].name
          BY <3>1, <3>4, FirstName
        <4>2. s[i] \in AllowedHosts(s)
          BY <3>2, <4>1, EntryKinds
        <4> QED
          BY <4>1, <4>2 DEF Accepts, s
      <3>5. CASE \A i \in 1 .. n : s[i].kind \notin {"exact", "dotted"}
        <4>1. s[k] = Star
          BY <3>1, <3>3, <3>5, EntryKinds
        <4> QED
          BY <3>2, <3>3, <4>1 DEF Accepts, s
      <3> QED
        BY <3>4, <3>5
    <2> QED
      BY <2>2, <2>3
  <1> QED
    BY <1>1, SweepInvariant, PTL
=============================================================================
