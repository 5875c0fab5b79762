------------------------ MODULE FleetSchedule_proofs ------------------------
(* Why the sweep line is right: within the window, its running total is the  *)
(* number of cars in use, and its largest value is their peak.               *)
EXTENDS FleetSchedule, FiniteSetTheorems, TLAPS

\* A function on a finite set takes a largest value.
LEMMA LargestValue ==
    ASSUME NEW S, IsFiniteSet(S), S # {}, NEW f \in [S -> Int]
    PROVE  \E x \in S : \A y \in S : f[y] <= f[x]
  <1> DEFINE Above(x) == {y \in S : f[y] > f[x]}
             R == StrictSubsetOrdering(S)
             T == {Above(x) : x \in S}
  <1>1. IsWellFoundedOn(R, SUBSET S)
    BY FS_StrictSubsetOrderingWellFounded, FS_FiniteSubsetsOfFinite
  <1>2. T \subseteq SUBSET S /\ T # {}
    <2>1. PICK x \in S : TRUE
      OBVIOUS
    <2>2. Above(x) \in T
      BY <2>1
    <2> QED
      BY <2>2
  <1>3. \E A \in T : \A B \in T : <<B, A>> \notin R
    <2> HIDE DEF R, T
    <2> QED
      BY <1>1, <1>2, WFMin
  <1>4. PICK x \in S : \A y \in S : <<Above(y), Above(x)>> \notin R
    BY <1>3
  <1>5. ASSUME NEW y \in S, f[y] > f[x] PROVE FALSE
    <2>1. Above(y) \subseteq Above(x) /\ Above(y) # Above(x)
      BY <1>5
    <2> QED
      BY <1>4, <2>1 DEF StrictSubsetOrdering
  <1> QED
    BY <1>5

\* Max of a finite, non-empty set of integers is its largest member.
LEMMA MaxOfFinite ==
    ASSUME NEW S, IsFiniteSet(S), S # {}, S \subseteq Int
    PROVE  Max(S) \in S /\ \A y \in S : y <= Max(S)
  <1> DEFINE f == [x \in S |-> x]
  <1>1. f \in [S -> Int]
    OBVIOUS
  <1>2. \E x \in S : \A y \in S : f[y] <= f[x]
    <2> HIDE DEF f
    <2> QED
      BY <1>1, LargestValue
  <1>3. \E x \in S : \A y \in S : x >= y
    BY <1>2
  <1> QED
    BY <1>3 DEF Max

\* Within the window the sweep's running total is the number of cars in use.
LEMMA SweepCountsUsage ==
    ASSUME NEW B, IsFiniteSet(B), \A b \in B : b.period \in Period(Int),
           NEW window \in Period(Int), NEW t \in Int, Covers(window, t)
    PROVE  /\ InUseAfter(B, window, t) = UsageAt(B, t)
           /\ UsageAt(B, t) \in Nat
           /\ UsageAt(B, t) <= Cardinality(B)
  <1> DEFINE U == PickUpsBy(B, window, t)
             V == ReturnsBy(B, window, t)
             C == {b \in B : Covers(b.period, t)}
  <1>1. /\ \A b \in B : /\ b.period.start \in Int /\ b.period.end \in Int
                        /\ b.period.start < b.period.end
        /\ window.start \in Int /\ window.end \in Int
        /\ window.start <= t /\ t < window.end
    BY DEF Period, Covers
  <1>2. V \subseteq U /\ U \ V = C
    BY <1>1 DEF PickUpsBy, ReturnsBy, Within, Overlaps, ClippedStart, ClippedEnd, Covers
  <1>3. U \subseteq B
    BY DEF PickUpsBy, Within
  <1>4. IsFiniteSet(U) /\ IsFiniteSet(V) /\ IsFiniteSet(C)
    BY <1>2, <1>3, FS_Subset
  <1>5. U = C \cup V /\ C \cap V = {}
    BY <1>2
  <1>6. Cardinality(C) = Cardinality(U) - Cardinality(V)
    <2> HIDE DEF U, V, C
    <2>1. Cardinality(C \cup V) = Cardinality(C) + Cardinality(V) - Cardinality(C \cap V)
      BY <1>4, FS_Union
    <2>2. Cardinality(C \cap V) = 0
      BY <1>5, FS_EmptySet
    <2>3. Cardinality(C) \in Nat /\ Cardinality(V) \in Nat
      BY <1>4, FS_CardinalityType
    <2> QED
      BY <1>5, <2>1, <2>2, <2>3
  <1>7. Cardinality(C) \in Nat /\ Cardinality(C) <= Cardinality(B)
    BY <1>4, FS_CardinalityType, FS_Subset
  <1> QED
    BY <1>6, <1>7 DEF InUseAfter, UsageAt

\* The instants the sweep looks at are covered by the window.
LEMMA PickUpsAreCovered ==
    ASSUME NEW B, \A b \in B : b.period \in Period(Int), NEW window \in Period(Int),
           NEW s \in PickUpTimes(B, window)
    PROVE  s \in Int /\ Covers(window, s)
  BY DEF PickUpTimes, Within, Overlaps, ClippedStart, Covers, Period

LEMMA PeakIsMax ==
    ASSUME NEW B, IsFiniteSet(B), \A b \in B : b.period \in Period(Int),
           NEW window \in Period(Int)
    PROVE  LET S == {0} \cup {InUseAfter(B, window, s) : s \in PickUpTimes(B, window)}
           IN  /\ PeakUsage(B, window) \in S
               /\ \A n \in S : n <= PeakUsage(B, window)
               /\ S \subseteq Nat
  <1> DEFINE S == {0} \cup {InUseAfter(B, window, s) : s \in PickUpTimes(B, window)}
  <1>1. \A s \in PickUpTimes(B, window) :
            /\ InUseAfter(B, window, s) \in Nat
            /\ InUseAfter(B, window, s) <= Cardinality(B)
    BY PickUpsAreCovered, SweepCountsUsage
  <1>2. Cardinality(B) \in Nat
    BY FS_CardinalityType
  <1>3. S \subseteq Nat /\ \A n \in S : n <= Cardinality(B)
    BY <1>1, <1>2
  <1>4. IsFiniteSet(S)
    <2> HIDE DEF S
    <2> QED
      BY <1>2, <1>3, FS_BoundedSetOfNaturals
  <1>5. Max(S) \in S /\ \A n \in S : n <= Max(S)
    <2>1. S # {} /\ S \subseteq Int
      BY <1>3
    <2> HIDE DEF S
    <2> QED
      BY <1>4, <2>1, MaxOfFinite
  <1> QED
    BY <1>3, <1>5 DEF PeakUsage

\* The peak is an upper bound: at no instant of the window are more cars out.
THEOREM PeakIsEnough ==
    ASSUME NEW B, IsFiniteSet(B), \A b \in B : b.period \in Period(Int),
           NEW window \in Period(Int), NEW t \in Int, Covers(window, t)
    PROVE  UsageAt(B, t) <= PeakUsage(B, window)
  <1> DEFINE C == {b \in B : Covers(b.period, t)}
             f == [b \in C |-> ClippedStart(b.period, window)]
  <1>1. /\ \A b \in B : /\ b.period.start \in Int /\ b.period.end \in Int
                        /\ b.period.start < b.period.end
        /\ window.start \in Int /\ window.end \in Int
        /\ window.start <= t /\ t < window.end
    BY DEF Period, Covers
  <1>2. IsFiniteSet(C)
    BY FS_Subset
  <1>3. CASE C = {}
    <2>1. UsageAt(B, t) = 0
      BY <1>3, FS_EmptySet DEF UsageAt
    <2> QED
      BY <2>1, PeakIsMax
  <1>4. CASE C # {}
    <2>1. f \in [C -> Int]
      BY <1>1 DEF ClippedStart
    <2>2. PICK b \in C : \A c \in C : f[c] <= f[b]
      <3> HIDE DEF C, f
      <3> QED
        BY <1>2, <1>4, <2>1, LargestValue
    <2> DEFINE s == ClippedStart(b.period, window)
    <2>3. b \in Within(B, window) /\ s \in PickUpTimes(B, window)
      BY <1>1 DEF Within, Overlaps, PickUpTimes, Covers
    <2>4. ASSUME NEW c \in C PROVE Covers(c.period, s)
      <3>1. ClippedStart(c.period, window) <= s
        BY <2>2
      <3>2. s <= t
        BY <1>1 DEF Covers, ClippedStart
      <3> HIDE DEF s
      <3> QED
        BY <1>1, <2>3, <3>1, <3>2, PickUpsAreCovered DEF Covers, ClippedStart
    <2>5. UsageAt(B, t) <= UsageAt(B, s)
      <3>1. C \subseteq {c \in B : Covers(c.period, s)}
        BY <2>4
      <3>2. IsFiniteSet({c \in B : Covers(c.period, s)})
        BY FS_Subset
      <3> QED
        BY <3>1, <3>2, FS_Subset DEF UsageAt
    <2>6. s \in Int /\ Covers(window, s)
      BY <2>3, PickUpsAreCovered
    <2>7. InUseAfter(B, window, s) = UsageAt(B, s)
      BY <2>6, SweepCountsUsage
    <2>8. InUseAfter(B, window, s) <= PeakUsage(B, window)
      BY <2>3, PeakIsMax
    <2>9. UsageAt(B, t) \in Nat /\ UsageAt(B, s) \in Nat /\ PeakUsage(B, window) \in Nat
      BY <2>6, SweepCountsUsage, PeakIsMax
    <2> QED
      BY <2>5, <2>7, <2>8, <2>9
  <1> QED
    BY <1>3, <1>4

\* The peak is reached: at the start of the window, or at a pick-up in it,
\* that many cars are out.
THEOREM PeakIsReached ==
    ASSUME NEW B, IsFiniteSet(B), \A b \in B : b.period \in Period(Int),
           NEW window \in Period(Int)
    PROVE  \E t \in Int :
              /\ t = window.start \/ \E b \in B : t = b.period.start
              /\ Covers(window, t)
              /\ PeakUsage(B, window) <= UsageAt(B, t)
  <1>1. CASE PeakUsage(B, window) = 0
    <2>1. window.start \in Int /\ Covers(window, window.start)
      BY DEF Period, Covers
    <2> QED
      BY <1>1, <2>1, SweepCountsUsage
  <1>2. ASSUME NEW s \in PickUpTimes(B, window), PeakUsage(B, window) = InUseAfter(B, window, s)
        PROVE  \E t \in Int :
                  /\ t = window.start \/ \E b \in B : t = b.period.start
                  /\ Covers(window, t)
                  /\ PeakUsage(B, window) <= UsageAt(B, t)
    <2>1. s = window.start \/ \E b \in B : s = b.period.start
      BY DEF PickUpTimes, Within, ClippedStart
    <2>2. s \in Int /\ Covers(window, s)
      BY PickUpsAreCovered
    <2>3. InUseAfter(B, window, s) = UsageAt(B, s) /\ UsageAt(B, s) \in Nat
      BY <2>2, SweepCountsUsage
    <2> QED
      BY <1>2, <2>1, <2>2, <2>3
  <1> QED
    BY <1>1, <1>2, PeakIsMax

\* The bookings that meet the window are all that are out at its instants.
LEMMA WithinCounts ==
    ASSUME NEW S, \A b \in S : b.period \in Period(Int),
           NEW window \in Period(Int), NEW t \in Int, Covers(window, t)
    PROVE  UsageAt(Within(S, window), t) = UsageAt(S, t)
  <1>1. ASSUME NEW b \in S, Covers(b.period, t) PROVE Overlaps(b.period, window)
    BY <1>1 DEF Covers, Overlaps, Period
  <1>2. {b \in Within(S, window) : Covers(b.period, t)} = {b \in S : Covers(b.period, t)}
    BY <1>1 DEF Within
  <1> QED
    BY <1>2 DEF UsageAt

\* The check reads the bookings that meet the window only, and that is enough:
\* it says yes exactly when a car is free at every instant of the window, and
\* when it says no the window or one of the bookings starts at an instant at
\* which all are out.
THEOREM SweepFindsRoom ==
    ASSUME NEW S, IsFiniteSet(S), \A b \in S : b.period \in Period(Int),
           NEW window \in Period(Int), NEW n \in Int
    PROVE  /\ CanAccommodate(n, Within(S, window), window) <=>
                  \A t \in Int : Covers(window, t) => UsageAt(S, t) < n
           /\ ~CanAccommodate(n, Within(S, window), window) =>
                  \E t \in Int :
                      /\ t = window.start \/ \E b \in S : t = b.period.start
                      /\ Covers(window, t)
                      /\ UsageAt(S, t) >= n
           /\ \A t \in Int : UsageAt(S, t) \in Nat
  <1> DEFINE B == Within(S, window)
  <1>1. B \subseteq S /\ IsFiniteSet(B) /\ \A b \in B : b.period \in Period(Int)
    BY FS_Subset DEF Within
  <1>2. ASSUME NEW t \in Int, Covers(window, t) PROVE UsageAt(B, t) = UsageAt(S, t)
    BY <1>2, WithinCounts
  <1>3. ASSUME NEW t \in Int PROVE UsageAt(S, t) \in Nat
    BY FS_Subset, FS_CardinalityType DEF UsageAt
  <1> HIDE DEF B
  <1>4. PeakUsage(B, window) \in Nat
    BY <1>1, PeakIsMax
  <1>5. \A t \in Int : Covers(window, t) => UsageAt(S, t) <= PeakUsage(B, window)
    BY <1>1, <1>2, PeakIsEnough
  <1>6. PICK t \in Int :
            /\ t = window.start \/ \E b \in B : t = b.period.start
            /\ Covers(window, t)
            /\ PeakUsage(B, window) <= UsageAt(B, t)
    BY <1>1, PeakIsReached
  <1>7. PeakUsage(B, window) <= UsageAt(S, t)
    BY <1>2, <1>6
  <1>8. CanAccommodate(n, B, window) <=> PeakUsage(B, window) < n
    BY DEF CanAccommodate
  <1>9. CanAccommodate(n, B, window) <=> \A u \in Int : Covers(window, u) => UsageAt(S, u) < n
    BY <1>3, <1>4, <1>5, <1>6, <1>7, <1>8
  <1>10. ~CanAccommodate(n, B, window) => UsageAt(S, t) >= n
    BY <1>3, <1>4, <1>7, <1>8
  <1> QED
    BY <1>1, <1>3, <1>6, <1>9, <1>10 DEF B

\* What is left of a fleet is 0 or the fleet less the peak, whichever is more.
LEMMA RemainingIs ==
    ASSUME NEW n \in Int, NEW B, NEW window, PeakUsage(B, window) \in Nat
    PROVE  Remaining(n, B, window) =
              IF PeakUsage(B, window) < n THEN n - PeakUsage(B, window) ELSE 0
  <1> DEFINE d == n - PeakUsage(B, window)
  <1>1. IsFiniteSet({0, d}) /\ {0, d} # {} /\ {0, d} \subseteq Int
    <2>1. {0, d} = {0} \cup {d} /\ d \in Int
      OBVIOUS
    <2>2. IsFiniteSet({0} \cup {d})
      BY FS_Singleton, FS_AddElement
    <2> QED
      BY <2>1, <2>2
  <1>2. Max({0, d}) \in {0, d} /\ \A y \in {0, d} : y <= Max({0, d})
    <2> HIDE DEF d
    <2> QED
      BY <1>1, MaxOfFinite
  <1> QED
    BY <1>2 DEF Remaining

\* "Cars guaranteed free for the entire window": that many more fit at every
\* instant of it, no larger number does, and there are some exactly when a
\* booking of the window would be accepted.
THEOREM RemainingIsGuaranteed ==
    ASSUME NEW S, IsFiniteSet(S), \A b \in S : b.period \in Period(Int),
           NEW window \in Period(Int), NEW n \in Int
    PROVE  LET left == Remaining(n, Within(S, window), window)
               Fits(k) == \A t \in Int : Covers(window, t) => UsageAt(S, t) + k <= n
           IN  /\ left \in Nat
               /\ left > 0 => Fits(left)
               /\ \A k \in Nat : Fits(k) => k <= left
               /\ left > 0 <=> CanAccommodate(n, Within(S, window), window)
  <1> DEFINE B == Within(S, window)
             left == Remaining(n, B, window)
  <1>1. IsFiniteSet(B) /\ \A b \in B : b.period \in Period(Int)
    BY FS_Subset DEF Within
  <1>2. ASSUME NEW t \in Int, Covers(window, t)
        PROVE  UsageAt(B, t) = UsageAt(S, t) /\ UsageAt(S, t) \in Nat
    BY <1>2, WithinCounts, FS_Subset, FS_CardinalityType DEF UsageAt
  <1> HIDE DEF B
  <1>3. PeakUsage(B, window) \in Nat
    BY <1>1, PeakIsMax
  <1>4. left = IF PeakUsage(B, window) < n THEN n - PeakUsage(B, window) ELSE 0
    BY <1>3, RemainingIs
  <1>5. \A t \in Int : Covers(window, t) => UsageAt(S, t) <= PeakUsage(B, window)
    BY <1>1, <1>2, PeakIsEnough
  <1>6. PICK u \in Int : Covers(window, u) /\ PeakUsage(B, window) <= UsageAt(B, u)
    BY <1>1, PeakIsReached
  <1>7. PeakUsage(B, window) <= UsageAt(S, u) /\ UsageAt(S, u) \in Nat
    BY <1>2, <1>6
  <1>8. ASSUME left > 0, NEW t \in Int, Covers(window, t) PROVE UsageAt(S, t) + left <= n
    BY <1>2, <1>3, <1>4, <1>5, <1>8
  <1>9. ASSUME NEW k \in Nat, UsageAt(S, u) + k <= n PROVE k <= left
    BY <1>3, <1>4, <1>7, <1>9
  <1>10. left > 0 <=> CanAccommodate(n, B, window)
    BY <1>3, <1>4 DEF CanAccommodate
  <1>11. left \in Nat
    BY <1>3, <1>4
  <1> HIDE DEF left
  <1> QED
    BY <1>6, <1>8, <1>9, <1>10, <1>11 DEF left, B

\* One element makes a finite set at most one larger.
LEMMA OneMore ==
    ASSUME NEW A, IsFiniteSet(A), NEW b, NEW D \in SUBSET (A \cup {b})
    PROVE  Cardinality(D) \in Nat /\ Cardinality(D) <= Cardinality(A) + 1
  <1>1. /\ IsFiniteSet(A \cup {b})
        /\ Cardinality(A \cup {b}) = IF b \in A THEN Cardinality(A) ELSE Cardinality(A) + 1
    BY FS_AddElement
  <1>2. Cardinality(A) \in Nat
    BY FS_CardinalityType
  <1>3. IsFiniteSet(D) /\ Cardinality(D) <= Cardinality(A \cup {b})
    BY <1>1, FS_Subset
  <1>4. Cardinality(D) \in Nat
    BY <1>3, FS_CardinalityType
  <1> QED
    BY <1>1, <1>2, <1>3, <1>4

\* How many cars are out at an instant when a booking is added or taken away:
\* fewer bookings, fewer cars; one more booking, at most one more car, and only
\* during its period.
LEMMA UsageChanges ==
    ASSUME NEW S, IsFiniteSet(S), NEW T, NEW t
    PROVE  /\ UsageAt(S, t) \in Nat
           /\ T \subseteq S => UsageAt(T, t) \in Nat /\ UsageAt(T, t) <= UsageAt(S, t)
           /\ \A b : T \subseteq S \cup {b} =>
                 /\ UsageAt(T, t) \in Nat
                 /\ UsageAt(T, t) <= UsageAt(S, t) + 1
                 /\ ~Covers(b.period, t) => UsageAt(T, t) <= UsageAt(S, t)
  <1> DEFINE In(R) == {b \in R : Covers(b.period, t)}
  <1>1. IsFiniteSet(In(S)) /\ Cardinality(In(S)) \in Nat
    BY FS_Subset, FS_CardinalityType
  <1>2. ASSUME In(T) \subseteq In(S)
        PROVE  Cardinality(In(T)) \in Nat /\ Cardinality(In(T)) <= Cardinality(In(S))
    <2> HIDE DEF In
    <2> QED
      BY <1>1, <1>2, FS_Subset, FS_CardinalityType
  <1>3. ASSUME NEW b, In(T) \subseteq In(S) \cup {b}
        PROVE  Cardinality(In(T)) \in Nat /\ Cardinality(In(T)) <= Cardinality(In(S)) + 1
    <2> HIDE DEF In
    <2> QED
      BY <1>1, <1>3, OneMore
  <1>4. T \subseteq S => In(T) \subseteq In(S)
    OBVIOUS
  <1>5. ASSUME NEW b, T \subseteq S \cup {b}
        PROVE  /\ In(T) \subseteq In(S) \cup {b}
               /\ ~Covers(b.period, t) => In(T) \subseteq In(S)
    BY <1>5
  <1>6. UsageAt(S, t) = Cardinality(In(S)) /\ UsageAt(T, t) = Cardinality(In(T))
    BY DEF UsageAt
  <1> HIDE DEF In
  <1> QED
    BY <1>1, <1>2, <1>3, <1>4, <1>5, <1>6
=============================================================================
