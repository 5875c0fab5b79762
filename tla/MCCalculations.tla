--------------------------- MODULE MCCalculations ---------------------------
(* Every schedule of up to three bookings over five instants; hours of five  *)
(* days with no change, forward, back, and both in one rental; up to three   *)
(* allowed hosts.                                                            *)
EXTENDS Calculations

CONSTANTS b1, b2, b3

MCInstants == 0 .. 4

Z(standard, forward, back) ==
    [standard |-> standard, shift |-> 1, forward |-> forward, back |-> back]

MCZones == {Z(0, 0, 0), Z(1, 49, 999), Z(-5, 55, 999), Z(1, -999, 49), Z(0, 30, 75)}
MCWalls == -3 .. 80

\* The calendar begins with the first wall-clock time, or out of sight.
MCFirstWall == -3
LongAgo == -99

Symmetry == Permutations(Bookings)
=============================================================================
