------------------------------- MODULE MCDesk -------------------------------
(* Small instances of PostgresDesk for TLC. *)
EXTENDS PostgresDesk, TLC

CONSTANTS w1, w2, w3, k1, k2, k3

P(s, e) == [start |-> s, end |-> e]

MCInstants == 0 .. 4
Fleet1 == {[ct \in CarTypes |-> 1]}
Fleet2 == {[ct \in CarTypes |-> 2]}

\* Two bookings that do not meet, and one that meets both.
SpreadPeriods == {P(0, 1), P(2, 3), P(0, 3)}
OnePeriod == {P(1, 2)}
TwoPeriods == {P(1, 2), P(1, 3)}

\* Workers are alike, and so are keys.
Symmetry == Permutations(Workers) \cup Permutations(Keys)
=============================================================================
