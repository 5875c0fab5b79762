----------------------------- MODULE MCDashboard ----------------------------
(* Small instances of Dashboard for TLC. *)
EXTENDS Dashboard, TLC

CONSTANTS w1, w2, k1, k2, k3

P(s, e) == [start |-> s, end |-> e]

MCInstants == 0 .. 3
MCPeriods == {P(1, 2), P(1, 3)}
OneCar == {[ct \in CarTypes |-> 1]}

\* Workers are alike, and so are keys.
Symmetry == Permutations(Workers) \cup Permutations(Keys)
=============================================================================
