----------------------------- MODULE MCFleetRows ----------------------------
(* A small instance of FleetRows for TLC. *)
EXTENDS FleetRows, TLC

CONSTANTS w1, w2, k1, k2

MCInstants == 0 .. 1
OnePeriod == {[start |-> 0, end |-> 1]}

\* Two of the three names are in use.
TwoTypes == {{[id |-> 1, name |-> "suv", size |-> 2], [id |-> 2, name |-> "van", size |-> 1]}}

\* Workers are alike, and so are keys.
Symmetry == Permutations(Workers) \cup Permutations(Keys)
=============================================================================
