------------------------------- MODULE MCAdmin ------------------------------
(* A small instance of AdminSite for TLC. *)
EXTENDS AdminSite, TLC

CONSTANTS w1, w2, k1

MCInstants == 0 .. 2
OnePeriod == {[start |-> 0, end |-> 2]}
OneOfEach == {[ct \in CarTypes |-> 1]}

\* Workers are alike.
Symmetry == Permutations(Workers)
=============================================================================
