----------------------------- MODULE MCInMemory -----------------------------
(* Small instances of InMemoryDesk for TLC. *)
EXTENDS InMemoryDesk

CONSTANTS w1, w2, w3, k1, k2

P(s, e) == [start |-> s, end |-> e]

MCInstants == 0 .. 3
OnePeriod == {P(1, 2)}

\* One car of each type, or no fleet of vans at all.
MCFleets == {[suv |-> 1, van |-> 1], [suv |-> 1, van |-> NoFleet]}
=============================================================================
