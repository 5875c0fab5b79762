---------------------------- MODULE RentalPeriod ----------------------------
(* The value object of rentals/domain/period.py: a half-open span of time,   *)
(* [start, end), from pick-up to return.  After normalisation to UTC an      *)
(* instant is a point of one time line, modelled as a natural number.        *)
EXTENDS Integers

\* Every period whose two ends are in T.  A period that does not end after it
\* starts cannot be constructed.
Period(T) == {p \in [start : T, end : T] : p.start < p.end}

Duration(p) == p.end - p.start

\* Two half-open spans share a moment iff each starts before the other ends.
Overlaps(p, q) == p.start < q.end /\ q.start < p.end

\* The car is out from start up to, and excluding, end.
Covers(p, t) == p.start <= t /\ t < p.end
=============================================================================
