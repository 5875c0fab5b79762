---------------------------- MODULE Reservations ----------------------------
(***************************************************************************)
(* What the reservation desk promises, whatever ledger it is wired to      *)
(* (the docstrings of rentals/domain/desk.py and rentals/domain/ledger.py, *)
(* as the code keeps them): every request takes effect at one instant      *)
(* between its arrival and its answer, and the answer was true then.       *)
(* A server error says nothing about whether it took effect.               *)
(***************************************************************************)
EXTENDS Desk

VARIABLES
    now,      \* the desk's clock
    fleet,    \* the size of each type's fleet
    rows,     \* the bookings
    req,      \* what each worker has been asked
    answer,   \* what it will answer, once the request has taken effect
    told      \* the booking that goes with the answer

vars == <<now, fleet, rows, req, answer, told>>

Init ==
    /\ now = 0
    /\ fleet \in [CarTypes -> Nat \cup {NoFleet}]
    /\ rows = {}
    /\ req = [w \in Workers |-> NoRequest]
    /\ answer = [w \in Workers |-> "none"]
    /\ told = [w \in Workers |-> NoBooking]

-----------------------------------------------------------------------------
CarsOut(ct, t) == UsageAt({b \in rows : b.carType = ct /\ ~IsCancelled(b)}, t)

ToReserve(w) == req[w] \in ReserveRequest /\ answer[w] = "none"
ToCancel(w) == req[w] \in CancelRequest /\ answer[w] = "none"

Answer(w, result, b) ==
    /\ answer' = [answer EXCEPT ![w] = result]
    /\ told' = [told EXCEPT ![w] = b]
    /\ UNCHANGED <<now, fleet, req>>

\* The request takes effect, and its answer arrives or is lost.
TakeEffect(w, result, b) == Answer(w, result, b) \/ Answer(w, "ServerError", NoBooking)

Ask(w) ==
    /\ req[w] = NoRequest /\ answer[w] = "none"
    /\ req'[w] \in ReserveRequest \cup CancelRequest
    /\ req' = [req EXCEPT ![w] = req'[w]]
    /\ UNCHANGED <<now, fleet, rows, answer, told>>

RefuseBadKey(w) ==
    /\ req[w] = NoRequest /\ answer[w] = "none"
    /\ Answer(w, "InvalidIdempotencyKey", NoBooking)
    /\ UNCHANGED rows

\* The key is new, the policy allowed the period when it was asked, and a car
\* is free at every instant of the period.
Book(w) ==
    LET r == req[w] IN
    /\ ToReserve(w)
    /\ \A b \in rows : ~IsAbout(b, r)
    /\ \E t \in 0 .. now : Permits(r.period, t)
    /\ \A t \in Instants : Covers(r.period, t) => CarsOut(r.carType, t) < fleet[r.carType]
    /\ \E b \in rows' \ rows :
        /\ IsAbout(b, r) /\ IsFor(b, r.carType, r.period) /\ ~IsCancelled(b)
        /\ \A c \in rows : c.id # b.id
        /\ rows' = rows \cup {b}
        /\ TakeEffect(w, "booked", b)

\* A key that is known stands for its booking, cancelled or not.
Replay(w) ==
    /\ ToReserve(w)
    /\ \E b \in rows :
        /\ IsAbout(b, req[w])
        /\ IF IsFor(b, req[w].carType, req[w].period)
           THEN Answer(w, "replayed", b)
           ELSE Answer(w, "IdempotencyConflict", NoBooking)
    /\ UNCHANGED rows

\* A refusal was true when it was decided, and a key that has booked this type
\* is never refused for it.
Refuse(w) ==
    LET r == req[w] IN
    /\ ToReserve(w)
    /\ \/ /\ fleet[r.carType] = NoFleet
          /\ Answer(w, "CarTypeNotFound", NoBooking)
       \/ Answer(w, "FleetBusy", NoBooking)
       \/ /\ \A b \in rows : ~(IsAbout(b, r) /\ b.carType = r.carType)
          /\ \/ /\ ~Permits(r.period, now)
                /\ Answer(w, "InvalidRentalPeriod", NoBooking)
             \/ /\ \E t \in Instants :
                      Covers(r.period, t) /\ CarsOut(r.carType, t) >= fleet[r.carType]
                /\ Answer(w, "NoAvailability", NoBooking)
    /\ UNCHANGED rows

\* A booking is cancelled once, before its rental ends, and kept.
Cancel(w) ==
    /\ ToCancel(w)
    /\ \E b \in rows :
        /\ b.id = req[w].id /\ MayBeManagedBy(b, req[w].actor)
        /\ \/ /\ IsCancelled(b)
              /\ Answer(w, "cancelled", b)
              /\ UNCHANGED rows
           \/ /\ ~IsCancelled(b)
              /\ \E t \in 0 .. now :
                  /\ t < b.period.end
                  /\ rows' = (rows \ {b}) \cup {Cancelled(b, t)}
                  /\ TakeEffect(w, "cancelled", Cancelled(b, t))

RefuseToCancel(w) ==
    /\ ToCancel(w)
    /\ \/ /\ \A b \in rows : b.id = req[w].id => ~MayBeManagedBy(b, req[w].actor)
          /\ Answer(w, "ReservationNotFound", NoBooking)
       \/ /\ \E b \in rows :
                /\ b.id = req[w].id /\ MayBeManagedBy(b, req[w].actor)
                /\ ~IsCancelled(b) /\ b.period.end <= now
          /\ Answer(w, "ReservationNotCancellable", NoBooking)
    /\ UNCHANGED rows

\* The request has no effect, or its answer is lost on the way.
Fail(w) ==
    /\ req[w] # NoRequest
    /\ Answer(w, "ServerError", NoBooking)
    /\ UNCHANGED rows

Reply(w) ==
    /\ answer[w] # "none"
    /\ req' = [req EXCEPT ![w] = NoRequest]
    /\ answer' = [answer EXCEPT ![w] = "none"]
    /\ told' = [told EXCEPT ![w] = NoBooking]
    /\ UNCHANGED <<now, fleet, rows>>

\* Staff set the size of a fleet; a type that was ever booked keeps its fleet.
ChangeFleet(ct) ==
    /\ fleet'[ct] \in Nat \cup {NoFleet}
    /\ fleet' = [fleet EXCEPT ![ct] = fleet'[ct]]
    /\ fleet'[ct] = NoFleet => \A b \in rows : b.carType # ct
    /\ UNCHANGED <<now, rows, req, answer, told>>

TimePasses ==
    /\ now' = now + 1
    /\ UNCHANGED <<fleet, rows, req, answer, told>>

Next ==
    \/ \E w \in Workers :
        \/ Ask(w) \/ RefuseBadKey(w)
        \/ Book(w) \/ Replay(w) \/ Refuse(w)
        \/ Cancel(w) \/ RefuseToCancel(w)
        \/ Fail(w) \/ Reply(w)
    \/ \E ct \in CarTypes : ChangeFleet(ct)
    \/ TimePasses

Spec == Init /\ [][Next]_vars
=============================================================================
