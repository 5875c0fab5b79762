-------------------------- MODULE Dashboard_proofs --------------------------
(* Theorems about Dashboard, for every value of its constants.               *)
EXTENDS Dashboard, FleetSchedule_proofs

-----------------------------------------------------------------------------
(* What holds at each point of the work *)

FormPc == {"book_form", "check_form"}
CheckPc == {"check_policy", "read_fleet", "read_rows"}

\* The request in hand, and the answer to it.
InHand(w) ==
    /\ pc[w] \in FormPc \cup CheckPc \cup {"reserve"} => req[w] \in Post
    /\ pc[w] = "cancel" => req[w] \in CancelRequest
    /\ pc[w] = "render" => req[w] \in Post \cup CancelRequest
    /\ answer[w] = "none" <=> pc[w] # "render"
    /\ answer[w] \notin {"booked", "replayed", "cancelled"} => told[w] = NoBooking
    /\ pc[w] = "render" /\ req[w] \in CancelRequest =>
          answer[w] \in {"cancelled", "ReservationNotCancellable", "ReservationNotFound",
                         "ServerError"}

\* The form a booking was made with.
FormOf(b) == [customer |-> b.customer, carType |-> b.carType, period |-> b.period, key |-> b.key]

\* The bookings are those of forms that were submitted, one for each key.
RowInv ==
    /\ IsFiniteSet(rows)
    /\ \A b \in rows : b.id < nextId /\ FormOf(b) \in submitted
    /\ \A b, c \in rows : b.id = c.id \/ IsAbout(b, c) => b = c

\* The keys of what is submitted are known, and what is being booked was submitted.
FormInv ==
    /\ \A r \in submitted : r.key \in Keys => r.key \in forms[r.customer]
    /\ \A w \in Workers : pc[w] \in {"book_form", "reserve"} => req[w] \in submitted

\* What w knows of the booking behind its request or its answer.
Knows(w) ==
    /\ w \in late /\ req[w] \in Post => \E b \in rows : IsAbout(b, req[w]) /\ IsCancelled(b)
    /\ answer[w] \in {"booked", "replayed"} =>
          /\ req[w] \in Post
          /\ \E b \in rows :
                /\ IsAbout(b, req[w]) /\ IsFor(b, req[w].carType, req[w].period)
                /\ IF IsCancelled(told[w]) THEN IsCancelled(b) /\ answer[w] = "replayed"
                   ELSE w \notin late
    /\ answer[w] = "IdempotencyConflict" =>
          \E r \in submitted : r.customer = req[w].customer /\ r.key = req[w].key /\ r # req[w]
    /\ answer[w] = "InvalidIdempotencyKey" => req[w] \in Post /\ req[w].key = Malformed

\* A calm check has seen the fleet and the clock as they are.
Undisturbed(w) ==
    w \in calm =>
        /\ pc[w] \in CheckPc
        /\ fleet[req[w].carType] # NoFleet
        /\ pc[w] \in {"read_fleet", "read_rows"} => Permits(req[w].period, now)
        /\ pc[w] = "read_rows" => size[w] = fleet[req[w].carType]

\* Advice that is fresh says what the desk would now find.
StillTrue(a) ==
    /\ fleet[a.carType] # NoFleet
    /\ a.free = IF Permits(a.period, now)
                THEN Remaining(fleet[a.carType], Active(a.carType, a.period), a.period)
                ELSE 0

AdviceInv == (\A w \in Workers : Undisturbed(w)) /\ \A a \in advice : StillTrue(a)

-----------------------------------------------------------------------------
(* Steps *)

WorkerStep(w) ==
    \/ Submit(w, "book_form") \/ Submit(w, "check_form") \/ SubmitCancel(w)
    \/ FormRefused(w) \/ CheckForm(w) \/ CheckPolicy(w) \/ ReadFleet(w) \/ ReadRows(w)
    \/ BookForm(w) \/ Reserve(w) \/ Cancel(w)
    \/ Redirect(w) \/ Reissue(w) \/ Explain(w) \/ ShowNoForm(w)

\* Nothing of a worker's but its own steps changes what it has in hand.
LEMMA OthersStay ==
    ASSUME TypeOK, NEW w \in Workers, WorkerStep(w), NEW v \in Workers, v # w
    PROVE  /\ pc'[v] = pc[v] /\ req'[v] = req[v] /\ answer'[v] = answer[v]
           /\ told'[v] = told[v] /\ size'[v] = size[v]
           /\ v \in late' <=> v \in late
           /\ v \in calm' => v \in calm
  <1> USE DEF TypeOK, Goto, Show, Forget, Done, Advise, Answered, BookingsChange, world, desk,
          history
  <1>1. CASE Submit(w, "book_form")
    BY <1>1 DEF Submit
  <1>2. CASE Submit(w, "check_form")
    BY <1>2 DEF Submit
  <1>3. CASE SubmitCancel(w)
    BY <1>3 DEF SubmitCancel
  <1>4. CASE FormRefused(w) \/ CheckForm(w) \/ CheckPolicy(w)
    BY <1>4 DEF FormRefused, CheckForm, CheckPolicy
  <1>5. CASE ReadFleet(w) \/ ReadRows(w) \/ BookForm(w)
    BY <1>5 DEF ReadFleet, ReadRows, BookForm
  <1>6. CASE Reserve(w)
    BY <1>6 DEF Reserve
  <1>7. CASE Cancel(w)
    BY <1>7 DEF Cancel
  <1>8. CASE Redirect(w) \/ Reissue(w) \/ Explain(w) \/ ShowNoForm(w)
    BY <1>8 DEF Redirect, Reissue, Explain, ShowNoForm
  <1> QED
    BY <1>1, <1>2, <1>3, <1>4, <1>5, <1>6, <1>7, <1>8 DEF WorkerStep

-----------------------------------------------------------------------------
(* Types *)

TypeInv == TypeOK /\ \A w \in Workers : InHand(w)

LEMMA CancelledFields ==
    ASSUME NEW b \in BookingRecord, NEW t \in Nat
    PROVE  /\ Cancelled(b, t) \in BookingRecord
           /\ Cancelled(b, t).id = b.id
           /\ Cancelled(b, t).customer = b.customer
           /\ Cancelled(b, t).carType = b.carType
           /\ Cancelled(b, t).period = b.period
           /\ Cancelled(b, t).key = b.key
           /\ IsCancelled(Cancelled(b, t))
  BY DEF Cancelled, BookingRecord, IsCancelled, NotCancelled

LEMMA PeriodsAreIntervals == \A p \in Periods : p \in Period(Int)
  <1> SUFFICES ASSUME NEW p \in Periods PROVE p \in Period(Int)
    OBVIOUS
  <1>1. p \in [start : Instants, end : Instants] /\ p.start < p.end
    BY BookingAssumption DEF Period
  <1>2. Instants \subseteq Int
    BY BookingAssumption
  <1> QED
    BY <1>1, <1>2 DEF Period

\* The bookings of one type that are not cancelled.
Out(ct) == {b \in rows : b.carType = ct /\ ~IsCancelled(b)}

\* The bookings a check or the desk reads are those of its type that meet the
\* period, so what it makes of them is what FleetSchedule_proofs shows.
LEMMA ScheduleAsRead ==
    ASSUME TypeOK, IsFiniteSet(rows), NEW ct \in CarTypes, NEW p \in Periods
    PROVE  /\ IsFiniteSet(Out(ct))
           /\ \A b \in Out(ct) : b.period \in Periods /\ b.period \in Period(Int)
           /\ p \in Period(Int)
           /\ fleet[ct] \in Int
           /\ Active(ct, p) = Within(Out(ct), p)
  <1>1. IsFiniteSet(Out(ct))
    BY FS_Subset DEF Out
  <1>2. \A b \in Out(ct) : b.period \in Periods
    BY DEF Out, TypeOK, BookingRecord
  <1>3. Active(ct, p) = Within(Out(ct), p)
    BY DEF Active, Within, Out
  <1>4. fleet[ct] \in Int
    BY DEF TypeOK, NoFleet
  <1> QED
    BY <1>1, <1>2, <1>3, <1>4, PeriodsAreIntervals

LEMMA RemainingIsNat ==
    ASSUME TypeOK, IsFiniteSet(rows), NEW ct \in CarTypes, NEW p \in Periods, NEW n \in Int
    PROVE  /\ Remaining(n, Active(ct, p), p) \in Nat
           /\ Remaining(n, Active(ct, p), p) > 0 <=> CanAccommodate(n, Active(ct, p), p)
  BY ScheduleAsRead, RemainingIsGuaranteed

LEMMA TypeInit == Init => TypeInv
  <1> SUFFICES ASSUME Init PROVE TypeInv
    OBVIOUS
  <1>1. Blank \in Page
    BY DEF Blank, Page
  <1> QED
    BY <1>1, DashboardAssumption DEF Init, TypeInv, TypeOK, InHand, FormPc, CheckPc, Answers

\* What Show shows is a page.
LEMMA LateOrNot == \A w : (w \in late) \in BOOLEAN
  OBVIOUS

LEMMA PageShown ==
    ASSUME NEW r \in Post, NEW k \in Keys \cup {Malformed}, NEW w,
           NEW says \in {"", "Booked", "AlreadyMade", "NothingBooked", "AlreadyUsed", "Error"}
    PROVE  [says |-> says, asked |-> r, late |-> w \in late, key |-> k] \in Page
  <1>1. \A x \in BOOLEAN : [says |-> says, asked |-> r, late |-> x, key |-> k] \in Page
    BY DEF Page
  <1> QED
    BY <1>1, LateOrNot

LEMMA ShowTyped ==
    ASSUME TypeOK, NEW w \in Workers, req[w] \in Post, NEW k \in Keys \cup {Malformed},
           NEW says \in {"", "Booked", "AlreadyMade", "NothingBooked", "AlreadyUsed", "Error"},
           Show(w, says, k)
    PROVE  page' \in [Customers -> Page]
  <1>1. [says |-> says, asked |-> req[w], late |-> w \in late, key |-> k] \in Page
    BY PageShown
  <1>2. \A P \in Page : [page EXCEPT ![req[w].customer] = P] \in [Customers -> Page]
    BY DEF TypeOK
  <1> QED
    BY <1>1, <1>2 DEF Show

LEMMA TypeSubmit ==
    ASSUME TypeInv, NEW w \in Workers, NEW action \in FormPc, Submit(w, action)
    PROVE  TypeInv'
  <1> USE DEF TypeInv, TypeOK
  <1>1. PICK r \in Post :
            /\ req' = [req EXCEPT ![w] = r]
            /\ forms' = IF r.key \in Keys THEN [forms EXCEPT ![r.customer] = @ \cup {r.key}]
                        ELSE forms
            /\ submitted' = IF action = "book_form" THEN submitted \cup {r} ELSE submitted
    BY DEF Submit
  <1>2. forms' \in [Customers -> SUBSET Keys]
    <2>1. r.customer \in Customers
      BY DEF Post
    <2> QED
      BY <1>1, <2>1
  <1>3. submitted' \subseteq Post /\ req'[w] = r /\ \A v \in Workers \ {w} : req'[v] = req[v]
    BY <1>1
  <1>4. /\ late' \subseteq Workers
        /\ posts' \in Nat
        /\ pc[w] = "idle" /\ pc' = [pc EXCEPT ![w] = action]
        /\ UNCHANGED <<now, fleet, rows, nextId, answer, told, size, page, calm, advice>>
    BY DEF Submit, Goto, world, desk
  <1>5. TypeOK'
    BY <1>1, <1>2, <1>3, <1>4 DEF FormPc
  <1>6. \A v \in Workers : InHand(v)'
    BY <1>3, <1>4 DEF InHand, FormPc, CheckPc
  <1> QED
    BY <1>5, <1>6

LEMMA TypeCheck ==
    ASSUME TypeInv, IsFiniteSet(rows), NEW w \in Workers,
           \/ SubmitCancel(w) \/ FormRefused(w) \/ CheckForm(w) \/ CheckPolicy(w)
           \/ ReadFleet(w) \/ ReadRows(w) \/ BookForm(w)
    PROVE  TypeInv'
  <1>1. /\ req[w] \in Post => req[w].key \in Keys \cup {Malformed}
        /\ req[w] \in Post => req[w].carType \in CarTypes /\ req[w].period \in Periods
    BY DEF Post
  <1> USE DEF TypeInv, TypeOK, InHand, FormPc, CheckPc, Goto, Forget, world, desk, history
  <1>2. CASE SubmitCancel(w)
    BY <1>2 DEF SubmitCancel, CancelRequest
  <1>3. CASE FormRefused(w)
    <2>1. page' \in [Customers -> Page]
      BY <1>1, <1>3, ShowTyped DEF FormRefused
    <2> QED
      BY <1>3, <2>1 DEF FormRefused
  <1>4. CASE CheckForm(w)
    BY <1>4 DEF CheckForm
  <1>5. CASE Goto(w, "check_policy", "read_fleet") /\ CheckPolicy(w)
    BY <1>5 DEF CheckPolicy
  <1>6. CASE Goto(w, "check_policy", "idle") /\ CheckPolicy(w)
    <2>1. page' \in [Customers -> Page]
      BY <1>1, <1>6, ShowTyped DEF CheckPolicy
    <2>2. advice' \subseteq [carType : CarTypes, period : Periods, free : Nat]
      BY <1>1, <1>6 DEF CheckPolicy, Advise
    <2> QED
      BY <1>6, <2>1, <2>2 DEF CheckPolicy, Advise
  <1>7. CASE Goto(w, "read_fleet", "read_rows") /\ ReadFleet(w)
    BY <1>1, <1>7 DEF ReadFleet, FormValid
  <1>8. CASE Goto(w, "read_fleet", "idle") /\ ReadFleet(w)
    <2>1. page' \in [Customers -> Page]
      BY <1>1, <1>8, ShowTyped DEF ReadFleet
    <2> QED
      BY <1>8, <2>1 DEF ReadFleet
  <1>9. CASE ReadRows(w)
    <2>1. page' \in [Customers -> Page]
      BY <1>1, <1>9, ShowTyped DEF ReadRows
    <2>2. /\ req[w].carType \in CarTypes /\ req[w].period \in Periods
          /\ size[w] \in Int
      <3>1. pc[w] = "read_rows"
        BY <1>9 DEF ReadRows
      <3> QED
        BY <1>1, <3>1
    <2>3. Remaining(size[w], Active(req[w].carType, req[w].period), req[w].period) \in Nat
      <3> HIDE DEF TypeOK
      <3> QED
        BY <2>2, RemainingIsNat
    <2>4. advice' \subseteq [carType : CarTypes, period : Periods, free : Nat]
      <3> DEFINE n == Remaining(size[w], Active(req[w].carType, req[w].period), req[w].period)
      <3>1. Advise(w, n) /\ n \in Nat
        BY <1>9, <2>3 DEF ReadRows
      <3> HIDE DEF n
      <3> QED
        BY <2>2, <3>1 DEF Advise
    <2> QED
      BY <1>9, <2>1, <2>4 DEF ReadRows, Advise
  <1>10. CASE BookForm(w)
    BY <1>10 DEF BookForm
  <1> QED
    BY <1>2, <1>3, <1>4, <1>5, <1>6, <1>7, <1>8, <1>9, <1>10 DEF CheckPolicy, ReadFleet

-----------------------------------------------------------------------------
(* What the desk does for a worker *)

\* The booking reserve() makes.
NewBooking(w) ==
    [id |-> nextId, customer |-> req[w].customer, carType |-> req[w].carType,
     period |-> req[w].period, key |-> req[w].key, cancelledAt |-> NotCancelled]

LEMMA NewFields ==
    ASSUME TypeOK, NEW w \in Workers, req[w] \in Post, req[w].key # Malformed
    PROVE  /\ NewBooking(w) \in BookingRecord
           /\ NewBooking(w).id = nextId
           /\ FormOf(NewBooking(w)) = req[w]
           /\ IsAbout(NewBooking(w), req[w])
           /\ IsFor(NewBooking(w), req[w].carType, req[w].period)
           /\ ~IsCancelled(NewBooking(w))
  BY DEF TypeOK, NewBooking, BookingRecord, Post, NotCancelled, IsAbout, IsFor,
         IsCancelled, FormOf

Replayed(w, k) ==
    /\ k \in rows /\ IsAbout(k, req[w]) /\ fleet[req[w].carType] # NoFleet
    /\ Answered(w, ReplayResult(k, req[w]),
                IF ReplayResult(k, req[w]) = "replayed" THEN k ELSE NoBooking)
    /\ UNCHANGED <<rows, nextId, history>>

Refused(w, x) ==
    /\ \/ x \in {"FleetBusy", "ServerError"}
       \/ x = "InvalidIdempotencyKey" /\ req[w].key = Malformed
       \/ /\ x = Refusal(w) /\ x # "none"
          /\ BookingOf(req[w]) = {} \/ fleet[req[w].carType] = NoFleet
    /\ Answered(w, x, NoBooking)
    /\ UNCHANGED <<rows, nextId, history>>

Booked(w, b) ==
    /\ b = NewBooking(w) /\ req[w].key # Malformed
    /\ BookingOf(req[w]) = {} /\ Refusal(w) = "none"
    /\ Answered(w, "booked", b)
    /\ rows' = rows \cup {b} /\ nextId' = nextId + 1
    /\ BookingsChange

LEMMA ReserveCases ==
    ASSUME TypeInv, NEW w \in Workers, Reserve(w)
    PROVE  /\ pc[w] = "reserve" /\ req[w] \in Post /\ answer[w] = "none"
           /\ \/ \E k \in rows : Replayed(w, k)
              \/ \E x \in DomainErrors \cup {"ServerError"} : Refused(w, x)
              \/ \E b \in BookingRecord : Booked(w, b)
  <1>1. pc[w] = "reserve" /\ req[w] \in Post /\ answer[w] = "none"
    BY DEF Reserve, TypeInv, InHand
  <1>2. ASSUME NEW k \in BookingOf(req[w]), fleet[req[w].carType] # NoFleet,
               Answered(w, ReplayResult(k, req[w]),
                        IF ReplayResult(k, req[w]) = "replayed" THEN k ELSE NoBooking),
               UNCHANGED <<rows, nextId, history>>
        PROVE  \E c \in rows : Replayed(w, c)
    BY <1>2 DEF BookingOf, Replayed
  <1>3. Refusal(w) \in DomainErrors \cup {"none"}
    BY DEF Refusal, DomainErrors
  <1>4. ASSUME BookingOf(req[w]) = {} \/ fleet[req[w].carType] = NoFleet,
               Refusal(w) # "none", Answered(w, Refusal(w), NoBooking),
               UNCHANGED <<rows, nextId, history>>
        PROVE  \E x \in DomainErrors \cup {"ServerError"} : Refused(w, x)
    <2>1. PICK x \in DomainErrors : x = Refusal(w)
      BY <1>3, <1>4
    <2>2. Answered(w, x, NoBooking)
      BY <1>4, <2>1 DEF Answered
    <2> QED
      BY <1>4, <2>1, <2>2 DEF Refused
  <1>5. ASSUME NEW x \in {"FleetBusy", "ServerError"}, Answered(w, x, NoBooking),
               UNCHANGED <<rows, nextId, history>>
        PROVE  \E y \in DomainErrors \cup {"ServerError"} : Refused(w, y)
    BY <1>5 DEF Refused, DomainErrors
  <1>6. ASSUME req[w].key # Malformed, BookingOf(req[w]) = {}, Refusal(w) = "none",
               Answered(w, "booked", NewBooking(w)), rows' = rows \cup {NewBooking(w)},
               nextId' = nextId + 1, BookingsChange
        PROVE  \E b \in BookingRecord : Booked(w, b)
    <2>1. PICK b \in BookingRecord : b = NewBooking(w)
      BY <1>1, <1>6, NewFields DEF TypeInv
    <2>2. Answered(w, "booked", b)
      BY <1>6, <2>1 DEF Answered
    <2> QED
      BY <1>6, <2>1, <2>2 DEF Booked
  <1>7. ASSUME req[w].key = Malformed, Answered(w, "InvalidIdempotencyKey", NoBooking),
               UNCHANGED <<rows, nextId, history>>
        PROVE  \E y \in DomainErrors \cup {"ServerError"} : Refused(w, y)
    BY <1>7 DEF Refused, DomainErrors
  <1> QED
    BY <1>1, <1>2, <1>4, <1>5, <1>6, <1>7 DEF Reserve, NewBooking, BookingOf

\* cancel() answers, and writes nothing.
Kept(w) ==
    /\ \/ \E b \in rows : IsCancelled(b) /\ Answered(w, "cancelled", b)
       \/ \E x \in {"ReservationNotCancellable", "ReservationNotFound", "ServerError"} :
              Answered(w, x, NoBooking)
    /\ UNCHANGED <<rows, nextId, history>>

Withdrawn(w, b, t) ==
    /\ t = now /\ ~IsCancelled(b) /\ now < b.period.end
    /\ Answered(w, "cancelled", Cancelled(b, t))
    /\ rows' = (rows \ {b}) \cup {Cancelled(b, t)}
    /\ BookingsChange /\ UNCHANGED nextId

LEMMA CancelCases ==
    ASSUME TypeInv, NEW w \in Workers, Cancel(w)
    PROVE  /\ pc[w] = "cancel" /\ req[w] \in CancelRequest /\ answer[w] = "none"
           /\ Kept(w) \/ \E b \in rows : \E t \in 0 .. now : Withdrawn(w, b, t)
  <1>1. pc[w] = "cancel" /\ req[w] \in CancelRequest /\ answer[w] = "none"
    BY DEF Cancel, TypeInv, InHand
  <1>2. \/ Kept(w)
        \/ \E b \in rows :
             /\ ~IsCancelled(b) /\ now < b.period.end
             /\ Answered(w, "cancelled", Cancelled(b, now))
             /\ rows' = (rows \ {b}) \cup {Cancelled(b, now)}
             /\ BookingsChange /\ UNCHANGED nextId
    BY DEF Cancel, Kept
  <1>3. PICK t \in 0 .. now : t = now
    BY DEF TypeInv, TypeOK
  <1>4. \A b : Answered(w, "cancelled", Cancelled(b, now))
                  => Answered(w, "cancelled", Cancelled(b, t))
    BY <1>3 DEF Answered
  <1>5. Kept(w) \/ \E b \in rows : Withdrawn(w, b, t)
    BY <1>2, <1>3, <1>4 DEF Withdrawn
  <1> QED
    BY <1>1, <1>5

LEMMA TypeReserve ==
    ASSUME TypeInv, NEW w \in Workers, Reserve(w)
    PROVE  TypeInv'
  <1>1. pc[w] = "reserve" /\ req[w] \in Post
    BY ReserveCases
  <1>2. req[w] \notin CancelRequest
    BY <1>1 DEF Post, CancelRequest
  <1> USE DEF TypeInv, TypeOK, InHand, FormPc, CheckPc, Answered, history, Answers, DomainErrors
  <1>3. ASSUME NEW k \in rows, Replayed(w, k) PROVE TypeInv'
    <2>1. ReplayResult(k, req[w]) \in {"replayed", "IdempotencyConflict"}
      BY DEF ReplayResult
    <2> QED
      BY <1>1, <1>3, <1>2, <2>1 DEF Replayed
  <1>4. ASSUME NEW x \in DomainErrors \cup {"ServerError"}, Refused(w, x) PROVE TypeInv'
    BY <1>1, <1>4, <1>2 DEF Refused
  <1>5. ASSUME NEW b \in BookingRecord, Booked(w, b) PROVE TypeInv'
    <2>1. /\ Answered(w, "booked", b) /\ rows' = rows \cup {b} /\ nextId' = nextId + 1
          /\ BookingsChange
      BY <1>5 DEF Booked
    <2>2. TypeOK'
      BY <2>1 DEF BookingsChange
    <2>3. \A v \in Workers : InHand(v)'
      BY <1>1, <2>1, <1>2
    <2> QED
      BY <2>2, <2>3
  <1> QED
    BY <1>3, <1>4, <1>5, ReserveCases

LEMMA TypeCancel ==
    ASSUME TypeInv, NEW w \in Workers, Cancel(w)
    PROVE  TypeInv'
  <1>1. pc[w] = "cancel" /\ req[w] \in CancelRequest
    BY CancelCases
  <1>2. Kept(w) \/ \E b \in rows : \E t \in 0 .. now : Withdrawn(w, b, t)
    BY CancelCases
  <1> USE DEF TypeInv, TypeOK, InHand, FormPc, CheckPc, Answered, history, Answers, DomainErrors
  <1>3. CASE Kept(w)
    BY <1>1, <1>3 DEF Kept
  <1>4. ASSUME NEW b \in rows, NEW t \in 0 .. now, Withdrawn(w, b, t) PROVE TypeInv'
    <2>1. Cancelled(b, t) \in BookingRecord
      BY CancelledFields
    <2> QED
      BY <1>1, <1>4, <2>1 DEF Withdrawn, BookingsChange
  <1> QED
    BY <1>2, <1>3, <1>4

LEMMA TypeRender ==
    ASSUME TypeInv, \A v \in Workers : Knows(v), NEW w \in Workers,
           Redirect(w) \/ Reissue(w) \/ Explain(w) \/ ShowNoForm(w)
    PROVE  TypeInv'
  <1>1. Done(w) /\ pc[w] = "render"
    BY DEF Redirect, Reissue, Explain, ShowNoForm, Done, Goto
  <1>2. page' \in [Customers -> Page] /\ forms' \in [Customers -> SUBSET Keys]
    <2>1. CASE ShowNoForm(w)
      BY <2>1 DEF ShowNoForm, TypeInv, TypeOK
    <2>2. CASE Redirect(w) \/ Reissue(w) \/ Explain(w)
      <3>1. req[w] \in Post
        BY <1>1, <2>2 DEF TypeInv, InHand, Redirect, Reissue, Explain, Knows
      <3>2. req[w].key \in Keys \cup {Malformed}
        BY <3>1 DEF Post
      <3>3. \E k \in Keys \cup {Malformed}, says \in {"Booked", "AlreadyMade", "NothingBooked", "AlreadyUsed", "Error"} :
                Show(w, says, k)
        BY <2>2, <3>2 DEF Redirect, Reissue, Explain, Message
      <3>4. forms' \in [Customers -> SUBSET Keys]
        BY <2>2 DEF Redirect, Reissue, Explain, NewKey, TypeInv, TypeOK
      <3> QED
        BY <3>1, <3>3, <3>4, ShowTyped DEF TypeInv
    <2> QED
      BY <2>1, <2>2
  <1> QED
    BY <1>1, <1>2
       DEF Done, Forget, Goto, world, history, TypeInv, TypeOK, InHand, FormPc, CheckPc, Answers

LEMMA TypeOthers ==
    ASSUME TypeInv,
           \/ \E c \in Customers : Open(c)
           \/ \E ct \in CarTypes : SetFleet(ct) \/ DeleteFleet(ct)
           \/ Tick \/ UNCHANGED vars
    PROVE  TypeInv'
  <1> USE DEF TypeInv, TypeOK, InHand, WorldChanges, world, desk, history
  <1>1. CASE \E c \in Customers : Open(c)
    BY <1>1 DEF Open, NewKey
  <1>2. CASE \E ct \in CarTypes : SetFleet(ct) \/ DeleteFleet(ct)
    BY <1>2, DashboardAssumption DEF SetFleet, DeleteFleet
  <1>3. CASE Tick
    BY <1>3 DEF Tick
  <1>4. CASE UNCHANGED vars
    BY <1>4 DEF vars
  <1> QED
    BY <1>1, <1>2, <1>3, <1>4

\* What is not a worker's doing.
OtherStep ==
    \/ \E c \in Customers : Open(c)
    \/ \E ct \in CarTypes : SetFleet(ct) \/ DeleteFleet(ct)
    \/ Tick \/ UNCHANGED vars

LEMMA Steps == [Next]_vars => OtherStep \/ \E w \in Workers : WorkerStep(w)
  BY DEF Next, OtherStep, WorkerStep, Terminated

LEMMA TypeStep ==
    TypeInv /\ RowInv /\ (\A w \in Workers : Knows(w)) /\ [Next]_vars => TypeInv'
  BY Steps, TypeSubmit, TypeCheck, TypeReserve, TypeCancel, TypeRender, TypeOthers
     DEF OtherStep, WorkerStep, RowInv, FormPc

-----------------------------------------------------------------------------
(* Bookings and forms *)

\* Every booking stays, with what it was made for, and stays cancelled.
RowsKept ==
    \A b \in rows : \E c \in rows' :
        /\ c.id = b.id /\ c.customer = b.customer /\ c.carType = b.carType
        /\ c.period = b.period /\ c.key = b.key
        /\ IsCancelled(b) => IsCancelled(c)

\* Only the desk writes the bookings.
LEMMA OnlyTheDeskWrites ==
    ASSUME NEW w \in Workers, WorkerStep(w), ~Reserve(w), ~Cancel(w)
    PROVE  UNCHANGED <<rows, nextId>>
  BY DEF WorkerStep, Submit, SubmitCancel, FormRefused, CheckForm, CheckPolicy, ReadFleet,
         ReadRows, BookForm, Redirect, Reissue, Explain, ShowNoForm, Done, world

LEMMA OthersWriteNothing == OtherStep => UNCHANGED <<rows, nextId>>
  BY DEF OtherStep, Open, SetFleet, DeleteFleet, Tick, vars, world

\* A booking is made, or cancelled, or none is.
LEMMA RowCases ==
    ASSUME TypeInv, [Next]_vars
    PROVE  \/ UNCHANGED <<rows, nextId>>
           \/ \E w \in Workers : /\ pc[w] = "reserve" /\ req[w] \in Post
                                 /\ \E b \in BookingRecord : Booked(w, b)
           \/ \E w \in Workers, b \in rows : \E t \in 0 .. now : Withdrawn(w, b, t)
  <1>1. ASSUME NEW w \in Workers, Reserve(w), ~UNCHANGED <<rows, nextId>>
        PROVE  /\ pc[w] = "reserve" /\ req[w] \in Post
               /\ \E b \in BookingRecord : Booked(w, b)
    BY <1>1, ReserveCases DEF Replayed, Refused
  <1>2. ASSUME NEW w \in Workers, Cancel(w), ~UNCHANGED <<rows, nextId>>
        PROVE  \E b \in rows : \E t \in 0 .. now : Withdrawn(w, b, t)
    BY <1>2, CancelCases DEF Kept
  <1> QED
    BY <1>1, <1>2, Steps, OnlyTheDeskWrites, OthersWriteNothing

LEMMA RowsAreKept == TypeInv /\ [Next]_vars => RowsKept
  <1> SUFFICES ASSUME TypeInv, [Next]_vars PROVE RowsKept
    OBVIOUS
  <1>1. ASSUME NEW b \in rows, NEW t \in 0 .. now, rows' = (rows \ {b}) \cup {Cancelled(b, t)}
        PROVE  RowsKept
    <2>1. /\ Cancelled(b, t).id = b.id /\ Cancelled(b, t).customer = b.customer
          /\ Cancelled(b, t).carType = b.carType /\ Cancelled(b, t).period = b.period
          /\ Cancelled(b, t).key = b.key /\ IsCancelled(Cancelled(b, t))
      <3>1. b \in BookingRecord /\ t \in Nat
        BY DEF TypeInv, TypeOK
      <3> QED
        BY ONLY <3>1, CancelledFields
    <2>2. \A c \in rows : c = b \/ c \in rows'
      BY <1>1
    <2>3. Cancelled(b, t) \in rows'
      BY <1>1
    <2> QED
      BY <2>1, <2>2, <2>3 DEF RowsKept
  <1>2. rows \subseteq rows' => RowsKept
    BY DEF RowsKept
  <1> QED
    BY <1>1, <1>2, RowCases DEF Booked, Withdrawn

\* One more key, shown to c or made up by c.
WithForm(c, k) == forms' = [forms EXCEPT ![c] = @ \cup {k}]

\* Forms are only ever added, and so are the forms submitted.
LEMMA FormsAreKept ==
    TypeInv /\ [Next]_vars =>
        submitted \subseteq submitted' /\ \A c \in Customers : forms[c] \subseteq forms'[c]
  <1> SUFFICES ASSUME TypeInv, [Next]_vars
               PROVE  submitted \subseteq submitted' /\ \A c \in Customers : forms[c] \subseteq forms'[c]
    OBVIOUS
  <1>1. ASSUME NEW w \in Workers, WorkerStep(w) PROVE submitted \subseteq submitted'
    BY <1>1, ReserveCases, CancelCases
       DEF WorkerStep, Submit, SubmitCancel, FormRefused, CheckForm, CheckPolicy, ReadFleet,
         ReadRows, BookForm, Replayed, Refused, Booked, Kept, Withdrawn, BookingsChange, Advise,
         Redirect, Reissue, Explain, ShowNoForm, Done, history
  <1>2. ASSUME NEW w \in Workers, WorkerStep(w)
        PROVE  forms' = forms \/ \E k \in Keys : \E c : WithForm(c, k)
    BY <1>2, ReserveCases, CancelCases
       DEF WorkerStep, Submit, SubmitCancel, FormRefused, CheckForm, CheckPolicy, ReadFleet,
         ReadRows, BookForm, Replayed, Refused, Booked, Kept, Withdrawn, Answered,
         Redirect, Reissue, Explain, ShowNoForm, Done, NewKey, WithForm
  <1>3. OtherStep => submitted' = submitted /\ (forms' = forms \/ \E k \in Keys : \E c : WithForm(c, k))
    BY DEF NewKey, WithForm, OtherStep, Open, SetFleet, DeleteFleet, WorldChanges, Tick, vars, history
  <1>4. ASSUME NEW k \in Keys, NEW c, WithForm(c, k)
        PROVE  \A d \in Customers : forms[d] \subseteq forms'[d]
    BY <1>4 DEF WithForm, TypeInv, TypeOK
  <1> QED
    BY <1>1, <1>2, <1>3, <1>4, Steps

LEMMA FormInit == Init => RowInv /\ FormInv
  BY FS_EmptySet DEF Init, RowInv, FormInv

LEMMA FormFrame ==
    ASSUME TypeInv, FormInv, [Next]_vars, NEW v \in Workers,
           pc'[v] = pc[v], req'[v] = req[v]
    PROVE  pc'[v] \in {"book_form", "reserve"} => req'[v] \in submitted'
  BY FormsAreKept DEF FormInv

LEMMA FormStep == TypeInv /\ FormInv /\ [Next]_vars => FormInv'
  <1> SUFFICES ASSUME TypeInv, FormInv, [Next]_vars PROVE FormInv'
    OBVIOUS
  <1>1. \A r \in submitted' : r.key \in Keys => r.key \in forms'[r.customer]
    <2>1. \A r \in submitted : r.customer \in Customers /\ (r.key \in Keys => r.key \in forms[r.customer])
      BY DEF FormInv, TypeInv, TypeOK, Post
    <2>2. submitted' = submitted \/ \E r \in Post :
              /\ r.key \in Keys => r.key \in forms'[r.customer]
              /\ submitted' = submitted \cup {r}
      <3>1. ASSUME NEW w \in Workers, NEW action, Submit(w, action)
            PROVE  submitted' = submitted \/ \E r \in Post :
                      /\ r.key \in Keys => r.key \in forms'[r.customer]
                      /\ submitted' = submitted \cup {r}
        BY <3>1 DEF Submit, Post, TypeInv, TypeOK
      <3>2. ASSUME NEW w \in Workers, WorkerStep(w),
                   ~Submit(w, "book_form"), ~Submit(w, "check_form")
            PROVE  submitted' = submitted
        BY <3>2, ReserveCases, CancelCases
           DEF WorkerStep, SubmitCancel, FormRefused, CheckForm, CheckPolicy, ReadFleet,
             ReadRows, BookForm, Replayed, Refused, Booked, Kept, Withdrawn, BookingsChange,
             Advise, Redirect, Reissue, Explain, ShowNoForm, Done, history
      <3>3. OtherStep => submitted' = submitted
        BY DEF OtherStep, Open, SetFleet, DeleteFleet, WorldChanges, Tick, vars, history
      <3> QED
        BY <3>1, <3>2, <3>3, Steps
    <2> QED
      BY <2>1, <2>2, FormsAreKept
  <1>2. ASSUME NEW w \in Workers, WorkerStep(w), NEW v \in Workers
        PROVE  pc'[v] \in {"book_form", "reserve"} => req'[v] \in submitted'
    <2>1. CASE v # w
      BY <1>2, <2>1, OthersStay, FormFrame DEF TypeInv
    <2>2. CASE v = w
      <3>1. \/ pc'[w] = "book_form" /\ req'[w] \in submitted'
            \/ pc'[w] = "reserve" /\ req'[w] = req[w] /\ pc[w] = "book_form"
            \/ pc'[w] \notin {"book_form", "reserve"}
        BY <1>2 DEF WorkerStep, Submit, SubmitCancel, FormRefused, CheckForm, CheckPolicy,
             ReadFleet, ReadRows, BookForm, Reserve, Cancel, Answered, Redirect, Reissue,
             Explain, ShowNoForm, Done, Goto, Forget, TypeInv, TypeOK
      <3> QED
        BY <2>2, <3>1, FormsAreKept DEF FormInv
    <2> QED
      BY <2>1, <2>2
  <1>3. ASSUME OtherStep PROVE UNCHANGED <<pc, req>>
    BY <1>3 DEF OtherStep, Open, SetFleet, DeleteFleet, Tick, vars
  <1> QED
    BY <1>1, <1>2, <1>3, Steps, FormFrame DEF FormInv

LEMMA RowStep == TypeInv /\ RowInv /\ FormInv /\ [Next]_vars => RowInv'
  <1> SUFFICES ASSUME TypeInv, RowInv, FormInv, [Next]_vars PROVE RowInv'
    OBVIOUS
  <1>1. submitted \subseteq submitted'
    BY FormsAreKept
  <1>2. CASE UNCHANGED <<rows, nextId>>
    BY <1>1, <1>2 DEF RowInv, IsAbout
  <1>3. ASSUME NEW w \in Workers, pc[w] = "reserve", req[w] \in Post,
               NEW b \in BookingRecord, Booked(w, b)
        PROVE  RowInv'
    <2>1. /\ b.id = nextId /\ FormOf(b) = req[w] /\ IsAbout(b, req[w])
          /\ BookingOf(req[w]) = {} /\ rows' = rows \cup {b} /\ nextId' = nextId + 1
          /\ nextId \in Nat
      BY <1>3, NewFields DEF Booked, TypeInv, TypeOK
    <2>2. FormOf(b) \in submitted
      BY <1>3, <2>1 DEF FormInv
    <2>3. \A c \in rows : /\ c.id \in Nat /\ c.id < nextId
                          /\ ~IsAbout(c, b) /\ ~IsAbout(b, c)
      BY <2>1 DEF RowInv, TypeInv, TypeOK, BookingRecord, BookingOf, IsAbout
    <2>4. IsFiniteSet(rows')
      BY <2>1, FS_AddElement DEF RowInv
    <2>5. \A c \in rows' : c \in rows \/ c = b
      BY <2>1
    <2>6. \A c \in rows' : c.id < nextId' /\ FormOf(c) \in submitted'
      BY <1>1, <2>1, <2>2, <2>3, <2>5 DEF RowInv
    <2>7. \A c, d \in rows' : c.id = d.id \/ IsAbout(c, d) => c = d
      BY <2>1, <2>3, <2>5 DEF RowInv
    <2> QED
      BY <2>4, <2>6, <2>7 DEF RowInv
  <1>4. ASSUME NEW w \in Workers, NEW b \in rows, NEW t \in 0 .. now, Withdrawn(w, b, t)
        PROVE  RowInv'
    <2>1. rows' = (rows \ {b}) \cup {Cancelled(b, t)} /\ nextId' = nextId
      BY <1>4 DEF Withdrawn
    <2>2. /\ Cancelled(b, t).id = b.id /\ Cancelled(b, t).customer = b.customer
          /\ Cancelled(b, t).key = b.key /\ FormOf(Cancelled(b, t)) = FormOf(b)
      <3>1. b \in BookingRecord /\ t \in Nat
        BY DEF TypeInv, TypeOK
      <3> QED
        BY ONLY <3>1, CancelledFields DEF FormOf
    <2>3. IsFiniteSet(rows')
      BY <2>1, FS_RemoveElement, FS_AddElement DEF RowInv
    <2>4. \A c \in rows' : (c \in rows /\ c # b) \/ c = Cancelled(b, t)
      BY <2>1
    <2>5. \A c \in rows' : c.id < nextId' /\ FormOf(c) \in submitted'
      BY <1>1, <2>1, <2>2, <2>4 DEF RowInv
    <2>6. \A c, d \in rows' : c.id = d.id \/ IsAbout(c, d) => c = d
      BY <2>2, <2>4 DEF RowInv, IsAbout
    <2> QED
      BY <2>3, <2>5, <2>6 DEF RowInv
  <1> QED
    BY <1>2, <1>3, <1>4, RowCases

-----------------------------------------------------------------------------
(* Answers and messages *)

\* Bookings made for a form stay so, and stay cancelled.
LEMMA RowsStayAbout ==
    ASSUME RowsKept, NEW b \in rows
    PROVE  \E c \in rows' :
              /\ c.id = b.id /\ c.customer = b.customer
              /\ \A r : IsAbout(b, r) => IsAbout(c, r)
              /\ \A ct, p : IsFor(b, ct, p) => IsFor(c, ct, p)
              /\ IsCancelled(b) => IsCancelled(c)
  BY DEF RowsKept, IsAbout, IsFor

LEMMA KnowsFrame ==
    ASSUME NEW v \in Workers, Knows(v), RowsKept, submitted \subseteq submitted',
           pc'[v] = pc[v], req'[v] = req[v], answer'[v] = answer[v], told'[v] = told[v],
           v \in late' <=> v \in late
    PROVE  Knows(v)'
  <1> USE DEF Knows
  <1>2. v \in late /\ req[v] \in Post =>
            \E b \in rows' : IsAbout(b, req[v]) /\ IsCancelled(b)
    BY RowsStayAbout
  <1>3. answer[v] \in {"booked", "replayed"} =>
            \E b \in rows' :
                /\ IsAbout(b, req[v]) /\ IsFor(b, req[v].carType, req[v].period)
                /\ IF IsCancelled(told[v]) THEN IsCancelled(b) /\ answer[v] = "replayed"
                   ELSE v \notin late
    BY RowsStayAbout
  <1>4. answer[v] = "IdempotencyConflict" =>
            \E r \in submitted' : r.customer = req[v].customer /\ r.key = req[v].key /\ r # req[v]
    OBVIOUS
  <1> QED
    BY <1>2, <1>3, <1>4

\* Before the desk is asked, and after its answer is shown.
LEMMA KnowsQuiet ==
    ASSUME TypeInv, RowInv, NEW w \in Workers, WorkerStep(w), Knows(w), ~Reserve(w), ~Cancel(w)
    PROVE  Knows(w)'
  <1>1. UNCHANGED rows
    BY OnlyTheDeskWrites
  <1> USE DEF TypeInv, TypeOK, InHand, Goto, Forget, FormPc, CheckPc, desk, history, world
  <1>2. ASSUME NEW action \in FormPc, Submit(w, action) PROVE Knows(w)'
    <2>1. PICK r \in Post :
              /\ req' = [req EXCEPT ![w] = r]
              /\ late' = IF \E b \in rows : IsAbout(b, r) /\ IsCancelled(b)
                         THEN late \cup {w} ELSE late \ {w}
      BY <1>2 DEF Submit
    <2>2. w \in late' => \E b \in rows : IsAbout(b, r) /\ IsCancelled(b)
      BY <2>1
    <2>3. req'[w] = r /\ answer'[w] = "none" /\ pc'[w] # "cancel"
      BY <1>2, <2>1 DEF Submit
    <2> QED
      BY <1>1, <2>2, <2>3 DEF Knows
  <1>3. CASE SubmitCancel(w)
    <2>1. PICK c \in Customers, i \in 1 .. nextId : req' = [req EXCEPT ![w] = [actor |-> c, id |-> i]]
      BY <1>3 DEF SubmitCancel
    <2>2. req'[w] = [actor |-> c, id |-> i] /\ answer'[w] = "none"
      BY <1>3, <2>1 DEF SubmitCancel
    <2>3. req'[w] \notin Post
      BY <2>2 DEF Post
    <2> QED
      BY <1>1, <2>2, <2>3 DEF Knows
  <1>4. CASE \/ FormRefused(w) \/ CheckForm(w) \/ CheckPolicy(w) \/ ReadFleet(w) \/ ReadRows(w)
             \/ BookForm(w)
    <2>1. /\ answer'[w] = "none" /\ late' = late
          /\ req'[w] = req[w] \/ req'[w] = NoRequest
          /\ pc'[w] # "cancel"
      BY <1>4 DEF FormRefused, CheckForm, CheckPolicy, ReadFleet, ReadRows, BookForm, Advise
    <2>2. NoRequest \notin Post
      BY DEF NoRequest, Post
    <2> QED
      BY <1>1, <2>1, <2>2 DEF Knows
  <1>5. CASE Redirect(w) \/ Reissue(w) \/ Explain(w) \/ ShowNoForm(w)
    <2>1. req'[w] = NoRequest /\ answer'[w] = "none" /\ pc'[w] = "idle"
      BY <1>5 DEF Redirect, Reissue, Explain, ShowNoForm, Done
    <2>2. NoRequest \notin Post
      BY DEF NoRequest, Post
    <2> QED
      BY <2>1, <2>2 DEF Knows
  <1> QED
    BY <1>2, <1>3, <1>4, <1>5 DEF WorkerStep

\* The answer of the desk is about the booking that is there, whoever made it.
LEMMA KnowsReserve ==
    ASSUME TypeInv, RowInv, NEW w \in Workers, Reserve(w), Knows(w)
    PROVE  Knows(w)'
  <1>1. pc[w] = "reserve" /\ req[w] \in Post
    BY ReserveCases
  <1> USE DEF TypeInv, TypeOK, Answered, history
  <1>2. ASSUME NEW k \in rows, Replayed(w, k) PROVE Knows(w)'
    <2>1. /\ IsAbout(k, req[w]) /\ UNCHANGED <<rows, late, submitted, req>>
          /\ answer'[w] = ReplayResult(k, req[w]) /\ pc'[w] = "render"
      BY <1>2 DEF Replayed
    <2>2. w \in late => IsCancelled(k)
      <3>1. ASSUME NEW b \in rows, IsAbout(b, req[w]) PROVE b = k
        BY <2>1, <3>1 DEF RowInv, IsAbout
      <3> QED
        BY <1>1, <3>1 DEF Knows
    <2>3. CASE IsFor(k, req[w].carType, req[w].period)
      <3>1. told'[w] = k /\ answer'[w] = "replayed"
        BY <1>2, <2>1, <2>3 DEF Replayed, ReplayResult
      <3> QED
        BY <1>1, <2>1, <2>2, <2>3, <3>1 DEF Knows
    <2>4. CASE ~IsFor(k, req[w].carType, req[w].period)
      <3>1. answer'[w] = "IdempotencyConflict"
        BY <2>1, <2>4 DEF ReplayResult
      <3>2. /\ FormOf(k) \in submitted /\ FormOf(k) # req[w]
            /\ FormOf(k).customer = req[w].customer /\ FormOf(k).key = req[w].key
        BY <2>1, <2>4 DEF RowInv, FormOf, IsAbout, IsFor
      <3> QED
        BY <1>1, <2>1, <2>2, <3>1, <3>2 DEF Knows
    <2> QED
      BY <2>3, <2>4
  <1>3. ASSUME NEW x \in DomainErrors \cup {"ServerError"}, Refused(w, x) PROVE Knows(w)'
    <2>1. /\ x \notin {"booked", "replayed", "IdempotencyConflict"}
          /\ x = "InvalidIdempotencyKey" => req[w].key = Malformed
          /\ answer'[w] = x /\ pc'[w] = "render" /\ UNCHANGED <<rows, late, submitted, req>>
      BY <1>3 DEF Refused, Refusal
    <2> QED
      BY <1>1, <2>1 DEF Knows
  <1>4. ASSUME NEW b \in BookingRecord, Booked(w, b) PROVE Knows(w)'
    <2>1. /\ IsAbout(b, req[w]) /\ IsFor(b, req[w].carType, req[w].period) /\ ~IsCancelled(b)
          /\ b \in rows' /\ told'[w] = b /\ answer'[w] = "booked" /\ pc'[w] = "render"
          /\ UNCHANGED <<late, req>>
      BY <1>1, <1>4, NewFields DEF Booked, BookingsChange
    <2>2. w \notin late
      BY <1>1, <1>4 DEF Knows, Booked, BookingOf
    <2> QED
      BY <1>1, <2>1, <2>2 DEF Knows
  <1> QED
    BY <1>2, <1>3, <1>4, ReserveCases

LEMMA KnowsCancel ==
    ASSUME TypeInv, NEW w \in Workers, Cancel(w), Knows(w)
    PROVE  Knows(w)'
  <1>1. /\ req'[w] = req[w] /\ pc'[w] = "render" /\ req[w] \in CancelRequest
        /\ answer'[w] \in {"cancelled", "ReservationNotCancellable", "ReservationNotFound",
                            "ServerError"}
    BY CancelCases DEF Kept, Withdrawn, Answered, TypeInv, TypeOK
  <1>2. req[w] \notin Post
    BY <1>1 DEF Post, CancelRequest
  <1> QED
    BY <1>1, <1>2 DEF Knows

KnowsInv == \A w \in Workers : Knows(w)

LEMMA KnowsInit == Init => KnowsInv
  BY DEF Init, KnowsInv, Knows

LEMMA KnowsStep == TypeInv /\ RowInv /\ KnowsInv /\ [Next]_vars => KnowsInv'
  <1> SUFFICES ASSUME TypeInv, RowInv, KnowsInv, [Next]_vars, NEW v \in Workers PROVE Knows(v)'
    BY DEF KnowsInv
  <1>1. RowsKept /\ submitted \subseteq submitted' /\ Knows(v)
    BY RowsAreKept, FormsAreKept DEF KnowsInv
  <1>2. ASSUME NEW w \in Workers, WorkerStep(w) PROVE Knows(v)'
    <2>1. CASE v # w
      BY <1>1, <1>2, <2>1, OthersStay, KnowsFrame DEF TypeInv
    <2>2. CASE v = w
      BY <1>1, <1>2, <2>2, KnowsQuiet, KnowsReserve, KnowsCancel
    <2> QED
      BY <2>1, <2>2
  <1>3. CASE OtherStep
    <2>1. UNCHANGED <<pc, req, answer, told, late>>
      BY <1>3 DEF OtherStep, Open, SetFleet, DeleteFleet, WorldChanges, Tick, vars, desk, history
    <2> QED
      BY <1>1, <2>1, KnowsFrame
  <1> QED
    BY <1>2, <1>3, Steps

\* What one page says is true.
Truth(p) ==
    /\ p.says \in {"Booked", "AlreadyMade"} =>
          /\ \E b \in BookingOf(p.asked) : IsFor(b, p.asked.carType, p.asked.period)
          /\ ~p.late
    /\ p.says = "NothingBooked" => \E b \in BookingOf(p.asked) : IsCancelled(b)

\* It stays true: bookings are never changed, but by being cancelled.
LEMMA TruthStays ==
    ASSUME RowsKept, NEW p, Truth(p)
    PROVE  Truth(p)'
  <1>1. ASSUME NEW b \in BookingOf(p.asked)
        PROVE  \E c \in BookingOf(p.asked)' :
                  /\ \A ct, q : IsFor(b, ct, q) => IsFor(c, ct, q)
                  /\ IsCancelled(b) => IsCancelled(c)
    BY <1>1, RowsStayAbout DEF BookingOf
  <1> QED
    BY <1>1 DEF Truth

\* It says nothing of bookings.
Silent(says) == says \notin {"Booked", "AlreadyMade", "NothingBooked", "AlreadyUsed"}

LEMMA MostAreSilent == \A says \in {"", "Error"} : Silent(says)
  BY Zenon DEF Silent

\* Only these steps change what a browser shows.
LEMMA PageCases ==
    ASSUME TypeInv, [Next]_vars
    PROVE  \/ page' = page
           \/ \E w \in Workers :
                /\ req[w] \in Post
                /\ \/ \E k, says : Silent(says) /\ Show(w, says, k)
                   \/ Redirect(w) \/ Reissue(w)
  <1>1. ASSUME NEW w \in Workers, WorkerStep(w), page' # page, ~Redirect(w), ~Reissue(w)
        PROVE  /\ req[w] \in Post
               /\ \E says \in {"", "Error"} : Show(w, says, req[w].key)
    <2> USE DEF TypeInv, TypeOK, InHand, FormPc, CheckPc, desk, Goto
    <2>1. CASE FormRefused(w)
      BY <2>1 DEF FormRefused
    <2>2. CASE CheckPolicy(w)
      BY <1>1, <2>2 DEF CheckPolicy
    <2>3. CASE ReadFleet(w)
      BY <1>1, <2>3 DEF ReadFleet
    <2>4. CASE ReadRows(w)
      BY <2>4 DEF ReadRows
    <2>5. CASE Explain(w)
      <3>1. /\ pc[w] = "render"
            /\ answer[w] \in {"CarTypeNotFound", "InvalidRentalPeriod", "NoAvailability", "FleetBusy"}
            /\ Show(w, "Error", req[w].key)
        BY <2>5 DEF Explain, Done
      <3> QED
        BY <3>1
    <2> QED
      BY <1>1, <2>1, <2>2, <2>3, <2>4, <2>5, ReserveCases, CancelCases
         DEF WorkerStep, Submit, SubmitCancel, CheckForm, BookForm, Replayed, Refused, Booked,
             Kept, Withdrawn, Answered, ShowNoForm
  <1>2. ASSUME NEW w \in Workers, Redirect(w) \/ Reissue(w), \A v \in Workers : InHand(v)
        PROVE  req[w] \in Post
    BY <1>2 DEF Redirect, Reissue, Done, Goto, InHand
  <1>3. OtherStep => page' = page
    BY DEF OtherStep, Open, SetFleet, DeleteFleet, Tick, vars
  <1>4. \A w \in Workers :
            \/ req[w] \notin Post
            \/ \A says \in {"", "Error"} : ~Show(w, says, req[w].key)
            \/ \E k, says : Silent(says) /\ Show(w, says, k)
    BY MostAreSilent
  <1> QED
    BY <1>1, <1>2, <1>3, <1>4, Steps DEF TypeInv

\* What a page shows to whom.
LEMMA ShowShows ==
    ASSUME TypeOK, NEW w \in Workers, req[w] \in Post, NEW says, NEW k,
           Show(w, says, k), NEW c \in Customers
    PROVE  IF c = req[w].customer
           THEN page'[c] = [says |-> says, asked |-> req[w], late |-> w \in late, key |-> k]
           ELSE page'[c] = page[c]
  BY DEF Show, TypeOK

LEMMA ShownFields ==
    ASSUME TypeOK, NEW w \in Workers, req[w] \in Post, NEW says, NEW k,
           Show(w, says, k), NEW c \in Customers, page'[c] # page[c]
    PROVE  /\ c = req[w].customer
           /\ page'[c].says = says /\ page'[c].asked = req[w] /\ page'[c].key = k
           /\ page'[c].late = (w \in late)
  <1>1. /\ c = req[w].customer
        /\ page'[c] = [says |-> says, asked |-> req[w], late |-> w \in late, key |-> k]
    BY ShowShows
  <1> QED
    BY <1>1

LEMMA MessagesInit == Init => MessagesAreTrue
  <1> SUFFICES ASSUME Init, NEW c \in Customers PROVE page[c].says = ""
    BY DEF MessagesAreTrue
  <1>1. page[c] = Blank
    BY DEF Init
  <1>2. Blank.says = ""
    BY DEF Blank
  <1> QED
    BY <1>1, <1>2

LEMMA MessagesStep ==
    TypeInv /\ KnowsInv /\ MessagesAreTrue /\ [Next]_vars => MessagesAreTrue'
  <1> SUFFICES ASSUME TypeInv, KnowsInv, MessagesAreTrue, [Next]_vars, NEW c \in Customers
               PROVE  Truth(page[c])'
    BY DEF MessagesAreTrue, Truth
  <1>1. RowsKept
    BY RowsAreKept
  <1>2. Truth(page[c])
    BY DEF MessagesAreTrue, Truth
  <1>3. CASE page'[c] = page[c]
    <2>1. PICK p : p = page[c]
      OBVIOUS
    <2>2. Truth(p)'
      BY <1>1, <1>2, <2>1, TruthStays
    <2> QED
      BY <1>3, <2>1, <2>2
  <1>4. ASSUME NEW w \in Workers, req[w] \in Post,
               NEW says, says \notin {"Booked", "AlreadyMade", "NothingBooked"},
               \E k : Show(w, says, k), page'[c] # page[c]
        PROVE  Truth(page[c])'
    <2>1. page'[c].says = says
      BY <1>4, ShownFields DEF TypeInv
    <2> QED
      BY <1>4, <2>1 DEF Truth
  <1>5. ASSUME NEW w \in Workers, req[w] \in Post, Redirect(w), page'[c] # page[c]
        PROVE  Truth(page[c])'
    <2>1. /\ answer[w] \in {"booked", "replayed"} /\ UNCHANGED <<rows, late>>
          /\ \E k \in Keys : Show(w, Message(answer[w], told[w]), k)
      BY <1>5 DEF Redirect, Done, world, history
    <2>2. PICK says : says = Message(answer[w], told[w])
      OBVIOUS
    <2>3. \E k \in Keys : Show(w, says, k)
      BY <2>1, <2>2
    <2>4. /\ page'[c].says = says /\ page'[c].asked = req[w]
          /\ page'[c].late = (w \in late)
      BY <1>5, <2>3, ShownFields DEF TypeInv
    <2>5. PICK b \in rows :
              /\ IsAbout(b, req[w]) /\ IsFor(b, req[w].carType, req[w].period)
              /\ IF IsCancelled(told[w]) THEN IsCancelled(b) /\ answer[w] = "replayed"
                 ELSE w \notin late
      BY <2>1 DEF KnowsInv, Knows
    <2>6. b \in BookingOf(page[c].asked)'
      BY <2>1, <2>4, <2>5 DEF BookingOf
    <2>7. CASE IsCancelled(told[w])
      <3>1. says = "NothingBooked" /\ IsCancelled(b)
        BY <2>2, <2>5, <2>7 DEF Message
      <3> QED
        BY <2>4, <2>6, <3>1 DEF Truth
    <2>8. CASE ~IsCancelled(told[w])
      <3>1. says \in {"Booked", "AlreadyMade"} /\ w \notin late
        BY <2>1, <2>2, <2>5, <2>8 DEF Message
      <3>2. ~page'[c].late
        BY <2>4, <3>1
      <3> QED
        BY <2>4, <2>5, <2>6, <3>1, <3>2 DEF Truth
    <2> QED
      BY <2>7, <2>8
  <1>6. ASSUME NEW w \in Workers, Reissue(w) PROVE \E k \in Keys : Show(w, "AlreadyUsed", k)
    BY <1>6 DEF Reissue
  <1> QED
    BY <1>3, <1>4, <1>5, <1>6, PageCases DEF Silent

\* A form that is shown as already used was submitted for something else or has
\* no key at all, and the form in its place is new.
LEMMA SpentForms ==
    ASSUME TypeInv, RowInv, FormInv, KnowsInv, [Next]_vars, NEW c \in Customers,
           page'[c] # page[c], page'[c].says = "AlreadyUsed"
    PROVE  /\ \/ page'[c].asked.key = Malformed
              \/ \E r \in submitted : /\ r.customer = c /\ r.key = page'[c].asked.key
                                      /\ r # page'[c].asked
           /\ page'[c].key \in Keys
           /\ \A r \in submitted : r.key # page'[c].key
           /\ \A b \in rows : b.key # page'[c].key
  <1>1. PICK w \in Workers : req[w] \in Post /\ Reissue(w)
    <2>1. ASSUME NEW w \in Workers, req[w] \in Post, NEW k,
                 NEW says, says # "AlreadyUsed", Show(w, says, k)
          PROVE  FALSE
      BY <2>1, ShownFields DEF TypeInv
    <2>2. ASSUME NEW w \in Workers, Redirect(w)
          PROVE  \E k, says : says # "AlreadyUsed" /\ Show(w, says, k)
      <3>1. Message(answer[w], told[w]) # "AlreadyUsed"
        BY DEF Message
      <3>2. PICK says : says = Message(answer[w], told[w])
        OBVIOUS
      <3>3. \E k : Show(w, says, k)
        BY <2>2, <3>2 DEF Redirect
      <3> QED
        BY <3>1, <3>2, <3>3
    <2> QED
      BY <2>1, <2>2, PageCases DEF Silent
  <1>2. PICK k \in Keys : NewKey(req[w].customer, k) /\ Show(w, "AlreadyUsed", k)
    BY <1>1 DEF Reissue
  <1>3. c = req[w].customer /\ page'[c].asked = req[w] /\ page'[c].key = k
    BY <1>1, <1>2, ShownFields DEF TypeInv
  <1>4. \/ req[w].key = Malformed
        \/ \E r \in submitted : r.customer = req[w].customer /\ r.key = req[w].key /\ r # req[w]
    BY <1>1 DEF KnowsInv, Knows, Reissue
  <1>5. \A r \in submitted : r.key \in Keys => r.key \in KeysOfForms
    BY DEF FormInv, TypeInv, TypeOK, Post, KeysOfForms
  <1>6. \A b \in rows : b.key \in KeysOfForms
    <2>1. \A b \in rows : FormOf(b) \in submitted /\ FormOf(b).key = b.key /\ b.key \in Keys
      BY DEF RowInv, FormOf, TypeInv, TypeOK, BookingRecord
    <2> QED
      BY <1>5, <2>1
  <1>7. k \notin KeysOfForms
    BY <1>2 DEF NewKey
  <1> QED
    BY <1>3, <1>4, <1>5, <1>6, <1>7

-----------------------------------------------------------------------------
(* Availability *)

LEMMA AdviceInit == Init => AdviceInv
  BY DEF Init, AdviceInv, Undisturbed

LEMMA UndisturbedFrame ==
    ASSUME NEW v \in Workers, Undisturbed(v), UNCHANGED <<now, fleet>>,
           pc'[v] = pc[v], req'[v] = req[v], size'[v] = size[v], v \in calm' => v \in calm
    PROVE  Undisturbed(v)'
  BY DEF Undisturbed

LEMMA StillTrueFrame ==
    ASSUME NEW a, StillTrue(a), UNCHANGED <<now, fleet, rows>>
    PROVE  StillTrue(a)'
  BY DEF StillTrue, Active

\* A worker changes neither the fleets nor the clock.
LEMMA WorkersLeaveTheWorld ==
    ASSUME NEW w \in Workers, WorkerStep(w)
    PROVE  UNCHANGED <<now, fleet>>
  BY DEF WorkerStep, Submit, SubmitCancel, FormRefused, CheckForm, CheckPolicy, ReadFleet,
         ReadRows, BookForm, Reserve, Cancel, Answered, Redirect, Reissue, Explain, ShowNoForm,
         Done, world

\* The steps of a check keep it undisturbed, and no other step is part of one.
LEMMA OwnStepUndisturbed ==
    ASSUME TypeInv, NEW w \in Workers, WorkerStep(w), Undisturbed(w)
    PROVE  Undisturbed(w)'
  <1>1. UNCHANGED <<now, fleet>>
    BY WorkersLeaveTheWorld
  <1> USE DEF TypeInv, TypeOK, Goto, Undisturbed, FormPc, CheckPc, history
  <1>2. CASE CheckForm(w)
    BY <1>1, <1>2 DEF CheckForm, FormValid
  <1>3. CASE CheckPolicy(w)
    <2>1. CASE Goto(w, "check_policy", "read_fleet")
      BY <1>1, <1>3, <2>1 DEF CheckPolicy
    <2>2. CASE Goto(w, "check_policy", "idle")
      BY <1>3, <2>2 DEF CheckPolicy, Advise
    <2> QED
      BY <1>3, <2>1, <2>2 DEF CheckPolicy
  <1>4. CASE ReadFleet(w)
    <2>1. CASE Goto(w, "read_fleet", "read_rows")
      BY <1>1, <1>4, <2>1 DEF ReadFleet
    <2>2. CASE Goto(w, "read_fleet", "idle")
      BY <1>4, <2>2 DEF ReadFleet, FormValid
    <2> QED
      BY <1>4, <2>1, <2>2 DEF ReadFleet
  <1>5. CASE ReadRows(w)
    BY <1>5 DEF ReadRows, Advise
  <1>6. CASE ~CheckForm(w) /\ ~CheckPolicy(w) /\ ~ReadFleet(w) /\ ~ReadRows(w)
    <2>1. pc[w] \notin CheckPc /\ (w \in calm' => w \in calm)
      BY <1>6, ReserveCases, CancelCases
         DEF WorkerStep, Submit, SubmitCancel, FormRefused, BookForm, Replayed, Refused, Booked,
             Kept, Withdrawn, BookingsChange, Redirect, Reissue, Explain, ShowNoForm, Done
    <2> QED
      BY <2>1
  <1> QED
    BY <1>2, <1>3, <1>4, <1>5, <1>6

\* Advice is given, or forgotten, or nothing it depends on changes.
LEMMA AdviceCases ==
    ASSUME TypeInv, NEW w \in Workers, WorkerStep(w)
    PROVE  \/ advice' = {}
           \/ UNCHANGED <<rows, advice>>
           \/ /\ UNCHANGED rows /\ pc[w] = "check_policy"
              /\ ~Permits(req[w].period, now) /\ Advise(w, 0)
           \/ ReadRows(w)
  <1>1. CASE Reserve(w) \/ Cancel(w)
    BY <1>1, ReserveCases, CancelCases
       DEF Replayed, Refused, Booked, Kept, Withdrawn, BookingsChange, history
  <1>2. CASE CheckPolicy(w)
    BY <1>2 DEF CheckPolicy, history, world, Goto
  <1> QED
    BY <1>1, <1>2
       DEF WorkerStep, Submit, SubmitCancel, FormRefused, CheckForm, ReadFleet, BookForm,
           Redirect, Reissue, Explain, ShowNoForm, Done, history, world

LEMMA AdviceOfCalm ==
    ASSUME NEW w \in Workers, NEW n, Advise(w, n), NEW a \in advice'
    PROVE  \/ a \in advice
           \/ /\ w \in calm
              /\ a.carType = req[w].carType /\ a.period = req[w].period /\ a.free = n
  BY DEF Advise

LEMMA AdviceStep == TypeInv /\ AdviceInv /\ [Next]_vars => AdviceInv'
  <1> SUFFICES ASSUME TypeInv, AdviceInv, [Next]_vars PROVE AdviceInv'
    OBVIOUS
  <1>1. ASSUME NEW w \in Workers, WorkerStep(w) PROVE AdviceInv'
    <2>1. UNCHANGED <<now, fleet>>
      BY <1>1, WorkersLeaveTheWorld
    <2>2. ASSUME NEW v \in Workers PROVE Undisturbed(v)'
      <3>1. CASE v = w
        BY <1>1, <3>1, OwnStepUndisturbed DEF AdviceInv
      <3>2. CASE v # w
        BY <1>1, <2>1, <3>2, OthersStay, UndisturbedFrame DEF AdviceInv, TypeInv
      <3> QED
        BY <3>1, <3>2
    <2>3. ASSUME NEW a \in advice' PROVE StillTrue(a)'
      <3>1. CASE UNCHANGED <<rows, advice>>
        BY <2>1, <3>1, StillTrueFrame DEF AdviceInv
      <3>2. CASE /\ UNCHANGED rows /\ pc[w] = "check_policy"
                 /\ ~Permits(req[w].period, now) /\ Advise(w, 0)
        <4>1. CASE a \in advice
          BY <2>1, <3>2, <4>1, StillTrueFrame DEF AdviceInv
        <4>2. CASE a \notin advice
          <5>1. w \in calm /\ a.carType = req[w].carType /\ a.period = req[w].period /\ a.free = 0
            BY <3>2, <4>2, AdviceOfCalm
          <5>2. fleet[req[w].carType] # NoFleet
            BY <5>1 DEF AdviceInv, Undisturbed
          <5>3. StillTrue(a)
            BY <3>2, <5>1, <5>2 DEF StillTrue
          <5> QED
            BY <2>1, <3>2, <5>3, StillTrueFrame
        <4> QED
          BY <4>1, <4>2
      <3>3. CASE ReadRows(w)
        <4>1. /\ Advise(w, Remaining(size[w], Active(req[w].carType, req[w].period), req[w].period))
              /\ pc[w] = "read_rows" /\ UNCHANGED rows
          BY <3>3 DEF ReadRows, Goto, world
        <4>2. CASE a \in advice
          BY <2>1, <4>1, <4>2, StillTrueFrame DEF AdviceInv
        <4>3. CASE a \notin advice
          <5>1. /\ w \in calm /\ a.carType = req[w].carType /\ a.period = req[w].period
                /\ a.free = Remaining(size[w], Active(req[w].carType, req[w].period), req[w].period)
            BY <4>1, <4>3, AdviceOfCalm
          <5>2. /\ fleet[req[w].carType] # NoFleet /\ Permits(req[w].period, now)
                /\ size[w] = fleet[req[w].carType]
            BY <4>1, <5>1 DEF AdviceInv, Undisturbed
          <5>3. StillTrue(a)
            BY <5>1, <5>2 DEF StillTrue
          <5> QED
            BY <2>1, <4>1, <5>3, StillTrueFrame
        <4> QED
          BY <4>2, <4>3
      <3> QED
        BY <1>1, <3>1, <3>2, <3>3, AdviceCases
    <2> QED
      BY <2>2, <2>3 DEF AdviceInv
  <1>2. CASE OtherStep
    <2>1. CASE calm' = {} /\ advice' = {}
      BY <2>1 DEF AdviceInv, Undisturbed
    <2>2. CASE UNCHANGED <<now, fleet, rows, pc, req, size, calm, advice>>
      <3>1. \A v \in Workers : Undisturbed(v)'
        BY <2>2, UndisturbedFrame DEF AdviceInv
      <3>2. \A a \in advice' : StillTrue(a)'
        BY <2>2, StillTrueFrame DEF AdviceInv
      <3> QED
        BY <3>1, <3>2 DEF AdviceInv
    <2> QED
      BY <1>2, <2>1, <2>2
         DEF OtherStep, Open, SetFleet, DeleteFleet, Tick, WorldChanges, vars, world, history
  <1> QED
    BY <1>1, <1>2, Steps

\* An answer to a reservation comes of the desk's step.
LEMMA OnlyTheDeskAnswers ==
    ASSUME TypeInv, [Next]_vars, NEW w \in Workers, pc[w] = "reserve", pc'[w] # "reserve"
    PROVE  Reserve(w)
  <1>1. ASSUME NEW v \in Workers, WorkerStep(v) PROVE Reserve(w)
    <2>1. v = w
      BY <1>1, OthersStay DEF TypeInv
    <2> QED
      BY <1>1, <2>1
         DEF WorkerStep, Submit, SubmitCancel, FormRefused, CheckForm, CheckPolicy, ReadFleet,
             ReadRows, BookForm, Cancel, Redirect, Reissue, Explain, ShowNoForm, Done, Goto,
             FormPc
  <1>2. OtherStep => UNCHANGED pc
    BY DEF OtherStep, Open, SetFleet, DeleteFleet, Tick, vars
  <1> QED
    BY <1>1, <1>2, Steps

\* What fresh advice says is what the desk answers.
LEMMA FreshAdvice ==
    ASSUME TypeInv, RowInv, NEW w \in Workers, Reserve(w), NEW a \in advice, StillTrue(a),
           a.carType = req[w].carType, a.period = req[w].period,
           req[w].key # Malformed, BookingOf(req[w]) = {}
    PROVE  answer'[w] \in {"FleetBusy", "ServerError",
                           IF a.free > 0 THEN "booked" ELSE "NoAvailability",
                           IF a.free > 0 THEN "booked" ELSE "InvalidRentalPeriod"}
  <1>1. /\ req[w] \in Post /\ req[w].carType \in CarTypes
        /\ req[w].period \in Periods /\ fleet[req[w].carType] \in Int
    BY ReserveCases DEF TypeInv, TypeOK, Post, NoFleet
  <1> DEFINE room == CanAccommodate(fleet[req[w].carType],
                                    Active(req[w].carType, req[w].period), req[w].period)
  <1>2. fleet[req[w].carType] # NoFleet
    BY DEF StillTrue
  <1>3. ~Permits(req[w].period, now) => a.free = 0
    BY DEF StillTrue
  <1>4. Permits(req[w].period, now) => (a.free > 0 <=> room)
    <2>1. Remaining(fleet[req[w].carType], Active(req[w].carType, req[w].period),
                    req[w].period) > 0 <=> room
      BY <1>1, RemainingIsNat DEF TypeInv, RowInv
    <2> QED
      BY <2>1 DEF StillTrue
  <1>5. Refusal(w) = IF ~Permits(req[w].period, now) THEN "InvalidRentalPeriod"
                     ELSE IF ~room THEN "NoAvailability" ELSE "none"
    BY <1>2 DEF Refusal
  <1> HIDE DEF room
  <1>6. ASSUME NEW k \in rows, Replayed(w, k) PROVE FALSE
    BY <1>6 DEF Replayed, BookingOf
  <1>7. ASSUME NEW x \in DomainErrors \cup {"ServerError"}, Refused(w, x)
        PROVE  /\ answer'[w] = x
               /\ \/ x \in {"FleetBusy", "ServerError"}
                  \/ x = Refusal(w) /\ x # "none"
    BY <1>7 DEF Refused, Answered, TypeInv, TypeOK
  <1>8. ASSUME NEW b \in BookingRecord, Booked(w, b)
        PROVE  answer'[w] = "booked" /\ Refusal(w) = "none"
    BY <1>8 DEF Booked, Answered, TypeInv, TypeOK
  <1>9. 0 > 0 <=> FALSE
    OBVIOUS
  <1> QED
    BY <1>3, <1>4, <1>5, <1>6, <1>7, <1>8, <1>9, ReserveCases

-----------------------------------------------------------------------------
(* Theorems *)

DashInv ==
    TypeInv /\ RowInv /\ FormInv /\ KnowsInv /\ MessagesAreTrue /\ AdviceInv

LEMMA DashInvariant == Spec => []DashInv
  <1>1. Init => DashInv
    BY TypeInit, FormInit, KnowsInit, MessagesInit, AdviceInit DEF DashInv
  <1>2. DashInv /\ [Next]_vars => DashInv'
    BY TypeStep, RowStep, FormStep, KnowsStep, MessagesStep, AdviceStep DEF DashInv, KnowsInv
  <1> QED
    BY <1>1, <1>2, PTL DEF Spec

\* Whatever is posted and in whatever order, the workers' requests, the desk's
\* answers, the pages and the advice keep their shape.
THEOREM DashboardTypes == Spec => []TypeOK
  <1>1. DashInv => TypeOK
    BY DEF DashInv, TypeInv
  <1> QED
    BY <1>1, DashInvariant, PTL

\* dashboard() tells a customer "booked", "already made" or "nothing was
\* booked" only of the booking the form asked for, and never that a booking
\* stands which had been cancelled when the form was sent, and the page stays
\* true as long as it is shown.
THEOREM MessagesHold == Spec => []MessagesAreTrue
  <1>1. DashInv => MessagesAreTrue
    BY DEF DashInv
  <1> QED
    BY <1>1, DashInvariant, PTL

\* dashboard() calls a form "already used" only if its key was submitted before
\* for something else or was tampered with until IdempotencyKey refuses it, and
\* the key _with_fresh_key() puts in its place is one the desk takes, on no form
\* that was ever submitted and on no booking.
THEOREM SpentFormsReissued == Spec => SpentFormsAreReissued
  <1>1. DashInv /\ [Next]_vars =>
            [\A c \in Customers :
                LET p == page'[c] IN
                p # page[c] /\ p.says = "AlreadyUsed" =>
                    /\ \/ p.asked.key = Malformed
                       \/ \E r \in submitted : r.customer = c /\ r.key = p.asked.key /\ r # p.asked
                    /\ p.key \in Keys
                    /\ \A r \in submitted : r.key # p.key
                    /\ \A b \in rows : b.key # p.key]_vars
    BY SpentForms DEF DashInv
  <1> QED
    BY <1>1, DashInvariant, PTL DEF Spec, SpentFormsAreReissued

\* What availability() answers a check, without a lock and from two reads, is
\* what reserve() then does with a new form for the same period, as long as
\* nothing has changed in between; a check that bookings and cancellations
\* disturbed is right all the same.
THEOREM ChecksAgree == Spec => AdviceHolds
  <1>1. ASSUME DashInv, [Next]_vars, NEW w \in Workers, NEW a \in advice,
               pc[w] = "reserve", pc'[w] = "render",
               a.carType = req[w].carType, a.period = req[w].period,
               req[w].key # Malformed, BookingOf(req[w]) = {}
        PROVE  answer'[w] \in {"FleetBusy", "ServerError",
                               IF a.free > 0 THEN "booked" ELSE "NoAvailability",
                               IF a.free > 0 THEN "booked" ELSE "InvalidRentalPeriod"}
    <2>1. Reserve(w) /\ StillTrue(a)
      BY <1>1, OnlyTheDeskAnswers DEF DashInv, AdviceInv
    <2> QED
      BY <1>1, <2>1, FreshAdvice DEF DashInv
  <1>2. DashInv /\ [Next]_vars =>
            [\A w \in Workers : \A a \in advice :
                 ( /\ pc[w] = "reserve" /\ pc'[w] = "render"
                   /\ a.carType = req[w].carType /\ a.period = req[w].period
                   /\ req[w].key # Malformed /\ BookingOf(req[w]) = {} )
                 => answer'[w] \in {"FleetBusy", "ServerError",
                                    IF a.free > 0 THEN "booked" ELSE "NoAvailability",
                                    IF a.free > 0 THEN "booked" ELSE "InvalidRentalPeriod"}]_vars
    BY <1>1
  <1> QED
    BY <1>2, DashInvariant, PTL DEF Spec, AdviceHolds
=============================================================================
