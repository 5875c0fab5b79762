------------------------- MODULE PostgresDesk_proofs ------------------------
(* Theorems about PostgresDesk, for every value of its constants. *)
EXTENDS PostgresDesk, FleetSchedule_proofs

-----------------------------------------------------------------------------
(* Types *)

\* What a worker has in hand at each point of its work.
InHand(w) ==
    /\ pc[w] \in ReservePc => req[w] \in ReserveRequest
    /\ pc[w] \in CancelPc => req[w] \in CancelRequest
    /\ pc[w] = "decide" => booking[w] \in BookingRecord
    /\ pc[w] = "rollback" /\ result[w] = "DuplicateIdempotencyKey"
          => req[w] \in ReserveRequest

TypeInv == TypeOK /\ \A w \in Workers : InHand(w)

\* A stored booking stays one when it is cancelled.
LEMMA CancelledIsBooking ==
    ASSUME NEW b \in BookingRecord, NEW t \in Nat
    PROVE  Cancelled(b, t) \in BookingRecord
  BY DEF Cancelled, BookingRecord

\* The row an INSERT writes is a booking.
LEMMA NewRowIsBooking ==
    ASSUME TypeOK, NEW w \in Workers, req[w] \in ReserveRequest
    PROVE  NewRow(w) \in BookingRecord
  BY DEF TypeOK, NewRow, BookingRecord, ReserveRequest, NotCancelled

LEMMA TypeInit == Init => TypeInv
  <1> SUFFICES ASSUME Init PROVE TypeInv
    OBVIOUS
  <1>1. TypeOK
    BY DeskAssumption DEF Init, TypeOK, Results, Answers, DomainErrors, NoFleet
  <1>2. ASSUME NEW w \in Workers PROVE InHand(w)
    BY DEF Init, InHand, ReservePc, CancelPc
  <1> QED
    BY <1>1, <1>2 DEF TypeInv

LEMMA TypeReceive ==
    ASSUME TypeInv, NEW w \in Workers, Receive(w)
    PROVE  TypeInv'
  <1> USE DEF TypeInv, TypeOK, InHand, Goto, Raise, NoTableChange, NoLockChange, tables,
          ReservePc, CancelPc, WorkingPc, Results, DomainErrors, Answers
  <1>1. CASE ReceiveReserve(w)
    BY <1>1 DEF ReceiveReserve
  <1>2. CASE RefuseKey(w)
    BY <1>2 DEF RefuseKey
  <1>3. CASE ReceiveCancel(w)
    BY <1>3 DEF ReceiveCancel, CancelRequest
  <1> QED
    BY <1>1, <1>2, <1>3 DEF Receive

LEMMA TypeReserve ==
    ASSUME TypeInv, NEW w \in Workers, ReserveStep(w)
    PROVE  TypeInv'
  <1> USE DEF TypeInv, TypeOK, InHand, Goto, Raise, NoTableChange, NoLockChange, tables,
          ReservePc, CancelPc, WorkingPc, Results, DomainErrors, Answers
  <1>1. CASE LockFleet(w)
    BY <1>1 DEF LockFleet, ReserveRequest
  <1>2. CASE CarTypeMissing(w)
    BY <1>2 DEF CarTypeMissing
  <1>3. CASE LockFleetTimeout(w)
    BY <1>3 DEF LockFleetTimeout
  <1>4. CASE FindNoKey(w)
    BY <1>4 DEF FindNoKey
  <1>5. CASE FindKey(w)
    BY <1>5 DEF FindKey, WithKey, ReplayResult
  <1>6. CASE Accept(w)
    BY <1>6 DEF Accept
  <1>7. CASE RefusePeriod(w)
    BY <1>7 DEF RefusePeriod
  <1>8. CASE FindRoom(w)
    BY <1>8 DEF FindRoom
  <1>9. CASE FindNoRoom(w)
    BY <1>9 DEF FindNoRoom
  <1>10. CASE Insert(w)
    BY <1>10, NewRowIsBooking DEF Insert
  <1>11. CASE InsertDuplicate(w)
    BY <1>11 DEF InsertDuplicate
  <1>12. CASE InsertTimeout(w)
    BY <1>12 DEF InsertTimeout
  <1>13. CASE Recover(w)
    BY <1>13 DEF Recover, WithKey, ReplayResult
  <1> QED
    BY <1>1, <1>2, <1>3, <1>4, <1>5, <1>6, <1>7, <1>8, <1>9, <1>10, <1>11, <1>12, <1>13 DEF ReserveStep

LEMMA TypeCancel ==
    ASSUME TypeInv, NEW w \in Workers, CancelStep(w)
    PROVE  TypeInv'
  <1> USE DEF TypeInv, TypeOK, InHand, Goto, Raise, NoTableChange, NoLockChange, tables,
          ReservePc, CancelPc, WorkingPc, Results, DomainErrors, Answers
  <1>1. CASE LockBooking(w)
    BY <1>1 DEF LockBooking, CancelRequest
  <1>2. CASE BookingMissing(w)
    BY <1>2 DEF BookingMissing
  <1>3. CASE LockBookingTimeout(w)
    BY <1>3 DEF LockBookingTimeout
  <1>4. CASE RefuseCancel(w)
    BY <1>4 DEF RefuseCancel
  <1>5. CASE CancelAgain(w)
    BY <1>5 DEF CancelAgain
  <1>6. CASE CancelBooking(w)
    BY <1>6, CancelledIsBooking DEF CancelBooking
  <1> QED
    BY <1>1, <1>2, <1>3, <1>4, <1>5, <1>6 DEF CancelStep

LEMMA TypeEnd ==
    ASSUME TypeInv, NEW w \in Workers, Commit(w) \/ Rollback(w) \/ Failure(w) \/ Respond(w)
    PROVE  TypeInv'
  <1> USE DEF TypeInv, TypeOK, InHand, Goto, Raise, NoTableChange, NoLockChange, tables,
          ReservePc, CancelPc, WorkingPc, Results, DomainErrors, Answers
  <1>1. CASE Commit(w)
    BY <1>1 DEF Commit, EndTransaction, Installed
  <1>2. CASE Rollback(w)
    BY <1>2 DEF Rollback, EndTransaction, AfterRollback
  <1>3. CASE CommitUnacknowledged(w)
    BY <1>3 DEF CommitUnacknowledged, EndTransaction, Installed
  <1>4. CASE Abort(w)
    BY <1>4 DEF Abort, EndTransaction
  <1>5. CASE Respond(w)
    BY <1>5 DEF Respond
  <1> QED
    BY <1>1, <1>2, <1>3, <1>4, <1>5 DEF Failure

LEMMA TypeAdmin ==
    ASSUME TypeInv, NEW ct \in CarTypes, AdminStep(ct)
    PROVE  TypeInv'
  <1> USE DEF TypeInv, TypeOK, InHand, workerVars
  <1>1. ASSUME NEW n \in FleetSizes, SetFleet(ct, n) PROVE TypeInv'
    BY <1>1, DeskAssumption DEF SetFleet
  <1>2. CASE DeleteFleet(ct)
    BY <1>2 DEF DeleteFleet
  <1> QED
    BY <1>1, <1>2 DEF AdminStep

LEMMA TypeStep == TypeInv /\ [Next]_vars => TypeInv'
  <1> SUFFICES ASSUME TypeInv, [Next]_vars PROVE TypeInv'
    OBVIOUS
  <1>1. ASSUME NEW w \in Workers, WorkerStep(w) PROVE TypeInv'
    BY <1>1, TypeReceive, TypeReserve, TypeCancel, TypeEnd DEF WorkerStep, Progress
  <1>2. ASSUME NEW ct \in CarTypes, AdminStep(ct) PROVE TypeInv'
    BY <1>2, TypeAdmin
  <1>3. CASE Tick
    BY <1>3 DEF Tick, TypeInv, TypeOK, InHand, tables, workerVars
  <1>4. CASE UNCHANGED vars
    BY <1>4 DEF vars, TypeInv, TypeOK, InHand, tables, workerVars
  <1> QED
    BY <1>1, <1>2, <1>3, <1>4 DEF Next, Terminated

\* Every variable keeps its type, and a worker always has in hand what the
\* code it is about to run uses: no step of reserve() or cancel() reads a
\* request or a booking that is not there.
THEOREM TypeCorrect == Spec => [](TypeOK /\ \A w \in Workers : InHand(w))
  <1> QED
    BY TypeInit, TypeStep, PTL DEF Spec, TypeInv

-----------------------------------------------------------------------------
(* Locks and write sets *)

FleetPc == {"find_key", "validate", "read_schedule", "insert"}
FreePc == {"idle", "lock_fleet", "lock_booking", "recover", "done"}

Inserting(w) == pc[w] = "commit" /\ result[w] = "booked"
Cancelling(w) == pc[w] = "commit" /\ result[w] = "cancelled" /\ written[w] # {}

\* The booking in w's memory has the parameters it was asked for.
MadeAsAsked(w) ==
    /\ req[w] \in ReserveRequest
    /\ booking[w] \in BookingRecord
    /\ booking[w].customer = req[w].customer
    /\ booking[w].carType = req[w].carType
    /\ booking[w].period = req[w].period
    /\ booking[w].key = req[w].key

\* What w has locked and written at each point of its work.
Holds(w) ==
    /\ pc[w] \in FleetPc \/ Inserting(w) =>
          /\ fleetHeld[w] = {req[w].carType}
          /\ size[w] = fleet[req[w].carType]
          /\ rowHeld[w] = {}
    /\ pc[w] = "decide" \/ Cancelling(w) =>
          /\ rowHeld[w] = {req[w].id}
          /\ fleetHeld[w] = {}
    /\ pc[w] = "decide" => booking[w].id = req[w].id
    /\ pc[w] \in FreePc => fleetHeld[w] = {} /\ rowHeld[w] = {}
    /\ written[w] # {} => Inserting(w) \/ Cancelling(w)
    /\ Inserting(w) =>
          /\ MadeAsAsked(w)
          /\ booking[w].cancelledAt = NotCancelled
          /\ written[w] = {booking[w]}
    /\ Cancelling(w) =>
          /\ req[w] \in CancelRequest
          /\ booking[w] \in BookingRecord
          /\ booking[w].id = req[w].id
          /\ written[w] = {booking[w]}

\* No two transactions hold one lock.
Mutex ==
    \A v, w \in Workers : v # w =>
        /\ fleetHeld[v] \cap fleetHeld[w] = {}
        /\ rowHeld[v] \cap rowHeld[w] = {}

LockInv == Mutex /\ \A w \in Workers : Holds(w)

LEMMA LockInit == Init => LockInv
  BY DEF Init, LockInv, Mutex, Holds, Inserting, Cancelling, FleetPc, FreePc

LEMMA LockReceive ==
    ASSUME TypeInv, LockInv, NEW w \in Workers, Receive(w)
    PROVE  LockInv'
  <1> USE DEF TypeInv, TypeOK, InHand, LockInv, Holds, Mutex, Goto, Raise, NoTableChange,
          NoLockChange, tables, ReservePc, CancelPc, FleetPc, FreePc,
          Inserting, Cancelling, MadeAsAsked
  <1>1. CASE ReceiveReserve(w)
    BY <1>1 DEF ReceiveReserve
  <1>2. CASE RefuseKey(w)
    BY <1>2 DEF RefuseKey
  <1>3. CASE ReceiveCancel(w)
    BY <1>3 DEF ReceiveCancel
  <1> QED
    BY <1>1, <1>2, <1>3 DEF Receive

LEMMA LockReserve ==
    ASSUME TypeInv, LockInv, NEW w \in Workers, ReserveStep(w)
    PROVE  LockInv'
  <1> USE DEF TypeInv, TypeOK, InHand, LockInv, Holds, Mutex, Goto, Raise, NoTableChange,
          NoLockChange, tables, ReservePc, CancelPc, FleetPc, FreePc,
          Inserting, Cancelling, MadeAsAsked
  <1>1. CASE LockFleet(w)
    BY <1>1 DEF LockFleet, FleetLocked
  <1>2. CASE CarTypeMissing(w)
    BY <1>2 DEF CarTypeMissing
  <1>3. CASE LockFleetTimeout(w)
    BY <1>3 DEF LockFleetTimeout
  <1>4. CASE FindNoKey(w)
    BY <1>4 DEF FindNoKey
  <1>5. CASE FindKey(w)
    BY <1>5 DEF FindKey, ReplayResult
  <1>6. CASE Accept(w)
    BY <1>6 DEF Accept
  <1>7. CASE RefusePeriod(w)
    BY <1>7 DEF RefusePeriod
  <1>8. CASE FindRoom(w)
    BY <1>8 DEF FindRoom
  <1>9. CASE FindNoRoom(w)
    BY <1>9 DEF FindNoRoom
  <1>10. CASE Insert(w)
    BY <1>10, NewRowIsBooking DEF Insert, NewRow
  <1>11. CASE InsertDuplicate(w)
    BY <1>11 DEF InsertDuplicate
  <1>12. CASE InsertTimeout(w)
    BY <1>12 DEF InsertTimeout
  <1>13. CASE Recover(w)
    BY <1>13 DEF Recover, ReplayResult
  <1> QED
    BY <1>1, <1>2, <1>3, <1>4, <1>5, <1>6, <1>7, <1>8, <1>9, <1>10, <1>11, <1>12, <1>13 DEF ReserveStep

LEMMA LockCancel ==
    ASSUME TypeInv, LockInv, NEW w \in Workers, CancelStep(w)
    PROVE  LockInv'
  <1> USE DEF TypeInv, TypeOK, InHand, LockInv, Holds, Mutex, Goto, Raise, NoTableChange,
          NoLockChange, tables, ReservePc, CancelPc, FleetPc, FreePc,
          Inserting, Cancelling, MadeAsAsked
  <1>1. CASE LockBooking(w)
    BY <1>1 DEF LockBooking, BookingLocked
  <1>2. CASE BookingMissing(w)
    BY <1>2 DEF BookingMissing
  <1>3. CASE LockBookingTimeout(w)
    BY <1>3 DEF LockBookingTimeout
  <1>4. CASE RefuseCancel(w)
    BY <1>4 DEF RefuseCancel
  <1>5. CASE CancelAgain(w)
    BY <1>5 DEF CancelAgain
  <1>6. CASE CancelBooking(w)
    BY <1>6, CancelledIsBooking DEF CancelBooking, Cancelled, BookingRecord
  <1> QED
    BY <1>1, <1>2, <1>3, <1>4, <1>5, <1>6 DEF CancelStep

LEMMA LockEnd ==
    ASSUME TypeInv, LockInv, NEW w \in Workers, Commit(w) \/ Rollback(w) \/ Failure(w) \/ Respond(w)
    PROVE  LockInv'
  <1> USE DEF TypeInv, TypeOK, InHand, LockInv, Holds, Mutex, Goto, Raise, NoTableChange,
          NoLockChange, tables, ReservePc, CancelPc, FleetPc, FreePc,
          Inserting, Cancelling, MadeAsAsked
  <1>1. CASE Commit(w)
    BY <1>1 DEF Commit, EndTransaction
  <1>2. CASE Rollback(w)
    BY <1>2 DEF Rollback, EndTransaction, AfterRollback
  <1>3. CASE CommitUnacknowledged(w)
    BY <1>3 DEF CommitUnacknowledged, EndTransaction
  <1>4. CASE Abort(w)
    BY <1>4 DEF Abort, EndTransaction
  <1>5. CASE Respond(w)
    BY <1>5 DEF Respond
  <1> QED
    BY <1>1, <1>2, <1>3, <1>4, <1>5 DEF Failure

LEMMA LockAdmin ==
    ASSUME TypeInv, LockInv, NEW ct \in CarTypes, AdminStep(ct)
    PROVE  LockInv'
  <1> USE DEF TypeInv, TypeOK, InHand, LockInv, Holds, Mutex, workerVars, ReservePc,
          CancelPc, FleetPc, FreePc, Inserting, Cancelling, MadeAsAsked
  <1>1. ASSUME NEW n \in FleetSizes, SetFleet(ct, n) PROVE LockInv'
    BY <1>1 DEF SetFleet
  <1>2. CASE DeleteFleet(ct)
    BY <1>2 DEF DeleteFleet
  <1> QED
    BY <1>1, <1>2 DEF AdminStep

LEMMA LockStep == TypeInv /\ LockInv /\ [Next]_vars => LockInv'
  <1> SUFFICES ASSUME TypeInv, LockInv, [Next]_vars PROVE LockInv'
    OBVIOUS
  <1>1. ASSUME NEW w \in Workers, WorkerStep(w) PROVE LockInv'
    BY <1>1, LockReceive, LockReserve, LockCancel, LockEnd DEF WorkerStep, Progress
  <1>2. ASSUME NEW ct \in CarTypes, AdminStep(ct) PROVE LockInv'
    BY <1>2, LockAdmin
  <1>3. CASE Tick
    BY <1>3 DEF Tick, LockInv, Mutex, Holds, Inserting, Cancelling, MadeAsAsked, tables,
                workerVars
  <1>4. CASE UNCHANGED vars
    BY <1>4 DEF vars, LockInv, Mutex, Holds, Inserting, Cancelling, MadeAsAsked, tables,
                workerVars
  <1> QED
    BY <1>1, <1>2, <1>3, <1>4 DEF Next, Terminated

LEMMA Locks == Spec => [](TypeInv /\ LockInv)
  BY TypeInit, TypeStep, LockInit, LockStep, PTL DEF Spec

-----------------------------------------------------------------------------
(* The table *)

LEMMA CancelledFields ==
    ASSUME NEW b \in BookingRecord, NEW t \in Nat
    PROVE  /\ Cancelled(b, t) \in BookingRecord
           /\ Cancelled(b, t).id = b.id
           /\ Cancelled(b, t).customer = b.customer
           /\ Cancelled(b, t).carType = b.carType
           /\ Cancelled(b, t).period = b.period
           /\ Cancelled(b, t).key = b.key
           /\ Cancelled(b, t).cancelledAt = t
           /\ IsCancelled(Cancelled(b, t))
  BY CancelledIsBooking DEF Cancelled, BookingRecord, IsCancelled, NotCancelled

SameKey(a, b) == a.customer = b.customer /\ a.key = b.key

\* How what w has in memory relates to the table.
Reads(w) ==
    /\ pc[w] = "decide" => booking[w] \in rows
    /\ Inserting(w) =>
          /\ booking[w].id < nextId
          /\ \A b \in rows : b.id # booking[w].id /\ ~SameKey(b, booking[w])
    /\ Cancelling(w) =>
          \E b \in rows : \E t \in 0 .. now :
              /\ b.id = req[w].id
              /\ ~IsCancelled(b)
              /\ t < b.period.end
              /\ booking[w] = Cancelled(b, t)

\* Rows are told apart by their ids and by their keys, those about to be
\* committed included.
RowInv ==
    /\ \A b \in rows : b.id < nextId
    /\ \A a, b \in rows : a.id = b.id \/ SameKey(a, b) => a = b
    /\ \A v, w \in Workers : v # w /\ Inserting(v) /\ Inserting(w) =>
          booking[v].id # booking[w].id /\ ~SameKey(booking[v], booking[w])
    /\ \A w \in Workers : Reads(w)

\* An id in the table, or about to be in it, is a number.
LEMMA IdsAreNumbers ==
    ASSUME TypeInv, LockInv
    PROVE  /\ \A b \in rows : b.id \in Nat
           /\ \A w \in Workers : Inserting(w) => booking[w].id \in Nat
  BY DEF TypeInv, TypeOK, LockInv, Holds, MadeAsAsked, BookingRecord

LEMMA RowInit == Init => RowInv
  BY DEF Init, RowInv, Reads, Inserting, Cancelling

LEMMA RowReceive ==
    ASSUME TypeInv, LockInv, RowInv, NEW w \in Workers, Receive(w)
    PROVE  RowInv'
  <1> USE DEF TypeInv, TypeOK, InHand, RowInv, Reads, Goto, Raise, NoTableChange,
          NoLockChange, tables, ReservePc, CancelPc, Inserting, Cancelling
  <1>1. CASE ReceiveReserve(w)
    BY <1>1 DEF ReceiveReserve
  <1>2. CASE RefuseKey(w)
    BY <1>2 DEF RefuseKey
  <1>3. CASE ReceiveCancel(w)
    BY <1>3 DEF ReceiveCancel
  <1> QED
    BY <1>1, <1>2, <1>3 DEF Receive

LEMMA RowReserve ==
    ASSUME TypeInv, LockInv, RowInv, NEW w \in Workers, ReserveStep(w)
    PROVE  RowInv'
  <1> USE DEF TypeInv, TypeOK, InHand, RowInv, Reads, Goto, Raise, NoTableChange,
          NoLockChange, tables, ReservePc, CancelPc, Inserting, Cancelling
  <1>1. CASE LockFleet(w)
    BY <1>1 DEF LockFleet
  <1>2. CASE CarTypeMissing(w)
    BY <1>2 DEF CarTypeMissing
  <1>3. CASE LockFleetTimeout(w)
    BY <1>3 DEF LockFleetTimeout
  <1>4. CASE FindNoKey(w)
    BY <1>4 DEF FindNoKey
  <1>5. CASE FindKey(w)
    BY <1>5 DEF FindKey, ReplayResult
  <1>6. CASE Accept(w)
    BY <1>6 DEF Accept
  <1>7. CASE RefusePeriod(w)
    BY <1>7 DEF RefusePeriod
  <1>8. CASE FindRoom(w)
    BY <1>8 DEF FindRoom
  <1>9. CASE FindNoRoom(w)
    BY <1>9 DEF FindNoRoom
  <1>10. CASE Insert(w)
    <2>1. /\ rows' = rows /\ now' = now /\ req' = req /\ nextId' = nextId + 1
          /\ booking' = [booking EXCEPT ![w] = NewRow(w)]
          /\ written' = [written EXCEPT ![w] = {NewRow(w)}]
      BY <1>10 DEF Insert
    <2>2. /\ Inserting(w)' /\ ~Cancelling(w)' /\ pc'[w] # "decide"
          /\ \A v \in Workers : v # w => /\ Inserting(v)' = Inserting(v)
                                         /\ Cancelling(v)' = Cancelling(v)
                                         /\ pc'[v] = pc[v]
      BY <1>10 DEF Insert
    <2>3. \A b \in rows : b.id # NewRow(w).id /\ ~SameKey(b, NewRow(w))
      BY <1>10, IdsAreNumbers DEF Insert, KeyTaken, WithKey, SameKey, NewRow
    <2>4. \A v \in Workers : v # w /\ Inserting(v) =>
              booking[v].id # NewRow(w).id /\ ~SameKey(booking[v], NewRow(w))
      BY <1>10, IdsAreNumbers DEF Insert, KeyPending, SameKey, NewRow, LockInv, Holds
    <2>5. NewRow(w).id < nextId'
      BY <2>1 DEF NewRow
    <2>6. \A v \in Workers : Reads(v)'
      BY <2>1, <2>2, <2>3, <2>5, IdsAreNumbers
    <2>7. \A u, v \in Workers : u # v /\ Inserting(u)' /\ Inserting(v)' =>
              booking'[u].id # booking'[v].id /\ ~SameKey(booking'[u], booking'[v])
      BY <2>1, <2>2, <2>4 DEF SameKey
    <2>8. \A b \in rows : b.id < nextId'
      BY <2>1, IdsAreNumbers
    <2> HIDE DEF Reads, Inserting, Cancelling, TypeInv
    <2> QED
      BY <2>1, <2>6, <2>7, <2>8 DEF SameKey
  <1>11. CASE InsertDuplicate(w)
    <2>1. rows' = rows /\ now' = now /\ booking' = booking /\ req' = req /\ written' = written
      BY <1>11 DEF InsertDuplicate
    <2>2. \A v \in Workers : /\ Inserting(v)' => Inserting(v)
                             /\ Cancelling(v)' => Cancelling(v)
                             /\ pc'[v] = "decide" => pc[v] = "decide"
      BY <1>11 DEF InsertDuplicate
    <2>3. nextId' = nextId + 1
      BY <1>11 DEF InsertDuplicate
    <2> QED
      BY <2>1, <2>2, <2>3, IdsAreNumbers
  <1>12. CASE InsertTimeout(w)
    <2>1. rows' = rows /\ now' = now /\ booking' = booking /\ req' = req /\ written' = written
      BY <1>12 DEF InsertTimeout
    <2>2. \A v \in Workers : /\ Inserting(v)' => Inserting(v)
                             /\ Cancelling(v)' => Cancelling(v)
                             /\ pc'[v] = "decide" => pc[v] = "decide"
      BY <1>12 DEF InsertTimeout
    <2>3. nextId' = nextId + 1
      BY <1>12 DEF InsertTimeout
    <2> QED
      BY <2>1, <2>2, <2>3, IdsAreNumbers
  <1>13. CASE Recover(w)
    BY <1>13 DEF Recover, ReplayResult
  <1> QED
    BY <1>1, <1>2, <1>3, <1>4, <1>5, <1>6, <1>7, <1>8, <1>9, <1>10, <1>11, <1>12, <1>13 DEF ReserveStep

LEMMA RowCancel ==
    ASSUME TypeInv, LockInv, RowInv, NEW w \in Workers, CancelStep(w)
    PROVE  RowInv'
  <1> USE DEF TypeInv, TypeOK, InHand, RowInv, Reads, Goto, Raise, NoTableChange,
          NoLockChange, tables, ReservePc, CancelPc, Inserting, Cancelling
  <1>1. CASE LockBooking(w)
    BY <1>1 DEF LockBooking
  <1>2. CASE BookingMissing(w)
    BY <1>2 DEF BookingMissing
  <1>3. CASE LockBookingTimeout(w)
    BY <1>3 DEF LockBookingTimeout
  <1>4. CASE RefuseCancel(w)
    BY <1>4 DEF RefuseCancel
  <1>5. CASE CancelAgain(w)
    BY <1>5 DEF CancelAgain, LockInv, Holds
  <1>6. CASE CancelBooking(w)
    <2>1. /\ rows' = rows /\ now' = now /\ req' = req /\ nextId' = nextId
          /\ booking' = [booking EXCEPT ![w] = Cancelled(booking[w], now)]
          /\ written' = [written EXCEPT ![w] = {Cancelled(booking[w], now)}]
      BY <1>6 DEF CancelBooking
    <2>2. /\ Cancelling(w)' /\ ~Inserting(w)' /\ pc'[w] # "decide"
          /\ \A v \in Workers : v # w => /\ Inserting(v)' = Inserting(v)
                                         /\ Cancelling(v)' = Cancelling(v)
                                         /\ pc'[v] = pc[v]
      BY <1>6 DEF CancelBooking
    <2>3. /\ booking[w] \in rows
          /\ booking[w].id = req[w].id
          /\ ~IsCancelled(booking[w])
          /\ now < booking[w].period.end
          /\ now \in 0 .. now
      BY <1>6 DEF CancelBooking, LockInv, Holds
    <2>4. \A v \in Workers : Reads(v)'
      BY <2>1, <2>2, <2>3
    <2>5. \A u, v \in Workers : u # v /\ Inserting(u)' /\ Inserting(v)' =>
              booking'[u].id # booking'[v].id /\ ~SameKey(booking'[u], booking'[v])
      BY <2>1, <2>2 DEF SameKey
    <2> HIDE DEF Reads, Inserting, Cancelling, TypeInv
    <2> QED
      BY <2>1, <2>4, <2>5 DEF SameKey
  <1> QED
    BY <1>1, <1>2, <1>3, <1>4, <1>5, <1>6 DEF CancelStep

LEMMA RowEnd ==
    ASSUME TypeInv, LockInv, RowInv, NEW w \in Workers, Rollback(w) \/ Abort(w) \/ Respond(w)
    PROVE  RowInv'
  <1> USE DEF TypeInv, TypeOK, InHand, RowInv, Reads, Goto, Raise, NoTableChange,
          NoLockChange, tables, ReservePc, CancelPc, Inserting, Cancelling
  <1>1. CASE Rollback(w)
    BY <1>1 DEF Rollback, EndTransaction, AfterRollback
  <1>2. CASE Abort(w)
    BY <1>2 DEF Abort, EndTransaction
  <1>3. CASE Respond(w)
    BY <1>3 DEF Respond
  <1> QED
    BY <1>1, <1>2, <1>3

Commits(w) == Commit(w) \/ CommitUnacknowledged(w)

\* What a commit does to the table: it adds a row, or stamps one, or nothing.
LEMMA InstalledRows ==
    ASSUME TypeInv, LockInv, RowInv, NEW w \in Workers, pc[w] = "commit"
    PROVE  \/ /\ Inserting(w)
              /\ Installed(w) = rows \cup {booking[w]}
           \/ /\ Cancelling(w)
              /\ \E b \in rows : \E t \in 0 .. now :
                    /\ b.id = req[w].id
                    /\ ~IsCancelled(b)
                    /\ t < b.period.end
                    /\ booking[w] = Cancelled(b, t)
                    /\ Installed(w) = (rows \ {b}) \cup {Cancelled(b, t)}
           \/ /\ ~Inserting(w)
              /\ ~Cancelling(w)
              /\ Installed(w) = rows
  <1>1. CASE Inserting(w)
    <2>1. written[w] = {booking[w]} /\ \A b \in rows : b.id # booking[w].id
      BY <1>1 DEF LockInv, Holds, RowInv, Reads
    <2> QED
      BY <1>1, <2>1 DEF Installed
  <1>2. CASE Cancelling(w)
    <2>1. PICK b \in rows, t \in 0 .. now :
              /\ b.id = req[w].id
              /\ ~IsCancelled(b)
              /\ t < b.period.end
              /\ booking[w] = Cancelled(b, t)
      BY <1>2 DEF RowInv, Reads
    <2>2. Cancelled(b, t).id = b.id
      BY CancelledFields DEF TypeInv, TypeOK
    <2>3. written[w] = {Cancelled(b, t)}
      BY <1>2, <2>1 DEF LockInv, Holds
    <2>4. \A c \in rows : c.id = b.id => c = b
      BY DEF RowInv
    <2>5. Installed(w) = (rows \ {b}) \cup {Cancelled(b, t)}
      BY <2>2, <2>3, <2>4 DEF Installed
    <2> QED
      BY <1>2, <2>1, <2>5
  <1>3. CASE ~Inserting(w) /\ ~Cancelling(w)
    <2>1. written[w] = {}
      BY <1>3 DEF LockInv, Holds
    <2> QED
      BY <1>3, <2>1 DEF Installed
  <1> QED
    BY <1>1, <1>2, <1>3

\* What a commit leaves alone.
LEMMA CommitFrame ==
    ASSUME TypeInv, NEW w \in Workers, Commits(w)
    PROVE  /\ pc[w] = "commit" /\ pc'[w] = "done"
           /\ rows' = Installed(w)
           /\ now' = now /\ nextId' = nextId /\ req' = req /\ fleet' = fleet
           /\ \A v \in Workers : v # w =>
                /\ pc'[v] = pc[v] /\ result'[v] = result[v] /\ booking'[v] = booking[v]
                /\ Inserting(v)' = Inserting(v)
                /\ Cancelling(v)' = Cancelling(v)
  BY DEF TypeInv, TypeOK, Commits, Commit, CommitUnacknowledged, Goto, EndTransaction,
         Inserting, Cancelling

LEMMA RowCommit ==
    ASSUME TypeInv, LockInv, RowInv, NEW w \in Workers, Commits(w)
    PROVE  RowInv'
  <1> USE CommitFrame
  <1>1. ~Inserting(w)' /\ ~Cancelling(w)' /\ pc'[w] # "decide"
    BY DEF Inserting, Cancelling
  <1>2. \A u, v \in Workers : u # v /\ Inserting(u)' /\ Inserting(v)' =>
            booking'[u].id # booking'[v].id /\ ~SameKey(booking'[u], booking'[v])
    BY <1>1 DEF RowInv
  <1>3. CASE Inserting(w) /\ rows' = rows \cup {booking[w]}
    <2>1. /\ booking[w].id < nextId
          /\ \A b \in rows : b.id # booking[w].id /\ ~SameKey(b, booking[w])
      BY <1>3 DEF RowInv, Reads
    <2>2. \A b \in rows' : b.id < nextId'
      BY <1>3, <2>1 DEF RowInv
    <2>3. \A a, b \in rows' : a.id = b.id \/ SameKey(a, b) => a = b
      BY <1>3, <2>1 DEF RowInv, SameKey
    <2>4. \A v \in Workers : Reads(v)'
      BY <1>1, <1>3 DEF RowInv, Reads, SameKey
    <2> QED
      BY <1>2, <2>2, <2>3, <2>4 DEF RowInv, SameKey
  <1>4. ASSUME Cancelling(w), NEW b \in rows, NEW t \in 0 .. now, b.id = req[w].id,
               rows' = (rows \ {b}) \cup {Cancelled(b, t)}
        PROVE  RowInv'
    <2>1. /\ Cancelled(b, t).id = b.id
          /\ Cancelled(b, t).customer = b.customer
          /\ Cancelled(b, t).key = b.key
      <3>1. b \in BookingRecord /\ t \in Nat
        BY DEF TypeInv, TypeOK
      <3> QED
        BY ONLY <3>1, CancelledFields
    <2>2. \A c \in rows' : c.id < nextId'
      BY <1>4, <2>1 DEF RowInv
    <2>3. \A a, c \in rows' : a.id = c.id \/ SameKey(a, c) => a = c
      BY <1>4, <2>1 DEF RowInv, SameKey
    <2>4. ASSUME NEW v \in Workers PROVE Reads(v)'
      <3>1. CASE v = w
        BY <1>1, <3>1 DEF Reads
      <3>2. CASE v # w
        <4>1. pc[v] = "decide" \/ Cancelling(v) => req[v].id # b.id
          BY <1>4, <3>2 DEF LockInv, Holds, Mutex
        <4>2. pc'[v] = "decide" => booking'[v] \in rows'
          BY <1>4, <3>2, <4>1 DEF RowInv, Reads, LockInv, Holds
        <4>3. Inserting(v)' =>
                /\ booking'[v].id < nextId'
                /\ \A c \in rows' : c.id # booking'[v].id /\ ~SameKey(c, booking'[v])
          BY <1>4, <2>1, <3>2 DEF RowInv, Reads, SameKey
        <4>4. ASSUME Cancelling(v)'
              PROVE  \E c \in rows' : \E u \in 0 .. now' :
                        /\ c.id = req'[v].id
                        /\ ~IsCancelled(c)
                        /\ u < c.period.end
                        /\ booking'[v] = Cancelled(c, u)
          <5>1. PICK c \in rows, u \in 0 .. now :
                    /\ c.id = req[v].id
                    /\ ~IsCancelled(c)
                    /\ u < c.period.end
                    /\ booking[v] = Cancelled(c, u)
            BY <3>2, <4>4 DEF RowInv, Reads
          <5>2. c \in rows'
            BY <1>4, <3>2, <4>1, <4>4, <5>1
          <5> QED
            BY <3>2, <5>1, <5>2
        <4> QED
          BY <4>2, <4>3, <4>4 DEF Reads
      <3> QED
        BY <3>1, <3>2
    <2> QED
      BY <1>2, <2>2, <2>3, <2>4 DEF RowInv, SameKey
  <1>5. CASE rows' = rows
    <2>1. \A v \in Workers : Reads(v)'
      BY <1>1, <1>5 DEF RowInv, Reads
    <2> QED
      BY <1>2, <1>5, <2>1 DEF RowInv, SameKey
  <1> QED
    BY <1>3, <1>4, <1>5, InstalledRows

LEMMA RowOthers ==
    ASSUME TypeInv, RowInv, Tick \/ (\E ct \in CarTypes : AdminStep(ct)) \/ UNCHANGED vars
    PROVE  RowInv'
  <1>1. /\ rows' = rows /\ nextId' = nextId /\ now' \in Nat /\ now <= now'
        /\ UNCHANGED workerVars
    BY DEF Tick, AdminStep, SetFleet, DeleteFleet, vars, tables, TypeInv, TypeOK
  <1> QED
    BY <1>1 DEF RowInv, Reads, Inserting, Cancelling, workerVars, TypeInv, TypeOK

LEMMA RowStep == TypeInv /\ LockInv /\ RowInv /\ [Next]_vars => RowInv'
  <1> SUFFICES ASSUME TypeInv, LockInv, RowInv, [Next]_vars PROVE RowInv'
    OBVIOUS
  <1>1. ASSUME NEW w \in Workers, WorkerStep(w) PROVE RowInv'
    BY <1>1, RowReceive, RowReserve, RowCancel, RowEnd, RowCommit
    DEF WorkerStep, Progress, Failure, Commits
  <1> QED
    BY <1>1, RowOthers DEF Next, Terminated

-----------------------------------------------------------------------------
(* Capacity *)

\* There is a car of the type asked for at every instant of the period.
Room(w) ==
    \A t \in Int : Covers(req[w].period, t) =>
        Usage(req[w].carType, t) < fleet[req[w].carType]

\* The room a worker has found is still there until it has committed.
RoomInv ==
    /\ IsFiniteSet(rows)
    /\ \A w \in Workers : pc[w] = "insert" \/ Inserting(w) => Room(w)

LEMMA RoomInit == Init => RoomInv
  BY FS_EmptySet DEF Init, RoomInv, Inserting

LEMMA PeriodsAreIntervals == \A p \in Periods : p \in Period(Int)
  <1> SUFFICES ASSUME NEW p \in Periods PROVE p \in Period(Int)
    OBVIOUS
  <1>1. p \in [start : Instants, end : Instants] /\ p.start < p.end
    BY BookingAssumption DEF Period
  <1>2. \A S, T : S \subseteq T => [start : S, end : S] \subseteq [start : T, end : T]
    OBVIOUS
  <1>3. Instants \subseteq Int
    BY BookingAssumption
  <1> QED
    BY <1>1, <1>2, <1>3 DEF Period

\* Usage is the size of a finite set.
LEMMA UsageIsNat ==
    ASSUME TypeInv, IsFiniteSet(rows), NEW ct \in CarTypes, NEW t \in Int
    PROVE  /\ IsFiniteSet(Active(ct))
           /\ IsFiniteSet({b \in Active(ct) : Covers(b.period, t)})
           /\ Usage(ct, t) \in Nat
  <1>1. IsFiniteSet(Active(ct))
    BY FS_Subset DEF Active
  <1>2. IsFiniteSet({b \in Active(ct) : Covers(b.period, t)})
    BY <1>1, FS_Subset
  <1> QED
    BY <1>1, <1>2, FS_CardinalityType DEF Usage, UsageAt

\* The schedule read under the lock is judged as SweepFindsRoom says.
LEMMA ScheduleAsRead ==
    ASSUME TypeInv, LockInv, IsFiniteSet(rows), NEW w \in Workers, pc[w] = "read_schedule"
    PROVE  /\ IsFiniteSet(Active(req[w].carType))
           /\ \A b \in Active(req[w].carType) :
                  b.period \in Periods /\ b.period \in Period(Int)
           /\ req[w].period \in Periods /\ req[w].period \in Period(Int)
           /\ fleet[req[w].carType] \in Int
           /\ HasRoom(w) <=>
                  CanAccommodate(fleet[req[w].carType],
                                 Within(Active(req[w].carType), req[w].period), req[w].period)
  <1>1. req[w] \in ReserveRequest
    BY DEF TypeInv, InHand, ReservePc
  <1>2. req[w].carType \in CarTypes /\ req[w].period \in Periods
    BY <1>1 DEF ReserveRequest
  <1>3. size[w] = fleet[req[w].carType] /\ size[w] \in Int
    BY DEF LockInv, Holds, FleetPc, TypeInv, TypeOK
  <1>4. IsFiniteSet(Active(req[w].carType))
    BY FS_Subset DEF Active
  <1>5. \A b \in Active(req[w].carType) : b.period \in Periods
    BY DEF Active, TypeInv, TypeOK, BookingRecord
  <1> QED
    BY <1>2, <1>3, <1>4, <1>5, PeriodsAreIntervals DEF HasRoom, BookedDuring

\* The check read under the lock judges exactly the room there is.
LEMMA HasRoomIsRoom ==
    ASSUME TypeInv, LockInv, IsFiniteSet(rows), NEW w \in Workers, pc[w] = "read_schedule"
    PROVE  HasRoom(w) <=> Room(w)
  BY ScheduleAsRead, SweepFindsRoom DEF Room, Usage

\* Only the commit of a new booking puts one more car on the road, and only
\* one of its type, during its period.
LEMMA CommitUsage ==
    ASSUME TypeInv, LockInv, RowInv, RoomInv, NEW w \in Workers, Commits(w),
           NEW ct \in CarTypes, NEW t \in Int
    PROVE  /\ IsFiniteSet(rows')
           /\ \/ Usage(ct, t)' <= Usage(ct, t)
              \/ /\ Inserting(w)
                 /\ ct = req[w].carType
                 /\ Covers(req[w].period, t)
                 /\ Usage(ct, t)' <= Usage(ct, t) + 1
  <1>1. IsFiniteSet(Active(ct)) /\ pc[w] = "commit" /\ rows' = Installed(w)
    BY UsageIsNat, CommitFrame DEF RoomInv
  <1>2. /\ Usage(ct, t) = UsageAt(Active(ct), t)
        /\ Usage(ct, t)' = UsageAt(Active(ct)', t)
    BY DEF Usage, UsageAt
  <1>3. CASE Inserting(w) /\ rows' = rows \cup {booking[w]}
    <2>1. /\ booking[w].carType = req[w].carType
          /\ booking[w].period = req[w].period
      BY <1>1, <1>3 DEF LockInv, Holds, MadeAsAsked
    <2>2. IsFiniteSet(rows')
      BY <1>3, FS_AddElement DEF RoomInv
    <2>3. /\ Active(ct)' \subseteq Active(ct) \cup {booking[w]}
          /\ ct # req[w].carType => Active(ct)' \subseteq Active(ct)
      BY <1>3, <2>1 DEF Active
    <2> QED
      BY <1>1, <1>2, <1>3, <2>1, <2>2, <2>3, UsageChanges
  <1>4. ASSUME NEW b \in rows, NEW u \in 0 .. now, rows' = (rows \ {b}) \cup {Cancelled(b, u)}
        PROVE  IsFiniteSet(rows') /\ Usage(ct, t)' <= Usage(ct, t)
    <2>1. IsCancelled(Cancelled(b, u))
      <3>1. b \in BookingRecord /\ u \in Nat
        BY DEF TypeInv, TypeOK
      <3> QED
        BY ONLY <3>1, CancelledFields
    <2>2. Active(ct)' \subseteq Active(ct)
      BY <1>4, <2>1 DEF Active
    <2>3. IsFiniteSet(rows')
      BY <1>4, FS_RemoveElement, FS_AddElement DEF RoomInv
    <2> QED
      BY <1>1, <1>2, <2>2, <2>3, UsageChanges
  <1>5. CASE rows' = rows
    <2>1. Active(ct)' = Active(ct)
      BY <1>5 DEF Active
    <2> QED
      BY <1>1, <1>2, <1>5, <2>1, UsageChanges DEF RoomInv
  <1> QED
    BY <1>1, <1>3, <1>4, <1>5, InstalledRows

\* A step that leaves the reservations and w's work alone leaves w its room.
LEMMA RoomFrame ==
    ASSUME NEW v \in Workers, Room(v), rows' = rows, req'[v] = req[v],
           fleet'[req[v].carType] = fleet[req[v].carType]
    PROVE  Room(v)'
  BY DEF Room, Usage, UsageAt, Active

\* Steps of reserve() and cancel() before the end of the transaction.
LEMMA RoomWork ==
    ASSUME TypeInv, LockInv, RoomInv, NEW w \in Workers,
           \/ Receive(w) \/ ReserveStep(w) \/ CancelStep(w)
           \/ Rollback(w) \/ Abort(w) \/ Respond(w)
    PROVE  RoomInv'
  <1>1. rows' = rows /\ fleet' = fleet
    BY DEF Receive, ReserveStep, CancelStep, ReceiveReserve, RefuseKey, ReceiveCancel,
           LockFleet, CarTypeMissing, LockFleetTimeout, FindNoKey, FindKey, Accept,
           RefusePeriod, FindRoom, FindNoRoom, Insert, InsertDuplicate, InsertTimeout,
           Recover, LockBooking, BookingMissing, LockBookingTimeout, RefuseCancel,
           CancelAgain, CancelBooking, Rollback, Abort, Respond, EndTransaction,
           NoTableChange, tables
  <1>2. \A v \in Workers : v # w =>
            /\ pc'[v] = pc[v] /\ result'[v] = result[v] /\ req'[v] = req[v]
    BY DEF Receive, ReserveStep, CancelStep, ReceiveReserve, RefuseKey, ReceiveCancel,
           LockFleet, CarTypeMissing, LockFleetTimeout, FindNoKey, FindKey, Accept,
           RefusePeriod, FindRoom, FindNoRoom, Insert, InsertDuplicate, InsertTimeout,
           Recover, LockBooking, BookingMissing, LockBookingTimeout, RefuseCancel,
           CancelAgain, CancelBooking, Rollback, Abort, Respond, EndTransaction,
           Goto, Raise, TypeInv, TypeOK
  <1>3. pc'[w] = "insert" \/ Inserting(w)' =>
            /\ req'[w] = req[w]
            /\ \/ pc[w] = "read_schedule" /\ HasRoom(w)
               \/ pc[w] = "insert"
    BY DEF Receive, ReserveStep, CancelStep, ReceiveReserve, RefuseKey, ReceiveCancel,
           LockFleet, CarTypeMissing, LockFleetTimeout, FindNoKey, FindKey, Accept,
           RefusePeriod, FindRoom, FindNoRoom, Insert, InsertDuplicate, InsertTimeout,
           Recover, LockBooking, BookingMissing, LockBookingTimeout, RefuseCancel,
           CancelAgain, CancelBooking, Rollback, Abort, Respond, EndTransaction,
           AfterRollback, ReplayResult, Goto, Raise, TypeInv, TypeOK, Inserting
  <1>4. pc'[w] = "insert" \/ Inserting(w)' => Room(w)'
    BY <1>1, <1>3, HasRoomIsRoom, RoomFrame DEF RoomInv
  <1>5. \A v \in Workers : v # w /\ (pc'[v] = "insert" \/ Inserting(v)') => Room(v)'
    BY <1>1, <1>2, RoomFrame DEF RoomInv, Inserting
  <1> QED
    BY <1>1, <1>4, <1>5 DEF RoomInv

\* Nobody else books a car of the type w has locked before w has committed.
LEMMA RoomCommit ==
    ASSUME TypeInv, LockInv, RowInv, RoomInv, NEW w \in Workers, Commits(w)
    PROVE  RoomInv'
  <1>1. IsFiniteSet(rows')
    <2>1. CASE Inserting(w) /\ rows' = rows \cup {booking[w]}
      BY <2>1, FS_AddElement DEF RoomInv
    <2>2. ASSUME NEW b \in rows, NEW u \in 0 .. now, rows' = (rows \ {b}) \cup {Cancelled(b, u)}
          PROVE  IsFiniteSet(rows')
      BY <2>2, FS_RemoveElement, FS_AddElement DEF RoomInv
    <2>3. CASE rows' = rows
      BY <2>3 DEF RoomInv
    <2> QED
      BY <2>1, <2>2, <2>3, CommitFrame, InstalledRows
  <1>2. ASSUME NEW v \in Workers, pc'[v] = "insert" \/ Inserting(v)'
        PROVE  Room(v)'
    <2>1. v # w
      BY <1>2, CommitFrame DEF Inserting
    <2>2. /\ pc[v] = "insert" \/ Inserting(v)
          /\ req'[v] = req[v] /\ fleet' = fleet
      BY <1>2, <2>1, CommitFrame
    <2>3. Room(v) /\ fleetHeld[v] = {req[v].carType} /\ req[v].carType \in CarTypes
      BY <2>2 DEF RoomInv, LockInv, Holds, FleetPc, MadeAsAsked, TypeInv, InHand,
                  ReservePc, ReserveRequest
    <2>4. Inserting(w) => req[w].carType # req[v].carType
      BY <2>1, <2>3 DEF LockInv, Holds, Mutex
    <2>5. ASSUME NEW ct \in CarTypes, ct = req[v].carType,
                 NEW t \in Int, Covers(req[v].period, t)
          PROVE  Usage(ct, t)' < fleet[ct]
      <3>1. Usage(ct, t)' <= Usage(ct, t)
        BY <2>4, <2>5, CommitUsage
      <3>2. Usage(ct, t) < fleet[ct]
        BY <2>3, <2>5 DEF Room
      <3>3. Usage(ct, t) \in Nat /\ Usage(ct, t)' \in Nat /\ fleet[ct] \in Int
        <4>1. Usage(ct, t)' \in Nat
          BY <1>1, FS_Subset, FS_CardinalityType DEF Usage, UsageAt, Active
        <4>2. fleet[ct] \in Int
          BY DEF TypeInv, TypeOK, NoFleet
        <4> QED
          BY <4>1, <4>2, UsageIsNat DEF RoomInv
      <3> QED
        BY <3>1, <3>2, <3>3
    <2> QED
      BY <2>2, <2>3, <2>5 DEF Room
  <1> QED
    BY <1>1, <1>2 DEF RoomInv

LEMMA RoomOthers ==
    ASSUME TypeInv, LockInv, RoomInv,
           Tick \/ (\E ct \in CarTypes : AdminStep(ct)) \/ UNCHANGED vars
    PROVE  RoomInv'
  <1>1. rows' = rows /\ UNCHANGED workerVars
    BY DEF Tick, AdminStep, SetFleet, DeleteFleet, vars, tables
  <1>2. ASSUME NEW v \in Workers, pc[v] = "insert" \/ Inserting(v)
        PROVE  fleet'[req[v].carType] = fleet[req[v].carType]
    <2>1. fleetHeld[v] = {req[v].carType}
      BY <1>2 DEF LockInv, Holds, FleetPc
    <2> QED
      BY <2>1 DEF Tick, AdminStep, SetFleet, DeleteFleet, vars, tables, TypeInv, TypeOK
  <1> QED
    BY <1>1, <1>2, RoomFrame DEF RoomInv, Inserting, workerVars

LEMMA RoomStep == TypeInv /\ LockInv /\ RowInv /\ RoomInv /\ [Next]_vars => RoomInv'
  <1> SUFFICES ASSUME TypeInv, LockInv, RowInv, RoomInv, [Next]_vars PROVE RoomInv'
    OBVIOUS
  <1>1. ASSUME NEW w \in Workers, WorkerStep(w) PROVE RoomInv'
    BY <1>1, RoomWork, RoomCommit DEF WorkerStep, Progress, Failure, Commits
  <1> QED
    BY <1>1, RoomOthers DEF Next, Terminated

-----------------------------------------------------------------------------
(* Types, capacity and keys: the inductive invariant and what follows at once *)

\* The inductive invariant.
DeskInv == TypeInv /\ LockInv /\ RowInv /\ RoomInv

LEMMA DeskInvariant == Spec => []DeskInv
  <1>1. Init => DeskInv
    BY TypeInit, LockInit, RowInit, RoomInit DEF DeskInv
  <1>2. DeskInv /\ [Next]_vars => DeskInv'
    BY TypeStep, LockStep, RowStep, RoomStep DEF DeskInv
  <1> QED
    BY <1>1, <1>2, PTL DEF Spec

\* A step other than a commit leaves the reservations alone.
LEMMA OnlyCommitsWrite ==
    ASSUME [Next]_vars
    PROVE  rows' = rows \/ \E w \in Workers : Commits(w)
  BY DEF Next, Terminated, Tick, AdminStep, SetFleet, DeleteFleet, WorkerStep, Progress,
         Failure, Commits, Receive, ReserveStep, CancelStep, ReceiveReserve, RefuseKey,
         ReceiveCancel, LockFleet, CarTypeMissing, LockFleetTimeout, FindNoKey, FindKey,
         Accept, RefusePeriod, FindRoom, FindNoRoom, Insert, InsertDuplicate,
         InsertTimeout, Recover, LockBooking, BookingMissing, LockBookingTimeout,
         RefuseCancel, CancelAgain, CancelBooking, Rollback, Abort, Respond,
         EndTransaction, NoTableChange, tables, vars

\* However many workers book, cancel, fail and retry, and whatever staff do to
\* the fleet in the meantime, no step puts more cars of a type on the road
\* than the fleet has.
THEOREM FleetNeverOverbooked == Spec => NeverOverbooks
  <1>1. ASSUME DeskInv, [Next]_vars, NEW ct \in CarTypes, NEW t \in Instants,
               Usage(ct, t)' > Usage(ct, t)
        PROVE  Usage(ct, t)' <= fleet'[ct]
    <2>1. t \in Int
      BY BookingAssumption
    <2>2. rows' # rows
      <3>1. SUFFICES ASSUME rows' = rows PROVE FALSE
        OBVIOUS
      <3>2. Usage(ct, t)' = Usage(ct, t)
        BY <3>1 DEF Usage, UsageAt, Active
      <3>3. Usage(ct, t) \in Nat
        BY <1>1, <2>1, UsageIsNat DEF DeskInv, RoomInv
      <3> QED
        BY <1>1, <3>2, <3>3
    <2>3. PICK w \in Workers : Commits(w)
      BY <1>1, <2>2, OnlyCommitsWrite
    <2>4. IsFiniteSet(rows') /\ IsFiniteSet(rows)
      BY <1>1, <2>1, <2>3, CommitUsage DEF DeskInv, RoomInv
    <2>5. Usage(ct, t)' \in Nat /\ Usage(ct, t) \in Nat
      BY <2>4, FS_Subset, FS_CardinalityType DEF Usage, UsageAt, Active
    <2>6. /\ Inserting(w) /\ ct = req[w].carType /\ Covers(req[w].period, t)
          /\ Usage(ct, t)' <= Usage(ct, t) + 1
      BY <1>1, <2>1, <2>3, <2>5, CommitUsage DEF DeskInv
    <2>7. Usage(ct, t) < fleet[ct]
      BY <1>1, <2>1, <2>6 DEF DeskInv, RoomInv, Room
    <2>8. fleet'[ct] = fleet[ct] /\ fleet[ct] \in Int
      BY <1>1, <2>3, CommitFrame DEF DeskInv, TypeInv, TypeOK, NoFleet
    <2> QED
      BY <2>5, <2>6, <2>7, <2>8
  <1>2. DeskInv /\ [Next]_vars =>
            [\A ct \in CarTypes, t \in Instants :
                Usage(ct, t)' > Usage(ct, t) => Usage(ct, t)' <= fleet'[ct]]_vars
    BY <1>1
  <1> QED
    BY <1>2, DeskInvariant, PTL DEF Spec, NeverOverbooks

\* A customer's key names at most one booking in every reachable table.
THEOREM KeyBooksOnce == Spec => []OneBookingPerKey
  <1>1. DeskInv => OneBookingPerKey
    BY DEF DeskInv, RowInv, SameKey, OneBookingPerKey
  <1> QED
    BY <1>1, DeskInvariant, PTL

-----------------------------------------------------------------------------
(* Rows *)

\* A row stays as it is, or is stamped once, in time.
LEMMA RowsAreKept ==
    ASSUME DeskInv, [Next]_vars, NEW b \in rows
    PROVE  \E c \in rows' :
              \/ c = b
              \/ /\ ~IsCancelled(b)
                 /\ \E t \in 0 .. now : t < b.period.end /\ c = Cancelled(b, t)
  <1>1. CASE rows' = rows
    BY <1>1
  <1>2. ASSUME NEW w \in Workers, Commits(w)
        PROVE  \E c \in rows' :
                  \/ c = b
                  \/ /\ ~IsCancelled(b)
                     /\ \E t \in 0 .. now : t < b.period.end /\ c = Cancelled(b, t)
    <2>1. pc[w] = "commit" /\ rows' = Installed(w)
      BY <1>2, CommitFrame DEF DeskInv
    <2> QED
      BY <2>1, InstalledRows DEF DeskInv
  <1> QED
    BY <1>1, <1>2, OnlyCommitsWrite

\* Reservations are a business record: no step loses one, and the only change
\* a step makes to one is to stamp it as cancelled, once, before its rental ends.
THEOREM RecordsAreKept == Spec => HistoryIsKept
  <1>1. DeskInv /\ [Next]_vars =>
            [\A b \in rows : \E c \in rows' :
                \/ c = b
                \/ /\ ~IsCancelled(b)
                   /\ \E t \in 0 .. now : t < b.period.end /\ c = Cancelled(b, t)]_vars
    BY RowsAreKept
  <1> QED
    BY <1>1, DeskInvariant, PTL DEF Spec, HistoryIsKept

\* What never changes about a row, and what does not change back.
LEMMA RowsKeepTheirFields ==
    ASSUME DeskInv, [Next]_vars, NEW b \in rows
    PROVE  \E c \in rows' :
              /\ c.id = b.id /\ c.customer = b.customer /\ c.key = b.key
              /\ c.carType = b.carType /\ c.period = b.period
              /\ IsCancelled(b) => IsCancelled(c)
  <1>1. PICK c \in rows' :
            \/ c = b
            \/ /\ ~IsCancelled(b)
               /\ \E t \in 0 .. now : t < b.period.end /\ c = Cancelled(b, t)
    BY RowsAreKept
  <1>2. CASE c = b
    BY <1>2
  <1>3. ASSUME NEW t \in 0 .. now, c = Cancelled(b, t)
        PROVE  /\ c.id = b.id /\ c.customer = b.customer /\ c.key = b.key
               /\ c.carType = b.carType /\ c.period = b.period
               /\ IsCancelled(c)
    <2>1. b \in BookingRecord /\ t \in Nat
      BY DEF DeskInv, TypeInv, TypeOK
    <2> QED
      BY ONLY <1>3, <2>1, CancelledFields
  <1> QED
    BY <1>1, <1>2, <1>3

-----------------------------------------------------------------------------
(* Waiting *)

\* Who waits for a fleet or a reservation holds nothing, and who has written
\* waits for nothing: no chain of waiting is longer than two, whatever the
\* number of workers, so none closes to a circle.
THEOREM WaitingEnds == Spec => []WaitChainsEnd
  <1>1. ASSUME DeskInv, NEW u \in Workers, NEW v \in Workers, NEW w \in Workers, NEW x \in Workers,
               WaitsFor(u, v), WaitsFor(v, w), WaitsFor(w, x)
        PROVE  FALSE
    <2>1. pc[v] \notin {"lock_fleet", "lock_booking"}
      BY <1>1 DEF WaitsFor, DeskInv, LockInv, Holds, FreePc, Inserting, Cancelling
    <2>2. written[w] # {}
      BY <1>1, <2>1 DEF WaitsFor
    <2>3. pc[w] = "commit"
      BY <2>2, <1>1 DEF DeskInv, LockInv, Holds, Inserting, Cancelling
    <2> QED
      BY <1>1, <2>3 DEF WaitsFor
  <1>2. DeskInv => WaitChainsEnd
    BY <1>1 DEF WaitChainsEnd
  <1> QED
    BY <1>2, DeskInvariant, PTL

-----------------------------------------------------------------------------
(* Refusals *)

\* A step in which a worker comes to refuse a booking for lack of a car, or
\* for its period, is one of these.
LEMMA WhoRefuses ==
    ASSUME DeskInv, [Next]_vars, NEW w \in Workers, result[w] # result'[w],
           result'[w] \in {"NoAvailability", "InvalidRentalPeriod"}
    PROVE  FindNoRoom(w) \/ RefusePeriod(w)
  <1> USE DEF DeskInv, TypeInv, TypeOK
  <1>1. ASSUME NEW v \in Workers, WorkerStep(v), ~FindNoRoom(v), ~RefusePeriod(v) PROVE FALSE
    <2>1. CASE Receive(v)
      BY <1>1, <2>1 DEF Receive, ReceiveReserve, RefuseKey, ReceiveCancel
    <2>2. CASE ReserveStep(v)
      BY <1>1, <2>2 DEF ReserveStep, LockFleet, CarTypeMissing, LockFleetTimeout, FindNoKey,
            FindKey, Accept, FindRoom, Insert, InsertDuplicate, InsertTimeout, Recover, Raise,
            ReplayResult
    <2>3. CASE CancelStep(v)
      BY <1>1, <2>3 DEF CancelStep, LockBooking, BookingMissing, LockBookingTimeout,
            RefuseCancel, CancelAgain, CancelBooking, Raise
    <2>4. CASE Commit(v) \/ Rollback(v) \/ Failure(v) \/ Respond(v)
      BY <1>1, <2>4 DEF Commit, Rollback, Failure, CommitUnacknowledged, Abort, Respond
    <2> QED
      BY <1>1, <2>1, <2>2, <2>3, <2>4 DEF WorkerStep, Progress
  <1>2. ASSUME NEW v \in Workers, FindNoRoom(v) \/ RefusePeriod(v) PROVE v = w
    BY <1>2 DEF FindNoRoom, RefusePeriod, Raise
  <1> QED
    BY <1>1, <1>2 DEF Next, Terminated, Tick, AdminStep, SetFleet, DeleteFleet, workerVars, vars

\* When the sweep finds no room, some instant that a booking or the request
\* starts at has no car.
LEMMA NoRoomAtAnInstant ==
    ASSUME DeskInv, NEW w \in Workers, pc[w] = "read_schedule", ~HasRoom(w)
    PROVE  \E t \in Instants :
              Covers(req[w].period, t) /\ Usage(req[w].carType, t) >= fleet[req[w].carType]
  <1> DEFINE S == Active(req[w].carType)
             p == req[w].period
             n == fleet[req[w].carType]
  <1>1. /\ IsFiniteSet(S) /\ \A b \in S : b.period \in Periods /\ b.period \in Period(Int)
        /\ p \in Periods /\ p \in Period(Int) /\ n \in Int
        /\ ~CanAccommodate(n, Within(S, p), p)
    BY ScheduleAsRead DEF DeskInv, RoomInv
  <1>2. \A q \in Periods : q.start \in Instants
    BY BookingAssumption DEF Period
  <1> HIDE DEF S, p, n
  <1>3. PICK t \in Int :
            /\ t = p.start \/ \E b \in S : t = b.period.start
            /\ Covers(p, t)
            /\ UsageAt(S, t) >= n
    BY <1>1, SweepFindsRoom
  <1>4. t \in Instants
    BY <1>1, <1>2, <1>3
  <1> QED
    BY <1>3, <1>4 DEF S, p, n, Usage

\* Nobody is turned away while a car of the type is free for the whole period.
THEOREM RefusalsAreTrue == Spec => RefusedOnlyWhenFull
  <1>1. ASSUME DeskInv, [Next]_vars, NEW w \in Workers,
               result[w] # "NoAvailability", result'[w] = "NoAvailability"
        PROVE  \E t \in Instants :
                  Covers(req[w].period, t) /\ Usage(req[w].carType, t) >= fleet[req[w].carType]
    <2>1. FindNoRoom(w) \/ RefusePeriod(w)
      BY <1>1, WhoRefuses
    <2>2. pc[w] = "read_schedule" /\ ~HasRoom(w)
      BY <1>1, <2>1 DEF FindNoRoom, RefusePeriod, Raise, Goto, DeskInv, TypeInv, TypeOK
    <2> QED
      BY <1>1, <2>2, NoRoomAtAnInstant
  <1>2. DeskInv /\ [Next]_vars =>
            [\A w \in Workers :
                result[w] # "NoAvailability" /\ result'[w] = "NoAvailability" =>
                    \E t \in Instants :
                        /\ Covers(req[w].period, t)
                        /\ Usage(req[w].carType, t) >= fleet[req[w].carType]]_vars
    BY <1>1
  <1> QED
    BY <1>2, DeskInvariant, PTL DEF Spec, RefusedOnlyWhenFull

-----------------------------------------------------------------------------
(* Answers *)

\* Since w looked for its key, nobody can have booked w's car type with it.
Searched(w) ==
    pc[w] \in {"validate", "read_schedule", "insert"} =>
        \A b \in rows : ~ /\ b.customer = req[w].customer
                          /\ b.key = req[w].key
                          /\ b.carType = req[w].carType

\* Who has lost a race for a key can still find the winner, and will look.
Lost(w) ==
    /\ pc[w] = "recover" => result[w] = "DuplicateIdempotencyKey"
    /\ result[w] = "DuplicateIdempotencyKey" =>
          pc[w] \in {"rollback", "recover"} /\ KeyTaken(w)

\* The table has the booking w was asked for.
HasAsked(w) ==
    \E b \in rows :
        /\ b.id = booking[w].id
        /\ b.customer = req[w].customer
        /\ b.key = req[w].key
        /\ IsFor(b, req[w].carType, req[w].period)

\* The table has the cancellation w was asked for.
HasCancelled(w) == \E b \in rows : b.id = req[w].id /\ IsCancelled(b)

\* What w is about to report is in the table, or in its write set.
Durable(w) ==
    /\ pc[w] = "done" /\ result[w] \in {"booked", "replayed"} => HasAsked(w)
    /\ pc[w] = "commit" /\ result[w] = "replayed" => HasAsked(w)
    /\ pc[w] = "done" /\ result[w] = "cancelled" => HasCancelled(w)
    /\ pc[w] = "commit" /\ result[w] = "cancelled" /\ written[w] = {} => HasCancelled(w)
    /\ pc[w] = "rollback" => result[w] \notin {"booked", "replayed", "cancelled"}

Answering(w) == Searched(w) /\ Lost(w) /\ Durable(w)

AnswerInv == \A w \in Workers : Answering(w)

LEMMA AnswerInit == Init => AnswerInv
  BY DEF Init, AnswerInv, Answering, Searched, Lost, Durable

\* A worker's step leaves the work of the others alone.
LEMMA OthersStay ==
    ASSUME TypeInv, NEW w \in Workers, WorkerStep(w), NEW v \in Workers, v # w
    PROVE  /\ pc'[v] = pc[v] /\ req'[v] = req[v] /\ result'[v] = result[v]
           /\ booking'[v] = booking[v] /\ written'[v] = written[v]
  <1> USE DEF TypeInv, TypeOK, Goto, Raise, NoTableChange, NoLockChange
  <1>1. CASE Receive(w)
    BY <1>1 DEF Receive, ReceiveReserve, RefuseKey, ReceiveCancel
  <1>2. CASE ReserveStep(w)
    BY <1>2 DEF ReserveStep, LockFleet, CarTypeMissing, LockFleetTimeout, FindNoKey, FindKey,
          Accept, RefusePeriod, FindRoom, FindNoRoom, Insert, InsertDuplicate, InsertTimeout,
          Recover
  <1>3. CASE CancelStep(w)
    BY <1>3 DEF CancelStep, LockBooking, BookingMissing, LockBookingTimeout, RefuseCancel,
          CancelAgain, CancelBooking
  <1>4. CASE Commit(w) \/ Rollback(w) \/ Failure(w) \/ Respond(w)
    BY <1>4 DEF Commit, Rollback, Failure, CommitUnacknowledged, Abort, Respond, EndTransaction
  <1> QED
    BY <1>1, <1>2, <1>3, <1>4 DEF WorkerStep, Progress

\* Whatever the table gains or changes, it still has what v has been told.
LEMMA TableStillHas ==
    ASSUME DeskInv, [Next]_vars, NEW v \in Workers, req'[v] = req[v]
    PROVE  /\ KeyTaken(v) => KeyTaken(v)'
           /\ HasAsked(v) /\ booking'[v] = booking[v] => HasAsked(v)'
           /\ HasCancelled(v) => HasCancelled(v)'
  <1>1. \A b \in rows : \E c \in rows' :
            /\ c.id = b.id /\ c.customer = b.customer /\ c.key = b.key
            /\ c.carType = b.carType /\ c.period = b.period
            /\ IsCancelled(b) => IsCancelled(c)
    BY RowsKeepTheirFields
  <1> QED
    BY <1>1 DEF KeyTaken, WithKey, HasAsked, HasCancelled, IsFor

\* The fleet lock keeps everyone else from booking v's type with v's key.
LEMMA SearchHolds ==
    ASSUME DeskInv, [Next]_vars, NEW v \in Workers, Searched(v),
           pc'[v] = pc[v], req'[v] = req[v]
    PROVE  Searched(v)'
  <1>1. CASE rows' = rows
    BY <1>1 DEF Searched
  <1>2. ASSUME NEW w \in Workers, Commits(w), pc[v] \in {"validate", "read_schedule", "insert"}
        PROVE  Searched(v)'
    <2>1. pc[w] = "commit" /\ rows' = Installed(w)
      BY <1>2, CommitFrame DEF DeskInv
    <2>2. CASE Inserting(w) /\ rows' = rows \cup {booking[w]}
      <3>1. booking[w].carType # req[v].carType
        BY <1>2, <2>1, <2>2 DEF DeskInv, LockInv, Holds, Mutex, MadeAsAsked, FleetPc
      <3> QED
        BY <2>2, <3>1 DEF Searched
    <2>3. ASSUME NEW b \in rows, NEW t \in 0 .. now, rows' = (rows \ {b}) \cup {Cancelled(b, t)}
          PROVE  Searched(v)'
      <3>1. b \in BookingRecord /\ t \in Nat
        BY DEF DeskInv, TypeInv, TypeOK
      <3>2. /\ Cancelled(b, t).customer = b.customer
            /\ Cancelled(b, t).key = b.key
            /\ Cancelled(b, t).carType = b.carType
        BY ONLY <3>1, CancelledFields
      <3> QED
        BY <2>3, <3>2 DEF Searched
    <2> QED
      BY <1>1, <2>1, <2>2, <2>3, InstalledRows DEF DeskInv
  <1>3. CASE pc[v] \notin {"validate", "read_schedule", "insert"}
    BY <1>3 DEF Searched
  <1> QED
    BY <1>1, <1>2, <1>3, OnlyCommitsWrite

\* A worker that does not move keeps its part of the invariant.
LEMMA AnswerFrame ==
    ASSUME DeskInv, [Next]_vars, NEW v \in Workers, Answering(v),
           pc'[v] = pc[v], req'[v] = req[v], result'[v] = result[v],
           booking'[v] = booking[v], written'[v] = written[v]
    PROVE  Answering(v)'
  BY TableStillHas, SearchHolds DEF Answering, Lost, Durable

LEMMA AnswerReceive ==
    ASSUME DeskInv, NEW w \in Workers, Answering(w), Receive(w)
    PROVE  Answering(w)'
  <1> USE DEF DeskInv, TypeInv, TypeOK, Goto, tables, Answering, Searched, Lost, Durable
  <1>1. CASE ReceiveReserve(w)
    BY <1>1 DEF ReceiveReserve
  <1>2. CASE RefuseKey(w)
    BY <1>2 DEF RefuseKey
  <1>3. CASE ReceiveCancel(w)
    BY <1>3 DEF ReceiveCancel
  <1> QED
    BY <1>1, <1>2, <1>3 DEF Receive

LEMMA AnswerReserve ==
    ASSUME DeskInv, NEW w \in Workers, Answering(w), ReserveStep(w)
    PROVE  Answering(w)'
  <1> USE DEF DeskInv, TypeInv, TypeOK, Goto, Raise, NoTableChange, tables,
          Answering, Searched, Lost, Durable
  <1>1. CASE LockFleet(w)
    BY <1>1 DEF LockFleet
  <1>2. CASE CarTypeMissing(w)
    BY <1>2 DEF CarTypeMissing
  <1>3. CASE LockFleetTimeout(w)
    BY <1>3 DEF LockFleetTimeout
  <1>4. CASE FindNoKey(w)
    BY <1>4 DEF FindNoKey, KeyTaken, WithKey
  <1>5. CASE FindKey(w)
    BY <1>5 DEF FindKey, ReplayResult, WithKey, HasAsked
  <1>6. CASE Accept(w)
    BY <1>6 DEF Accept
  <1>7. CASE RefusePeriod(w)
    BY <1>7 DEF RefusePeriod
  <1>8. CASE FindRoom(w)
    BY <1>8 DEF FindRoom
  <1>9. CASE FindNoRoom(w)
    BY <1>9 DEF FindNoRoom
  <1>10. CASE Insert(w)
    BY <1>10 DEF Insert
  <1>11. CASE InsertDuplicate(w)
    BY <1>11 DEF InsertDuplicate, KeyTaken, WithKey
  <1>12. CASE InsertTimeout(w)
    BY <1>12 DEF InsertTimeout
  <1>13. CASE Recover(w)
    BY <1>13 DEF Recover, ReplayResult, KeyTaken, WithKey, HasAsked
  <1> QED
    BY <1>1, <1>2, <1>3, <1>4, <1>5, <1>6, <1>7, <1>8, <1>9, <1>10, <1>11, <1>12, <1>13 DEF ReserveStep

LEMMA AnswerCancel ==
    ASSUME DeskInv, NEW w \in Workers, Answering(w), CancelStep(w)
    PROVE  Answering(w)'
  <1> USE DEF DeskInv, TypeInv, TypeOK, Goto, Raise, NoTableChange, tables,
          Answering, Searched, Lost, Durable
  <1>1. CASE LockBooking(w)
    BY <1>1 DEF LockBooking
  <1>2. CASE BookingMissing(w)
    BY <1>2 DEF BookingMissing
  <1>3. CASE LockBookingTimeout(w)
    BY <1>3 DEF LockBookingTimeout
  <1>4. CASE RefuseCancel(w)
    BY <1>4 DEF RefuseCancel
  <1>5. CASE CancelAgain(w)
    BY <1>5 DEF CancelAgain, HasCancelled, LockInv, Holds, RowInv, Reads
  <1>6. CASE CancelBooking(w)
    BY <1>6 DEF CancelBooking
  <1> QED
    BY <1>1, <1>2, <1>3, <1>4, <1>5, <1>6 DEF CancelStep

LEMMA AnswerCommit ==
    ASSUME DeskInv, [Next]_vars, NEW w \in Workers, Answering(w), Commit(w)
    PROVE  Answering(w)'
  <1>1. /\ pc[w] = "commit" /\ pc'[w] = "done"
        /\ rows' = Installed(w) /\ written[w] \subseteq rows'
        /\ req'[w] = req[w] /\ result'[w] = result[w] /\ booking'[w] = booking[w]
    BY DEF Commit, EndTransaction, Goto, Installed, DeskInv, TypeInv, TypeOK
  <1>2. CASE result[w] = "booked"
    <2>1. MadeAsAsked(w) /\ booking[w] \in rows'
      BY <1>1, <1>2 DEF DeskInv, LockInv, Holds, Inserting
    <2>2. HasAsked(w)'
      BY <1>1, <2>1 DEF HasAsked, MadeAsAsked, IsFor
    <2> QED
      BY <1>1, <1>2, <2>2 DEF Answering, Searched, Lost, Durable
  <1>3. CASE result[w] = "cancelled"
    <2>1. CASE written[w] = {}
      <3>1. HasCancelled(w)'
        BY <1>1, <1>3, <2>1, TableStillHas DEF Answering, Durable
      <3> QED
        BY <1>1, <1>3, <3>1 DEF Answering, Searched, Lost, Durable
    <2>2. CASE written[w] # {}
      <3>1. Cancelling(w) /\ booking[w] \in rows' /\ booking[w].id = req[w].id
        BY <1>1, <1>3, <2>2 DEF Cancelling, DeskInv, LockInv, Holds
      <3>2. PICK b \in rows, t \in 0 .. now : booking[w] = Cancelled(b, t)
        BY <3>1 DEF DeskInv, RowInv, Reads
      <3>3. b \in BookingRecord /\ t \in Nat
        BY DEF DeskInv, TypeInv, TypeOK
      <3>4. IsCancelled(booking[w])
        BY ONLY <3>2, <3>3, CancelledFields
      <3>5. HasCancelled(w)'
        BY <1>1, <3>1, <3>4 DEF HasCancelled, IsCancelled
      <3> QED
        BY <1>1, <1>3, <3>5 DEF Answering, Searched, Lost, Durable
    <2> QED
      BY <2>1, <2>2
  <1>4. CASE result[w] = "replayed"
    <2>1. HasAsked(w)'
      BY <1>1, <1>4, TableStillHas DEF Answering, Durable
    <2> QED
      BY <1>1, <1>4, <2>1 DEF Answering, Searched, Lost, Durable
  <1>5. CASE result[w] \notin {"booked", "cancelled", "replayed"}
    BY <1>1, <1>5 DEF Answering, Searched, Lost, Durable
  <1> QED
    BY <1>2, <1>3, <1>4, <1>5

LEMMA AnswerEnd ==
    ASSUME DeskInv, NEW w \in Workers, Answering(w), Rollback(w) \/ Failure(w) \/ Respond(w)
    PROVE  Answering(w)'
  <1> USE DEF DeskInv, TypeInv, TypeOK, Goto, EndTransaction, NoTableChange, tables,
          Answering, Searched, Lost, Durable
  <1>1. CASE Rollback(w)
    BY <1>1 DEF Rollback, AfterRollback, KeyTaken, WithKey
  <1>2. CASE CommitUnacknowledged(w)
    BY <1>2 DEF CommitUnacknowledged
  <1>3. CASE Abort(w)
    BY <1>3 DEF Abort
  <1>4. CASE Respond(w)
    BY <1>4 DEF Respond
  <1> QED
    BY <1>1, <1>2, <1>3, <1>4 DEF Failure

LEMMA AnswerStep == DeskInv /\ AnswerInv /\ [Next]_vars => AnswerInv'
  <1> SUFFICES ASSUME DeskInv, AnswerInv, [Next]_vars PROVE AnswerInv'
    OBVIOUS
  <1>1. ASSUME NEW w \in Workers, WorkerStep(w) PROVE AnswerInv'
    <2>1. Answering(w)'
      BY <1>1, AnswerReceive, AnswerReserve, AnswerCancel, AnswerCommit, AnswerEnd
         DEF WorkerStep, Progress, AnswerInv
    <2>2. ASSUME NEW v \in Workers, v # w PROVE Answering(v)'
      BY <1>1, <2>2, OthersStay, AnswerFrame DEF DeskInv, AnswerInv
    <2> QED
      BY <2>1, <2>2 DEF AnswerInv
  <1>2. ASSUME UNCHANGED workerVars PROVE AnswerInv'
    BY <1>2, AnswerFrame DEF workerVars, AnswerInv
  <1> QED
    BY <1>1, <1>2 DEF Next, Terminated, Tick, AdminStep, SetFleet, DeleteFleet, vars

LEMMA AnswerInvariant == Spec => [](DeskInv /\ AnswerInv)
  BY DeskInvariant, AnswerInit, AnswerStep, PTL DEF Spec

\* A client that is told of a booking, or of a cancellation, finds it in the
\* table as it asked for it, even if its connection came and went on the way.
THEOREM AnswersHold == Spec => []AnswersAreDurable
  <1>1. AnswerInv => AnswersAreDurable
    BY DEF AnswerInv, Answering, Durable, HasAsked, HasCancelled, AnswersAreDurable
  <1> QED
    BY <1>1, AnswerInvariant, PTL

\* The loser of a race for a key always finds the winner.
THEOREM LosersFindTheWinner == Spec => []DuplicateKeyNeverEscapes
  <1>1. AnswerInv => DuplicateKeyNeverEscapes
    BY DEF AnswerInv, Answering, Lost, DuplicateKeyNeverEscapes
  <1> QED
    BY <1>1, AnswerInvariant, PTL

\* A retry is recognised before the policy or the schedule can refuse it.
THEOREM RetriesAreRecognised == Spec => RetriesFindTheirBooking
  <1>1. ASSUME DeskInv, AnswerInv, [Next]_vars, NEW w \in Workers, result[w] = "none",
               result'[w] \in {"InvalidRentalPeriod", "NoAvailability"},
               NEW b \in rows, b.customer = req[w].customer, b.key = req[w].key
        PROVE  ~IsFor(b, req[w].carType, req[w].period)
    <2>1. FindNoRoom(w) \/ RefusePeriod(w)
      BY <1>1, WhoRefuses
    <2>2. pc[w] \in {"validate", "read_schedule"}
      BY <2>1 DEF FindNoRoom, RefusePeriod, Raise, Goto
    <2> QED
      BY <1>1, <2>2 DEF AnswerInv, Answering, Searched, IsFor
  <1>2. DeskInv /\ AnswerInv /\ [Next]_vars =>
            [\A w \in Workers :
                /\ result[w] = "none"
                /\ result'[w] \in {"InvalidRentalPeriod", "NoAvailability"}
                => \A b \in rows :
                      ~ /\ b.customer = req[w].customer
                        /\ b.key = req[w].key
                        /\ IsFor(b, req[w].carType, req[w].period)]_vars
    BY <1>1
  <1> QED
    BY <1>2, AnswerInvariant, PTL DEF Spec, RetriesFindTheirBooking

-----------------------------------------------------------------------------
(* What a worker talks about *)

UndecidedPc == {"lock_fleet", "find_key", "validate", "read_schedule", "insert",
                "lock_booking", "decide"}

\* The request a worker has, what it can be about to report, and on what
\* grounds: it reports nothing before it has decided, the policy has allowed a
\* booking that goes on, and a cancellation is of a booking its actor may manage.
Talk(w) ==
    /\ pc[w] = "idle" => req[w] = NoRequest /\ result[w] = "none"
    /\ pc[w] \in WorkingPc => req[w] \in ReserveRequest \cup CancelRequest
    /\ pc[w] \in UndecidedPc => result[w] = "none"
    /\ pc[w] \in {"rollback", "recover", "done"} => result[w] # "none"
    /\ pc[w] = "commit" => result[w] \in {"booked", "replayed", "cancelled"}
    /\ pc[w] \in {"read_schedule", "insert"} \/ Inserting(w) =>
          \E t \in 0 .. now : Permits(req[w].period, t)
    /\ Cancelling(w) => MayBeManagedBy(booking[w], req[w].actor)

TalkInv == \A w \in Workers : Talk(w)

LEMMA TalkInit == Init => TalkInv
  BY DEF Init, TalkInv, Talk, WorkingPc, ReservePc, CancelPc, UndecidedPc, Inserting, Cancelling

\* A worker that does not move keeps its part, whatever the clock does.
LEMMA TalkFrame ==
    ASSUME TypeOK, NEW v \in Workers, Talk(v), now' \in Nat, now <= now',
           pc'[v] = pc[v], req'[v] = req[v], result'[v] = result[v],
           booking'[v] = booking[v], written'[v] = written[v]
    PROVE  Talk(v)'
  <1>1. 0 .. now \subseteq 0 .. now'
    BY DEF TypeOK
  <1> QED
    BY <1>1 DEF Talk, Inserting, Cancelling

LEMMA TalkReceive ==
    ASSUME TypeInv, NEW w \in Workers, Talk(w), Receive(w)
    PROVE  Talk(w)'
  <1> USE DEF TypeInv, TypeOK, Goto, tables, Talk, Inserting, Cancelling,
          WorkingPc, ReservePc, CancelPc, UndecidedPc
  <1>1. CASE ReceiveReserve(w)
    BY <1>1 DEF ReceiveReserve
  <1>2. CASE RefuseKey(w)
    BY <1>2 DEF RefuseKey
  <1>3. CASE ReceiveCancel(w)
    BY <1>3 DEF ReceiveCancel, CancelRequest
  <1> QED
    BY <1>1, <1>2, <1>3 DEF Receive

LEMMA TalkReserve ==
    ASSUME TypeInv, NEW w \in Workers, Talk(w), ReserveStep(w)
    PROVE  Talk(w)'
  <1> USE DEF TypeInv, TypeOK, Goto, Raise, NoTableChange, tables, Talk, Inserting, Cancelling,
          WorkingPc, ReservePc, CancelPc, UndecidedPc
  <1>1. CASE LockFleet(w)
    BY <1>1 DEF LockFleet
  <1>2. CASE CarTypeMissing(w)
    BY <1>2 DEF CarTypeMissing
  <1>3. CASE LockFleetTimeout(w)
    BY <1>3 DEF LockFleetTimeout
  <1>4. CASE FindNoKey(w)
    BY <1>4 DEF FindNoKey
  <1>5. CASE FindKey(w)
    BY <1>5 DEF FindKey, ReplayResult
  <1>6. CASE Accept(w)
    <2>1. now \in 0 .. now
      BY DEF TypeInv, TypeOK
    <2> QED
      BY <1>6, <2>1 DEF Accept
  <1>7. CASE RefusePeriod(w)
    BY <1>7 DEF RefusePeriod
  <1>8. CASE FindRoom(w)
    BY <1>8 DEF FindRoom
  <1>9. CASE FindNoRoom(w)
    BY <1>9 DEF FindNoRoom
  <1>10. CASE Insert(w)
    BY <1>10 DEF Insert
  <1>11. CASE InsertDuplicate(w)
    BY <1>11 DEF InsertDuplicate
  <1>12. CASE InsertTimeout(w)
    BY <1>12 DEF InsertTimeout
  <1>13. CASE Recover(w)
    BY <1>13 DEF Recover, ReplayResult
  <1> QED
    BY <1>1, <1>2, <1>3, <1>4, <1>5, <1>6, <1>7, <1>8, <1>9, <1>10, <1>11, <1>12, <1>13 DEF ReserveStep

LEMMA TalkCancel ==
    ASSUME DeskInv, NEW w \in Workers, Talk(w), CancelStep(w)
    PROVE  Talk(w)'
  <1> USE DEF DeskInv, TypeInv, TypeOK, InHand, Goto, Raise, NoTableChange, tables, Talk,
          Inserting, Cancelling, WorkingPc, ReservePc, CancelPc, UndecidedPc
  <1>1. CASE LockBooking(w)
    BY <1>1 DEF LockBooking
  <1>2. CASE BookingMissing(w)
    BY <1>2 DEF BookingMissing
  <1>3. CASE LockBookingTimeout(w)
    BY <1>3 DEF LockBookingTimeout
  <1>4. CASE RefuseCancel(w)
    BY <1>4 DEF RefuseCancel
  <1>5. CASE CancelAgain(w)
    BY <1>5 DEF CancelAgain, LockInv, Holds
  <1>6. CASE CancelBooking(w)
    <2>1. MayBeManagedBy(Cancelled(booking[w], now), req[w].actor)
      BY <1>6, CancelledFields DEF CancelBooking, MayBeManagedBy
    <2> QED
      BY <1>6, <2>1 DEF CancelBooking
  <1> QED
    BY <1>1, <1>2, <1>3, <1>4, <1>5, <1>6 DEF CancelStep

LEMMA TalkEnd ==
    ASSUME TypeInv, NEW w \in Workers, Talk(w),
           Commit(w) \/ Rollback(w) \/ Failure(w) \/ Respond(w)
    PROVE  Talk(w)'
  <1> USE DEF TypeInv, TypeOK, InHand, Goto, EndTransaction, NoTableChange, tables, Talk,
          Inserting, Cancelling, WorkingPc, ReservePc, CancelPc, UndecidedPc
  <1>1. CASE Commit(w)
    BY <1>1 DEF Commit
  <1>2. CASE Rollback(w)
    BY <1>2 DEF Rollback, AfterRollback
  <1>3. CASE CommitUnacknowledged(w)
    BY <1>3 DEF CommitUnacknowledged
  <1>4. CASE Abort(w)
    BY <1>4 DEF Abort
  <1>5. CASE Respond(w)
    BY <1>5 DEF Respond
  <1> QED
    BY <1>1, <1>2, <1>3, <1>4, <1>5 DEF Failure

\* Only the clock's own step moves it.
LEMMA WorkersLeaveTheClock ==
    ASSUME NEW w \in Workers, WorkerStep(w)
    PROVE  now' = now
  BY DEF WorkerStep, Receive, ReceiveReserve, RefuseKey, ReceiveCancel, Progress, ReserveStep,
         LockFleet, CarTypeMissing, LockFleetTimeout, FindNoKey, FindKey, Accept, RefusePeriod,
         FindRoom, FindNoRoom, Insert, InsertDuplicate, InsertTimeout, Recover, CancelStep,
         LockBooking, BookingMissing, LockBookingTimeout, RefuseCancel, CancelAgain,
         CancelBooking, Commit, Rollback, Respond, Failure, CommitUnacknowledged, Abort,
         EndTransaction, NoTableChange

LEMMA TalkStep == DeskInv /\ TalkInv /\ [Next]_vars => TalkInv'
  <1> SUFFICES ASSUME DeskInv, TalkInv, [Next]_vars PROVE TalkInv'
    OBVIOUS
  <1>1. now \in Nat /\ TypeOK
    BY DEF DeskInv, TypeInv, TypeOK
  <1>2. ASSUME NEW w \in Workers, WorkerStep(w) PROVE TalkInv'
    <2>1. Talk(w)'
      BY <1>2, TalkReceive, TalkReserve, TalkCancel, TalkEnd
         DEF WorkerStep, Progress, TalkInv, DeskInv
    <2>2. ASSUME NEW v \in Workers, v # w PROVE Talk(v)'
      BY <1>1, <1>2, <2>2, OthersStay, WorkersLeaveTheClock, TalkFrame DEF DeskInv, TalkInv
    <2> QED
      BY <2>1, <2>2 DEF TalkInv
  <1>3. ASSUME UNCHANGED workerVars, now' = now \/ now' = now + 1 PROVE TalkInv'
    BY <1>1, <1>3, TalkFrame DEF workerVars, TalkInv
  <1> QED
    BY <1>2, <1>3 DEF Next, Terminated, Tick, AdminStep, SetFleet, DeleteFleet, vars

LEMMA TalkInvariant == Spec => [](DeskInv /\ AnswerInv /\ TalkInv)
  BY AnswerInvariant, TalkInit, TalkStep, PTL DEF Spec

-----------------------------------------------------------------------------
(* The promises: what the words of Reservations mean here *)

\* The data of Reservations is the desk's own: the copies of the operators
\* that INSTANCE makes have the values of those they are copies of.
LEMMA PromiseRequests ==
    /\ Promise!ReserveRequest = ReserveRequest
    /\ Promise!CancelRequest = CancelRequest
    /\ Promise!NoRequest = NoRequest
    /\ Promise!NoBooking = NoBooking
    /\ Promise!NoFleet = NoFleet
  BY DEF Promise!ReserveRequest, ReserveRequest, Promise!CancelRequest, CancelRequest,
         Promise!NoRequest, NoRequest, Promise!NoBooking, NoBooking, Promise!NoFleet, NoFleet

LEMMA PromiseBookings ==
    ASSUME NEW b
    PROVE  /\ Promise!IsCancelled(b) <=> IsCancelled(b)
           /\ \A r : Promise!IsAbout(b, r) <=> IsAbout(b, r)
           /\ \A a : Promise!MayBeManagedBy(b, a) <=> MayBeManagedBy(b, a)
           /\ \A ct, p : Promise!IsFor(b, ct, p) <=> IsFor(b, ct, p)
           /\ \A t : Promise!Cancelled(b, t) = Cancelled(b, t)
  BY DEF Promise!IsCancelled, IsCancelled, Promise!NotCancelled, NotCancelled,
         Promise!IsAbout, IsAbout, Promise!MayBeManagedBy, MayBeManagedBy,
         Promise!IsFor, IsFor, Promise!Cancelled, Cancelled

LEMMA PromisePeriods ==
    ASSUME NEW p, NEW t
    PROVE  /\ Promise!Covers(p, t) <=> Covers(p, t)
           /\ Promise!Permits(p, t) <=> Permits(p, t)
  BY DEF Promise!Covers, Covers, Promise!Permits, Permits, Promise!Duration, Duration

LEMMA PromiseUsage == \A ct, t : Promise!CarsOut(ct, t) = Usage(ct, t)
  <1>1. \A S : Promise!Cardinality(S) = Cardinality(S)
    BY DEF Promise!Cardinality, Cardinality
  <1> QED
    BY <1>1, PromiseBookings, PromisePeriods
       DEF Promise!CarsOut, Usage, Active, UsageAt, Promise!UsageAt

LEMMA PromiseToDo ==
    ASSUME NEW w \in Workers
    PROVE  /\ Promise!ToReserve(w) <=> req[w] \in ReserveRequest /\ AnswerOf[w] = "none"
           /\ Promise!ToCancel(w) <=> req[w] \in CancelRequest /\ AnswerOf[w] = "none"
  BY PromiseRequests DEF Promise!ToReserve, Promise!ToCancel

\* A step of w settles the answer of w only.
LEMMA AnswersStay ==
    ASSUME TypeInv, NEW w \in Workers, WorkerStep(w)
    PROVE  /\ AnswerOf' = [AnswerOf EXCEPT ![w] = AnswerOf'[w]]
           /\ Told' = [Told EXCEPT ![w] = Told'[w]]
  <1>1. ASSUME NEW v \in Workers, v # w
        PROVE  AnswerOf'[v] = AnswerOf[v] /\ Told'[v] = Told[v]
    BY <1>1, OthersStay DEF AnswerOf, Told, Decided
  <1>2. /\ AnswerOf = [v \in Workers |-> AnswerOf[v]]
        /\ AnswerOf' = [v \in Workers |-> AnswerOf'[v]]
        /\ Told = [v \in Workers |-> Told[v]]
        /\ Told' = [v \in Workers |-> Told'[v]]
    BY DEF AnswerOf, Told
  <1> HIDE DEF AnswerOf, Told
  <1> QED
    BY <1>1, <1>2

\* w's request takes effect: it is given its answer and the rest stays.
Settles(w, x, b) ==
    /\ AnswerOf'[w] = x /\ Told'[w] = b
    /\ UNCHANGED <<now, fleet, req>>

LEMMA SettlesAnswers ==
    ASSUME TypeInv, NEW w \in Workers, WorkerStep(w), NEW x, NEW b, Settles(w, x, b)
    PROVE  Promise!Answer(w, x, b)
  BY AnswersStay DEF Settles, Promise!Answer

\* The step shows in no variable of Reservations.
Silent(w) ==
    /\ AnswerOf'[w] = AnswerOf[w] /\ Told'[w] = Told[w]
    /\ UNCHANGED <<now, fleet, rows, req>>

PromiseVars == <<now, fleet, rows, req, AnswerOf, Told>>

LEMMA AnswersKept ==
    ASSUME TypeInv, NEW w \in Workers, WorkerStep(w),
           AnswerOf'[w] = AnswerOf[w], Told'[w] = Told[w]
    PROVE  UNCHANGED <<AnswerOf, Told>>
  <1>1. /\ AnswerOf = [v \in Workers |-> AnswerOf[v]]
        /\ Told = [v \in Workers |-> Told[v]]
    BY DEF AnswerOf, Told
  <1> HIDE DEF AnswerOf, Told
  <1> QED
    BY <1>1, AnswersStay

LEMMA SilentStutters ==
    ASSUME TypeInv, NEW w \in Workers, WorkerStep(w), Silent(w)
    PROVE  UNCHANGED PromiseVars
  BY AnswersKept DEF Silent, PromiseVars

\* What w's answer is before and after a decision.
LEMMA AnswerNow ==
    ASSUME TypeInv, NEW w \in Workers
    PROVE  /\ AnswerOf[w] = IF Decided(w) THEN result[w] ELSE "none"
           /\ AnswerOf'[w] = IF Decided(w)' THEN result'[w] ELSE "none"
           /\ Told[w] = IF Decided(w) /\ result[w] \in {"booked", "replayed", "cancelled"}
                        THEN booking[w] ELSE NoBooking
           /\ Told'[w] = IF Decided(w)' /\ result'[w] \in {"booked", "replayed", "cancelled"}
                         THEN booking'[w] ELSE NoBooking
  BY DEF AnswerOf, Told

-----------------------------------------------------------------------------
(* The promises: every step keeps them *)

LEMMA PromiseInit == Init => Promise!Init
  <1> SUFFICES ASSUME Init PROVE Promise!Init
    OBVIOUS
  <1>1. fleet \in [CarTypes -> Nat \cup {NoFleet}]
    BY DeskAssumption DEF Init
  <1>2. AnswerOf = [w \in Workers |-> "none"] /\ Told = [w \in Workers |-> NoBooking]
    BY DEF Init, AnswerOf, Told, Decided
  <1> QED
    BY <1>1, <1>2, PromiseRequests DEF Init, Promise!Init

\* Requests arrive; a bad key is refused at the door.
LEMMA PromiseReceive ==
    ASSUME DeskInv, NEW w \in Workers, Talk(w), Receive(w)
    PROVE  Promise!Ask(w) \/ Promise!RefuseBadKey(w)
  <1>1. WorkerStep(w) /\ TypeInv /\ TypeOK
    BY DEF WorkerStep, DeskInv, TypeInv
  <1>2. pc[w] = "idle" /\ req[w] = NoRequest /\ result[w] = "none"
    BY DEF Receive, ReceiveReserve, RefuseKey, ReceiveCancel, Goto, Talk
  <1>3. AnswerOf[w] = "none"
    BY <1>1, <1>2, AnswerNow DEF Decided
  <1>4. CASE ReceiveReserve(w) \/ ReceiveCancel(w)
    <2>1. /\ req'[w] \in ReserveRequest \cup CancelRequest
          /\ req' = [req EXCEPT ![w] = req'[w]]
          /\ UNCHANGED <<now, fleet, rows>>
      BY <1>1, <1>4 DEF ReceiveReserve, ReceiveCancel, CancelRequest, TypeOK, tables
    <2>2. AnswerOf'[w] = AnswerOf[w] /\ Told'[w] = Told[w]
      BY <1>1, <1>2, <1>4, AnswerNow
         DEF ReceiveReserve, ReceiveCancel, Goto, Decided, TypeOK
    <2>3. UNCHANGED <<AnswerOf, Told>>
      BY <1>1, <2>2, AnswersKept
    <2> QED
      BY <1>2, <1>3, <2>1, <2>3, PromiseRequests DEF Promise!Ask
  <1>5. CASE RefuseKey(w)
    <2>1. Settles(w, "InvalidIdempotencyKey", NoBooking)
      BY <1>1, <1>5, AnswerNow DEF Settles, RefuseKey, Goto, Decided, TypeOK, tables
    <2>2. rows' = rows
      BY <1>5 DEF RefuseKey, tables
    <2> QED
      BY <1>1, <1>2, <1>3, <2>1, <2>2, SettlesAnswers, PromiseRequests DEF Promise!RefuseBadKey
  <1> QED
    BY <1>4, <1>5 DEF Receive

\* Steps of reserve() before the INSERT and after a lost race: the lock, the
\* key, the policy and the schedule.
LEMMA PromiseReserve ==
    ASSUME DeskInv, NEW w \in Workers, Answering(w), Talk(w), ReserveStep(w)
    PROVE  Promise!Replay(w) \/ Promise!Refuse(w) \/ Promise!Fail(w) \/ UNCHANGED PromiseVars
  <1>1. WorkerStep(w) /\ TypeInv /\ TypeOK
    BY DEF WorkerStep, Progress, DeskInv, TypeInv
  <1>2. /\ pc[w] \in ReservePc /\ req[w] \in ReserveRequest
        /\ UNCHANGED <<now, fleet, rows, req>>
    BY <1>1 DEF ReserveStep, LockFleet, CarTypeMissing, LockFleetTimeout, FindNoKey, FindKey,
         Accept, RefusePeriod, FindRoom, FindNoRoom, Insert, InsertDuplicate, InsertTimeout,
         Recover, Raise, Goto, NoTableChange, tables, ReservePc, TypeInv, InHand
  <1>3. AnswerOf[w] = "none" /\ Told[w] = NoBooking
    BY <1>1, <1>2, AnswerNow
       DEF Talk, UndecidedPc, ReservePc, Answering, Lost, Decided
  <1>4. Promise!ToReserve(w) /\ req[w] # NoRequest
    BY <1>2, <1>3, PromiseToDo DEF ReserveRequest, NoRequest
  <1>5. written[w] = {}
    BY <1>2 DEF DeskInv, LockInv, Holds, Inserting, Cancelling, ReservePc
  <1>6. pc[w] # "recover" => result[w] = "none"
    BY <1>2 DEF Talk, UndecidedPc, ReservePc
  <1> USE DEF Goto, Raise, NoTableChange, TypeOK
  <1>7. CASE LockFleet(w) \/ FindNoKey(w) \/ Accept(w) \/ FindRoom(w)
    <2>1. pc'[w] # "commit" /\ result'[w] = "none"
      BY <1>1, <1>6, <1>7 DEF LockFleet, FindNoKey, Accept, FindRoom
    <2>2. Silent(w)
      BY <1>1, <1>2, <1>3, <2>1, AnswerNow DEF Silent, Decided
    <2> QED
      BY <1>1, <2>2, SilentStutters
  <1>8. CASE CarTypeMissing(w)
    <2>1. Settles(w, "CarTypeNotFound", NoBooking) /\ fleet[req[w].carType] = NoFleet
      BY <1>1, <1>2, <1>8, AnswerNow DEF CarTypeMissing, Settles, Decided
    <2> QED
      BY <1>1, <1>2, <1>4, <2>1, SettlesAnswers, PromiseRequests DEF Promise!Refuse
  <1>9. CASE LockFleetTimeout(w)
    <2>1. Settles(w, "FleetBusy", NoBooking)
      BY <1>1, <1>2, <1>9, AnswerNow DEF LockFleetTimeout, Settles, Decided
    <2> QED
      BY <1>1, <1>2, <1>4, <2>1, SettlesAnswers, PromiseRequests DEF Promise!Refuse
  <1>10. ASSUME FindKey(w) \/ Recover(w) PROVE Promise!Replay(w)
    <2>1. PICK b \in rows :
              /\ IsAbout(b, req[w])
              /\ result'[w] = ReplayResult(b, req[w])
              /\ booking'[w] = b
      BY <1>1, <1>10 DEF FindKey, Recover, WithKey, IsAbout, Answering, Lost, KeyTaken
    <2>2. written'[w] = {}
      BY <1>5, <1>10 DEF FindKey, Recover
    <2>3. CASE IsFor(b, req[w].carType, req[w].period)
      <3>1. Settles(w, "replayed", b)
        BY <1>1, <1>2, <2>1, <2>2, <2>3, AnswerNow DEF ReplayResult, Settles, Decided
      <3> QED
        BY <1>1, <1>2, <1>4, <2>1, <2>3, <3>1, SettlesAnswers, PromiseBookings DEF Promise!Replay
    <2>4. CASE ~IsFor(b, req[w].carType, req[w].period)
      <3>1. Settles(w, "IdempotencyConflict", NoBooking)
        BY <1>1, <1>2, <2>1, <2>2, <2>4, AnswerNow DEF ReplayResult, Settles, Decided
      <3> QED
        BY <1>1, <1>2, <1>4, <2>1, <2>4, <3>1, SettlesAnswers, PromiseBookings, PromiseRequests
           DEF Promise!Replay
    <2> QED
      BY <2>3, <2>4
  <1>11. CASE RefusePeriod(w)
    <2>1. Settles(w, "InvalidRentalPeriod", NoBooking) /\ ~Permits(req[w].period, now)
      BY <1>1, <1>2, <1>11, AnswerNow DEF RefusePeriod, Settles, Decided
    <2>2. \A b \in rows : ~(IsAbout(b, req[w]) /\ b.carType = req[w].carType)
      BY <1>11 DEF RefusePeriod, Answering, Searched, IsAbout
    <2> QED
      BY <1>1, <1>2, <1>4, <2>1, <2>2, SettlesAnswers, PromiseRequests, PromiseBookings,
         PromisePeriods DEF Promise!Refuse
  <1>12. CASE FindNoRoom(w)
    <2>1. Settles(w, "NoAvailability", NoBooking)
      BY <1>1, <1>2, <1>12, AnswerNow DEF FindNoRoom, Settles, Decided
    <2>2. \A b \in rows : ~(IsAbout(b, req[w]) /\ b.carType = req[w].carType)
      BY <1>12 DEF FindNoRoom, Answering, Searched, IsAbout
    <2>3. \E t \in Instants :
              Covers(req[w].period, t) /\ Usage(req[w].carType, t) >= fleet[req[w].carType]
      BY <1>12, NoRoomAtAnInstant DEF FindNoRoom
    <2> QED
      BY <1>1, <1>2, <1>4, <2>1, <2>2, <2>3, SettlesAnswers, PromiseRequests, PromiseBookings,
         PromisePeriods, PromiseUsage DEF Promise!Refuse
  <1>13. CASE Insert(w)
    <2>1. pc'[w] = "commit" /\ written'[w] # {}
      BY <1>1, <1>13 DEF Insert
    <2>2. Silent(w)
      BY <1>1, <1>2, <1>3, <2>1, AnswerNow DEF Silent, Decided
    <2> QED
      BY <1>1, <2>2, SilentStutters
  <1>14. CASE InsertDuplicate(w)
    <2>1. result'[w] = "DuplicateIdempotencyKey"
      BY <1>1, <1>14 DEF InsertDuplicate
    <2>2. Silent(w)
      BY <1>1, <1>2, <1>3, <2>1, AnswerNow DEF Silent, Decided
    <2> QED
      BY <1>1, <2>2, SilentStutters
  <1>15. CASE InsertTimeout(w)
    <2>1. Settles(w, "ServerError", NoBooking)
      BY <1>1, <1>2, <1>15, AnswerNow DEF InsertTimeout, Settles, Decided
    <2> QED
      BY <1>1, <1>2, <1>4, <2>1, SettlesAnswers, PromiseRequests DEF Promise!Fail
  <1> QED
    BY <1>7, <1>8, <1>9, <1>10, <1>11, <1>12, <1>13, <1>14, <1>15 DEF ReserveStep

\* Steps of cancel() before its transaction ends.
LEMMA PromiseCancel ==
    ASSUME DeskInv, NEW w \in Workers, Talk(w), CancelStep(w)
    PROVE  \/ Promise!Cancel(w) \/ Promise!RefuseToCancel(w) \/ Promise!Fail(w)
           \/ UNCHANGED PromiseVars
  <1>1. WorkerStep(w) /\ TypeInv /\ TypeOK
    BY DEF WorkerStep, Progress, DeskInv, TypeInv
  <1>2. /\ pc[w] \in CancelPc /\ req[w] \in CancelRequest
        /\ UNCHANGED <<now, fleet, rows, req>>
    BY <1>1 DEF CancelStep, LockBooking, BookingMissing, LockBookingTimeout, RefuseCancel,
         CancelAgain, CancelBooking, Raise, Goto, NoTableChange, tables, CancelPc, TypeInv,
         InHand
  <1>3. result[w] = "none" /\ written[w] = {}
    BY <1>2 DEF Talk, UndecidedPc, CancelPc, DeskInv, LockInv, Holds, Inserting, Cancelling
  <1>4. AnswerOf[w] = "none" /\ Told[w] = NoBooking
    BY <1>1, <1>3, AnswerNow DEF Decided
  <1>5. Promise!ToCancel(w) /\ req[w] # NoRequest
    BY <1>2, <1>4, PromiseToDo DEF CancelRequest, NoRequest
  <1>6. pc[w] = "decide" => /\ booking[w] \in rows /\ booking[w].id = req[w].id
                            /\ \A b \in rows : b.id = req[w].id => b = booking[w]
    BY DEF DeskInv, RowInv, Reads, LockInv, Holds
  <1> USE DEF Goto, Raise, NoTableChange, TypeOK
  <1>7. CASE LockBooking(w)
    <2>1. pc'[w] # "commit" /\ result'[w] = "none"
      BY <1>1, <1>3, <1>7 DEF LockBooking
    <2>2. Silent(w)
      BY <1>1, <1>2, <1>4, <2>1, AnswerNow DEF Silent, Decided
    <2> QED
      BY <1>1, <2>2, SilentStutters
  <1>8. CASE BookingMissing(w)
    <2>1. Settles(w, "ReservationNotFound", NoBooking) /\ \A b \in rows : b.id # req[w].id
      BY <1>1, <1>2, <1>8, AnswerNow DEF BookingMissing, Settles, Decided
    <2> QED
      BY <1>1, <1>2, <1>5, <2>1, SettlesAnswers, PromiseRequests DEF Promise!RefuseToCancel
  <1>9. CASE LockBookingTimeout(w)
    <2>1. Settles(w, "ServerError", NoBooking)
      BY <1>1, <1>2, <1>9, AnswerNow DEF LockBookingTimeout, Settles, Decided
    <2> QED
      BY <1>1, <1>2, <1>5, <2>1, SettlesAnswers, PromiseRequests DEF Promise!Fail
  <1>10. ASSUME RefuseCancel(w) PROVE Promise!RefuseToCancel(w)
    <2>1. pc[w] = "decide" /\ pc'[w] = "rollback"
      BY <1>1, <1>10 DEF RefuseCancel
    <2>2. CASE ~MayBeManagedBy(booking[w], req[w].actor)
      <3>1. Settles(w, "ReservationNotFound", NoBooking)
        BY <1>1, <1>2, <1>10, <2>1, <2>2, AnswerNow DEF RefuseCancel, Settles, Decided
      <3> QED
        BY <1>1, <1>2, <1>5, <1>6, <2>1, <2>2, <3>1, SettlesAnswers, PromiseRequests,
           PromiseBookings DEF Promise!RefuseToCancel
    <2>3. CASE MayBeManagedBy(booking[w], req[w].actor)
      <3>1. /\ Settles(w, "ReservationNotCancellable", NoBooking)
            /\ ~IsCancelled(booking[w]) /\ booking[w].period.end <= now
        BY <1>1, <1>2, <1>10, <2>1, <2>3, AnswerNow DEF RefuseCancel, Settles, Decided
      <3> QED
        BY <1>1, <1>2, <1>5, <1>6, <2>1, <2>3, <3>1, SettlesAnswers, PromiseRequests,
           PromiseBookings DEF Promise!RefuseToCancel
    <2> QED
      BY <2>2, <2>3
  <1>11. CASE CancelAgain(w)
    <2>1. /\ Settles(w, "cancelled", booking[w]) /\ pc[w] = "decide"
          /\ MayBeManagedBy(booking[w], req[w].actor) /\ IsCancelled(booking[w])
      BY <1>1, <1>2, <1>3, <1>11, AnswerNow DEF CancelAgain, Settles, Decided
    <2> QED
      BY <1>1, <1>2, <1>5, <1>6, <2>1, SettlesAnswers, PromiseBookings DEF Promise!Cancel
  <1>12. CASE CancelBooking(w)
    <2>1. pc'[w] = "commit" /\ written'[w] # {}
      BY <1>1, <1>12 DEF CancelBooking
    <2>2. Silent(w)
      BY <1>1, <1>2, <1>4, <2>1, AnswerNow DEF Silent, Decided
    <2> QED
      BY <1>1, <2>2, SilentStutters
  <1> QED
    BY <1>7, <1>8, <1>9, <1>10, <1>11, <1>12 DEF CancelStep

\* A commit is the instant at which a new booking, or a cancellation, takes
\* effect, whether or not its answer arrives.
LEMMA PromiseCommit ==
    ASSUME DeskInv, NEW w \in Workers, Answering(w), Talk(w), Commits(w)
    PROVE  \/ Promise!Book(w) \/ Promise!Cancel(w) \/ Promise!Fail(w)
           \/ UNCHANGED PromiseVars
  <1>1. WorkerStep(w) /\ TypeInv /\ TypeOK
    BY DEF WorkerStep, Progress, Failure, Commits, DeskInv, TypeInv
  <1>2. /\ pc[w] = "commit" /\ pc'[w] = "done" /\ rows' = Installed(w)
        /\ UNCHANGED <<now, fleet, req>>
    BY <1>1, CommitFrame
  <1>3. \/ result'[w] = result[w] /\ booking'[w] = booking[w]
        \/ result'[w] = "ServerError" /\ booking'[w] = NoBooking
    BY <1>1 DEF Commits, Commit, CommitUnacknowledged, TypeOK
  <1>4. result[w] \in {"booked", "replayed", "cancelled"} /\ req[w] # NoRequest
    BY <1>2 DEF Talk, WorkingPc, ReserveRequest, CancelRequest, NoRequest
  <1>5. \/ Settles(w, result[w], booking[w])
        \/ Settles(w, "ServerError", NoBooking)
    BY <1>1, <1>2, <1>3, <1>4, AnswerNow DEF Settles, Decided
  <1>6. CASE Inserting(w) /\ rows' = rows \cup {booking[w]}
    <2>1. /\ MadeAsAsked(w) /\ booking[w].cancelledAt = NotCancelled
          /\ written[w] # {} /\ result[w] = "booked"
      BY <1>6 DEF DeskInv, LockInv, Holds, Inserting
    <2>2. Promise!ToReserve(w)
      BY <1>1, <1>2, <2>1, PromiseToDo, AnswerNow DEF Decided, MadeAsAsked
    <2>3. \A b \in rows : b.id # booking[w].id /\ ~IsAbout(b, req[w])
      BY <1>6, <2>1 DEF DeskInv, RowInv, Reads, SameKey, MadeAsAsked, IsAbout
    <2>4. \E t \in 0 .. now : Permits(req[w].period, t)
      BY <1>6 DEF Talk
    <2>5. \A t \in Instants : Covers(req[w].period, t) =>
              Usage(req[w].carType, t) < fleet[req[w].carType]
      <3>1. Room(w) /\ Instants \subseteq Int
        BY <1>6, BookingAssumption DEF DeskInv, RoomInv
      <3> QED
        BY <3>1 DEF Room
    <2>6. /\ IsAbout(booking[w], req[w]) /\ ~IsCancelled(booking[w])
          /\ IsFor(booking[w], req[w].carType, req[w].period)
      BY <2>1 DEF MadeAsAsked, IsAbout, IsFor, IsCancelled
    <2>7. booking[w] \in rows' \ rows
      BY <1>6, <2>3
    <2>8. Promise!TakeEffect(w, "booked", booking[w])
      BY <1>1, <1>5, <2>1, SettlesAnswers, PromiseRequests DEF Promise!TakeEffect
    <2> QED
      BY <1>6, <2>2, <2>3, <2>4, <2>5, <2>6, <2>7, <2>8, PromiseBookings, PromisePeriods,
         PromiseUsage DEF Promise!Book
  <1>7. CASE /\ Cancelling(w)
             /\ \E b \in rows : \E t \in 0 .. now :
                  /\ b.id = req[w].id
                  /\ ~IsCancelled(b)
                  /\ t < b.period.end
                  /\ booking[w] = Cancelled(b, t)
                  /\ Installed(w) = (rows \ {b}) \cup {Cancelled(b, t)}
    <2>1. PICK b \in rows, t \in 0 .. now :
              /\ b.id = req[w].id
              /\ ~IsCancelled(b)
              /\ t < b.period.end
              /\ booking[w] = Cancelled(b, t)
              /\ rows' = (rows \ {b}) \cup {Cancelled(b, t)}
      BY <1>2, <1>7
    <2>2. req[w] \in CancelRequest /\ written[w] # {} /\ result[w] = "cancelled"
      BY <1>7 DEF DeskInv, LockInv, Holds, Cancelling
    <2>3. Promise!ToCancel(w)
      BY <1>1, <1>2, <2>2, PromiseToDo, AnswerNow DEF Decided
    <2>4. MayBeManagedBy(b, req[w].actor)
      <3>1. MayBeManagedBy(Cancelled(b, t), req[w].actor)
        BY <1>7, <2>1 DEF Talk
      <3>2. b \in BookingRecord /\ t \in Nat
        BY <1>1 DEF TypeOK
      <3>3. Cancelled(b, t).customer = b.customer
        BY ONLY <3>2, CancelledFields
      <3> QED
        BY <3>1, <3>3 DEF MayBeManagedBy
    <2>5. Promise!TakeEffect(w, "cancelled", Cancelled(b, t))
      BY <1>1, <1>5, <2>1, <2>2, SettlesAnswers, PromiseRequests DEF Promise!TakeEffect
    <2> QED
      BY <2>1, <2>3, <2>4, <2>5, PromiseBookings DEF Promise!Cancel
  <1>8. CASE ~Inserting(w) /\ ~Cancelling(w) /\ rows' = rows
    <2>1. written[w] = {} /\ result[w] # "DuplicateIdempotencyKey"
      BY <1>4, <1>8 DEF DeskInv, LockInv, Holds
    <2>2. AnswerOf[w] = result[w] /\ Told[w] = booking[w]
      BY <1>1, <1>4, <2>1, AnswerNow DEF Decided
    <2>3. CASE Settles(w, result[w], booking[w])
      BY <1>1, <1>2, <1>8, <2>2, <2>3, SilentStutters DEF Settles, Silent
    <2>4. CASE Settles(w, "ServerError", NoBooking)
      BY <1>1, <1>4, <1>8, <2>4, SettlesAnswers, PromiseRequests DEF Promise!Fail
    <2> QED
      BY <1>5, <2>3, <2>4
  <1> QED
    BY <1>1, <1>2, <1>6, <1>7, <1>8, InstalledRows DEF DeskInv

\* A transaction that is rolled back shows in nothing but the answer.
LEMMA PromiseEnd ==
    ASSUME DeskInv, NEW w \in Workers, Answering(w), Talk(w),
           Rollback(w) \/ Abort(w) \/ Respond(w)
    PROVE  Promise!Fail(w) \/ Promise!Reply(w) \/ UNCHANGED PromiseVars
  <1>1. WorkerStep(w) /\ TypeInv /\ TypeOK
    BY DEF WorkerStep, Progress, Failure, DeskInv, TypeInv
  <1> USE DEF Goto, NoTableChange, TypeOK
  <1>2. CASE Rollback(w)
    <2>1. /\ pc[w] = "rollback" /\ pc'[w] # "commit" /\ result'[w] = result[w]
          /\ UNCHANGED <<now, fleet, rows, req>>
      BY <1>1, <1>2 DEF Rollback, AfterRollback, EndTransaction
    <2>2. result[w] \notin {"booked", "replayed", "cancelled"}
      BY <2>1 DEF Answering, Durable
    <2>3. Silent(w)
      BY <1>1, <2>1, <2>2, AnswerNow DEF Silent, Decided
    <2> QED
      BY <1>1, <2>3, SilentStutters
  <1>3. CASE Abort(w)
    <2>1. Settles(w, "ServerError", NoBooking)
      BY <1>1, <1>3, AnswerNow DEF Abort, EndTransaction, Settles, Decided
    <2>2. rows' = rows /\ req[w] # NoRequest
      BY <1>3 DEF Abort, Talk, ReserveRequest, CancelRequest, NoRequest
    <2> QED
      BY <1>1, <2>1, <2>2, SettlesAnswers, PromiseRequests DEF Promise!Fail
  <1>4. CASE Respond(w)
    <2>1. /\ pc[w] = "done" /\ pc'[w] = "idle" /\ result'[w] = "none"
          /\ req' = [req EXCEPT ![w] = NoRequest]
          /\ UNCHANGED <<now, fleet, rows>>
      BY <1>1, <1>4 DEF Respond, tables
    <2>2. AnswerOf[w] # "none"
      BY <1>1, <2>1, AnswerNow DEF Talk, Answering, Lost, Decided
    <2>3. AnswerOf'[w] = "none" /\ Told'[w] = NoBooking
      BY <1>1, <2>1, AnswerNow DEF Decided
    <2> QED
      BY <1>1, <2>1, <2>2, <2>3, AnswersStay, PromiseRequests DEF Promise!Reply
  <1> QED
    BY <1>2, <1>3, <1>4

\* Staff and the clock.
LEMMA PromiseOthers ==
    ASSUME DeskInv, Tick \/ (\E ct \in CarTypes : AdminStep(ct)) \/ UNCHANGED vars
    PROVE  \/ \E ct \in CarTypes : Promise!ChangeFleet(ct)
           \/ Promise!TimePasses
           \/ UNCHANGED PromiseVars
  <1>1. UNCHANGED workerVars
    BY DEF Tick, AdminStep, SetFleet, DeleteFleet, vars
  <1>2. UNCHANGED <<AnswerOf, Told>>
    BY <1>1 DEF AnswerOf, Told, Decided, workerVars
  <1>3. CASE Tick
    BY <1>1, <1>2, <1>3 DEF Tick, tables, workerVars, Promise!TimePasses
  <1>4. ASSUME NEW ct \in CarTypes, AdminStep(ct) PROVE Promise!ChangeFleet(ct)
    <2>1. CASE \E n \in FleetSizes : SetFleet(ct, n)
      BY <1>1, <1>2, <2>1, DeskAssumption
         DEF SetFleet, NoFleet, workerVars, DeskInv, TypeInv, TypeOK, Promise!ChangeFleet,
             Promise!NoFleet
    <2>2. CASE DeleteFleet(ct)
      BY <1>1, <1>2, <2>2
         DEF DeleteFleet, NoFleet, workerVars, DeskInv, TypeInv, TypeOK, Promise!ChangeFleet,
             Promise!NoFleet
    <2> QED
      BY <1>4, <2>1, <2>2 DEF AdminStep
  <1>5. CASE UNCHANGED vars
    BY <1>2, <1>5 DEF vars, tables, workerVars, PromiseVars
  <1> QED
    BY <1>3, <1>4, <1>5

\* Every step is one of Reservations, or does not show in its variables.
LEMMA PromiseStep ==
    DeskInv /\ AnswerInv /\ TalkInv /\ [Next]_vars => [Promise!Next]_PromiseVars
  <1> SUFFICES ASSUME DeskInv, AnswerInv, TalkInv, [Next]_vars
               PROVE  Promise!Next \/ UNCHANGED PromiseVars
    OBVIOUS
  <1>1. ASSUME NEW w \in Workers, WorkerStep(w) PROVE Promise!Next \/ UNCHANGED PromiseVars
    <2>1. Answering(w) /\ Talk(w)
      BY DEF AnswerInv, TalkInv
    <2>2. \/ Promise!Ask(w) \/ Promise!RefuseBadKey(w)
          \/ Promise!Book(w) \/ Promise!Replay(w) \/ Promise!Refuse(w)
          \/ Promise!Cancel(w) \/ Promise!RefuseToCancel(w)
          \/ Promise!Fail(w) \/ Promise!Reply(w)
          \/ UNCHANGED PromiseVars
      BY <1>1, <2>1, PromiseReceive, PromiseReserve, PromiseCancel, PromiseCommit, PromiseEnd
         DEF WorkerStep, Progress, Failure, Commits
    <2> QED
      BY <2>2 DEF Promise!Next
  <1>2. ASSUME Tick \/ (\E ct \in CarTypes : AdminStep(ct)) \/ UNCHANGED vars
        PROVE  Promise!Next \/ UNCHANGED PromiseVars
    BY <1>2, PromiseOthers DEF Promise!Next
  <1> QED
    BY <1>1, <1>2 DEF Next, Terminated

\* The desk on PostgreSQL implements the abstract desk: however the SQL
\* statements of its transactions interleave, time out, fail or are rolled
\* back, every request takes effect at one instant between its arrival and its
\* answer, and what it answers was true at that instant.
THEOREM DeskKeepsThePromises == Spec => KeepsThePromises
  <1>1. Init => Promise!Init
    BY PromiseInit
  <1>2. DeskInv /\ AnswerInv /\ TalkInv /\ [Next]_vars => [Promise!Next]_(Promise!vars)
    BY PromiseStep DEF PromiseVars, Promise!vars
  <1> QED
    BY <1>1, <1>2, TalkInvariant, PTL DEF Spec, KeepsThePromises, Promise!Spec
=============================================================================
