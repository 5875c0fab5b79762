--------------------------- MODULE AdminSite_proofs --------------------------
(* Theorems about the admin site's cancel_selected on top of the desk, for  *)
(* every value of the constants.  The desk's inductive invariant is kept by *)
(* the steps the admin site adds; BatchInv says what a batch in progress    *)
(* knows.                                                                   *)
EXTENDS AdminSite, PostgresDesk_proofs

-----------------------------------------------------------------------------
(* What a batch has done, and what is under way for it *)

\* The reservation has ended uncancelled, and no cancellation of it that was
\* decided before then is still to be committed.
Ended(id) ==
    /\ \A b \in rows : b.id = id => ~IsCancelled(b) /\ b.period.end <= now
    /\ \A v \in Workers : Cancelling(v) => req[v].id # id

CancelledRow(id) == \A b \in rows : b.id = id => IsCancelled(b)

Counted(w) == DealtWith(w) \ batch[w].refused

\* The desk's call for one of the selected reservations.
Calling(w) ==
    /\ pc[w] \in CancelPc \cup {"commit", "rollback", "done"}
    /\ req[w] \in CancelRequest
    /\ req[w].actor = batch[w].actor
    /\ req[w].id \in batch[w].selected \ (batch[w].todo \cup batch[w].refused)
    /\ pc[w] = "commit" => result[w] = "cancelled"
    /\ pc[w] \in {"rollback", "done"} =>
          result[w] \in {"cancelled", "ReservationNotCancellable", "ServerError"}
    /\ result[w] = "ReservationNotCancellable" => Ended(req[w].id)

\* Between two calls, and during one, what the batch has counted is cancelled,
\* and what it has refused had ended.
Batched(w) ==
    /\ IsFiniteSet(batch[w].selected)
    /\ batch[w].todo \subseteq batch[w].selected
    /\ \A id \in batch[w].selected : \E b \in rows : b.id = id
    /\ pc[w] # "idle" => Calling(w)
    /\ batch[w].refused \subseteq DealtWith(w)
    /\ batch[w].cancelled = Cardinality(Counted(w))
    /\ \A id \in Counted(w) : CancelledRow(id)
    /\ \A id \in batch[w].refused : Ended(id)

BatchInv == \A w \in Workers : InBatch(w) => Batched(w)

\* A step of the admin site is one of the desk's, the choice of a batch, or
\* the next call of one.
LEMMA AdminSteps ==
    ASSUME [AdminNext]_<<vars, batch>>
    PROVE  [Next]_vars \/ \E w \in Workers : SelectBatch(w) \/ CancelNext(w)
  <1>1. ASSUME NEW w \in Workers, CountCancelled(w) \/ NoteRefusal(w) \/ StopBatch(w)
        PROVE  WorkerStep(w)
    BY <1>1 DEF CountCancelled, NoteRefusal, StopBatch, Take, Respond, WorkerStep, Progress
  <1>2. ASSUME NEW w \in Workers, DeskStep(w) PROVE WorkerStep(w)
    BY <1>2 DEF DeskStep, WorkerStep, Progress
  <1>3. ASSUME NEW w \in Workers, BatchStep(w)
        PROVE  WorkerStep(w) \/ UNCHANGED vars \/ SelectBatch(w) \/ CancelNext(w)
    BY <1>1, <1>3 DEF BatchStep, FinishBatch
  <1> QED
    BY <1>2, <1>3 DEF AdminNext, Next

LEMMA SelectKeepsDesk ==
    ASSUME DeskInv, AnswerInv, TalkInv, NEW w \in Workers, SelectBatch(w)
    PROVE  DeskInv' /\ AnswerInv' /\ TalkInv'
  <1>1. UNCHANGED <<now, fleet, rows, nextId, workerVars>> /\ requests' \in Nat
    BY DEF SelectBatch, tables, DeskInv, TypeInv, TypeOK
  <1>2. UNCHANGED <<pc, req, result, booking, size, fleetHeld, rowHeld, written>>
    BY <1>1 DEF workerVars
  <1>3. TypeInv'
    BY <1>1, <1>2 DEF DeskInv, TypeInv, TypeOK, InHand
  <1>4. LockInv'
    BY <1>1, <1>2 DEF DeskInv, LockInv, Mutex, Holds, MadeAsAsked, Inserting, Cancelling
  <1>5. RowInv'
    BY <1>1, <1>2 DEF DeskInv, RowInv, Reads, Inserting, Cancelling
  <1>6. RoomInv'
    BY <1>1, <1>2 DEF DeskInv, RoomInv, Room, Usage, UsageAt, Active, Inserting
  <1>7. AnswerInv'
    BY <1>1, <1>2 DEF AnswerInv, Answering, Searched, Lost, Durable, HasAsked, HasCancelled,
                      KeyTaken, WithKey
  <1>8. TalkInv'
    BY <1>1, <1>2 DEF TalkInv, Talk, Inserting, Cancelling
  <1> QED
    BY <1>3, <1>4, <1>5, <1>6, <1>7, <1>8 DEF DeskInv

\* The next call of a batch begins as the call of a customer does.
LEMMA CallBegins ==
    ASSUME TypeOK, AdminTypeOK, NEW w \in Workers, CancelNext(w)
    PROVE  /\ pc[w] = "idle" /\ pc' = [pc EXCEPT ![w] = "lock_booking"]
           /\ batch[w] \in Batch
           /\ \E id \in batch[w].todo :
                 /\ req' = [req EXCEPT ![w] = [actor |-> batch[w].actor, id |-> id]]
                 /\ batch' = [batch EXCEPT ![w].todo = @ \ {id}]
                 /\ [actor |-> batch[w].actor, id |-> id] \in CancelRequest
           /\ UNCHANGED <<now, tables, requests, result, booking, size, fleetHeld, rowHeld,
                          written>>
  <1>1. batch[w] \in Batch
    BY DEF CancelNext, InBatch, AdminTypeOK
  <1>2. batch[w].actor \in Customers /\ batch[w].todo \subseteq Nat
    BY <1>1, AdminAssumption, BookingAssumption DEF Batch
  <1> QED
    BY <1>1, <1>2 DEF CancelNext, Goto, NoTableChange, NoLockChange, CancelRequest

LEMMA CallKeepsDesk ==
    ASSUME DeskInv, AnswerInv, TalkInv, AdminTypeOK, NEW w \in Workers, CancelNext(w)
    PROVE  DeskInv' /\ AnswerInv' /\ TalkInv'
  <1>1. TypeInv /\ TypeOK /\ LockInv /\ RowInv /\ RoomInv
    BY DEF DeskInv, TypeInv
  <1>2. /\ pc[w] = "idle" /\ pc' = [pc EXCEPT ![w] = "lock_booking"]
        /\ req' = [req EXCEPT ![w] = req'[w]] /\ req'[w] \in CancelRequest
        /\ UNCHANGED <<now, fleet, rows, nextId, requests, result, booking, size, fleetHeld,
                       rowHeld, written>>
    BY <1>1, CallBegins DEF tables, TypeOK
  <1>3. /\ pc'[w] = "lock_booking"
        /\ \A v \in Workers : v # w => pc'[v] = pc[v] /\ req'[v] = req[v]
    BY <1>1, <1>2 DEF TypeOK
  <1>4. TypeInv'
    <2>1. TypeOK'
      BY <1>1, <1>2 DEF TypeOK, WorkingPc, CancelPc
    <2>2. ASSUME NEW v \in Workers PROVE InHand(v)'
      BY <1>1, <1>2, <1>3 DEF TypeInv, InHand, ReservePc, CancelPc
    <2> QED
      BY <2>1, <2>2 DEF TypeInv
  <1>5. LockInv'
    <2>1. ASSUME NEW v \in Workers PROVE Holds(v)'
      BY <1>1, <1>2, <1>3 DEF LockInv, Holds, MadeAsAsked, Inserting, Cancelling, FleetPc, FreePc
    <2> QED
      BY <1>1, <1>2, <2>1 DEF LockInv, Mutex
  <1>6. RowInv'
    BY <1>1, <1>2, <1>3 DEF RowInv, Reads, Inserting, Cancelling
  <1>7. RoomInv'
    BY <1>1, <1>2, <1>3, RoomFrame DEF RoomInv, Inserting
  <1>8. AnswerInv'
    BY <1>2, <1>3 DEF AnswerInv, Answering, Searched, Lost, Durable, HasAsked, HasCancelled,
                      KeyTaken, WithKey
  <1>9. TalkInv'
    BY <1>2, <1>3 DEF TalkInv, Talk, Inserting, Cancelling, WorkingPc, ReservePc, CancelPc,
                      UndecidedPc
  <1> QED
    BY <1>4, <1>5, <1>6, <1>7, <1>8, <1>9 DEF DeskInv

-----------------------------------------------------------------------------
(* Batches: types and what the others do meanwhile *)

LEMMA AdminTypeInit == AdminInit => AdminTypeOK
  BY TypeInit DEF AdminInit, AdminTypeOK, TypeInv

\* One step of the loop leaves a batch, or none.
LEMMA AdminTypeStep ==
    ASSUME AdminTypeOK, TypeOK', BatchInv, [AdminNext]_<<vars, batch>>
    PROVE  AdminTypeOK'
  <1> USE DEF AdminTypeOK
  <1>1. ASSUME NEW w \in Workers, NEW next \in Batch \cup {NoBatch},
               batch' = [batch EXCEPT ![w] = next]
        PROVE  AdminTypeOK'
    BY <1>1
  <1>2. ASSUME NEW w \in Workers, SelectBatch(w) PROVE AdminTypeOK'
    <2>1. PICK a \in Cancellers, ids \in SUBSET {b.id : b \in rows} :
            batch' = [batch EXCEPT ![w] =
              [actor |-> a, selected |-> ids, todo |-> ids, cancelled |-> 0, refused |-> {}]]
      BY <1>2 DEF SelectBatch
    <2>2. ids \in SUBSET Nat
      BY DEF TypeOK, BookingRecord
    <2>3. [actor |-> a, selected |-> ids, todo |-> ids, cancelled |-> 0, refused |-> {}] \in Batch
      BY <2>2 DEF Batch
    <2> QED
      BY <1>1, <2>1, <2>3
  <1>3. ASSUME NEW w \in Workers, CancelNext(w) PROVE AdminTypeOK'
    <2>1. batch[w] \in Batch
      BY <1>3 DEF CancelNext, InBatch
    <2>2. PICK id \in batch[w].todo : batch' = [batch EXCEPT ![w].todo = @ \ {id}]
      BY <1>3 DEF CancelNext
    <2>3. [batch[w] EXCEPT !.todo = @ \ {id}] \in Batch
      BY <2>1 DEF Batch
    <2>4. batch' = [batch EXCEPT ![w] = [batch[w] EXCEPT !.todo = @ \ {id}]]
      BY <2>2
    <2> QED
      BY <1>1, <2>3, <2>4
  <1>4. ASSUME NEW w \in Workers, CountCancelled(w) PROVE AdminTypeOK'
    <2>1. batch[w] \in Batch /\ batch' = [batch EXCEPT ![w] = [batch[w] EXCEPT !.cancelled = @ + 1]]
      BY <1>4 DEF CountCancelled, Take, InBatch
    <2>2. [batch[w] EXCEPT !.cancelled = @ + 1] \in Batch
      BY <2>1 DEF Batch
    <2> QED
      BY <1>1, <2>1, <2>2
  <1>5. ASSUME NEW w \in Workers, NoteRefusal(w) PROVE AdminTypeOK'
    <2>1. /\ batch[w] \in Batch /\ pc[w] = "done" /\ InBatch(w)
          /\ batch' = [batch EXCEPT ![w] = [batch[w] EXCEPT !.refused = @ \cup {req[w].id}]]
      BY <1>5 DEF NoteRefusal, Take, InBatch
    <2>2. req[w].id \in Nat
      BY <2>1 DEF BatchInv, Batched, Calling, CancelRequest
    <2>3. [batch[w] EXCEPT !.refused = @ \cup {req[w].id}] \in Batch
      BY <2>1, <2>2 DEF Batch
    <2> QED
      BY <1>1, <2>1, <2>3
  <1>6. ASSUME NEW w \in Workers, StopBatch(w) \/ FinishBatch(w) PROVE AdminTypeOK'
    BY <1>1, <1>6 DEF StopBatch, FinishBatch, Take
  <1>7. ASSUME UNCHANGED batch PROVE AdminTypeOK'
    BY <1>7
  <1> QED
    BY <1>2, <1>3, <1>4, <1>5, <1>6, <1>7 DEF AdminNext, BatchStep, DeskStep

\* A cancellation that is about to be committed was decided just now, or before.
LEMMA WhoCancels ==
    ASSUME DeskInv, [Next]_vars, NEW v \in Workers, Cancelling(v)'
    PROVE  CancelBooking(v) \/ (Cancelling(v) /\ req'[v] = req[v])
  <1>1. TypeInv /\ TypeOK
    BY DEF DeskInv, TypeInv
  <1>2. ASSUME pc'[v] = pc[v], req'[v] = req[v], result'[v] = result[v], written'[v] = written[v]
        PROVE  Cancelling(v) /\ req'[v] = req[v]
    BY <1>2 DEF Cancelling
  <1>3. ASSUME WorkerStep(v), ~CancelBooking(v) PROVE FALSE
    <2>1. pc'[v] = "commit" /\ result'[v] = "cancelled" /\ written'[v] # {}
      BY DEF Cancelling
    <2> USE <1>1, <2>1 DEF Goto, Raise, TypeOK
    <2>2. CASE Receive(v) \/ Rollback(v) \/ Failure(v) \/ Respond(v) \/ Commit(v)
      BY <2>2 DEF Receive, ReceiveReserve, RefuseKey, ReceiveCancel, Rollback, AfterRollback,
                  Failure, CommitUnacknowledged, Abort, Respond, Commit
    <2>3. CASE ReserveStep(v)
      BY <2>3 DEF ReserveStep, LockFleet, CarTypeMissing, LockFleetTimeout, FindNoKey, FindKey,
            Accept, RefusePeriod, FindRoom, FindNoRoom, Insert, InsertDuplicate, InsertTimeout,
            Recover, ReplayResult
    <2>4. CASE CancelStep(v)
      BY <1>3, <2>4 DEF CancelStep, LockBooking, BookingMissing, LockBookingTimeout,
            RefuseCancel, CancelAgain, DeskInv, LockInv, Holds, Inserting, Cancelling
    <2> QED
      BY <1>3, <2>2, <2>3, <2>4 DEF WorkerStep, Progress
  <1>4. ASSUME NEW w \in Workers, WorkerStep(w)
        PROVE  CancelBooking(v) \/ (Cancelling(v) /\ req'[v] = req[v])
    BY <1>1, <1>2, <1>3, <1>4, OthersStay
  <1>5. ASSUME UNCHANGED workerVars PROVE Cancelling(v) /\ req'[v] = req[v]
    BY <1>2, <1>5 DEF workerVars
  <1> QED
    BY <1>4, <1>5 DEF Next, Terminated, Tick, AdminStep, SetFleet, DeleteFleet, vars

LEMMA ClockRuns ==
    ASSUME DeskInv, [Next]_vars
    PROVE  now \in Nat /\ now' \in Nat /\ now <= now'
  <1>1. now \in Nat
    BY DEF DeskInv, TypeInv, TypeOK
  <1>2. now' = now \/ now' = now + 1
    BY WorkersLeaveTheClock
       DEF Next, Terminated, Tick, AdminStep, SetFleet, DeleteFleet, vars
  <1> QED
    BY <1>1, <1>2

\* A reservation that has ended uncancelled stays so, and one that is
\* cancelled stays cancelled.
LEMMA FatesAreFinal ==
    ASSUME DeskInv, [Next]_vars, NEW c \in rows
    PROVE  /\ Ended(c.id) => Ended(c.id)'
           /\ CancelledRow(c.id) => CancelledRow(c.id)'
           /\ \E b \in rows' : b.id = c.id
  <1>1. \E b \in rows' : b.id = c.id /\ (IsCancelled(c) => IsCancelled(b))
    BY RowsKeepTheirFields
  <1>2. RowInv'
    BY RowStep DEF DeskInv
  <1>3. ASSUME CancelledRow(c.id) PROVE CancelledRow(c.id)'
    BY <1>1, <1>2, <1>3 DEF CancelledRow, RowInv, IsCancelled
  <1>4. ASSUME Ended(c.id), NEW b \in rows', b.id = c.id
        PROVE  b \in rows
    <2>1. ASSUME NEW w \in Workers, Commits(w) PROVE b \in rows
      <3>1. pc[w] = "commit" /\ rows' = Installed(w)
        BY <2>1, CommitFrame DEF DeskInv
      <3>2. CASE Inserting(w) /\ rows' = rows \cup {booking[w]}
        BY <1>4, <3>2 DEF DeskInv, RowInv, Reads
      <3>3. ASSUME Cancelling(w), NEW d \in rows, NEW t \in 0 .. now, d.id = req[w].id,
                   rows' = (rows \ {d}) \cup {Cancelled(d, t)}
            PROVE  b \in rows
        <4>1. d \in BookingRecord /\ t \in Nat
          BY DEF DeskInv, TypeInv, TypeOK
        <4>2. Cancelled(d, t).id = d.id
          BY ONLY <4>1, CancelledFields
        <4>3. d.id # c.id
          BY <1>4, <3>3 DEF Ended
        <4> QED
          BY <1>4, <3>3, <4>2, <4>3
      <3> QED
        BY <3>1, <3>2, <3>3, InstalledRows DEF DeskInv
    <2> QED
      BY <2>1, OnlyCommitsWrite
  <1>5. ASSUME Ended(c.id), NEW b \in rows', b.id = c.id
        PROVE  ~IsCancelled(b) /\ b.period.end <= now'
    <2>1. b \in rows /\ ~IsCancelled(b) /\ b.period.end <= now
      BY <1>4, <1>5 DEF Ended
    <2>2. b.period.end \in Int
      BY <2>1, PeriodsAreIntervals DEF DeskInv, TypeInv, TypeOK, BookingRecord, Period
    <2> QED
      BY <2>1, <2>2, ClockRuns
  <1>6. ASSUME Ended(c.id), NEW v \in Workers, Cancelling(v)'
        PROVE  req'[v].id # c.id
    <2>1. CASE Cancelling(v) /\ req'[v] = req[v]
      BY <1>6, <2>1 DEF Ended
    <2>2. CASE CancelBooking(v)
      <3>1. /\ booking[v] \in rows /\ booking[v].id = req[v].id /\ req'[v] = req[v]
            /\ now < booking[v].period.end
        BY <2>2 DEF CancelBooking, Goto, DeskInv, RowInv, Reads, LockInv, Holds
      <3>2. booking[v].period.end \in Int
        BY <3>1, PeriodsAreIntervals DEF DeskInv, TypeInv, TypeOK, BookingRecord, Period
      <3> QED
        BY <1>6, <3>1, <3>2, ClockRuns DEF Ended
    <2> QED
      BY <1>6, <2>1, <2>2, WhoCancels
  <1> QED
    BY <1>1, <1>3, <1>5, <1>6 DEF Ended, IsCancelled

-----------------------------------------------------------------------------
(* Batches: the loop *)

\* What the loop has settled stays settled while others act, and during a call.
LEMMA SettledStays ==
    ASSUME DeskInv, [Next]_vars, NEW w \in Workers, InBatch(w), Batched(w)
    PROVE  /\ \A id \in batch[w].selected : \E b \in rows' : b.id = id
           /\ \A id \in Counted(w) : CancelledRow(id)'
           /\ \A id \in batch[w].refused : Ended(id)'
           /\ \A id \in batch[w].selected : Ended(id) => Ended(id)'
  <1>1. \A id \in batch[w].selected : \E b \in rows : b.id = id
    BY DEF Batched
  <1>2. Counted(w) \subseteq batch[w].selected /\ batch[w].refused \subseteq batch[w].selected
    BY DEF Counted, DealtWith, Batched
  <1> QED
    BY <1>1, <1>2, FatesAreFinal DEF Batched

\* A step that leaves w's batch, and what it has dealt with, alone.
LEMMA BatchedFrame ==
    ASSUME DeskInv, [Next]_vars, NEW w \in Workers, InBatch(w), Batched(w),
           batch'[w] = batch[w], DealtWith(w)' = DealtWith(w),
           pc'[w] # "idle" => Calling(w)'
    PROVE  Batched(w)'
  <1>1. Counted(w)' = Counted(w)
    BY DEF Counted
  <1> QED
    BY <1>1, SettledStays DEF Batched

\* A worker that does not move keeps its part of the invariant.
LEMMA OtherBatches ==
    ASSUME DeskInv, [Next]_vars, NEW w \in Workers, InBatch(w), Batched(w),
           batch'[w] = batch[w], pc'[w] = pc[w], req'[w] = req[w], result'[w] = result[w]
    PROVE  Batched(w)'
  <1>1. DealtWith(w)' = DealtWith(w)
    BY DEF DealtWith
  <1>2. ASSUME pc[w] # "idle" PROVE Calling(w)'
    <2>1. Calling(w)
      BY <1>2 DEF Batched
    <2>2. result[w] = "ReservationNotCancellable" => Ended(req[w].id)'
      BY <2>1, SettledStays DEF Calling
    <2> QED
      BY <2>1, <2>2 DEF Calling
  <1> QED
    BY <1>1, <1>2, BatchedFrame

\* The desk's part of a call: it ends with a cancellation, with the refusal of
\* a rental that has ended, or with an error.  Staff may manage every booking
\* and a row never goes, so it is never refused as somebody else's or missing.
LEMMA CallStep ==
    ASSUME DeskInv, TalkInv, AdminTypeOK, [Next]_vars, NEW w \in Workers,
           InBatch(w), Batched(w), batch'[w] = batch[w],
           CancelStep(w) \/ Commit(w) \/ Rollback(w) \/ Failure(w)
    PROVE  Batched(w)'
  <1>1. TypeInv /\ TypeOK /\ Talk(w)
    BY DEF DeskInv, TypeInv, TalkInv
  <1>2. WorkerStep(w)
    BY DEF WorkerStep, Progress
  <1>3. pc[w] # "idle" /\ pc'[w] # "idle" /\ req' = req
    BY <1>1 DEF CancelStep, LockBooking, BookingMissing, LockBookingTimeout, RefuseCancel,
         CancelAgain, CancelBooking, Commit, Rollback, Failure, CommitUnacknowledged, Abort,
         WorkingPc, ReservePc, CancelPc, Goto, Raise, EndTransaction, AfterRollback, TypeOK
  <1>4. Calling(w)
    BY <1>3 DEF Batched
  <1>5. batch[w].actor \in Staff
    BY AdminAssumption DEF AdminTypeOK, InBatch, Batch
  <1>6. \E b \in rows : b.id = req[w].id
    BY <1>4 DEF Calling, Batched
  <1>7. ASSUME pc'[w] \in CancelPc \cup {"commit", "rollback", "done"},
               pc'[w] = "commit" => result'[w] = "cancelled",
               pc'[w] \in {"rollback", "done"} =>
                   result'[w] \in {"cancelled", "ReservationNotCancellable", "ServerError"},
               result'[w] = "ReservationNotCancellable" =>
                   result[w] = "ReservationNotCancellable" \/ Ended(req[w].id)
        PROVE  Calling(w)'
    <2>1. result'[w] = "ReservationNotCancellable" => Ended(req[w].id)'
      BY <1>3, <1>4, <1>7, SettledStays DEF Calling
    <2> QED
      BY <1>3, <1>4, <1>7, <2>1 DEF Calling
  <1>8. Calling(w)'
    <2> USE <1>1, <1>4 DEF Goto, Raise, TypeOK, CancelPc
    <2>1. CASE LockBooking(w)
      BY <1>7, <2>1 DEF LockBooking, Talk, UndecidedPc
    <2>2. CASE BookingMissing(w)
      BY <1>6, <2>2 DEF BookingMissing
    <2>3. CASE LockBookingTimeout(w)
      BY <1>7, <2>3 DEF LockBookingTimeout
    <2>4. CASE RefuseCancel(w)
      <3>1. MayBeManagedBy(booking[w], req[w].actor)
        BY <1>5 DEF Calling, MayBeManagedBy
      <3>2. /\ pc[w] = "decide" /\ pc'[w] = "rollback"
            /\ result'[w] = "ReservationNotCancellable"
            /\ ~IsCancelled(booking[w]) /\ booking[w].period.end <= now
        BY <2>4, <3>1 DEF RefuseCancel
      <3>3. /\ booking[w] \in rows /\ booking[w].id = req[w].id
            /\ \A b \in rows : b.id = req[w].id => b = booking[w]
        BY <3>2 DEF DeskInv, RowInv, Reads, LockInv, Holds
      <3>4. \A v \in Workers : Cancelling(v) => req[v].id # req[w].id
        BY <3>2 DEF DeskInv, LockInv, Mutex, Holds, Cancelling
      <3>5. Ended(req[w].id)
        BY <3>2, <3>3, <3>4 DEF Ended
      <3> QED
        BY <1>7, <3>2, <3>5
    <2>5. CASE CancelAgain(w)
      BY <1>7, <2>5 DEF CancelAgain
    <2>6. CASE CancelBooking(w)
      BY <1>7, <2>6 DEF CancelBooking
    <2>7. CASE Commit(w)
      BY <1>7, <2>7 DEF Commit, Calling
    <2>8. CASE Rollback(w)
      BY <1>7, <2>8 DEF Rollback, AfterRollback, Calling
    <2>9. CASE Failure(w)
      BY <1>7, <2>9 DEF Failure, CommitUnacknowledged, Abort
    <2> QED
      BY <2>1, <2>2, <2>3, <2>4, <2>5, <2>6, <2>7, <2>8, <2>9 DEF CancelStep
  <1>9. DealtWith(w)' = DealtWith(w)
    BY <1>3 DEF DealtWith
  <1> QED
    BY <1>8, <1>9, BatchedFrame

\* The loop takes up the desk's answer to a call.
LEMMA TakeStep ==
    ASSUME DeskInv, AnswerInv, AdminTypeOK, [Next]_vars, NEW w \in Workers,
           InBatch(w), Batched(w), CountCancelled(w) \/ NoteRefusal(w)
    PROVE  Batched(w)'
  <1> DEFINE id == req[w].id
             C == Counted(w)
  <1>1. /\ batch[w] \in Batch /\ pc[w] = "done" /\ pc'[w] = "idle" /\ Calling(w)
        /\ rows' = rows /\ now' = now
    BY DEF InBatch, AdminTypeOK, CountCancelled, NoteRefusal, Take, Goto, Batched,
           NoTableChange, tables, DeskInv, TypeInv, TypeOK
  <1>2. id \in batch[w].selected \ (batch[w].todo \cup batch[w].refused)
    BY <1>1 DEF Calling
  <1>3. id \notin DealtWith(w)
    BY <1>1 DEF DealtWith
  <1>4. /\ batch'[w].selected = batch[w].selected /\ batch'[w].todo = batch[w].todo
        /\ \/ /\ result[w] = "cancelled"
              /\ batch'[w].cancelled = batch[w].cancelled + 1
              /\ batch'[w].refused = batch[w].refused
           \/ /\ result[w] = "ReservationNotCancellable"
              /\ batch'[w].cancelled = batch[w].cancelled
              /\ batch'[w].refused = batch[w].refused \cup {id}
    <2>1. CASE CountCancelled(w)
      BY <1>1, <2>1 DEF CountCancelled, Take, Batch, AdminTypeOK
    <2>2. CASE NoteRefusal(w)
      <3>1. result[w] = "ReservationNotCancellable"
        BY <1>1, <2>2 DEF NoteRefusal, Calling, DomainErrors
      <3> QED
        BY <1>1, <2>2, <3>1 DEF NoteRefusal, Take, Batch, AdminTypeOK
    <2> QED
      BY <2>1, <2>2
  <1>5. DealtWith(w)' = DealtWith(w) \cup {id}
    BY <1>1, <1>2, <1>4 DEF DealtWith
  <1>6. IsFiniteSet(C) /\ id \notin C
    BY <1>3, FS_Subset DEF Batched, Counted, DealtWith
  <1>7. CASE result[w] = "cancelled"
    <2>1. Counted(w)' = C \cup {id}
      BY <1>2, <1>4, <1>5, <1>7 DEF Counted
    <2>2. Cardinality(C \cup {id}) = Cardinality(C) + 1
      <3> HIDE DEF C, id
      <3> QED
        BY <1>6, FS_AddElement
    <2>3. CancelledRow(id)
      BY <1>1, <1>7 DEF AnswerInv, Answering, Durable, HasCancelled, DeskInv, RowInv,
                        CancelledRow
    <2>4. \A i \in C \cup {id} : CancelledRow(i)'
      BY <1>1, <2>3 DEF Batched, CancelledRow, IsCancelled
    <2>5. batch'[w].refused \subseteq DealtWith(w)'
      BY <1>4, <1>5, <1>7 DEF Batched
    <2> QED
      BY <1>1, <1>4, <1>7, <2>1, <2>2, <2>4, <2>5, SettledStays DEF Batched
  <1>8. CASE result[w] = "ReservationNotCancellable"
    <2>1. Counted(w)' = C
      BY <1>2, <1>3, <1>4, <1>5, <1>8 DEF Counted
    <2>2. \A i \in batch'[w].refused : Ended(i)'
      <3>1. \A i \in batch[w].selected : Ended(i) => Ended(i)'
        BY SettledStays
      <3>2. Ended(id)
        BY <1>1, <1>8 DEF Calling
      <3>3. \A i \in batch'[w].refused : i \in batch[w].selected /\ Ended(i)
        BY <1>2, <1>4, <1>8, <3>2 DEF Batched, DealtWith
      <3> QED
        BY <3>1, <3>3
    <2>3. batch'[w].refused \subseteq DealtWith(w)'
      BY <1>4, <1>5, <1>8 DEF Batched
    <2> QED
      BY <1>1, <1>4, <1>8, <2>1, <2>2, <2>3, SettledStays DEF Batched
  <1> QED
    BY <1>4, <1>7, <1>8

\* A step that leaves the tables and w's work alone leaves w its part.
LEMMA QuietFrame ==
    ASSUME NEW w \in Workers, Batched(w), rows' = rows, now' = now,
           \A v \in Workers : Cancelling(v)' => Cancelling(v) /\ req'[v] = req[v],
           batch'[w] = batch[w], pc'[w] = pc[w], req'[w] = req[w], result'[w] = result[w]
    PROVE  Batched(w)'
  <1>1. \A id : (Ended(id) => Ended(id)') /\ (CancelledRow(id) => CancelledRow(id)')
    BY DEF Ended, CancelledRow
  <1>2. DealtWith(w)' = DealtWith(w) /\ Counted(w)' = Counted(w)
    BY DEF DealtWith, Counted
  <1>3. Calling(w) => Calling(w)'
    BY <1>1 DEF Calling, Ended
  <1> QED
    BY <1>1, <1>2, <1>3 DEF Batched

LEMMA BatchSelect ==
    ASSUME DeskInv, AdminTypeOK, BatchInv, NEW w \in Workers, SelectBatch(w)
    PROVE  BatchInv'
  <1>1. UNCHANGED <<pc, req, result, written, rows, now>>
    BY DEF SelectBatch, tables, workerVars
  <1>2. PICK a \in Cancellers, ids \in SUBSET {b.id : b \in rows} :
          batch' = [batch EXCEPT ![w] =
            [actor |-> a, selected |-> ids, todo |-> ids, cancelled |-> 0, refused |-> {}]]
    BY DEF SelectBatch
  <1>3. IsFiniteSet(ids)
    <2>1. IsFiniteSet({b.id : b \in rows})
      <3> DEFINE f == [b \in rows |-> b.id]
      <3>1. f \in Surjection(rows, {b.id : b \in rows})
        BY DEF Surjection
      <3> QED
        BY <3>1, FS_Surjection DEF DeskInv, RoomInv
    <2> QED
      BY <2>1, FS_Subset
  <1>4. Batched(w)'
    <2>1. batch'[w] =
            [actor |-> a, selected |-> ids, todo |-> ids, cancelled |-> 0, refused |-> {}]
      BY <1>2 DEF AdminTypeOK
    <2>2. pc'[w] = "idle"
      BY <1>1 DEF SelectBatch
    <2>3. DealtWith(w)' = {} /\ Counted(w)' = {}
      BY <2>1, <2>2 DEF DealtWith, Counted
    <2>4. Cardinality({}) = 0
      BY FS_EmptySet
    <2> QED
      BY <1>1, <1>3, <2>1, <2>2, <2>3, <2>4 DEF Batched
  <1>5. ASSUME NEW v \in Workers, v # w, InBatch(v)' PROVE Batched(v)'
    <2>1. batch'[v] = batch[v] /\ InBatch(v)
      BY <1>2, <1>5 DEF AdminTypeOK, InBatch
    <2>2. \A u \in Workers : Cancelling(u)' => Cancelling(u) /\ req'[u] = req[u]
      BY <1>1 DEF Cancelling
    <2> QED
      BY <1>1, <2>1, <2>2, QuietFrame DEF BatchInv
  <1> QED
    BY <1>4, <1>5 DEF BatchInv

LEMMA BatchCall ==
    ASSUME DeskInv, TalkInv, AdminTypeOK, BatchInv, NEW w \in Workers, CancelNext(w)
    PROVE  BatchInv'
  <1>1. TypeOK /\ batch[w] \in Batch /\ InBatch(w) /\ Batched(w) /\ result[w] = "none"
    BY CallBegins DEF DeskInv, TypeInv, BatchInv, CancelNext, TalkInv, Talk, Goto
  <1>2. PICK id \in batch[w].todo :
          /\ req' = [req EXCEPT ![w] = [actor |-> batch[w].actor, id |-> id]]
          /\ batch' = [batch EXCEPT ![w].todo = @ \ {id}]
          /\ [actor |-> batch[w].actor, id |-> id] \in CancelRequest
    BY <1>1, CallBegins
  <1>3. /\ pc[w] = "idle" /\ pc' = [pc EXCEPT ![w] = "lock_booking"]
        /\ UNCHANGED <<now, rows, result, written>>
    BY <1>1, CallBegins DEF tables
  <1>4. \A u \in Workers : Cancelling(u)' => Cancelling(u) /\ req'[u] = req[u]
    BY <1>1, <1>2, <1>3 DEF Cancelling, TypeOK
  <1>5. Batched(w)'
    <2>1. /\ pc'[w] = "lock_booking" /\ req'[w] = [actor |-> batch[w].actor, id |-> id]
          /\ batch'[w] = [batch[w] EXCEPT !.todo = @ \ {id}]
      BY <1>1, <1>2, <1>3 DEF TypeOK, AdminTypeOK
    <2>2. /\ batch'[w].selected = batch[w].selected /\ batch'[w].todo = batch[w].todo \ {id}
          /\ batch'[w].refused = batch[w].refused /\ batch'[w].actor = batch[w].actor
          /\ batch'[w].cancelled = batch[w].cancelled
      BY <1>1, <2>1 DEF Batch
    <2>3. DealtWith(w)' = DealtWith(w) /\ DealtWith(w) = batch[w].selected \ batch[w].todo
      BY <1>3, <2>1, <2>2 DEF DealtWith
    <2>4. Counted(w)' = Counted(w)
      BY <2>2, <2>3 DEF Counted
    <2>5. id \in batch[w].selected \ batch[w].refused
      BY <1>1, <1>2, <2>3 DEF Batched
    <2>6. Calling(w)'
      BY <1>1, <1>2, <1>3, <2>1, <2>2, <2>5 DEF Calling, CancelPc
    <2>7. \A i : (Ended(i) => Ended(i)') /\ (CancelledRow(i) => CancelledRow(i)')
      BY <1>3, <1>4 DEF Ended, CancelledRow
    <2> QED
      BY <1>1, <1>3, <2>2, <2>3, <2>4, <2>6, <2>7 DEF Batched
  <1>6. ASSUME NEW v \in Workers, v # w, InBatch(v)' PROVE Batched(v)'
    <2>1. /\ batch'[v] = batch[v] /\ InBatch(v)
          /\ pc'[v] = pc[v] /\ req'[v] = req[v] /\ result'[v] = result[v]
      BY <1>1, <1>2, <1>3, <1>6 DEF AdminTypeOK, InBatch, TypeOK
    <2> QED
      BY <1>3, <1>4, <2>1, QuietFrame DEF BatchInv
  <1> QED
    BY <1>5, <1>6 DEF BatchInv

\* Everything known of a state of the admin site.
AdminInv == DeskInv /\ AnswerInv /\ TalkInv /\ AdminTypeOK /\ BatchInv

LEMMA AdminInvInit == AdminInit => AdminInv
  <1> SUFFICES ASSUME AdminInit PROVE AdminInv
    OBVIOUS
  <1>1. DeskInv /\ AnswerInv /\ TalkInv
    BY TypeInit, LockInit, RowInit, RoomInit, AnswerInit, TalkInit DEF AdminInit, DeskInv
  <1>2. BatchInv
    BY DEF AdminInit, BatchInv, InBatch
  <1> QED
    BY <1>1, <1>2, AdminTypeInit DEF AdminInv

\* Whatever the step, the desk's own invariants survive it.
LEMMA DeskStaysSound ==
    ASSUME AdminInv, [AdminNext]_<<vars, batch>>
    PROVE  DeskInv' /\ AnswerInv' /\ TalkInv'
  <1>1. ASSUME [Next]_vars PROVE DeskInv' /\ AnswerInv' /\ TalkInv'
    BY <1>1, TypeStep, LockStep, RowStep, RoomStep, AnswerStep, TalkStep DEF AdminInv, DeskInv
  <1> QED
    BY <1>1, AdminSteps, SelectKeepsDesk, CallKeepsDesk DEF AdminInv

\* A step of the desk, with what it means for the batch of the worker it is for.
LEMMA BatchDesk ==
    ASSUME AdminInv, NEW w \in Workers, WorkerStep(w),
           NEW next, batch' = [batch EXCEPT ![w] = next], InBatch(w)' => Batched(w)'
    PROVE  BatchInv'
  <1>1. ASSUME NEW v \in Workers, v # w, InBatch(v)' PROVE Batched(v)'
    <2>1. batch'[v] = batch[v] /\ InBatch(v)
      BY <1>1 DEF AdminInv, AdminTypeOK, InBatch
    <2>2. pc'[v] = pc[v] /\ req'[v] = req[v] /\ result'[v] = result[v]
      BY <1>1, OthersStay DEF AdminInv, DeskInv
    <2>3. [Next]_vars
      BY DEF Next
    <2> QED
      BY <2>1, <2>2, <2>3, OtherBatches DEF AdminInv, BatchInv
  <1> QED
    BY <1>1 DEF BatchInv

LEMMA BatchInvStep ==
    ASSUME AdminInv, [AdminNext]_<<vars, batch>>
    PROVE  BatchInv'
  <1>1. ASSUME NEW w \in Workers, DeskStep(w) PROVE BatchInv'
    <2>1. WorkerStep(w) /\ [Next]_vars /\ batch' = batch
      BY <1>1 DEF DeskStep, WorkerStep, Progress, Next
    <2>2. batch' = [batch EXCEPT ![w] = batch[w]] /\ (InBatch(w)' <=> InBatch(w))
      BY <2>1 DEF AdminInv, AdminTypeOK, InBatch
    <2>3. ASSUME InBatch(w) PROVE Batched(w)'
      <3>1. Batched(w) /\ ~ReserveStep(w)
        BY <2>3 DEF AdminInv, BatchInv, Batched, Calling, CancelPc, ReserveStep, LockFleet,
             CarTypeMissing, LockFleetTimeout, FindNoKey, FindKey, Accept, RefusePeriod,
             FindRoom, FindNoRoom, Insert, InsertDuplicate, InsertTimeout, Recover, Goto, Raise
      <3>2. CancelStep(w) \/ Commit(w) \/ Rollback(w) \/ Failure(w)
        BY <1>1, <2>3, <3>1 DEF DeskStep
      <3> QED
        BY <2>1, <2>3, <3>1, <3>2, CallStep DEF AdminInv
    <2> QED
      BY <2>1, <2>2, <2>3, BatchDesk
  <1>2. ASSUME NEW w \in Workers, CountCancelled(w) \/ NoteRefusal(w) PROVE BatchInv'
    <2>1. InBatch(w) /\ WorkerStep(w) /\ [Next]_vars
      BY <1>2 DEF CountCancelled, NoteRefusal, Take, Respond, WorkerStep, Progress, Next
    <2>2. \E next : batch' = [batch EXCEPT ![w] = next]
      BY <1>2 DEF CountCancelled, NoteRefusal, Take
    <2>3. Batched(w)'
      BY <1>2, <2>1, TakeStep DEF AdminInv, BatchInv
    <2> QED
      BY <2>1, <2>2, <2>3, BatchDesk
  <1>3. ASSUME NEW w \in Workers, StopBatch(w) PROVE BatchInv'
    <2>1. WorkerStep(w) /\ batch' = [batch EXCEPT ![w] = NoBatch]
      BY <1>3 DEF StopBatch, Take, Respond, WorkerStep, Progress
    <2>2. ~InBatch(w)'
      BY <2>1 DEF InBatch, AdminInv, AdminTypeOK
    <2> QED
      BY <2>1, <2>2, BatchDesk
  <1>4. ASSUME UNCHANGED vars, \A v \in Workers : InBatch(v)' => batch'[v] = batch[v]
        PROVE  BatchInv'
    <2>1. ASSUME NEW v \in Workers, InBatch(v)' PROVE Batched(v)'
      <3>1. InBatch(v) /\ Batched(v) /\ batch'[v] = batch[v]
        BY <1>4, <2>1 DEF AdminInv, BatchInv, InBatch
      <3> QED
        BY <1>4, <3>1, OtherBatches DEF AdminInv, vars, workerVars
    <2> QED
      BY <2>1 DEF BatchInv
  <1>5. ASSUME NEW w \in Workers, FinishBatch(w) PROVE BatchInv'
    BY <1>4, <1>5 DEF FinishBatch, AdminInv, AdminTypeOK, InBatch
  <1>6. ASSUME Tick \/ (\E ct \in CarTypes : AdminStep(ct)) \/ Terminated, UNCHANGED batch
        PROVE  BatchInv'
    <2>1. [Next]_vars /\ UNCHANGED workerVars
      BY <1>6 DEF Next, Tick, Terminated, AdminStep, SetFleet, DeleteFleet, vars
    <2> QED
      BY <1>6, <2>1, OtherBatches DEF AdminInv, BatchInv, InBatch, workerVars
  <1>7. CASE UNCHANGED <<vars, batch>>
    BY <1>4, <1>7
  <1> QED
    BY <1>1, <1>2, <1>3, <1>5, <1>6, <1>7, BatchSelect, BatchCall
       DEF AdminInv, AdminNext, BatchStep

LEMMA AdminInvariant == AdminSpec => []AdminInv
  <1>1. ASSUME AdminInv, [AdminNext]_<<vars, batch>> PROVE AdminInv'
    BY <1>1, DeskStaysSound, BatchInvStep, AdminTypeStep DEF AdminInv, DeskInv, TypeInv
  <1>2. AdminInv /\ [AdminNext]_<<vars, batch>> => AdminInv'
    BY <1>1
  <1> QED
    BY <1>2, AdminInvInit, PTL DEF AdminSpec

-----------------------------------------------------------------------------
(* The theorems *)

\* The report of cancel_selected is true: each reservation the loop has dealt
\* with is counted or named with an error, once; the counted ones are
\* cancelled, and those it names had ended uncancelled, whatever customers,
\* other staff, the clock and failing connections did between two calls.
THEOREM BatchReports == AdminSpec => []BatchReportIsTrue
  <1>1. ASSUME AdminInv, NEW w \in Workers, InBatch(w)
        PROVE  /\ batch[w].refused \subseteq DealtWith(w)
               /\ batch[w].cancelled = Cardinality(DealtWith(w) \ batch[w].refused)
               /\ \A b \in rows :
                   /\ b.id \in DealtWith(w) \ batch[w].refused => IsCancelled(b)
                   /\ b.id \in batch[w].refused => ~IsCancelled(b) /\ b.period.end <= now
    BY <1>1 DEF AdminInv, BatchInv, Batched, Counted, CancelledRow, Ended
  <1>2. AdminInv => BatchReportIsTrue
    BY <1>1 DEF BatchReportIsTrue
  <1> QED
    BY <1>2, AdminInvariant, PTL

\* The admin site adds no way to lose or rewrite a reservation.
THEOREM AdminKeepsRecords == AdminSpec => HistoryIsKept
  <1>1. ASSUME AdminInv, [AdminNext]_<<vars, batch>>, NEW b \in rows
        PROVE  \E c \in rows' :
                  \/ c = b
                  \/ /\ ~IsCancelled(b)
                     /\ \E t \in 0 .. now : t < b.period.end /\ c = Cancelled(b, t)
    <2>1. CASE [Next]_vars
      BY <1>1, <2>1, RowsAreKept DEF AdminInv
    <2>2. CASE \E w \in Workers : SelectBatch(w) \/ CancelNext(w)
      BY <2>2 DEF SelectBatch, CancelNext, NoTableChange, tables
    <2> QED
      BY <1>1, <2>1, <2>2, AdminSteps
  <1>2. AdminInv /\ [AdminNext]_<<vars, batch>> =>
            [\A b \in rows : \E c \in rows' :
                \/ c = b
                \/ /\ ~IsCancelled(b)
                   /\ \E t \in 0 .. now : t < b.period.end /\ c = Cancelled(b, t)]_vars
    BY <1>1
  <1> QED
    BY <1>2, AdminInvariant, PTL DEF AdminSpec, HistoryIsKept

\* Each call of a batch is a request like a customer's: the desk with its admin
\* site still implements Reservations.
THEOREM AdminKeepsThePromises == AdminSpec => KeepsThePromises
  <1>1. AdminInit => Promise!Init
    BY PromiseInit DEF AdminInit
  <1>2. ASSUME AdminInv, NEW w \in Workers, SelectBatch(w) PROVE UNCHANGED PromiseVars
    BY <1>2 DEF SelectBatch, tables, workerVars, PromiseVars, AnswerOf, Told, Decided
  <1>3. ASSUME AdminInv, NEW w \in Workers, CancelNext(w) PROVE Promise!Ask(w)
    <2>1. TypeOK /\ Talk(w) /\ Answering(w)
      BY <1>3 DEF AdminInv, DeskInv, TypeInv, TalkInv, AnswerInv
    <2>2. /\ pc[w] = "idle" /\ pc' = [pc EXCEPT ![w] = "lock_booking"]
          /\ req' = [req EXCEPT ![w] = req'[w]] /\ req'[w] \in CancelRequest
          /\ UNCHANGED <<now, fleet, rows, result, booking, written>>
      BY <1>3, <2>1, CallBegins DEF tables, TypeOK, AdminInv
    <2>3. req[w] = NoRequest /\ AnswerOf[w] = "none"
      BY <2>1, <2>2 DEF Talk, AnswerOf
    <2>4. \A v \in Workers : pc'[v] = "commit" <=> pc[v] = "commit"
      BY <2>1, <2>2 DEF TypeOK
    <2>5. UNCHANGED <<AnswerOf, Told>>
      BY <2>2, <2>4 DEF AnswerOf, Told, Decided
    <2> QED
      BY <2>2, <2>3, <2>5, PromiseRequests DEF Promise!Ask
  <1>4. AdminInv /\ [AdminNext]_<<vars, batch>> => [Promise!Next]_(Promise!vars)
    <2>1. ASSUME AdminInv, [AdminNext]_<<vars, batch>>
          PROVE  Promise!Next \/ UNCHANGED PromiseVars
      BY <1>2, <1>3, <2>1, AdminSteps, PromiseStep DEF AdminInv, Promise!Next
    <2> QED
      BY <2>1 DEF PromiseVars, Promise!vars
  <1> QED
    BY <1>1, <1>4, AdminInvariant, PTL DEF AdminSpec, KeepsThePromises, Promise!Spec
=============================================================================
