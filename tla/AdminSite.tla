------------------------------ MODULE AdminSite -----------------------------
(***************************************************************************)
(* The admin site's reservations (rentals/admin.py): read-only, but for    *)
(* cancel_selected, which cancels the reservations staff have ticked one   *)
(* by one.  Every one of them is a call of the desk with a transaction of  *)
(* its own, and customers, other staff and the clock go on between two of  *)
(* them; an error that is not the domain's stops the action half-way.      *)
(***************************************************************************)
EXTENDS PostgresDesk

CONSTANT Cancellers   \* staff who have the permission to change reservations

ASSUME AdminAssumption == Cancellers \subseteq Staff

VARIABLE batch   \* the cancel_selected each worker is carrying out

NoBatch == [nothing |-> "selected"]

Batch ==
    [actor : Cancellers, selected : SUBSET Nat, todo : SUBSET Nat,
     cancelled : Nat,         \* the count it will report
     refused : SUBSET Nat]    \* the ids it has an error message for

AdminTypeOK == TypeOK /\ batch \in [Workers -> Batch \cup {NoBatch}]

AdminInit == Init /\ batch = [w \in Workers |-> NoBatch]

-----------------------------------------------------------------------------
InBatch(w) == batch[w] # NoBatch

\* The desk has answered the call for one of the selected reservations, and
\* the loop goes on or ends with these contents.
Take(w, next) ==
    /\ InBatch(w)
    /\ Goto(w, "done", "idle")
    /\ batch' = [batch EXCEPT ![w] = next]
    /\ req' = [req EXCEPT ![w] = NoRequest]
    /\ result' = [result EXCEPT ![w] = "none"]
    /\ booking' = [booking EXCEPT ![w] = NoBooking]
    /\ NoTableChange
    /\ NoLockChange
    /\ UNCHANGED <<size, written>>

\* The action runs for those who have the permission, and reads the ids first.
SelectBatch(w) ==
    /\ pc[w] = "idle" /\ ~InBatch(w)
    /\ requests < MaxRequests
    /\ requests' = requests + 1
    /\ \E a \in Cancellers, ids \in SUBSET {b.id : b \in rows} :
        /\ ids # {}
        /\ batch' = [batch EXCEPT ![w] =
               [actor |-> a, selected |-> ids, todo |-> ids, cancelled |-> 0, refused |-> {}]]
    /\ UNCHANGED <<now, tables, workerVars>>

\* desk.cancel() for the next id.
CancelNext(w) ==
    /\ InBatch(w)
    /\ Goto(w, "idle", "lock_booking")
    /\ \E id \in batch[w].todo :
        /\ req' = [req EXCEPT ![w] = [actor |-> batch[w].actor, id |-> id]]
        /\ batch' = [batch EXCEPT ![w].todo = @ \ {id}]
    /\ NoTableChange
    /\ NoLockChange
    /\ UNCHANGED <<result, booking, size, written>>

CountCancelled(w) ==
    /\ pc[w] = "done" /\ result[w] = "cancelled"
    /\ Take(w, [batch[w] EXCEPT !.cancelled = @ + 1])

\* A bug: the count is kept in a finally.
CountAnyway(w) ==
    /\ pc[w] = "done" /\ result[w] \in DomainErrors
    /\ InBatch(w)
    /\ Take(w, [batch[w] EXCEPT !.refused = @ \cup {req[w].id}, !.cancelled = @ + 1])

\* except DomainError: the message names the reservation, and the loop goes on.
NoteRefusal(w) ==
    /\ pc[w] = "done" /\ result[w] \in DomainErrors
    /\ InBatch(w)
    /\ Take(w, [batch[w] EXCEPT !.refused = @ \cup {req[w].id}])

\* Anything else leaves the action with an error page: what was cancelled stays
\* cancelled, and the rest is never tried.
StopBatch(w) ==
    /\ pc[w] = "done" /\ result[w] = "ServerError"
    /\ Take(w, NoBatch)

\* The page with the messages.
FinishBatch(w) ==
    /\ InBatch(w)
    /\ pc[w] = "idle" /\ batch[w].todo = {}
    /\ batch' = [batch EXCEPT ![w] = NoBatch]
    /\ UNCHANGED vars

BatchStep(w) ==
    \/ SelectBatch(w) \/ CancelNext(w)
    \/ CountCancelled(w) \/ NoteRefusal(w) \/ StopBatch(w) \/ FinishBatch(w)

\* What workers do for customers, and the calls of the desk themselves.
DeskStep(w) ==
    /\ \/ ~InBatch(w) /\ (Receive(w) \/ Respond(w))
       \/ ReserveStep(w) \/ CancelStep(w) \/ Commit(w) \/ Rollback(w) \/ Failure(w)
    /\ UNCHANGED batch

AdminNext ==
    \/ \E w \in Workers : BatchStep(w) \/ DeskStep(w)
    \/ /\ \/ \E ct \in CarTypes : AdminStep(ct)
          \/ Tick
          \/ Terminated
       /\ UNCHANGED batch

AdminSpec == AdminInit /\ [][AdminNext]_<<vars, batch>>

-----------------------------------------------------------------------------
\* The selected reservations that the loop of w's batch has dealt with.
DealtWith(w) ==
    batch[w].selected \ (batch[w].todo \cup IF pc[w] = "idle" THEN {} ELSE {req[w].id})

\* What cancel_selected reports is true when it is reported, whoever cancels,
\* books or waits in between: each selected reservation it has dealt with is
\* named with an error or counted, once; the counted ones are cancelled; and
\* those it names had ended and were never cancelled.
BatchReportIsTrue ==
    \A w \in Workers : InBatch(w) =>
        LET counted == DealtWith(w) \ batch[w].refused IN
        /\ batch[w].refused \subseteq DealtWith(w)
        /\ batch[w].cancelled = Cardinality(counted)
        /\ \A b \in rows :
            /\ b.id \in counted => IsCancelled(b)
            /\ b.id \in batch[w].refused => ~IsCancelled(b) /\ b.period.end <= now
=============================================================================
