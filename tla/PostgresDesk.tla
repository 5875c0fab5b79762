---------------------------- MODULE PostgresDesk ----------------------------
(***************************************************************************)
(* The reservation desk (rentals/domain/desk.py) on the ledger production  *)
(* runs on (rentals/ledger.py): many workers, each with a connection of    *)
(* its own, carry out reserve() and cancel() against one PostgreSQL        *)
(* database at READ COMMITTED.                                             *)
(*                                                                         *)
(* One action is one SQL statement together with the Python code that runs *)
(* up to the next one.  A statement sees the rows committed when it runs;  *)
(* what a transaction writes stays in its write set until it commits, and  *)
(* only the unique index sees it before.                                   *)
(***************************************************************************)
EXTENDS Desk

CONSTANTS
    InitialFleets,  \* the fleets the history may start from
    FleetSizes,     \* the sizes staff may set in the admin site
    LockTimeout,    \* lock_timeout is on; 0 in the environment turns it off
    Faults,         \* a connection or a worker may die
    Stalled,        \* workers that may stop for ever in the middle of a request
    MaxRequests,    \* bound: requests clients send
    MaxNow          \* bound: how far the clock runs

ASSUME DeskAssumption ==
    /\ FleetSizes \subseteq Nat
    /\ InitialFleets \subseteq [CarTypes -> Nat \cup {NoFleet}]
    /\ LockTimeout \in BOOLEAN
    /\ Faults \in BOOLEAN
    /\ Stalled \subseteq Workers
    /\ MaxRequests \in Nat
    /\ MaxNow \in Nat

VARIABLES
    now,        \* the desk's clock
    fleet,      \* table rentals_cartype: the fleet size of each type with a row
    rows,       \* table rentals_reservation: the committed rows
    nextId,     \* its id sequence, which no rollback takes back
    requests,   \* requests received so far
    pc,         \* what each worker is about to do
    req,        \* the request it works on
    result,     \* the outcome it is about to report
    booking,    \* the Booking object it has in memory
    size,       \* the fleet size it read when it locked the fleet row
    fleetHeld,  \* the car types whose row its transaction has locked
    rowHeld,    \* the ids of the reservation rows its transaction has locked
    written     \* row versions its transaction wrote and has not committed

workerVars == <<pc, req, result, booking, size, fleetHeld, rowHeld, written>>
tables == <<fleet, rows, nextId>>
vars == <<now, tables, requests, workerVars>>

\* What a worker is about to report; its client never sees the last two.
Results == Answers \cup {"none", "DuplicateIdempotencyKey"}

ReservePc == {"lock_fleet", "find_key", "validate", "read_schedule", "insert", "recover"}
CancelPc == {"lock_booking", "decide"}
WorkingPc == ReservePc \cup CancelPc \cup {"commit", "rollback"}

TypeOK ==
    /\ now \in Nat
    /\ fleet \in [CarTypes -> Nat \cup {NoFleet}]
    /\ rows \subseteq BookingRecord
    /\ nextId \in Nat
    /\ requests \in Nat
    /\ pc \in [Workers -> {"idle", "done"} \cup WorkingPc]
    /\ req \in [Workers -> ReserveRequest \cup CancelRequest \cup {NoRequest}]
    /\ result \in [Workers -> Results]
    /\ booking \in [Workers -> BookingRecord \cup {NoBooking}]
    /\ size \in [Workers -> Nat]
    /\ fleetHeld \in [Workers -> SUBSET CarTypes]
    /\ rowHeld \in [Workers -> SUBSET Nat]
    /\ written \in [Workers -> SUBSET BookingRecord]

Init ==
    /\ now = 0
    /\ fleet \in InitialFleets
    /\ rows = {}
    /\ nextId = 1
    /\ requests = 0
    /\ pc = [w \in Workers |-> "idle"]
    /\ req = [w \in Workers |-> NoRequest]
    /\ result = [w \in Workers |-> "none"]
    /\ booking = [w \in Workers |-> NoBooking]
    /\ size = [w \in Workers |-> 0]
    /\ fleetHeld = [w \in Workers |-> {}]
    /\ rowHeld = [w \in Workers |-> {}]
    /\ written = [w \in Workers |-> {}]

-----------------------------------------------------------------------------
(* What a statement reads *)

\* .active().for_car_type(ct)
Active(ct) == {b \in rows : b.carType = ct /\ ~IsCancelled(b)}

\* _LockedFleetRow.booked_during: the rows the availability read returns.
BookedDuring(ct, period) == Within(Active(ct), period)

\* A bug: a cancelled booking gives its key back.
ActiveWithKey(customer, key) ==
    {b \in rows : b.customer = customer /\ b.key = key /\ ~IsCancelled(b)}

\* find_by_key, and what the unique index holds: cancelled bookings too.
WithKey(customer, key) == {b \in rows : b.customer = customer /\ b.key = key}

\* A bug: the fleet row is read without FOR UPDATE.
ReadFleetUnlocked(w, ct) == FALSE

\* Another transaction has locked the fleet row.
FleetLocked(w, ct) == \E v \in Workers \ {w} : ct \in fleetHeld[v]

\* A bug: the reservation is read without FOR UPDATE.
ReadBookingUnlocked(w, id) == FALSE

\* Another transaction has locked the reservation row.
BookingLocked(w, id) == \E v \in Workers \ {w} : id \in rowHeld[v]

\* An INSERT that meets an uncommitted row version with its key waits for the
\* transaction that wrote it to end.
KeyPending(w) ==
    \E v \in Workers \ {w} : \E b \in written[v] :
        b.customer = req[w].customer /\ b.key = req[w].key

\* A bug: the table has no UNIQUE (user, idempotency_key).
NoUniqueIndex(w) == FALSE

\* The unique index has a committed row with w's key.
KeyTaken(w) == WithKey(req[w].customer, req[w].key) # {}

\* What the committed table becomes when w's transaction commits.
Installed(w) ==
    {b \in rows : \A n \in written[w] : n.id # b.id} \cup written[w]

-----------------------------------------------------------------------------
(* Steps a worker takes *)

Goto(w, from, to) == pc[w] = from /\ pc' = [pc EXCEPT ![w] = to]

\* The code raises: the with-block is left by an exception, so its
\* transaction is about to be rolled back.
Raise(w, from, error) ==
    /\ Goto(w, from, "rollback")
    /\ result' = [result EXCEPT ![w] = error]

NoTableChange == UNCHANGED <<now, tables, requests>>
NoLockChange == UNCHANGED <<fleetHeld, rowHeld>>

ReceiveReserve(w) ==
    /\ requests < MaxRequests
    /\ requests' = requests + 1
    /\ Goto(w, "idle", "lock_fleet")
    /\ \E r \in ReserveRequest : req' = [req EXCEPT ![w] = r]
    /\ NoLockChange
    /\ UNCHANGED <<now, tables, result, booking, size, written>>

\* IdempotencyKey.__post_init__ refuses the key before anything is read.
RefuseKey(w) ==
    /\ requests < MaxRequests
    /\ requests' = requests + 1
    /\ Goto(w, "idle", "done")
    /\ result' = [result EXCEPT ![w] = "InvalidIdempotencyKey"]
    /\ NoLockChange
    /\ UNCHANGED <<now, tables, req, booking, size, written>>

\* A bug: a fleet row that is not there is not refused.
LockAnyFleet(w) ==
    LET ct == req[w].carType IN
    /\ Goto(w, "lock_fleet", "find_key")
    /\ ~FleetLocked(w, ct)
    /\ fleetHeld' = [fleetHeld EXCEPT ![w] = {ct}]
    /\ size' = [size EXCEPT ![w] = fleet[ct]]
    /\ NoTableChange
    /\ UNCHANGED <<req, result, booking, rowHeld, written>>

\* A bug: the policy is asked before the key is looked up.
PolicyFirst(w) ==
    /\ Goto(w, "lock_fleet", "validate")
    /\ ~FleetLocked(w, req[w].carType)
    /\ fleet[req[w].carType] # NoFleet
    /\ fleetHeld' = [fleetHeld EXCEPT ![w] = {req[w].carType}]
    /\ size' = [size EXCEPT ![w] = fleet[req[w].carType]]
    /\ NoTableChange
    /\ UNCHANGED <<req, result, booking, rowHeld, written>>

\* SELECT ... FOR UPDATE on the fleet row, which other holders keep waiting.
LockFleet(w) ==
    LET ct == req[w].carType IN
    /\ Goto(w, "lock_fleet", "find_key")
    /\ ~FleetLocked(w, ct)
    /\ fleet[ct] # NoFleet
    /\ fleetHeld' = [fleetHeld EXCEPT ![w] = {ct}]
    /\ size' = [size EXCEPT ![w] = fleet[ct]]
    /\ NoTableChange
    /\ UNCHANGED <<req, result, booking, rowHeld, written>>

CarTypeMissing(w) ==
    /\ Raise(w, "lock_fleet", "CarTypeNotFound")
    /\ fleet[req[w].carType] = NoFleet
    /\ NoTableChange
    /\ NoLockChange
    /\ UNCHANGED <<req, booking, size, written>>

\* A bug: the connection is opened without a lock_timeout.
WaitForEver(w) == FALSE

\* lock_timeout expires while the fleet row is locked by another transaction.
LockFleetTimeout(w) ==
    /\ LockTimeout
    /\ Raise(w, "lock_fleet", "FleetBusy")
    /\ FleetLocked(w, req[w].carType)
    /\ NoTableChange
    /\ NoLockChange
    /\ UNCHANGED <<req, booking, size, written>>

FindNoKey(w) ==
    /\ Goto(w, "find_key", "validate")
    /\ ~KeyTaken(w)
    /\ NoTableChange
    /\ NoLockChange
    /\ UNCHANGED <<req, result, booking, size, written>>

\* _replay: the exclusive block is left with a result, and commits, or with
\* IdempotencyConflict, and rolls back.
FindKey(w) ==
    /\ pc[w] = "find_key"
    /\ \E b \in WithKey(req[w].customer, req[w].key) :
        LET outcome == ReplayResult(b, req[w]) IN
        /\ pc' = [pc EXCEPT ![w] = IF outcome = "replayed" THEN "commit" ELSE "rollback"]
        /\ result' = [result EXCEPT ![w] = outcome]
        /\ booking' = [booking EXCEPT ![w] = b]
    /\ NoTableChange
    /\ NoLockChange
    /\ UNCHANGED <<req, size, written>>

Accept(w) ==
    /\ Goto(w, "validate", "read_schedule")
    /\ Permits(req[w].period, now)
    /\ NoTableChange
    /\ NoLockChange
    /\ UNCHANGED <<req, result, booking, size, written>>

RefusePeriod(w) ==
    /\ Raise(w, "validate", "InvalidRentalPeriod")
    /\ ~Permits(req[w].period, now)
    /\ NoTableChange
    /\ NoLockChange
    /\ UNCHANGED <<req, booking, size, written>>

\* A bug: the bookings that touch the period are counted.
CountOverlaps(w) == Cardinality(BookedDuring(req[w].carType, req[w].period)) < size[w]

\* Does the schedule read under the lock have a car for the whole period?
HasRoom(w) ==
    CanAccommodate(size[w], BookedDuring(req[w].carType, req[w].period), req[w].period)

FindRoom(w) ==
    /\ Goto(w, "read_schedule", "insert")
    /\ HasRoom(w)
    /\ NoTableChange
    /\ NoLockChange
    /\ UNCHANGED <<req, result, booking, size, written>>

FindNoRoom(w) ==
    /\ Raise(w, "read_schedule", "NoAvailability")
    /\ ~HasRoom(w)
    /\ NoTableChange
    /\ NoLockChange
    /\ UNCHANGED <<req, booking, size, written>>

NewRow(w) ==
    [id |-> nextId, customer |-> req[w].customer, carType |-> req[w].carType,
     period |-> req[w].period, key |-> req[w].key, cancelledAt |-> NotCancelled]

\* The INSERT of _LockedFleetRow.add, which uses up an id whatever happens.
Insert(w) ==
    /\ Goto(w, "insert", "commit")
    /\ ~KeyPending(w)
    /\ ~KeyTaken(w)
    /\ nextId' = nextId + 1
    /\ written' = [written EXCEPT ![w] = {NewRow(w)}]
    /\ booking' = [booking EXCEPT ![w] = NewRow(w)]
    /\ result' = [result EXCEPT ![w] = "booked"]
    /\ NoLockChange
    /\ UNCHANGED <<now, fleet, rows, requests, req, size>>

\* The unique index refuses the row; the savepoint is gone, and the exception
\* leaves the exclusive block.
InsertDuplicate(w) ==
    /\ Raise(w, "insert", "DuplicateIdempotencyKey")
    /\ ~KeyPending(w)
    /\ KeyTaken(w)
    /\ nextId' = nextId + 1
    /\ NoLockChange
    /\ UNCHANGED <<now, fleet, rows, requests, req, booking, size, written>>

\* lock_timeout expires while the INSERT waits on the unique index.  add()
\* translates IntegrityError only, so this OperationalError goes all the way up.
InsertTimeout(w) ==
    /\ LockTimeout
    /\ Raise(w, "insert", "ServerError")
    /\ KeyPending(w)
    /\ nextId' = nextId + 1
    /\ NoLockChange
    /\ UNCHANGED <<now, fleet, rows, requests, req, booking, size, written>>

\* After the rollback, reserve() looks for the booking that won.
Recover(w) ==
    /\ Goto(w, "recover", "done")
    /\ LET winners == WithKey(req[w].customer, req[w].key) IN
       \/ /\ winners = {}
          /\ UNCHANGED <<result, booking>>
       \/ \E b \in winners :
          /\ result' = [result EXCEPT ![w] = ReplayResult(b, req[w])]
          /\ booking' = [booking EXCEPT ![w] = b]
    /\ NoTableChange
    /\ NoLockChange
    /\ UNCHANGED <<req, size, written>>

-----------------------------------------------------------------------------
(* Cancelling: reservation rows are locked, never the fleet *)

ReceiveCancel(w) ==
    /\ requests < MaxRequests
    /\ requests' = requests + 1
    /\ Goto(w, "idle", "lock_booking")
    /\ \E a \in Customers, id \in 1 .. nextId :
          req' = [req EXCEPT ![w] = [actor |-> a, id |-> id]]
    /\ NoLockChange
    /\ UNCHANGED <<now, tables, result, booking, size, written>>

\* SELECT ... FOR UPDATE OF the reservation, once no other transaction has it.
LockBooking(w) ==
    /\ Goto(w, "lock_booking", "decide")
    /\ ~BookingLocked(w, req[w].id)
    /\ \E b \in rows :
        /\ b.id = req[w].id
        /\ booking' = [booking EXCEPT ![w] = b]
    /\ rowHeld' = [rowHeld EXCEPT ![w] = {req[w].id}]
    /\ NoTableChange
    /\ UNCHANGED <<req, result, size, fleetHeld, written>>

BookingMissing(w) ==
    /\ Raise(w, "lock_booking", "ReservationNotFound")
    /\ \A b \in rows : b.id # req[w].id
    /\ NoTableChange
    /\ NoLockChange
    /\ UNCHANGED <<req, booking, size, written>>

\* exclusive_booking translates no error: the timeout goes all the way up.
LockBookingTimeout(w) ==
    /\ LockTimeout
    /\ Raise(w, "lock_booking", "ServerError")
    /\ BookingLocked(w, req[w].id)
    /\ NoTableChange
    /\ NoLockChange
    /\ UNCHANGED <<req, booking, size, written>>

\* One answer for "missing" and "not yours"; Booking.cancel refuses a rental
\* that has ended unless it is already cancelled.
RefuseCancel(w) ==
    /\ \/ /\ Raise(w, "decide", "ReservationNotFound")
          /\ ~MayBeManagedBy(booking[w], req[w].actor)
       \/ /\ Raise(w, "decide", "ReservationNotCancellable")
          /\ MayBeManagedBy(booking[w], req[w].actor)
          /\ ~IsCancelled(booking[w])
          /\ booking[w].period.end <= now
    /\ NoTableChange
    /\ NoLockChange
    /\ UNCHANGED <<req, booking, size, written>>

\* Cancelling twice succeeds and changes nothing.
CancelAgain(w) ==
    /\ Goto(w, "decide", "commit")
    /\ MayBeManagedBy(booking[w], req[w].actor)
    /\ IsCancelled(booking[w])
    /\ result' = [result EXCEPT ![w] = "cancelled"]
    /\ NoTableChange
    /\ NoLockChange
    /\ UNCHANGED <<req, booking, size, written>>

CancelBooking(w) ==
    /\ Goto(w, "decide", "commit")
    /\ MayBeManagedBy(booking[w], req[w].actor)
    /\ ~IsCancelled(booking[w])
    /\ now < booking[w].period.end
    /\ booking' = [booking EXCEPT ![w] = Cancelled(booking[w], now)]
    /\ written' = [written EXCEPT ![w] = {Cancelled(booking[w], now)}]
    /\ result' = [result EXCEPT ![w] = "cancelled"]
    /\ NoTableChange
    /\ NoLockChange
    /\ UNCHANGED <<req, size>>

-----------------------------------------------------------------------------
(* How a transaction, and a request, ends *)

\* A bug: the fleet is locked for the session, and outlives the transaction.
KeepFleetLock(w) ==
    /\ written' = [written EXCEPT ![w] = {}]
    /\ rowHeld' = [rowHeld EXCEPT ![w] = {}]
    /\ size' = [size EXCEPT ![w] = 0]
    /\ UNCHANGED <<now, fleet, nextId, requests, req, fleetHeld>>

\* transaction.atomic() is left: the database forgets w's locks and write set.
EndTransaction(w) ==
    /\ written' = [written EXCEPT ![w] = {}]
    /\ fleetHeld' = [fleetHeld EXCEPT ![w] = {}]
    /\ rowHeld' = [rowHeld EXCEPT ![w] = {}]
    /\ size' = [size EXCEPT ![w] = 0]
    /\ UNCHANGED <<now, fleet, nextId, requests, req>>

Commit(w) ==
    /\ Goto(w, "commit", "done")
    /\ rows' = Installed(w)
    /\ EndTransaction(w)
    /\ UNCHANGED <<result, booking>>

\* A bug: DuplicateIdempotencyKey is not caught.
AnswerAtOnce(w) == "done"

\* reserve() catches DuplicateIdempotencyKey outside the exclusive block.
AfterRollback(w) ==
    IF result[w] = "DuplicateIdempotencyKey" THEN "recover" ELSE "done"

Rollback(w) ==
    /\ Goto(w, "rollback", AfterRollback(w))
    /\ EndTransaction(w)
    /\ booking' = [booking EXCEPT ![w] = NoBooking]
    /\ UNCHANGED <<rows, result>>

\* The connection dies after the database has committed.
CommitUnacknowledged(w) ==
    /\ Faults
    /\ Goto(w, "commit", "done")
    /\ rows' = Installed(w)
    /\ EndTransaction(w)
    /\ result' = [result EXCEPT ![w] = "ServerError"]
    /\ booking' = [booking EXCEPT ![w] = NoBooking]

\* The connection or the worker dies, or statement_timeout expires: the
\* database rolls back whatever the transaction wrote.
Abort(w) ==
    /\ Faults
    /\ pc[w] \in WorkingPc
    /\ pc' = [pc EXCEPT ![w] = "done"]
    /\ EndTransaction(w)
    /\ result' = [result EXCEPT ![w] = "ServerError"]
    /\ booking' = [booking EXCEPT ![w] = NoBooking]
    /\ UNCHANGED rows

\* The answer reaches the client and the worker is free again.
Respond(w) ==
    /\ Goto(w, "done", "idle")
    /\ req' = [req EXCEPT ![w] = NoRequest]
    /\ result' = [result EXCEPT ![w] = "none"]
    /\ booking' = [booking EXCEPT ![w] = NoBooking]
    /\ NoTableChange
    /\ NoLockChange
    /\ UNCHANGED <<size, written>>

-----------------------------------------------------------------------------
(* Everyone else *)

\* CarTypeAdmin and seed_demo write the fleet row; the row lock makes the
\* UPDATE wait for the booking in progress.
SetFleet(ct, n) ==
    /\ n # fleet[ct]
    /\ \A w \in Workers : ct \notin fleetHeld[w]
    /\ fleet' = [fleet EXCEPT ![ct] = n]
    /\ UNCHANGED <<now, rows, nextId, requests, workerVars>>

\* on_delete=PROTECT: a type that was ever booked cannot be deleted.
DeleteFleet(ct) ==
    /\ fleet[ct] # NoFleet
    /\ \A w \in Workers : ct \notin fleetHeld[w]
    /\ \A b \in rows : b.carType # ct
    /\ fleet' = [fleet EXCEPT ![ct] = NoFleet]
    /\ UNCHANGED <<now, rows, nextId, requests, workerVars>>

Tick ==
    /\ now < MaxNow
    /\ now' = now + 1
    /\ UNCHANGED <<tables, requests, workerVars>>

\* Every request the bound allows has been answered.
Terminated ==
    /\ requests = MaxRequests
    /\ \A w \in Workers : pc[w] = "idle"
    /\ UNCHANGED vars

Receive(w) == ReceiveReserve(w) \/ RefuseKey(w) \/ ReceiveCancel(w)

ReserveStep(w) ==
    \/ LockFleet(w) \/ CarTypeMissing(w) \/ LockFleetTimeout(w)
    \/ FindNoKey(w) \/ FindKey(w)
    \/ Accept(w) \/ RefusePeriod(w)
    \/ FindRoom(w) \/ FindNoRoom(w)
    \/ Insert(w) \/ InsertDuplicate(w) \/ InsertTimeout(w)
    \/ Recover(w)

CancelStep(w) ==
    \/ LockBooking(w) \/ BookingMissing(w) \/ LockBookingTimeout(w)
    \/ RefuseCancel(w) \/ CancelAgain(w) \/ CancelBooking(w)

\* What the code of a worker does next, left to itself.
Progress(w) ==
    ReserveStep(w) \/ CancelStep(w) \/ Commit(w) \/ Rollback(w) \/ Respond(w)

Failure(w) == CommitUnacknowledged(w) \/ Abort(w)

WorkerStep(w) == Receive(w) \/ Progress(w) \/ Failure(w)

\* With no FleetSizes the staff leave the fleet table alone.
AdminStep(ct) == \E n \in FleetSizes : SetFleet(ct, n) \/ DeleteFleet(ct)

Next ==
    \/ \E w \in Workers : WorkerStep(w)
    \/ \E ct \in CarTypes : AdminStep(ct)
    \/ Tick
    \/ Terminated

Spec == Init /\ [][Next]_vars

\* A worker that is not stalled goes on with its request whenever it can.
FairSpec == Spec /\ \A w \in Workers \ Stalled : WF_vars(Progress(w))
-----------------------------------------------------------------------------
(* What the desk promises *)

\* Cars of a type out at an instant, by the committed bookings.
Usage(ct, t) == UsageAt(Active(ct), t)

\* No step puts more cars of a type on the road at an instant than the fleet
\* has.  (Staff may shrink a fleet below what is booked; from then on the
\* bookings of the instants concerned can only go down.)
NeverOverbooks ==
    [][\A ct \in CarTypes, t \in Instants :
          Usage(ct, t)' > Usage(ct, t) => Usage(ct, t)' <= fleet'[ct]]_vars

\* A customer's key names one booking, however often and along whichever lock
\* the request that carries it is sent.
OneBookingPerKey ==
    \A a, b \in rows : a.customer = b.customer /\ a.key = b.key => a = b

\* What a client is told stays true: the booking reported to it is in the
\* table with the parameters it asked for, or is cancelled as it asked.
AnswersAreDurable ==
    \A w \in Workers : pc[w] = "done" =>
        /\ result[w] \in {"booked", "replayed"} =>
               \E b \in rows :
                   /\ b.id = booking[w].id
                   /\ b.customer = req[w].customer
                   /\ b.key = req[w].key
                   /\ IsFor(b, req[w].carType, req[w].period)
        /\ result[w] = "cancelled" =>
               \E b \in rows : b.id = req[w].id /\ IsCancelled(b)

\* "No caller of the desk ever sees it": the loser of a race for a key is told
\* about the winner's booking.
DuplicateKeyNeverEscapes ==
    \A w \in Workers : pc[w] = "done" => result[w] # "DuplicateIdempotencyKey"

\* A booking is a business record: it is never lost, never changed but by one
\* cancellation, stamped while the rental had not ended and never again.
HistoryIsKept ==
    [][\A b \in rows : \E c \in rows' :
          \/ c = b
          \/ /\ ~IsCancelled(b)
             /\ \E t \in 0 .. now : t < b.period.end /\ c = Cancelled(b, t)]_vars

\* Availability is judged by the peak: a request is turned away only if every
\* car of the type is out at some instant of its period.
RefusedOnlyWhenFull ==
    [][\A w \in Workers :
          result[w] # "NoAvailability" /\ result'[w] = "NoAvailability" =>
              \E t \in Instants :
                  /\ Covers(req[w].period, t)
                  /\ Usage(req[w].carType, t) >= fleet[req[w].carType]]_vars

\* A retry of a request that made a booking is never answered by the policy or
\* by the schedule, even when its start time has passed or its own booking has
\* taken the last car.
RetriesFindTheirBooking ==
    [][\A w \in Workers :
          /\ result[w] = "none"
          /\ result'[w] \in {"InvalidRentalPeriod", "NoAvailability"}
          => \A b \in rows :
                ~ /\ b.customer = req[w].customer
                  /\ b.key = req[w].key
                  /\ IsFor(b, req[w].carType, req[w].period)]_vars

\* Worker w is waiting for a lock, or an index entry, of worker v.
WaitsFor(w, v) ==
    /\ v # w
    /\ \/ pc[w] = "lock_fleet" /\ req[w].carType \in fleetHeld[v]
       \/ pc[w] = "lock_booking" /\ req[w].id \in rowHeld[v]
       \/ /\ pc[w] = "insert"
          /\ \E b \in written[v] : b.customer = req[w].customer /\ b.key = req[w].key

\* Everyone who waits is at most two transactions away from one that does not:
\* a fleet lock is taken first, and who has written waits for nobody.
WaitChainsEnd ==
    \A u, v, w \in Workers :
        WaitsFor(u, v) /\ WaitsFor(v, w) => \A x \in Workers : ~WaitsFor(w, x)

\* Every request of a worker that is not stalled is answered.
AllAnswered ==
    \A w \in Workers \ Stalled : pc[w] \in WorkingPc ~> pc[w] = "done"

-----------------------------------------------------------------------------
(* The desk on this ledger keeps the promises of Reservations *)

\* A request whose row versions wait for the commit, or that has lost a race
\* for its key, has not taken effect yet.
Decided(w) ==
    /\ result[w] # "DuplicateIdempotencyKey"
    /\ pc[w] = "commit" => written[w] = {}

AnswerOf == [w \in Workers |-> IF Decided(w) THEN result[w] ELSE "none"]
Told ==
    [w \in Workers |->
        IF Decided(w) /\ result[w] \in {"booked", "replayed", "cancelled"}
        THEN booking[w] ELSE NoBooking]

Promise == INSTANCE Reservations WITH answer <- AnswerOf, told <- Told

\* Every request takes effect at one instant between its arrival and its
\* answer, as Reservations says, whatever the others do in the meantime.
KeepsThePromises == Promise!Spec

-----------------------------------------------------------------------------
(* What the documents say and the code does otherwise *)

\* README.md: a booking that cannot get the lock raises FleetBusy "instead of
\* a 500"; test_concurrency.py: the loser of a race for a key "must get a clean
\* domain error, not a 500".
ReserveNeverFails ==
    \A w \in Workers :
        pc[w] = "done" /\ req[w] \in ReserveRequest => result[w] # "ServerError"
=============================================================================
