---------------------------- MODULE InMemoryDesk ----------------------------
(***************************************************************************)
(* The reservation desk on the in-memory ledger                            *)
(* (rentals/domain/in_memory.py): threads share a dictionary of bookings,  *)
(* with a threading.Lock per car type and one RLock for the dictionary.    *)
(* A booking is visible as soon as it is stored, nothing is ever rolled    *)
(* back, and no wait has a limit.                                          *)
(*                                                                         *)
(* One action is the code between two places where another thread can make *)
(* a difference.  A scan of the dictionary holds the table lock from its   *)
(* first line to its last and is one action; what holds the table lock     *)
(* over a decision takes it in one action and gives it back in another.    *)
(***************************************************************************)
EXTENDS Desk

CONSTANTS
    InitialFleets,  \* the fleets the ledger may be made with
    MaxRequests,    \* bound: requests sent
    MaxNow          \* bound: how far the clock runs

NoOne == "no one"

ASSUME InMemoryAssumption ==
    /\ InitialFleets \subseteq [CarTypes -> Nat \cup {NoFleet}]
    /\ MaxRequests \in Nat
    /\ MaxNow \in Nat
    /\ NoOne \notin Workers

VARIABLES
    now,        \* the desk's clock
    fleet,      \* _sizes: a type that is not a key has NoFleet
    bookings,   \* the values of _bookings
    nextId,     \* _ids
    fleetLock,  \* who holds the lock of each car type
    table,      \* who holds _table over more than one step
    requests,   \* requests received so far
    pc,         \* what each thread is about to do
    req,        \* the request it works on
    result,     \* the outcome it is about to report
    booking     \* its copy of a booking

ledgerVars == <<bookings, nextId>>
locks == <<fleetLock, table>>
vars == <<now, fleet, ledgerVars, locks, requests, pc, req, result, booking>>

FleetPc == {"find_key", "validate", "read_schedule", "add", "store"}
WorkingPc == FleetPc \cup {"lock_fleet", "recover", "lock_booking", "decide", "save"}

\* DuplicateIdempotencyKey is not among the results: no caller ever sees it.
TypeOK ==
    /\ now \in Nat
    /\ fleet \in [CarTypes -> Nat \cup {NoFleet}]
    /\ bookings \subseteq BookingRecord
    /\ nextId \in Nat
    /\ fleetLock \in [CarTypes -> Workers \cup {NoOne}]
    /\ table \in Workers \cup {NoOne}
    /\ requests \in Nat
    /\ pc \in [Workers -> {"idle", "done"} \cup WorkingPc]
    /\ req \in [Workers -> ReserveRequest \cup CancelRequest \cup {NoRequest}]
    /\ result \in [Workers -> Answers \cup {"none"}]
    /\ booking \in [Workers -> BookingRecord \cup {NoBooking}]

Init ==
    /\ now = 0
    /\ fleet \in InitialFleets
    /\ bookings = {}
    /\ nextId = 1
    /\ fleetLock = [ct \in CarTypes |-> NoOne]
    /\ table = NoOne
    /\ requests = 0
    /\ pc = [w \in Workers |-> "idle"]
    /\ req = [w \in Workers |-> NoRequest]
    /\ result = [w \in Workers |-> "none"]
    /\ booking = [w \in Workers |-> NoBooking]

-----------------------------------------------------------------------------
(* What the ledger reads *)

BookedDuring(ct, period) ==
    {b \in bookings : b.carType = ct /\ ~IsCancelled(b) /\ Overlaps(b.period, period)}

\* A bug: a cancelled booking is not found by its key.
FindActiveByKey(r) == {b \in bookings : IsAbout(b, r) /\ ~IsCancelled(b)}

FindByKey(r) == {b \in bookings : IsAbout(b, r)}

\* _known
Known(ct) == fleet[ct] # NoFleet

-----------------------------------------------------------------------------
Goto(w, from, to) == pc[w] = from /\ pc' = [pc EXCEPT ![w] = to]

\* w's request ends with this outcome and this booking.
Finish(w, outcome, b) ==
    /\ result' = [result EXCEPT ![w] = outcome]
    /\ booking' = [booking EXCEPT ![w] = b]

\* The table lock is free; whoever scans the dictionary needs it.
TableFree == table = NoOne

\* A bug: the table lock is not held while a booking is decided about.
NoTableLock(w) == UNCHANGED table

TakeTable(w) == table' = w

\* A bug: the lock is acquired outside a with statement, and kept by an exception.
KeepLockOnError(w) ==
    fleetLock' = IF pc[w] = "store"
                 THEN [fleetLock EXCEPT ![req[w].carType] = NoOne] ELSE fleetLock

\* Leaving the exclusive block releases the lock, whatever has happened.
LeaveBlock(w) ==
    fleetLock' = [fleetLock EXCEPT ![req[w].carType] = NoOne]

ReceiveReserve(w) ==
    /\ requests < MaxRequests
    /\ requests' = requests + 1
    /\ Goto(w, "idle", "lock_fleet")
    /\ \E r \in ReserveRequest : req' = [req EXCEPT ![w] = r]
    /\ UNCHANGED <<now, fleet, ledgerVars, locks, result, booking>>

RefuseKey(w) ==
    /\ requests < MaxRequests
    /\ requests' = requests + 1
    /\ Goto(w, "idle", "done")
    /\ Finish(w, "InvalidIdempotencyKey", NoBooking)
    /\ UNCHANGED <<now, fleet, ledgerVars, locks, req>>

CarTypeMissing(w) ==
    /\ Goto(w, "lock_fleet", "done")
    /\ ~Known(req[w].carType)
    /\ Finish(w, "CarTypeNotFound", NoBooking)
    /\ UNCHANGED <<now, fleet, ledgerVars, locks, requests, req>>

LockFleet(w) ==
    LET ct == req[w].carType IN
    /\ Goto(w, "lock_fleet", "find_key")
    /\ Known(ct)
    /\ fleetLock[ct] = NoOne
    /\ fleetLock' = [fleetLock EXCEPT ![ct] = w]
    /\ UNCHANGED <<now, fleet, ledgerVars, table, requests, req, result, booking>>

FindNoKey(w) ==
    /\ Goto(w, "find_key", "validate")
    /\ TableFree
    /\ FindByKey(req[w]) = {}
    /\ UNCHANGED <<now, fleet, ledgerVars, locks, requests, req, result, booking>>

\* The answer of _replay, for a booking found by its key.
AnswerReplay(w, b) ==
    LET outcome == ReplayResult(b, req[w]) IN
    Finish(w, outcome, IF outcome = "replayed" THEN b ELSE NoBooking)

FindKey(w) ==
    /\ Goto(w, "find_key", "done")
    /\ TableFree
    /\ \E b \in FindByKey(req[w]) : AnswerReplay(w, b)
    /\ LeaveBlock(w)
    /\ UNCHANGED <<now, fleet, ledgerVars, table, requests, req>>

Accept(w) ==
    /\ Goto(w, "validate", "read_schedule")
    /\ Permits(req[w].period, now)
    /\ UNCHANGED <<now, fleet, ledgerVars, locks, requests, req, result, booking>>

RefusePeriod(w) ==
    /\ Goto(w, "validate", "done")
    /\ ~Permits(req[w].period, now)
    /\ Finish(w, "InvalidRentalPeriod", NoBooking)
    /\ LeaveBlock(w)
    /\ UNCHANGED <<now, fleet, ledgerVars, table, requests, req>>

HasRoom(w) ==
    CanAccommodate(fleet[req[w].carType],
                   BookedDuring(req[w].carType, req[w].period), req[w].period)

FindRoom(w) ==
    /\ Goto(w, "read_schedule", "add")
    /\ TableFree
    /\ HasRoom(w)
    /\ UNCHANGED <<now, fleet, ledgerVars, locks, requests, req, result, booking>>

FindNoRoom(w) ==
    /\ Goto(w, "read_schedule", "done")
    /\ TableFree
    /\ ~HasRoom(w)
    /\ Finish(w, "NoAvailability", NoBooking)
    /\ LeaveBlock(w)
    /\ UNCHANGED <<now, fleet, ledgerVars, table, requests, req>>

\* add() holds the table lock from the check of the key to the insertion.
Add(w) ==
    /\ Goto(w, "add", "store")
    /\ TableFree
    /\ FindByKey(req[w]) = {}
    /\ TakeTable(w)
    /\ UNCHANGED <<now, fleet, ledgerVars, fleetLock, requests, req, result, booking>>

Store(w) ==
    LET b == [id |-> nextId, customer |-> req[w].customer, carType |-> req[w].carType,
              period |-> req[w].period, key |-> req[w].key, cancelledAt |-> NotCancelled] IN
    /\ Goto(w, "store", "done")
    /\ bookings' = bookings \cup {b}
    /\ nextId' = nextId + 1
    /\ Finish(w, "booked", b)
    /\ table' = NoOne
    /\ LeaveBlock(w)
    /\ UNCHANGED <<now, fleet, requests, req>>

\* DuplicateIdempotencyKey leaves the exclusive block before reserve() has it.
AddDuplicate(w) ==
    /\ Goto(w, "add", "recover")
    /\ TableFree
    /\ FindByKey(req[w]) # {}
    /\ LeaveBlock(w)
    /\ UNCHANGED <<now, fleet, ledgerVars, table, requests, req, result, booking>>

\* A bug: the winner is looked for among the bookings that are not cancelled.
RecoverActive(w) ==
    /\ Goto(w, "recover", "done")
    /\ TableFree
    /\ \/ /\ FindActiveByKey(req[w]) = {}
          /\ Finish(w, "DuplicateIdempotencyKey", NoBooking)
       \/ \E b \in FindActiveByKey(req[w]) : AnswerReplay(w, b)
    /\ UNCHANGED <<now, fleet, ledgerVars, locks, requests, req>>

Recover(w) ==
    /\ Goto(w, "recover", "done")
    /\ TableFree
    /\ \/ /\ FindByKey(req[w]) = {}
          /\ Finish(w, "DuplicateIdempotencyKey", NoBooking)
       \/ \E b \in FindByKey(req[w]) : AnswerReplay(w, b)
    /\ UNCHANGED <<now, fleet, ledgerVars, locks, requests, req>>

-----------------------------------------------------------------------------
(* Cancelling: exclusive_booking holds the table lock throughout *)

ReceiveCancel(w) ==
    /\ requests < MaxRequests
    /\ requests' = requests + 1
    /\ Goto(w, "idle", "lock_booking")
    /\ \E a \in Customers, id \in 1 .. nextId :
          req' = [req EXCEPT ![w] = [actor |-> a, id |-> id]]
    /\ UNCHANGED <<now, fleet, ledgerVars, locks, result, booking>>

LockBooking(w) ==
    /\ Goto(w, "lock_booking", "decide")
    /\ TableFree
    /\ \E b \in bookings :
        /\ b.id = req[w].id
        /\ MayBeManagedBy(b, req[w].actor)
        /\ booking' = [booking EXCEPT ![w] = b]
    /\ TakeTable(w)
    /\ UNCHANGED <<now, fleet, ledgerVars, fleetLock, requests, req, result>>

\* One answer for "missing" and "not yours".
BookingMissing(w) ==
    /\ Goto(w, "lock_booking", "done")
    /\ TableFree
    /\ \A b \in bookings : b.id = req[w].id => ~MayBeManagedBy(b, req[w].actor)
    /\ Finish(w, "ReservationNotFound", NoBooking)
    /\ UNCHANGED <<now, fleet, ledgerVars, locks, requests, req>>

\* Booking.cancel has nothing to change, or refuses.
KeepBooking(w) ==
    /\ Goto(w, "decide", "done")
    /\ \/ /\ IsCancelled(booking[w])
          /\ Finish(w, "cancelled", booking[w])
       \/ /\ ~IsCancelled(booking[w])
          /\ booking[w].period.end <= now
          /\ Finish(w, "ReservationNotCancellable", NoBooking)
    /\ table' = NoOne
    /\ UNCHANGED <<now, fleet, ledgerVars, fleetLock, requests, req>>

CancelBooking(w) ==
    /\ Goto(w, "decide", "save")
    /\ ~IsCancelled(booking[w])
    /\ now < booking[w].period.end
    /\ booking' = [booking EXCEPT ![w] = Cancelled(booking[w], now)]
    /\ UNCHANGED <<now, fleet, ledgerVars, locks, requests, req, result>>

Save(w) ==
    /\ Goto(w, "save", "done")
    /\ bookings' = {b \in bookings : b.id # booking[w].id} \cup {booking[w]}
    /\ result' = [result EXCEPT ![w] = "cancelled"]
    /\ table' = NoOne
    /\ UNCHANGED <<now, fleet, nextId, fleetLock, requests, req, booking>>

-----------------------------------------------------------------------------
Respond(w) ==
    /\ Goto(w, "done", "idle")
    /\ req' = [req EXCEPT ![w] = NoRequest]
    /\ Finish(w, "none", NoBooking)
    /\ UNCHANGED <<now, fleet, ledgerVars, locks, requests>>

Tick ==
    /\ now < MaxNow
    /\ now' = now + 1
    /\ UNCHANGED <<fleet, ledgerVars, locks, requests, pc, req, result, booking>>

\* Every request the bound allows has been answered.
Terminated ==
    /\ requests = MaxRequests
    /\ \A w \in Workers : pc[w] = "idle"
    /\ UNCHANGED vars

Receive(w) == ReceiveReserve(w) \/ RefuseKey(w) \/ ReceiveCancel(w)

ReserveStep(w) ==
    \/ LockFleet(w) \/ CarTypeMissing(w)
    \/ FindNoKey(w) \/ FindKey(w)
    \/ Accept(w) \/ RefusePeriod(w)
    \/ FindRoom(w) \/ FindNoRoom(w)
    \/ Add(w) \/ AddDuplicate(w) \/ Store(w)
    \/ Recover(w)

CancelStep(w) ==
    \/ LockBooking(w) \/ BookingMissing(w)
    \/ KeepBooking(w) \/ CancelBooking(w) \/ Save(w)

Progress(w) == ReserveStep(w) \/ CancelStep(w) \/ Respond(w)

Next ==
    \/ \E w \in Workers : Receive(w) \/ Progress(w)
    \/ Tick
    \/ Terminated

Spec == Init /\ [][Next]_vars

\* A thread runs on whenever it can: nothing stops one in the middle.
FairSpec == Spec /\ \A w \in Workers : WF_vars(Progress(w))

-----------------------------------------------------------------------------
(* The contract both ledgers are held to *)

Promise == INSTANCE Reservations WITH
    rows <- bookings, answer <- result, told <- [w \in Workers |->
        IF result[w] \in {"booked", "replayed", "cancelled"} THEN booking[w] ELSE NoBooking]

\* Without commits and rollbacks, with two kinds of locks taken one inside the
\* other, every request still takes effect at one instant as Reservations says.
KeepsThePromises == Promise!Spec

\* Locks are taken fleet first, table second, and every block is left: no
\* thread waits for ever, though no wait has a limit.
AllAnswered == \A w \in Workers : pc[w] \in WorkingPc ~> pc[w] = "done"
=============================================================================
