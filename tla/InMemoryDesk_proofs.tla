------------------------- MODULE InMemoryDesk_proofs ------------------------
(* Theorems about InMemoryDesk, for every value of its constants. *)
EXTENDS InMemoryDesk, FleetSchedule_proofs

-----------------------------------------------------------------------------
(* What holds at each point of the work *)

ReservePc == FleetPc \cup {"lock_fleet", "recover"}
CancelPc == {"lock_booking", "decide", "save"}

\* What a thread has in hand.
InHand(w) ==
    /\ pc[w] \in ReservePc => req[w] \in ReserveRequest
    /\ pc[w] \in CancelPc => req[w] \in CancelRequest
    /\ pc[w] \in {"decide", "save"} => booking[w] \in BookingRecord
    /\ pc[w] = "idle" => req[w] = NoRequest
    /\ result[w] = "none" <=> pc[w] # "done"

\* The locks are held over exactly the lines that say so.
LockInv ==
    /\ \A w \in Workers : table = w <=> pc[w] \in {"store", "decide", "save"}
    /\ \A w \in Workers, ct \in CarTypes :
          fleetLock[ct] = w <=> pc[w] \in FleetPc /\ req[w].carType = ct
    /\ \A w \in Workers : pc[w] \in FleetPc => fleet[req[w].carType] # NoFleet

SameKey(a, b) == a.customer = b.customer /\ a.key = b.key

\* The cancellation w is about to save is one of a booking it may manage,
\* decided in time.
Decision(w, b, t) ==
    /\ b.id = req[w].id
    /\ MayBeManagedBy(b, req[w].actor)
    /\ ~IsCancelled(b)
    /\ t < b.period.end
    /\ booking[w] = Cancelled(b, t)

\* What w has read of the dictionary, and of the clock, is still so.
Knows(w) ==
    /\ pc[w] = "decide" =>
          /\ booking[w] \in bookings
          /\ booking[w].id = req[w].id
          /\ MayBeManagedBy(booking[w], req[w].actor)
    /\ pc[w] = "save" => \E b \in bookings : \E t \in 0 .. now : Decision(w, b, t)
    /\ pc[w] \in {"validate", "read_schedule", "add", "store"} =>
          \A b \in bookings : ~(IsAbout(b, req[w]) /\ b.carType = req[w].carType)
    /\ pc[w] = "store" => \A b \in bookings : ~IsAbout(b, req[w])
    /\ pc[w] = "recover" => \E b \in bookings : IsAbout(b, req[w])
    /\ pc[w] \in {"read_schedule", "add", "store"} =>
          \E t \in 0 .. now : Permits(req[w].period, t)

RowInv ==
    /\ IsFiniteSet(bookings)
    /\ \A b \in bookings : b.id < nextId
    /\ \A b, c \in bookings : b.id = c.id \/ SameKey(b, c) => b = c
    /\ \A w \in Workers : Knows(w)

Active(ct) == {b \in bookings : b.carType = ct /\ ~IsCancelled(b)}
Usage(ct, t) == UsageAt(Active(ct), t)

\* A car is free at every instant of the period w asks for.
Room(w) ==
    \A t \in Int : Covers(req[w].period, t) =>
        Usage(req[w].carType, t) < fleet[req[w].carType]

\* The room w has found is there until it has stored its booking.
RoomInv == \A w \in Workers : pc[w] \in {"add", "store"} => Room(w)

-----------------------------------------------------------------------------
(* Types *)

TypeInv == TypeOK /\ \A w \in Workers : InHand(w)

LEMMA CancelledIsBooking ==
    ASSUME NEW b \in BookingRecord, NEW t \in Nat
    PROVE  Cancelled(b, t) \in BookingRecord
  BY DEF Cancelled, BookingRecord

LEMMA CancelledFields ==
    ASSUME NEW b \in BookingRecord, NEW t \in Nat
    PROVE  /\ Cancelled(b, t).id = b.id
           /\ Cancelled(b, t).customer = b.customer
           /\ Cancelled(b, t).carType = b.carType
           /\ Cancelled(b, t).key = b.key
           /\ IsCancelled(Cancelled(b, t))
  BY DEF Cancelled, BookingRecord, IsCancelled, NotCancelled

LEMMA TypeInit == Init => TypeInv
  BY InMemoryAssumption
     DEF Init, TypeInv, TypeOK, InHand, ReservePc, CancelPc, FleetPc, Answers, WorkingPc

\* No two threads do the work of one.
LEMMA OthersStay ==
    ASSUME NEW w \in Workers, Receive(w) \/ Progress(w), TypeOK, NEW v \in Workers, v # w
    PROVE  /\ pc'[v] = pc[v] /\ req'[v] = req[v]
           /\ result'[v] = result[v] /\ booking'[v] = booking[v]
  BY DEF TypeOK, Receive, Progress, ReserveStep, CancelStep, ReceiveReserve, RefuseKey,
         ReceiveCancel, LockFleet, CarTypeMissing, FindNoKey, FindKey, Accept, RefusePeriod,
         FindRoom, FindNoRoom, Add, AddDuplicate, Store, Recover, LockBooking, BookingMissing,
         KeepBooking, CancelBooking, Save, Respond, Goto, Finish, AnswerReplay

LEMMA TypeReceive ==
    ASSUME TypeInv, NEW w \in Workers, Receive(w)
    PROVE  TypeInv'
  <1> USE DEF TypeInv, TypeOK, InHand, Goto, Finish, ledgerVars, locks, ReservePc, CancelPc,
          FleetPc, WorkingPc, DomainErrors, Answers
  <1>1. CASE ReceiveReserve(w)
    BY <1>1 DEF ReceiveReserve
  <1>2. CASE RefuseKey(w)
    BY <1>2 DEF RefuseKey
  <1>3. CASE ReceiveCancel(w)
    BY <1>3 DEF ReceiveCancel, CancelRequest
  <1> QED
    BY <1>1, <1>2, <1>3 DEF Receive

\* The booking that Store stores is made as w asked.
NewBooking(w) ==
    [id |-> nextId, customer |-> req[w].customer, carType |-> req[w].carType,
     period |-> req[w].period, key |-> req[w].key, cancelledAt |-> NotCancelled]

LEMMA NewFields ==
    ASSUME TypeOK, NEW w \in Workers, req[w] \in ReserveRequest
    PROVE  /\ NewBooking(w) \in BookingRecord
           /\ NewBooking(w).id = nextId
           /\ NewBooking(w).carType = req[w].carType
           /\ NewBooking(w).period = req[w].period
           /\ IsAbout(NewBooking(w), req[w])
           /\ ~IsCancelled(NewBooking(w))
  BY DEF TypeOK, NewBooking, BookingRecord, ReserveRequest, NotCancelled, IsAbout, IsCancelled

LEMMA StoreStores ==
    ASSUME TypeInv, NEW w \in Workers, Store(w)
    PROVE  /\ pc[w] = "store" /\ req[w] \in ReserveRequest
           /\ bookings' = bookings \cup {NewBooking(w)}
           /\ Finish(w, "booked", NewBooking(w))
           /\ pc' = [pc EXCEPT ![w] = "done"]
           /\ nextId' = nextId + 1 /\ table' = NoOne
           /\ fleetLock' = [fleetLock EXCEPT ![req[w].carType] = NoOne]
           /\ UNCHANGED <<now, fleet, requests, req>>
  BY DEF Store, NewBooking, TypeInv, InHand, ReservePc, FleetPc, Goto, LeaveBlock

LEMMA TypeReserve ==
    ASSUME TypeInv, RowInv, NEW w \in Workers, ReserveStep(w)
    PROVE  TypeInv'
  <1> USE DEF TypeInv, TypeOK, InHand, Goto, Finish, LeaveBlock, TakeTable, ledgerVars, locks,
          ReservePc, CancelPc, FleetPc, WorkingPc, DomainErrors, Answers
  <1>1. CASE LockFleet(w)
    BY <1>1 DEF LockFleet, ReserveRequest
  <1>2. CASE CarTypeMissing(w)
    BY <1>2 DEF CarTypeMissing
  <1>3. CASE FindNoKey(w)
    BY <1>3 DEF FindNoKey
  <1>4. CASE FindKey(w)
    BY <1>4 DEF FindKey, AnswerReplay, FindByKey, ReplayResult
  <1>5. CASE Accept(w)
    BY <1>5 DEF Accept
  <1>6. CASE RefusePeriod(w)
    BY <1>6 DEF RefusePeriod
  <1>7. CASE FindRoom(w)
    BY <1>7 DEF FindRoom
  <1>8. CASE FindNoRoom(w)
    BY <1>8 DEF FindNoRoom
  <1>9. CASE Add(w)
    BY <1>9 DEF Add
  <1>10. CASE AddDuplicate(w)
    BY <1>10 DEF AddDuplicate
  <1>11. CASE Store(w)
    <2> HIDE DEF LeaveBlock
    <2> QED
      BY <1>11, StoreStores, NewFields
  <1>12. CASE Recover(w)
    BY <1>12 DEF Recover, RowInv, Knows, AnswerReplay, FindByKey, ReplayResult
  <1> QED
    BY <1>1, <1>2, <1>3, <1>4, <1>5, <1>6, <1>7, <1>8, <1>9, <1>10, <1>11, <1>12 DEF ReserveStep

LEMMA TypeCancel ==
    ASSUME TypeInv, NEW w \in Workers, CancelStep(w) \/ Respond(w)
    PROVE  TypeInv'
  <1> USE DEF TypeInv, TypeOK, InHand, Goto, Finish, TakeTable, ledgerVars, locks,
          ReservePc, CancelPc, FleetPc, WorkingPc, DomainErrors, Answers
  <1>1. CASE LockBooking(w)
    BY <1>1 DEF LockBooking
  <1>2. CASE BookingMissing(w)
    BY <1>2 DEF BookingMissing
  <1>3. CASE KeepBooking(w)
    BY <1>3 DEF KeepBooking
  <1>4. CASE CancelBooking(w)
    BY <1>4, CancelledIsBooking DEF CancelBooking
  <1>5. CASE Save(w)
    BY <1>5 DEF Save
  <1>6. CASE Respond(w)
    BY <1>6 DEF Respond
  <1> QED
    BY <1>1, <1>2, <1>3, <1>4, <1>5, <1>6 DEF CancelStep

LEMMA TypeOthers ==
    ASSUME TypeInv, Tick \/ UNCHANGED vars
    PROVE  TypeInv'
  BY DEF Tick, vars, TypeInv, TypeOK, InHand, ledgerVars, locks

LEMMA TypeStep == TypeInv /\ RowInv /\ [Next]_vars => TypeInv'
  BY TypeReceive, TypeReserve, TypeCancel, TypeOthers DEF Next, Terminated, Progress

-----------------------------------------------------------------------------
(* Locks *)

LEMMA LockInit == Init => LockInv
  BY InMemoryAssumption DEF Init, LockInv, FleetPc

LEMMA LockReceive ==
    ASSUME TypeInv, LockInv, NEW w \in Workers, Receive(w)
    PROVE  LockInv'
  <1> USE DEF TypeInv, TypeOK, InHand, LockInv, Goto, Finish, ledgerVars, locks, FleetPc
  <1>1. CASE ReceiveReserve(w)
    BY <1>1 DEF ReceiveReserve
  <1>2. CASE RefuseKey(w)
    BY <1>2 DEF RefuseKey
  <1>3. CASE ReceiveCancel(w)
    BY <1>3 DEF ReceiveCancel
  <1> QED
    BY <1>1, <1>2, <1>3 DEF Receive

LEMMA LockReserve ==
    ASSUME TypeInv, LockInv, NEW w \in Workers, ReserveStep(w)
    PROVE  LockInv'
  <1> USE InMemoryAssumption DEF TypeInv, TypeOK, InHand, LockInv, Goto, Finish, LeaveBlock,
          TakeTable, TableFree, ledgerVars, locks, FleetPc, ReservePc
  <1>1. CASE LockFleet(w)
    BY <1>1 DEF LockFleet, Known
  <1>2. CASE CarTypeMissing(w)
    BY <1>2 DEF CarTypeMissing
  <1>3. CASE FindNoKey(w)
    BY <1>3 DEF FindNoKey
  <1>4. CASE FindKey(w)
    BY <1>4 DEF FindKey, AnswerReplay
  <1>5. CASE Accept(w)
    BY <1>5 DEF Accept
  <1>6. CASE RefusePeriod(w)
    BY <1>6 DEF RefusePeriod
  <1>7. CASE FindRoom(w)
    BY <1>7 DEF FindRoom
  <1>8. CASE FindNoRoom(w)
    BY <1>8 DEF FindNoRoom
  <1>9. CASE Add(w)
    BY <1>9 DEF Add
  <1>10. CASE AddDuplicate(w)
    BY <1>10 DEF AddDuplicate
  <1>11. CASE Store(w)
    BY <1>11 DEF Store
  <1>12. CASE Recover(w)
    BY <1>12 DEF Recover, AnswerReplay
  <1> QED
    BY <1>1, <1>2, <1>3, <1>4, <1>5, <1>6, <1>7, <1>8, <1>9, <1>10, <1>11, <1>12 DEF ReserveStep

LEMMA LockCancel ==
    ASSUME TypeInv, LockInv, NEW w \in Workers, CancelStep(w) \/ Respond(w)
    PROVE  LockInv'
  <1> USE InMemoryAssumption DEF TypeInv, TypeOK, InHand, LockInv, Goto, Finish, TakeTable,
          TableFree, ledgerVars, locks, FleetPc, CancelPc
  <1>1. CASE LockBooking(w)
    BY <1>1 DEF LockBooking
  <1>2. CASE BookingMissing(w)
    BY <1>2 DEF BookingMissing
  <1>3. CASE KeepBooking(w)
    BY <1>3 DEF KeepBooking
  <1>4. CASE CancelBooking(w)
    BY <1>4 DEF CancelBooking
  <1>5. CASE Save(w)
    BY <1>5 DEF Save
  <1>6. CASE Respond(w)
    BY <1>6 DEF Respond
  <1> QED
    BY <1>1, <1>2, <1>3, <1>4, <1>5, <1>6 DEF CancelStep

LEMMA LockStep == TypeInv /\ LockInv /\ [Next]_vars => LockInv'
  <1> SUFFICES ASSUME TypeInv, LockInv, [Next]_vars PROVE LockInv'
    OBVIOUS
  <1>1. CASE Tick \/ UNCHANGED vars
    BY <1>1 DEF Tick, vars, LockInv, ledgerVars, locks
  <1> QED
    BY <1>1, LockReceive, LockReserve, LockCancel DEF Next, Terminated, Progress

-----------------------------------------------------------------------------
(* Bookings *)

\* w alone holds the table lock, so no other thread is deciding or storing.
LEMMA TableIsHeld ==
    ASSUME LockInv, NEW w \in Workers, pc[w] \in {"store", "decide", "save"},
           NEW v \in Workers, v # w
    PROVE  pc[v] \notin {"store", "decide", "save"}
  BY DEF LockInv

\* Two threads in the exclusive block are there for different types.
LEMMA FleetIsHeld ==
    ASSUME TypeInv, LockInv, NEW w \in Workers, NEW v \in Workers, v # w,
           pc[w] \in FleetPc, pc[v] \in FleetPc
    PROVE  req[v].carType # req[w].carType
  <1>1. req[w].carType \in CarTypes
    BY DEF TypeInv, InHand, ReservePc, ReserveRequest
  <1> QED
    BY <1>1 DEF LockInv

\* What Save writes: one booking, cancelled.
LEMMA SaveCancels ==
    ASSUME TypeInv, RowInv, NEW w \in Workers, Save(w)
    PROVE  /\ pc[w] = "save" /\ req[w] \in CancelRequest
           /\ \E b \in bookings : \E t \in 0 .. now :
                /\ Decision(w, b, t)
                /\ bookings' = (bookings \ {b}) \cup {Cancelled(b, t)}
           /\ UNCHANGED <<now, fleet, nextId, req, booking>>
  <1>1. pc[w] = "save" /\ req[w] \in CancelRequest
    BY DEF Save, Goto, TypeInv, InHand, CancelPc
  <1>2. PICK b \in bookings, t \in 0 .. now : Decision(w, b, t)
    BY <1>1 DEF RowInv, Knows
  <1>3. Cancelled(b, t).id = b.id
    BY CancelledFields DEF TypeInv, TypeOK
  <1>4. {c \in bookings : c.id # b.id} = bookings \ {b}
    BY DEF RowInv
  <1>5. bookings' = (bookings \ {b}) \cup {Cancelled(b, t)}
    BY <1>2, <1>3, <1>4 DEF Save, Decision
  <1> QED
    BY <1>1, <1>2, <1>5 DEF Save

\* What a thread knows does not depend on what leaves the bookings alone.
LEMMA KnowsFrame ==
    ASSUME NEW v \in Workers, Knows(v), now \in Nat, now' \in Nat, now <= now',
           bookings' = bookings, pc'[v] = pc[v], req'[v] = req[v], booking'[v] = booking[v]
    PROVE  Knows(v)'
  BY DEF Knows, Decision

\* Nobody stores a booking that another thread has made sure is not there.
LEMMA KnowsStore ==
    ASSUME TypeInv, LockInv, NEW w \in Workers, Store(w), NEW v \in Workers, v # w, Knows(v)
    PROVE  Knows(v)'
  <1>1. /\ pc'[v] = pc[v] /\ req'[v] = req[v] /\ booking'[v] = booking[v] /\ now' = now
        /\ pc[v] \notin {"store", "decide", "save"} /\ pc[w] = "store"
        /\ bookings' = bookings \cup {NewBooking(w)}
    BY OthersStay, TableIsHeld, StoreStores DEF TypeInv, Progress, ReserveStep
  <1>2. pc[v] \in FleetPc => NewBooking(w).carType # req[v].carType
    BY <1>1, FleetIsHeld DEF FleetPc, NewBooking
  <1>3. \A b \in bookings' : b \in bookings \/ b = NewBooking(w)
    BY <1>1
  <1> USE DEF Knows
  <1>4. pc[v] \in {"validate", "read_schedule", "add"} =>
            \A b \in bookings' : ~(IsAbout(b, req[v]) /\ b.carType = req[v].carType)
    BY <1>2, <1>3 DEF FleetPc
  <1>5. pc[v] = "recover" => \E b \in bookings' : IsAbout(b, req[v])
    BY <1>1
  <1>6. pc[v] \in {"read_schedule", "add"} => \E t \in 0 .. now : Permits(req[v].period, t)
    BY <1>1
  <1> QED
    BY <1>1, <1>4, <1>5, <1>6

\* A cancelled booking keeps its key.
LEMMA KnowsSave ==
    ASSUME TypeInv, LockInv, RowInv, NEW w \in Workers, Save(w), NEW v \in Workers, v # w
    PROVE  Knows(v)'
  <1>1. /\ pc'[v] = pc[v] /\ req'[v] = req[v] /\ booking'[v] = booking[v] /\ now' = now
        /\ pc[v] \notin {"store", "decide", "save"}
    BY SaveCancels, OthersStay, TableIsHeld DEF TypeInv, Progress, CancelStep
  <1>2. PICK b \in bookings, t \in 0 .. now :
            bookings' = (bookings \ {b}) \cup {Cancelled(b, t)}
    BY SaveCancels
  <1>3. /\ IsAbout(Cancelled(b, t), req[v]) <=> IsAbout(b, req[v])
        /\ Cancelled(b, t).carType = b.carType
    BY CancelledFields DEF TypeInv, TypeOK, IsAbout
  <1>4. \A c \in bookings' : c = Cancelled(b, t) \/ c \in bookings
    BY <1>2
  <1>5. \A c \in bookings : c = b \/ c \in bookings'
    BY <1>2
  <1>6. Cancelled(b, t) \in bookings'
    BY <1>2
  <1>7. Knows(v)
    BY DEF RowInv
  <1> USE DEF Knows
  <1>8. pc[v] \in {"validate", "read_schedule", "add"} =>
            \A c \in bookings' : ~(IsAbout(c, req[v]) /\ c.carType = req[v].carType)
    BY <1>3, <1>4, <1>7
  <1>9. pc[v] = "recover" => \E c \in bookings' : IsAbout(c, req[v])
    BY <1>3, <1>5, <1>6, <1>7
  <1>10. pc[v] \in {"read_schedule", "add"} => \E u \in 0 .. now : Permits(req[v].period, u)
    BY <1>7
  <1> QED
    BY <1>1, <1>8, <1>9, <1>10

\* What w itself learns.
LEMMA KnowsReserve ==
    ASSUME TypeInv, LockInv, RowInv, NEW w \in Workers, ReserveStep(w)
    PROVE  Knows(w)'
  <1> USE DEF TypeInv, TypeOK, Goto
  <1>1. Knows(w)
    BY DEF RowInv
  <1>2. CASE LockFleet(w)
    BY <1>2 DEF LockFleet, Knows
  <1>3. CASE CarTypeMissing(w)
    BY <1>3 DEF CarTypeMissing, Knows
  <1>4. CASE FindNoKey(w)
    BY <1>4 DEF FindNoKey, FindByKey, Knows, ledgerVars
  <1>5. CASE FindKey(w)
    BY <1>5 DEF FindKey, Knows
  <1>6. CASE Accept(w)
    <2>1. /\ pc[w] = "validate" /\ pc'[w] = "read_schedule"
          /\ UNCHANGED <<now, bookings, req>> /\ Permits(req[w].period, now)
      BY <1>6 DEF Accept, ledgerVars
    <2>2. now \in 0 .. now
      OBVIOUS
    <2>3. \E t \in 0 .. now : Permits(req[w].period, t)
      BY <2>1, <2>2
    <2> QED
      BY <1>1, <2>1, <2>3 DEF Knows
  <1>7. CASE RefusePeriod(w)
    BY <1>7 DEF RefusePeriod, Knows
  <1>8. CASE FindRoom(w)
    BY <1>1, <1>8 DEF FindRoom, Knows, ledgerVars
  <1>9. CASE FindNoRoom(w)
    BY <1>9 DEF FindNoRoom, Knows
  <1>10. CASE Add(w)
    BY <1>1, <1>10 DEF Add, FindByKey, Knows, ledgerVars
  <1>11. CASE AddDuplicate(w)
    BY <1>11 DEF AddDuplicate, FindByKey, Knows, ledgerVars
  <1>12. CASE Store(w)
    BY <1>12 DEF Store, Knows
  <1>13. CASE Recover(w)
    BY <1>13 DEF Recover, Knows
  <1> QED
    BY <1>2, <1>3, <1>4, <1>5, <1>6, <1>7, <1>8, <1>9, <1>10, <1>11, <1>12, <1>13
       DEF ReserveStep

LEMMA KnowsCancel ==
    ASSUME TypeInv, LockInv, RowInv, NEW w \in Workers,
           Receive(w) \/ CancelStep(w) \/ Respond(w)
    PROVE  Knows(w)'
  <1> USE DEF TypeInv, TypeOK, Goto
  <1>1. Knows(w)
    BY DEF RowInv
  <1>2. CASE Receive(w)
    BY <1>2 DEF Receive, ReceiveReserve, RefuseKey, ReceiveCancel, Knows
  <1>3. CASE LockBooking(w)
    BY <1>3 DEF LockBooking, Knows, ledgerVars
  <1>4. CASE BookingMissing(w)
    BY <1>4 DEF BookingMissing, Knows
  <1>5. CASE KeepBooking(w)
    BY <1>5 DEF KeepBooking, Knows
  <1>6. CASE CancelBooking(w)
    <2>1. /\ pc[w] = "decide" /\ pc'[w] = "save"
          /\ ~IsCancelled(booking[w]) /\ now < booking[w].period.end
          /\ booking'[w] = Cancelled(booking[w], now)
          /\ UNCHANGED <<now, bookings, req>>
      BY <1>6 DEF CancelBooking, ledgerVars
    <2>2. PICK b \in bookings : b = booking[w]
      BY <1>1, <2>1 DEF Knows
    <2>3. PICK t \in 0 .. now : t = now
      OBVIOUS
    <2>4. Decision(w, b, t)'
      BY <1>1, <2>1, <2>2, <2>3 DEF Knows, Decision
    <2>5. \E c \in bookings' : \E u \in 0 .. now' : Decision(w, c, u)'
      BY <2>1, <2>4
    <2> QED
      BY <2>1, <2>5 DEF Knows
  <1>7. CASE Save(w)
    BY <1>7 DEF Save, Knows
  <1>8. CASE Respond(w)
    BY <1>8 DEF Respond, Knows
  <1> QED
    BY <1>2, <1>3, <1>4, <1>5, <1>6, <1>7, <1>8 DEF CancelStep

\* Nothing but Store and Save writes the dictionary.
LEMMA OnlyTwoWrite ==
    ASSUME NEW w \in Workers, Receive(w) \/ Progress(w), ~Store(w), ~Save(w)
    PROVE  UNCHANGED <<now, fleet, bookings, nextId>>
  BY DEF Receive, Progress, ReserveStep, CancelStep, ReceiveReserve, RefuseKey,
         ReceiveCancel, LockFleet, CarTypeMissing, FindNoKey, FindKey, Accept, RefusePeriod,
         FindRoom, FindNoRoom, Add, AddDuplicate, Recover, LockBooking, BookingMissing,
         KeepBooking, CancelBooking, Respond, ledgerVars

LEMMA RowInit == Init => RowInv
  BY FS_EmptySet DEF Init, RowInv, Knows

LEMMA RowStore ==
    ASSUME TypeInv, LockInv, RowInv, NEW w \in Workers, Store(w)
    PROVE  RowInv'
  <1>1. /\ pc[w] = "store" /\ bookings' = bookings \cup {NewBooking(w)}
        /\ nextId' = nextId + 1 /\ nextId \in Nat /\ req[w] \in ReserveRequest
    BY StoreStores DEF TypeInv, TypeOK
  <1>2. /\ NewBooking(w).id = nextId
        /\ IsAbout(NewBooking(w), req[w])
    BY <1>1, NewFields DEF TypeInv
  <1>3. \A b \in bookings : b.id \in Nat /\ b.id < nextId /\ ~IsAbout(b, req[w])
    BY <1>1 DEF RowInv, Knows, TypeInv, TypeOK, BookingRecord
  <1>4. \A b \in bookings' : b \in bookings \/ b = NewBooking(w)
    BY <1>1
  <1>5. IsFiniteSet(bookings')
    BY <1>1, FS_AddElement DEF RowInv
  <1>6. \A b \in bookings' : b.id < nextId'
    BY <1>1, <1>2, <1>3, <1>4
  <1>7. \A b \in bookings : b.id # NewBooking(w).id /\ ~SameKey(b, NewBooking(w))
                            /\ ~SameKey(NewBooking(w), b)
    BY <1>2, <1>3 DEF SameKey, IsAbout
  <1>8. \A b, c \in bookings' : b.id = c.id \/ SameKey(b, c) => b = c
    BY <1>4, <1>7 DEF RowInv
  <1>9. \A v \in Workers : Knows(v)'
    BY KnowsStore, KnowsReserve DEF RowInv, ReserveStep
  <1> QED
    BY <1>5, <1>6, <1>8, <1>9 DEF RowInv

LEMMA RowSave ==
    ASSUME TypeInv, LockInv, RowInv, NEW w \in Workers, Save(w)
    PROVE  RowInv'
  <1>1. PICK b \in bookings, t \in 0 .. now :
            bookings' = (bookings \ {b}) \cup {Cancelled(b, t)}
    BY SaveCancels
  <1>2. /\ Cancelled(b, t).id = b.id
        /\ Cancelled(b, t).customer = b.customer
        /\ Cancelled(b, t).key = b.key
    BY CancelledFields DEF TypeInv, TypeOK
  <1>3. nextId' = nextId
    BY SaveCancels
  <1>4. \A c \in bookings' : (c \in bookings /\ c # b) \/ c = Cancelled(b, t)
    BY <1>1
  <1>5. IsFiniteSet(bookings')
    BY <1>1, FS_RemoveElement, FS_AddElement DEF RowInv
  <1>6. \A c \in bookings' : c.id < nextId'
    BY <1>2, <1>3, <1>4 DEF RowInv
  <1>7. \A c, d \in bookings' : c.id = d.id \/ SameKey(c, d) => c = d
    BY <1>2, <1>4 DEF RowInv, SameKey
  <1>8. \A v \in Workers : Knows(v)'
    BY KnowsSave, KnowsCancel DEF CancelStep
  <1> QED
    BY <1>5, <1>6, <1>7, <1>8 DEF RowInv

LEMMA RowStep == TypeInv /\ LockInv /\ RowInv /\ [Next]_vars => RowInv'
  <1> SUFFICES ASSUME TypeInv, LockInv, RowInv, [Next]_vars PROVE RowInv'
    OBVIOUS
  <1>1. ASSUME NEW w \in Workers, Receive(w) \/ Progress(w), ~Store(w), ~Save(w)
        PROVE  RowInv'
    <2>1. UNCHANGED <<now, fleet, bookings, nextId>>
      BY <1>1, OnlyTwoWrite
    <2>2. ASSUME NEW v \in Workers, v # w PROVE Knows(v)'
      BY <1>1, <2>1, <2>2, OthersStay, KnowsFrame DEF RowInv, TypeInv, TypeOK
    <2>3. Knows(w)'
      BY <1>1, KnowsReserve, KnowsCancel DEF Progress
    <2> QED
      BY <2>1, <2>2, <2>3 DEF RowInv
  <1>2. CASE Tick \/ UNCHANGED vars
    <2>1. /\ now \in Nat /\ now' \in Nat /\ now <= now'
          /\ UNCHANGED <<bookings, nextId, pc, req, booking>>
      BY <1>2 DEF Tick, vars, ledgerVars, TypeInv, TypeOK
    <2> QED
      BY <2>1, KnowsFrame DEF RowInv
  <1> QED
    BY <1>1, <1>2, RowStore, RowSave DEF Next, Terminated

-----------------------------------------------------------------------------
(* Room *)

LEMMA PeriodsAreIntervals == \A p \in Periods : p \in Period(Int)
  <1> SUFFICES ASSUME NEW p \in Periods PROVE p \in Period(Int)
    OBVIOUS
  <1>1. p \in [start : Instants, end : Instants] /\ p.start < p.end
    BY BookingAssumption DEF Period
  <1>2. Instants \subseteq Int
    BY BookingAssumption
  <1> QED
    BY <1>1, <1>2 DEF Period

LEMMA ActiveIsFinite ==
    ASSUME IsFiniteSet(bookings), NEW ct
    PROVE  IsFiniteSet(Active(ct))
  BY FS_Subset DEF Active

\* The schedule read under the fleet's lock.
LEMMA ScheduleAsRead ==
    ASSUME TypeInv, LockInv, RowInv, NEW w \in Workers, pc[w] = "read_schedule"
    PROVE  /\ IsFiniteSet(Active(req[w].carType))
           /\ \A b \in Active(req[w].carType) :
                  b.period \in Periods /\ b.period \in Period(Int)
           /\ req[w].period \in Periods /\ req[w].period \in Period(Int)
           /\ fleet[req[w].carType] \in Int
           /\ HasRoom(w) <=>
                  CanAccommodate(fleet[req[w].carType],
                                 Within(Active(req[w].carType), req[w].period), req[w].period)
  <1>1. req[w].carType \in CarTypes /\ req[w].period \in Periods
    BY DEF TypeInv, InHand, ReservePc, FleetPc, ReserveRequest
  <1>2. fleet[req[w].carType] \in Int
    BY <1>1 DEF TypeInv, TypeOK, NoFleet
  <1>3. IsFiniteSet(Active(req[w].carType))
    BY ActiveIsFinite DEF RowInv
  <1>4. \A b \in Active(req[w].carType) : b.period \in Periods
    BY DEF Active, TypeInv, TypeOK, BookingRecord
  <1>5. BookedDuring(req[w].carType, req[w].period)
            = Within(Active(req[w].carType), req[w].period)
    BY DEF BookedDuring, Within, Active
  <1> QED
    BY <1>1, <1>2, <1>3, <1>4, <1>5, PeriodsAreIntervals DEF HasRoom

LEMMA HasRoomIsRoom ==
    ASSUME TypeInv, LockInv, RowInv, NEW w \in Workers, pc[w] = "read_schedule"
    PROVE  HasRoom(w) <=> Room(w)
  BY ScheduleAsRead, SweepFindsRoom DEF Room, Usage

\* When no room is found, no car is left at the start of the request or of a
\* booking.
LEMMA NoRoomAtAnInstant ==
    ASSUME TypeInv, LockInv, RowInv, NEW w \in Workers, pc[w] = "read_schedule", ~HasRoom(w)
    PROVE  \E t \in Instants :
              Covers(req[w].period, t) /\ Usage(req[w].carType, t) >= fleet[req[w].carType]
  <1> DEFINE S == Active(req[w].carType)
             p == req[w].period
             n == fleet[req[w].carType]
  <1>1. /\ IsFiniteSet(S) /\ \A b \in S : b.period \in Periods /\ b.period \in Period(Int)
        /\ p \in Periods /\ p \in Period(Int) /\ n \in Int
        /\ ~CanAccommodate(n, Within(S, p), p)
    BY ScheduleAsRead
  <1>2. \A q \in Periods : q.start \in Instants
    BY BookingAssumption DEF Period
  <1> HIDE DEF S, p, n
  <1>3. PICK t \in Int :
            /\ t = p.start \/ \E b \in S : t = b.period.start
            /\ Covers(p, t)
            /\ UsageAt(S, t) >= n
    BY <1>1, SweepFindsRoom
  <1>4. t \in Instants
    BY <1>1, <1>2, <1>3
  <1> QED
    BY <1>3, <1>4 DEF S, p, n, Usage

LEMMA RoomInit == Init => RoomInv
  BY DEF Init, RoomInv

LEMMA RoomFrame ==
    ASSUME NEW v \in Workers, Room(v), UNCHANGED <<bookings, fleet>>, req'[v] = req[v]
    PROVE  Room(v)'
  BY DEF Room, Usage, UsageAt, Active

\* A step that puts no more cars on the road leaves the others their room.
LEMMA RoomLess ==
    ASSUME TypeInv, RowInv, NEW v \in Workers, Room(v), pc[v] \in {"add", "store"},
           UNCHANGED fleet, req'[v] = req[v],
           Active(req[v].carType)' \subseteq Active(req[v].carType)
    PROVE  Room(v)'
  <1> DEFINE ct == req[v].carType
             S == Active(ct)
             T == Active(ct)'
  <1>1. IsFiniteSet(S)
    BY ActiveIsFinite DEF RowInv
  <1>2. fleet[ct] \in Int
    BY DEF TypeInv, TypeOK, InHand, ReservePc, FleetPc, ReserveRequest, NoFleet
  <1>3. \A t \in Int : UsageAt(S, t) \in Nat /\ UsageAt(T, t) \in Nat
                       /\ UsageAt(T, t) <= UsageAt(S, t)
    <2> HIDE DEF S, T
    <2>1. T \subseteq S
      BY DEF S, T
    <2> QED
      BY <1>1, <2>1, UsageChanges
  <1>4. \A t \in Int : Covers(req[v].period, t) => UsageAt(S, t) < fleet[ct]
    BY DEF Room, Usage
  <1>5. \A t \in Int : Covers(req[v].period, t) => UsageAt(T, t) < fleet[ct]
    <2> HIDE DEF S, T, ct
    <2> QED
      BY <1>2, <1>3, <1>4
  <1> QED
    BY <1>5 DEF Room, Usage

LEMMA RoomStep == TypeInv /\ LockInv /\ RowInv /\ RoomInv /\ [Next]_vars => RoomInv'
  <1> SUFFICES ASSUME TypeInv, LockInv, RowInv, RoomInv, [Next]_vars PROVE RoomInv'
    OBVIOUS
  <1>1. ASSUME NEW w \in Workers, Receive(w) \/ Progress(w), ~Store(w), ~Save(w)
        PROVE  RoomInv'
    <2>1. UNCHANGED <<fleet, bookings>>
      BY <1>1, OnlyTwoWrite
    <2>2. ASSUME NEW v \in Workers, v # w, pc'[v] \in {"add", "store"} PROVE Room(v)'
      BY <1>1, <2>1, <2>2, OthersStay, RoomFrame DEF RoomInv, TypeInv
    <2>3. pc'[w] \in {"add", "store"} =>
              /\ req'[w] = req[w]
              /\ (pc[w] = "read_schedule" /\ HasRoom(w)) \/ pc[w] = "add"
      BY <1>1 DEF TypeInv, TypeOK, Receive, Progress, ReserveStep, CancelStep, ReceiveReserve,
           RefuseKey, ReceiveCancel, LockFleet, CarTypeMissing, FindNoKey, FindKey, Accept,
           RefusePeriod, FindRoom, FindNoRoom, Add, AddDuplicate, Recover, LockBooking,
           BookingMissing, KeepBooking, CancelBooking, Respond, Goto
    <2>4. pc'[w] \in {"add", "store"} => Room(w)'
      BY <2>1, <2>3, HasRoomIsRoom, RoomFrame DEF RoomInv
    <2> QED
      BY <2>2, <2>4 DEF RoomInv
  <1>2. ASSUME NEW w \in Workers, Store(w) PROVE RoomInv'
    <2>1. /\ pc[w] = "store" /\ pc'[w] = "done" /\ UNCHANGED <<fleet, req>>
          /\ bookings' = bookings \cup {NewBooking(w)}
      BY <1>2, StoreStores DEF TypeInv, TypeOK
    <2>2. ASSUME NEW v \in Workers, pc'[v] \in {"add", "store"} PROVE Room(v)'
      <3>1. v # w /\ pc[v] = pc'[v]
        BY <1>2, <2>1, <2>2, OthersStay DEF TypeInv, Progress, ReserveStep
      <3>2. NewBooking(w).carType # req[v].carType
        BY <2>1, <2>2, <3>1, FleetIsHeld DEF FleetPc, NewBooking
      <3>3. Active(req[v].carType)' \subseteq Active(req[v].carType)
        BY <2>1, <3>2 DEF Active
      <3> QED
        BY <2>1, <2>2, <3>1, <3>3, RoomLess DEF RoomInv
    <2> QED
      BY <2>2 DEF RoomInv
  <1>3. ASSUME NEW w \in Workers, Save(w) PROVE RoomInv'
    <2>1. pc[w] = "save" /\ pc'[w] = "done" /\ UNCHANGED <<fleet, req>>
      BY <1>3, SaveCancels DEF TypeInv, TypeOK, Save, Goto
    <2>2. PICK b \in bookings, t \in 0 .. now :
              bookings' = (bookings \ {b}) \cup {Cancelled(b, t)}
      BY <1>3, SaveCancels
    <2>3. IsCancelled(Cancelled(b, t))
      BY CancelledFields DEF TypeInv, TypeOK
    <2>4. ASSUME NEW v \in Workers, pc'[v] \in {"add", "store"} PROVE Room(v)'
      <3>1. v # w /\ pc[v] = pc'[v]
        BY <1>3, <2>1, <2>4, OthersStay DEF TypeInv, Progress, CancelStep
      <3>2. Active(req[v].carType)' \subseteq Active(req[v].carType)
        BY <2>1, <2>2, <2>3 DEF Active
      <3> QED
        BY <2>1, <2>4, <3>1, <3>2, RoomLess DEF RoomInv
    <2> QED
      BY <2>4 DEF RoomInv
  <1>4. CASE Tick \/ UNCHANGED vars
    <2>1. UNCHANGED <<bookings, fleet, pc, req>>
      BY <1>4 DEF Tick, vars, ledgerVars
    <2> QED
      BY <2>1, RoomFrame DEF RoomInv
  <1> QED
    BY <1>1, <1>2, <1>3, <1>4 DEF Next, Terminated

-----------------------------------------------------------------------------
(* The invariant *)

DeskInv == TypeInv /\ LockInv /\ RowInv /\ RoomInv

LEMMA DeskInvariant == Spec => []DeskInv
  <1>1. Init => DeskInv
    BY TypeInit, LockInit, RowInit, RoomInit DEF DeskInv
  <1>2. DeskInv /\ [Next]_vars => DeskInv'
    BY TypeStep, LockStep, RowStep, RoomStep DEF DeskInv
  <1> QED
    BY <1>1, <1>2, PTL DEF Spec

\* Every variable of the in-memory ledger keeps its type, however its threads
\* interleave; in particular no caller of reserve() ever sees the ledger's
\* DuplicateIdempotencyKey, since who loses a race for a key finds the winner.
THEOREM InMemoryTypes == Spec => []TypeOK
  <1>1. DeskInv => TypeOK
    BY DEF DeskInv, TypeInv
  <1> QED
    BY <1>1, DeskInvariant, PTL

\* Keys are looked for under two fleet locks and stored under one table lock,
\* and name one booking each.
THEOREM InMemoryKeyBooksOnce ==
    Spec => [](\A b, c \in bookings : SameKey(b, c) => b = c)
  <1>1. DeskInv => \A b, c \in bookings : SameKey(b, c) => b = c
    BY DEF DeskInv, RowInv
  <1> QED
    BY <1>1, DeskInvariant, PTL

\* Every car that is out is one of the fleet's.
CarsSuffice ==
    \A ct \in CarTypes, t \in Int : fleet[ct] # NoFleet => Usage(ct, t) <= fleet[ct]

LEMMA CarsAreCounted ==
    ASSUME TypeInv, RowInv, NEW ct \in CarTypes
    PROVE  IsFiniteSet(Active(ct)) /\ fleet[ct] \in Int /\ \A t : Usage(ct, t) \in Nat
  <1>1. IsFiniteSet(Active(ct))
    BY ActiveIsFinite DEF RowInv
  <1>2. fleet[ct] \in Int
    BY DEF TypeInv, TypeOK, NoFleet
  <1> HIDE DEF Active
  <1> QED
    BY <1>1, <1>2, UsageChanges DEF Usage

\* A step that puts no more cars on the road leaves enough of them.
LEMMA CarsStillSuffice ==
    ASSUME TypeInv, RowInv, CarsSuffice, UNCHANGED fleet,
           \A ct \in CarTypes : Active(ct)' \subseteq Active(ct)
    PROVE  CarsSuffice'
  <1> SUFFICES ASSUME NEW ct \in CarTypes, NEW t \in Int, fleet[ct] # NoFleet
               PROVE  Usage(ct, t)' <= fleet[ct]
    BY DEF CarsSuffice
  <1>1. PICK S, T : S = Active(ct) /\ T = Active(ct)'
    OBVIOUS
  <1>2. UsageAt(T, t) \in Nat /\ UsageAt(T, t) <= UsageAt(S, t) /\ UsageAt(S, t) \in Nat
    BY <1>1, CarsAreCounted, UsageChanges
  <1> QED
    BY <1>1, <1>2, CarsAreCounted DEF CarsSuffice, Usage

LEMMA StoreLeavesEnough ==
    ASSUME DeskInv, CarsSuffice, NEW w \in Workers, Store(w)
    PROVE  CarsSuffice'
  <1> SUFFICES ASSUME NEW ct \in CarTypes, NEW t \in Int, fleet'[ct] # NoFleet
               PROVE  Usage(ct, t)' <= fleet'[ct]
    BY DEF CarsSuffice
  <1> USE DEF DeskInv
  <1>1. PICK b : b = NewBooking(w)
    OBVIOUS
  <1>2. /\ pc[w] = "store" /\ req[w] \in ReserveRequest /\ UNCHANGED fleet
        /\ bookings' = bookings \cup {b}
        /\ b.carType = req[w].carType /\ b.period = req[w].period
    BY <1>1, StoreStores, NewFields DEF TypeInv
  <1>3. PICK S, T : S = Active(ct) /\ T = Active(ct)'
    OBVIOUS
  <1>4. T \subseteq S \cup {b} /\ (b.carType # ct => T \subseteq S)
    BY <1>2, <1>3 DEF Active
  <1>5. /\ UsageAt(S, t) \in Nat /\ UsageAt(T, t) \in Nat
        /\ UsageAt(T, t) <= UsageAt(S, t) + 1
        /\ b.carType # ct \/ ~Covers(b.period, t) => UsageAt(T, t) <= UsageAt(S, t)
    BY <1>3, <1>4, CarsAreCounted, UsageChanges
  <1>6. UsageAt(S, t) <= fleet[ct] /\ fleet[ct] \in Int
    BY <1>2, <1>3, CarsAreCounted DEF CarsSuffice, Usage
  <1>7. b.carType = ct /\ Covers(b.period, t) => UsageAt(S, t) < fleet[ct]
    BY <1>2, <1>3 DEF RoomInv, Room, Usage
  <1> QED
    BY <1>2, <1>3, <1>5, <1>6, <1>7 DEF Usage

\* At no instant are more cars of a type out than its fleet has, however the
\* threads of the in-memory ledger interleave.
THEOREM InMemoryNeverOverbooks == Spec => []CarsSuffice
  <1>1. Init => CarsSuffice
    <2> SUFFICES ASSUME Init, NEW ct \in CarTypes, NEW t \in Int, fleet[ct] # NoFleet
                 PROVE  Usage(ct, t) <= fleet[ct]
      BY DEF CarsSuffice
    <2>1. {b \in Active(ct) : Covers(b.period, t)} = {}
      BY DEF Init, Active
    <2>2. Usage(ct, t) = 0
      BY <2>1, FS_EmptySet DEF Usage, UsageAt
    <2>3. fleet[ct] \in Nat
      BY InMemoryAssumption DEF Init
    <2> QED
      BY <2>2, <2>3
  <1>2. ASSUME DeskInv, CarsSuffice, [Next]_vars PROVE CarsSuffice'
    <2>1. CASE \E w \in Workers : Store(w)
      BY <1>2, <2>1, StoreLeavesEnough
    <2>2. ASSUME NEW w \in Workers, Save(w) PROVE CarsSuffice'
      <3>1. PICK b \in bookings, t \in 0 .. now :
                bookings' = (bookings \ {b}) \cup {Cancelled(b, t)}
        BY <1>2, <2>2, SaveCancels DEF DeskInv
      <3>2. IsCancelled(Cancelled(b, t))
        BY <1>2, CancelledFields DEF DeskInv, TypeInv, TypeOK
      <3>3. UNCHANGED fleet
        BY <2>2 DEF Save
      <3>4. \A ct \in CarTypes : Active(ct)' \subseteq Active(ct)
        BY <3>1, <3>2 DEF Active
      <3> QED
        BY <1>2, <3>3, <3>4, CarsStillSuffice DEF DeskInv
    <2>3. CASE \A w \in Workers : ~Store(w) /\ ~Save(w)
      <3>1. UNCHANGED <<bookings, fleet>>
        BY <1>2, <2>3, OnlyTwoWrite DEF Next, Tick, Terminated, vars, ledgerVars
      <3>2. \A ct \in CarTypes : Active(ct)' \subseteq Active(ct)
        BY <3>1 DEF Active
      <3> QED
        BY <1>2, <3>1, <3>2, CarsStillSuffice DEF DeskInv
    <2> QED
      BY <2>1, <2>2, <2>3
  <1> QED
    BY <1>1, <1>2, DeskInvariant, PTL DEF Spec

-----------------------------------------------------------------------------
(* The promises: what the words of Reservations mean here *)

\* The copies of the desk's operators that INSTANCE makes have the values of
\* those they are copies of.
LEMMA PromiseRequests ==
    /\ Promise!ReserveRequest = ReserveRequest
    /\ Promise!CancelRequest = CancelRequest
    /\ Promise!NoRequest = NoRequest
    /\ Promise!NoBooking = NoBooking
    /\ Promise!NoFleet = NoFleet
  BY DEF Promise!ReserveRequest, ReserveRequest, Promise!CancelRequest, CancelRequest,
         Promise!NoRequest, NoRequest, Promise!NoBooking, NoBooking, Promise!NoFleet, NoFleet

LEMMA PromiseBookings ==
    ASSUME NEW b
    PROVE  /\ Promise!IsCancelled(b) <=> IsCancelled(b)
           /\ \A r : Promise!IsAbout(b, r) <=> IsAbout(b, r)
           /\ \A a : Promise!MayBeManagedBy(b, a) <=> MayBeManagedBy(b, a)
           /\ \A ct, p : Promise!IsFor(b, ct, p) <=> IsFor(b, ct, p)
           /\ \A t : Promise!Cancelled(b, t) = Cancelled(b, t)
  BY DEF Promise!IsCancelled, IsCancelled, Promise!NotCancelled, NotCancelled,
         Promise!IsAbout, IsAbout, Promise!MayBeManagedBy, MayBeManagedBy,
         Promise!IsFor, IsFor, Promise!Cancelled, Cancelled

LEMMA PromisePeriods ==
    ASSUME NEW p, NEW t
    PROVE  /\ Promise!Covers(p, t) <=> Covers(p, t)
           /\ Promise!Permits(p, t) <=> Permits(p, t)
  BY DEF Promise!Covers, Covers, Promise!Permits, Permits, Promise!Duration, Duration

LEMMA PromiseUsage == \A ct, t : Promise!CarsOut(ct, t) = Usage(ct, t)
  <1>1. \A S : Promise!Cardinality(S) = Cardinality(S)
    BY DEF Promise!Cardinality, Cardinality
  <1> QED
    BY <1>1, PromiseBookings, PromisePeriods
       DEF Promise!CarsOut, Usage, Active, UsageAt, Promise!UsageAt

LEMMA PromiseToDo ==
    ASSUME NEW w \in Workers
    PROVE  /\ Promise!ToReserve(w) <=> req[w] \in ReserveRequest /\ result[w] = "none"
           /\ Promise!ToCancel(w) <=> req[w] \in CancelRequest /\ result[w] = "none"
  BY PromiseRequests DEF Promise!ToReserve, Promise!ToCancel

\* The booking that goes with an answer.
Told == [w \in Workers |->
    IF result[w] \in {"booked", "replayed", "cancelled"} THEN booking[w] ELSE NoBooking]

PromiseVars == <<now, fleet, bookings, req, result, Told>>

\* What a thread reports when it is done is what its request's effect answers.
LEMMA Decides ==
    ASSUME TypeOK, NEW w \in Workers, Receive(w) \/ Progress(w), NEW x, NEW b,
           result' = [result EXCEPT ![w] = x], booking'[w] = b,
           x \notin {"booked", "replayed", "cancelled"} => b = NoBooking,
           UNCHANGED <<now, fleet, req>>
    PROVE  Promise!Answer(w, x, b)
  <1>1. result'[w] = x
    BY DEF TypeOK
  <1>2. ASSUME NEW v \in Workers, v # w PROVE Told'[v] = Told[v]
    BY <1>2, OthersStay DEF Told
  <1>3. Told'[w] = b
    BY <1>1 DEF Told
  <1>4. Told = [v \in Workers |-> Told[v]] /\ Told' = [v \in Workers |-> Told'[v]]
    BY DEF Told
  <1>5. Told' = [Told EXCEPT ![w] = b]
    <2> HIDE DEF Told
    <2> QED
      BY <1>2, <1>3, <1>4
  <1> QED
    BY <1>5, PromiseRequests DEF Promise!Answer, Told

LEMMA FinishAnswers ==
    ASSUME TypeOK, NEW w \in Workers, Receive(w) \/ Progress(w), NEW x, NEW b,
           Finish(w, x, b),
           x \notin {"booked", "replayed", "cancelled"} => b = NoBooking,
           UNCHANGED <<now, fleet, req>>
    PROVE  Promise!Answer(w, x, b)
  <1>1. booking'[w] = b
    BY DEF Finish, TypeOK
  <1> QED
    BY <1>1, Decides DEF Finish

\* A step that decides nothing does not show.
LEMMA Silent ==
    ASSUME TypeOK, NEW w \in Workers, Receive(w) \/ Progress(w), result[w] = "none",
           UNCHANGED <<now, fleet, bookings, req, result>>
    PROVE  UNCHANGED PromiseVars
  <1>1. ASSUME NEW v \in Workers PROVE Told'[v] = Told[v]
    BY OthersStay DEF Told
  <1>2. Told = [v \in Workers |-> Told[v]] /\ Told' = [v \in Workers |-> Told'[v]]
    BY DEF Told
  <1>3. Told' = Told
    <2> HIDE DEF Told
    <2> QED
      BY <1>1, <1>2
  <1> QED
    BY <1>3 DEF PromiseVars

LEMMA PromiseInit == Init => Promise!Init
  <1> SUFFICES ASSUME Init PROVE Promise!Init
    OBVIOUS
  <1>1. fleet \in [CarTypes -> Nat \cup {NoFleet}]
    BY InMemoryAssumption DEF Init
  <1>2. Told = [w \in Workers |-> NoBooking]
    BY DEF Init, Told
  <1> QED
    BY <1>1, <1>2, PromiseRequests DEF Init, Promise!Init, Told

-----------------------------------------------------------------------------
(* The promises: every step keeps them *)

LEMMA PromiseReceive ==
    ASSUME DeskInv, NEW w \in Workers, Receive(w)
    PROVE  Promise!Ask(w) \/ Promise!RefuseBadKey(w)
  <1>1. TypeOK /\ pc[w] = "idle" /\ req[w] = NoRequest /\ result[w] = "none"
    BY DEF Receive, ReceiveReserve, RefuseKey, ReceiveCancel, Goto, DeskInv, TypeInv, InHand
  <1>2. CASE ReceiveReserve(w) \/ ReceiveCancel(w)
    <2>1. /\ req'[w] \in ReserveRequest \cup CancelRequest
          /\ req' = [req EXCEPT ![w] = req'[w]]
          /\ UNCHANGED <<now, fleet, bookings, result, booking>>
      BY <1>1, <1>2 DEF ReceiveReserve, ReceiveCancel, CancelRequest, TypeOK, ledgerVars
    <2>2. UNCHANGED Told
      BY <2>1 DEF Told
    <2> QED
      BY <1>1, <2>1, <2>2, PromiseRequests DEF Promise!Ask, Told
  <1>3. CASE RefuseKey(w)
    <2>1. Promise!Answer(w, "InvalidIdempotencyKey", NoBooking)
      BY <1>1, <1>3, FinishAnswers DEF RefuseKey
    <2>2. bookings' = bookings
      BY <1>3 DEF RefuseKey, ledgerVars
    <2> QED
      BY <1>1, <2>1, <2>2, PromiseRequests DEF Promise!RefuseBadKey
  <1> QED
    BY <1>2, <1>3 DEF Receive

\* Storing the booking is the instant at which it is made.
LEMMA PromiseStore ==
    ASSUME DeskInv, NEW w \in Workers, Store(w)
    PROVE  Promise!Book(w)
  <1>1. PICK b : b = NewBooking(w)
    OBVIOUS
  <1>2. /\ TypeInv /\ TypeOK /\ RowInv /\ pc[w] = "store" /\ req[w] \in ReserveRequest
        /\ bookings' = bookings \cup {b}
        /\ Finish(w, "booked", b)
        /\ UNCHANGED <<now, fleet, req>>
    BY <1>1, StoreStores DEF DeskInv, TypeInv
  <1>3. Promise!ToReserve(w)
    BY <1>2, PromiseToDo DEF TypeInv, InHand
  <1>4. /\ b.id = nextId /\ IsAbout(b, req[w]) /\ ~IsCancelled(b)
        /\ IsFor(b, req[w].carType, req[w].period)
    BY <1>1, <1>2, NewFields DEF IsFor
  <1>5. \A c \in bookings : c.id # b.id /\ ~IsAbout(c, req[w])
    BY <1>2, <1>4 DEF RowInv, Knows, TypeOK, BookingRecord
  <1>6. \E t \in 0 .. now : Permits(req[w].period, t)
    BY <1>2 DEF RowInv, Knows
  <1>7. \A t \in Instants : Covers(req[w].period, t) =>
            Usage(req[w].carType, t) < fleet[req[w].carType]
    <2>1. Room(w) /\ Instants \subseteq Int
      BY <1>2, BookingAssumption DEF DeskInv, RoomInv
    <2> QED
      BY <2>1 DEF Room
  <1>8. Promise!TakeEffect(w, "booked", b)
    BY <1>2, FinishAnswers DEF Promise!TakeEffect, Progress, ReserveStep
  <1>9. b \in bookings' \ bookings
    BY <1>2, <1>5
  <1> QED
    BY <1>2, <1>3, <1>4, <1>5, <1>6, <1>7, <1>8, <1>9, PromiseBookings, PromisePeriods,
       PromiseUsage DEF Promise!Book

\* A key that is found is answered from its booking.
LEMMA PromiseReplay ==
    ASSUME DeskInv, NEW w \in Workers, FindKey(w) \/ Recover(w)
    PROVE  Promise!Replay(w)
  <1>1. /\ TypeInv /\ TypeOK /\ pc[w] \in {"find_key", "recover"}
        /\ UNCHANGED <<now, fleet, bookings, req>>
    BY DEF DeskInv, TypeInv, FindKey, Recover, Goto, ledgerVars
  <1>2. PICK b \in bookings : IsAbout(b, req[w]) /\ AnswerReplay(w, b)
    BY DEF FindKey, Recover, FindByKey, DeskInv, RowInv, Knows, Goto
  <1>3. Promise!ToReserve(w)
    BY <1>1, PromiseToDo DEF TypeInv, InHand, ReservePc, FleetPc
  <1>4. CASE IsFor(b, req[w].carType, req[w].period)
    <2>1. Finish(w, "replayed", b)
      BY <1>2, <1>4 DEF AnswerReplay, ReplayResult
    <2>2. Promise!Answer(w, "replayed", b)
      BY <1>1, <2>1, FinishAnswers DEF Progress, ReserveStep
    <2> QED
      BY <1>1, <1>2, <1>3, <1>4, <2>2, PromiseBookings DEF Promise!Replay
  <1>5. CASE ~IsFor(b, req[w].carType, req[w].period)
    <2>1. Finish(w, "IdempotencyConflict", NoBooking)
      BY <1>2, <1>5 DEF AnswerReplay, ReplayResult
    <2>2. Promise!Answer(w, "IdempotencyConflict", NoBooking)
      BY <1>1, <2>1, FinishAnswers DEF Progress, ReserveStep
    <2> QED
      BY <1>1, <1>2, <1>3, <1>5, <2>2, PromiseBookings, PromiseRequests DEF Promise!Replay
  <1> QED
    BY <1>4, <1>5

LEMMA PromiseRefuse ==
    ASSUME DeskInv, NEW w \in Workers, CarTypeMissing(w) \/ RefusePeriod(w) \/ FindNoRoom(w)
    PROVE  Promise!Refuse(w)
  <1>1. /\ TypeInv /\ TypeOK /\ LockInv /\ RowInv
        /\ pc[w] \in {"lock_fleet", "validate", "read_schedule"}
        /\ UNCHANGED <<now, fleet, bookings, req>>
    BY DEF DeskInv, TypeInv, CarTypeMissing, RefusePeriod, FindNoRoom, Goto, ledgerVars
  <1>2. Promise!ToReserve(w) /\ req[w] \in ReserveRequest
    BY <1>1, PromiseToDo DEF TypeInv, InHand, ReservePc, FleetPc
  <1>3. pc[w] # "lock_fleet" =>
            \A b \in bookings : ~(IsAbout(b, req[w]) /\ b.carType = req[w].carType)
    BY <1>1 DEF RowInv, Knows
  <1>4. CASE CarTypeMissing(w)
    <2>1. Promise!Answer(w, "CarTypeNotFound", NoBooking) /\ fleet[req[w].carType] = NoFleet
      BY <1>1, <1>4, FinishAnswers DEF CarTypeMissing, Known, Progress, ReserveStep
    <2> QED
      BY <1>1, <1>2, <2>1, PromiseRequests DEF Promise!Refuse
  <1>5. CASE RefusePeriod(w)
    <2>1. /\ Promise!Answer(w, "InvalidRentalPeriod", NoBooking)
          /\ ~Permits(req[w].period, now) /\ pc[w] # "lock_fleet"
      BY <1>1, <1>5, FinishAnswers DEF RefusePeriod, Goto, Progress, ReserveStep
    <2> QED
      BY <1>1, <1>2, <1>3, <2>1, PromiseRequests, PromiseBookings, PromisePeriods
         DEF Promise!Refuse
  <1>6. CASE FindNoRoom(w)
    <2>1. /\ Promise!Answer(w, "NoAvailability", NoBooking)
          /\ ~HasRoom(w) /\ pc[w] = "read_schedule"
      BY <1>1, <1>6, FinishAnswers DEF FindNoRoom, Goto, Progress, ReserveStep
    <2>2. \E t \in Instants :
              Covers(req[w].period, t) /\ Usage(req[w].carType, t) >= fleet[req[w].carType]
      BY <1>1, <2>1, NoRoomAtAnInstant
    <2> QED
      BY <1>1, <1>2, <1>3, <2>1, <2>2, PromiseRequests, PromiseBookings, PromisePeriods,
         PromiseUsage DEF Promise!Refuse
  <1> QED
    BY <1>4, <1>5, <1>6

LEMMA PromiseReserve ==
    ASSUME DeskInv, NEW w \in Workers, ReserveStep(w)
    PROVE  \/ Promise!Book(w) \/ Promise!Replay(w) \/ Promise!Refuse(w)
           \/ UNCHANGED PromiseVars
  <1>1. CASE LockFleet(w) \/ FindNoKey(w) \/ Accept(w) \/ FindRoom(w) \/ Add(w) \/ AddDuplicate(w)
    <2>1. UNCHANGED <<now, fleet, bookings, req, result>> /\ pc[w] # "done"
      BY <1>1 DEF LockFleet, FindNoKey, Accept, FindRoom, Add, AddDuplicate, Goto, ledgerVars
    <2>2. TypeOK /\ result[w] = "none"
      BY <2>1 DEF DeskInv, TypeInv, InHand
    <2> QED
      BY <2>1, <2>2, Silent DEF Progress
  <1> QED
    BY <1>1, PromiseStore, PromiseReplay, PromiseRefuse DEF ReserveStep

LEMMA PromiseCancel ==
    ASSUME DeskInv, NEW w \in Workers, CancelStep(w)
    PROVE  Promise!Cancel(w) \/ Promise!RefuseToCancel(w) \/ UNCHANGED PromiseVars
  <1>1. /\ TypeInv /\ TypeOK /\ RowInv /\ pc[w] \in CancelPc
        /\ req[w] \in CancelRequest /\ result[w] = "none"
        /\ UNCHANGED <<now, fleet, req>>
    BY DEF DeskInv, TypeInv, InHand, CancelPc, CancelStep, LockBooking, BookingMissing,
           KeepBooking, CancelBooking, Save, Goto
  <1>2. Promise!ToCancel(w)
    BY <1>1, PromiseToDo
  <1>3. Progress(w)
    BY DEF Progress
  <1>4. CASE LockBooking(w) \/ CancelBooking(w)
    <2>1. UNCHANGED <<bookings, result>>
      BY <1>4 DEF LockBooking, CancelBooking, ledgerVars
    <2> QED
      BY <1>1, <1>3, <2>1, Silent
  <1>5. CASE BookingMissing(w)
    <2>1. /\ Promise!Answer(w, "ReservationNotFound", NoBooking)
          /\ bookings' = bookings
          /\ \A b \in bookings : b.id = req[w].id => ~MayBeManagedBy(b, req[w].actor)
      BY <1>1, <1>3, <1>5, FinishAnswers DEF BookingMissing, ledgerVars
    <2> QED
      BY <1>2, <2>1, PromiseRequests, PromiseBookings DEF Promise!RefuseToCancel
  <1>6. CASE KeepBooking(w)
    <2>1. PICK b \in bookings :
              b = booking[w] /\ b.id = req[w].id /\ MayBeManagedBy(b, req[w].actor)
      BY <1>1, <1>6 DEF KeepBooking, Goto, RowInv, Knows
    <2>2. bookings' = bookings
      BY <1>6 DEF KeepBooking, ledgerVars
    <2>3. CASE IsCancelled(b) /\ Finish(w, "cancelled", b)
      <3>1. Promise!Answer(w, "cancelled", b)
        BY <1>1, <1>3, <2>3, FinishAnswers
      <3> QED
        BY <1>2, <2>1, <2>2, <2>3, <3>1, PromiseBookings DEF Promise!Cancel
    <2>4. CASE /\ ~IsCancelled(b) /\ b.period.end <= now
               /\ Finish(w, "ReservationNotCancellable", NoBooking)
      <3>1. Promise!Answer(w, "ReservationNotCancellable", NoBooking)
        BY <1>1, <1>3, <2>4, FinishAnswers
      <3> QED
        BY <1>2, <2>1, <2>2, <2>4, <3>1, PromiseBookings, PromiseRequests
           DEF Promise!RefuseToCancel
    <2> QED
      BY <1>6, <2>1, <2>3, <2>4 DEF KeepBooking
  <1>7. CASE Save(w)
    <2>1. PICK b \in bookings, t \in 0 .. now :
              /\ Decision(w, b, t)
              /\ bookings' = (bookings \ {b}) \cup {Cancelled(b, t)}
      BY <1>1, <1>7, SaveCancels
    <2>2. booking'[w] = Cancelled(b, t) /\ result' = [result EXCEPT ![w] = "cancelled"]
      BY <1>7, <2>1 DEF Save, Decision
    <2>3. Promise!Answer(w, "cancelled", Cancelled(b, t))
      BY <1>1, <1>3, <2>2, Decides
    <2>4. Promise!TakeEffect(w, "cancelled", Cancelled(b, t))
      BY <2>3 DEF Promise!TakeEffect
    <2> QED
      BY <1>2, <2>1, <2>4, PromiseBookings DEF Promise!Cancel, Decision
  <1> QED
    BY <1>4, <1>5, <1>6, <1>7 DEF CancelStep

LEMMA PromiseRespond ==
    ASSUME DeskInv, NEW w \in Workers, Respond(w)
    PROVE  Promise!Reply(w)
  <1>1. /\ TypeOK /\ result[w] # "none" /\ UNCHANGED <<now, fleet, bookings>>
        /\ req' = [req EXCEPT ![w] = NoRequest]
        /\ result' = [result EXCEPT ![w] = "none"]
    BY DEF DeskInv, TypeInv, InHand, Respond, Goto, Finish, ledgerVars
  <1>2. ASSUME NEW v \in Workers, v # w PROVE Told'[v] = Told[v]
    BY <1>1, <1>2, OthersStay DEF Told, Progress
  <1>3. Told'[w] = NoBooking
    BY <1>1 DEF Told, TypeOK
  <1>4. Told = [v \in Workers |-> Told[v]] /\ Told' = [v \in Workers |-> Told'[v]]
    BY DEF Told
  <1>5. Told' = [Told EXCEPT ![w] = NoBooking]
    <2> HIDE DEF Told
    <2> QED
      BY <1>2, <1>3, <1>4
  <1> QED
    BY <1>1, <1>5, PromiseRequests DEF Promise!Reply, Told

\* Every step is one of Reservations, or does not show in its variables.
LEMMA PromiseStep == DeskInv /\ [Next]_vars => [Promise!Next]_PromiseVars
  <1> SUFFICES ASSUME DeskInv, [Next]_vars PROVE Promise!Next \/ UNCHANGED PromiseVars
    OBVIOUS
  <1>1. ASSUME NEW w \in Workers, Receive(w) \/ Progress(w)
        PROVE  Promise!Next \/ UNCHANGED PromiseVars
    <2>1. \/ Promise!Ask(w) \/ Promise!RefuseBadKey(w)
          \/ Promise!Book(w) \/ Promise!Replay(w) \/ Promise!Refuse(w)
          \/ Promise!Cancel(w) \/ Promise!RefuseToCancel(w) \/ Promise!Reply(w)
          \/ UNCHANGED PromiseVars
      BY <1>1, PromiseReceive, PromiseReserve, PromiseCancel, PromiseRespond DEF Progress
    <2> QED
      BY <2>1 DEF Promise!Next
  <1>2. CASE Tick
    BY <1>2 DEF Tick, ledgerVars, Promise!TimePasses, Promise!Next
  <1>3. CASE UNCHANGED vars
    BY <1>3 DEF vars, ledgerVars, PromiseVars, Told
  <1> QED
    BY <1>1, <1>2, <1>3 DEF Next, Terminated

\* The in-memory ledger, without commits and rollbacks, keeps the promises the
\* PostgreSQL ledger keeps: with two kinds of locks taken one inside the other,
\* every request takes effect at one instant, and its answer was true then.
THEOREM InMemoryKeepsThePromises == Spec => KeepsThePromises
  <1>1. DeskInv /\ [Next]_vars => [Promise!Next]_(Promise!vars)
    BY PromiseStep DEF PromiseVars, Promise!vars, Told
  <1> QED
    BY <1>1, PromiseInit, DeskInvariant, PTL DEF Spec, KeepsThePromises, Promise!Spec
=============================================================================
