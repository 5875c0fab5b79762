-------------------------- MODULE FleetRows_proofs --------------------------
(* Why a booking is of the type that was asked for, on a row that has room,  *)
(* although staff rename, resize and delete rows while it waits, and why it  *)
(* takes a rename of its own row to make a retry lose its booking: for any   *)
(* fleet tables, names, sizes and periods, and any number of workers.        *)
EXTENDS FleetRows, FleetSchedule_proofs

CalledPc == {"find_fleet", "lock_fleet", "find_key", "read_schedule", "insert", "recover"}

\* What a worker has in hand.
InHand(w) ==
    /\ pc[w] \in CalledPc \cup {"form"} => req[w] \in Form
    /\ pc[w] \in CalledPc => kind[w] \in CarTypes
    /\ pc[w] = "lock_fleet" => fleet[w] \in TypeRecord

TypeInv == TypeOK /\ \A w \in Workers : InHand(w)

\* The row in hand is the row in the table, it is called what was asked for,
\* and it is nobody else's.
Locked(w) == fleet[w] \in types /\ fleet[w].name = kind[w]

LockInv ==
    /\ \A w \in Workers : InTransaction(w) => Locked(w)
    /\ \A v, w \in Workers :
          v # w /\ InTransaction(v) /\ InTransaction(w) => fleet[v].id # fleet[w].id

\* A worker that has found room still has it.
Room(w) ==
    \A i \in Int : Covers(req[w].period, i) => Usage(fleet[w].id, i) < fleet[w].size

RoomInv == \A w \in Workers : pc[w] = "insert" => Room(w)

KeysUnique == \A a, b \in rows : SameRequest(a, b) => a = b

RowInv == IsFiniteSet(rows) /\ KeysUnique

\* The primary key, whose values are never given twice, and the unique name.
NameInv ==
    /\ \A t \in types : t.id \in Nat /\ t.id < nextType
    /\ \A s, t \in types : s.id = t.id \/ s.name = t.name => s = t

SeekPc == {"find_fleet", "lock_fleet", "find_key", "read_schedule", "insert"}

\* The row a form names, unless it is touched, is called what the worker looks
\* for, and is what it finds.
Sought(w) ==
    pc[w] \in SeekPc /\ req[w].type \notin touched =>
        /\ \E t \in types : t.id = req[w].type /\ t.name = kind[w]
        /\ pc[w] # "find_fleet" => fleet[w].id = req[w].type

\* A form that has made a booking has one of the row it named, unless touched.
MadeInv ==
    \A f \in made : f.type \notin touched =>
        /\ \E b \in rows : SameRequest(b, f) /\ b.period = f.period /\ b.type = f.type
        /\ \E t \in types : t.id = f.type

\* A retry, unless its row is touched, gets no further than the lookup of its key.
Retries(w) ==
    retry[w] =>
        /\ req[w] \in made
        /\ req[w].type \notin touched =>
              /\ pc[w] \in {"form", "find_fleet", "lock_fleet", "find_key", "done"}
              /\ pc[w] = "done" => answer[w] \in {"replayed", "FleetBusy"}

UntouchedInv == NameInv /\ MadeInv /\ \A w \in Workers : Sought(w) /\ Retries(w)

RowsInv == TypeInv /\ LockInv /\ RowInv /\ RoomInv /\ UntouchedInv

-----------------------------------------------------------------------------
(* Types *)

LEMMA TypeInit == Init => TypeInv
  <1> SUFFICES ASSUME Init PROVE TypeInv
    OBVIOUS
  <1>1. types \subseteq TypeRecord /\ IsFiniteSet(types) /\ nextType \in Nat
    BY FleetRowsAssumption, FS_CardinalityType DEF Init
  <1>2. snapshot \in [Workers -> Tables]
    <2>1. NoTables \in Tables
      BY DEF NoTables, Tables
    <2> QED
      BY <2>1 DEF Init
  <1>3. TypeOK
    BY <1>1, <1>2 DEF Init, TypeOK, Outcomes
  <1>4. \A w \in Workers : InHand(w)
    BY DEF Init, InHand, CalledPc
  <1> QED
    BY <1>3, <1>4 DEF TypeInv

\* What a worker may take over from the tables.
LEMMA TablesAreTyped ==
    ASSUME TypeOK
    PROVE  [types |-> types, rows |-> rows] \in Tables /\ NoTables \in Tables
  BY DEF TypeOK, Tables, NoTables

LEMMA TypeForm ==
    ASSUME TypeInv, NEW w \in Workers, Receive(w) \/ CleanForm(w) \/ Respond(w)
    PROVE  TypeInv'
  <1> USE DEF TypeInv, TypeOK, InHand, CalledPc, Goto, Outcomes, tables, history
  <1>1. CASE Receive(w)
    BY <1>1 DEF Receive
  <1>2. CASE CleanForm(w)
    <2>1. \A t \in types : t.name \in CarTypes
      BY DEF TypeRecord
    <2> QED
      BY <1>2, <2>1 DEF CleanForm
  <1>3. CASE Respond(w)
    BY <1>3 DEF Respond
  <1> QED
    BY <1>1, <1>2, <1>3

LEMMA TypeFinish ==
    ASSUME TypeInv, NEW w \in Workers, NEW from, NEW outcome \in Outcomes, Finish(w, from, outcome),
           rows' \subseteq Reservation, made' \subseteq Form
    PROVE  TypeInv'
  BY TablesAreTyped DEF TypeInv, TypeOK, InHand, CalledPc, Goto, Finish

LEMMA TypeLock ==
    ASSUME TypeInv, NEW w \in Workers, FindFleet(w) \/ LockFleet(w) \/ LockTimeout(w)
    PROVE  TypeInv'
  <1>1. ASSUME NEW outcome \in {"CarTypeNotFound", "FleetBusy"}, NEW from,
               Finish(w, from, outcome), UNCHANGED <<rows, made>>
        PROVE  TypeInv'
    BY <1>1, TypeFinish DEF TypeInv, TypeOK, Outcomes
  <1>2. CASE LockTimeout(w)
    BY <1>1, <1>2 DEF LockTimeout
  <1>3. CASE FindFleet(w)
    <2>1. CASE Finish(w, "find_fleet", "CarTypeNotFound")
      BY <1>1, <1>3, <2>1 DEF FindFleet, Finish, Goto, TypeInv, TypeOK
    <2>2. CASE ~Finish(w, "find_fleet", "CarTypeNotFound")
      BY <1>3, <2>2, TablesAreTyped
         DEF FindFleet, TypeInv, TypeOK, InHand, CalledPc, Goto, tables, history
    <2> QED
      BY <2>1, <2>2
  <1>4. CASE LockFleet(w)
    <2>1. CASE Finish(w, "lock_fleet", "CarTypeNotFound")
      BY <1>1, <1>4, <2>1 DEF LockFleet, Finish, Goto, TypeInv, TypeOK
    <2>2. CASE ~Finish(w, "lock_fleet", "CarTypeNotFound")
      BY <1>4, <2>2
         DEF LockFleet, TypeInv, TypeOK, InHand, CalledPc, Goto, tables, history
    <2> QED
      BY <2>1, <2>2
  <1> QED
    BY <1>2, <1>3, <1>4

\* The row an insert adds.
NewRow(w) ==
    [id |-> Cardinality(rows) + 1, customer |-> req[w].customer, type |-> fleet[w].id,
     period |-> req[w].period, key |-> req[w].key]

LEMMA NewRowIsTyped ==
    ASSUME TypeInv, LockInv, RowInv, NEW w \in Workers, pc[w] = "insert"
    PROVE  NewRow(w) \in Reservation
  <1>1. Cardinality(rows) + 1 \in Nat
    BY FS_CardinalityType DEF RowInv
  <1>2. fleet[w].id \in TypeIds
    BY DEF LockInv, InTransaction, Locked, TypeInv, TypeOK, TypeRecord
  <1>3. req[w] \in Form
    BY DEF TypeInv, InHand, CalledPc
  <1> QED
    BY <1>1, <1>2, <1>3 DEF NewRow, Reservation, Form

LEMMA TypeWork ==
    ASSUME TypeInv, LockInv, RowInv, NEW w \in Workers,
           FindKey(w) \/ ReadSchedule(w) \/ Insert(w) \/ InsertDuplicate(w) \/ Recover(w)
    PROVE  TypeInv'
  <1>1. ASSUME NEW from, NEW outcome \in Outcomes, Finish(w, from, outcome),
               UNCHANGED <<rows, made>>
        PROVE  TypeInv'
    BY <1>1, TypeFinish DEF TypeInv, TypeOK
  <1>2. \A b, table : Replay(w, b, table) \in Outcomes
    BY DEF Replay, Outcomes
  <1>3. CASE FindKey(w)
    <2>1. CASE Goto(w, "find_key", "read_schedule")
      BY <1>3, <2>1 DEF FindKey, Finish, TypeInv, TypeOK, InHand, CalledPc, Goto, tables, history
    <2>2. CASE ~Goto(w, "find_key", "read_schedule")
      <3>1. \E outcome \in Outcomes : Finish(w, "find_key", outcome) /\ UNCHANGED <<rows, made>>
        <4>1. "InvalidRentalPeriod" \in Outcomes
          BY DEF Outcomes
        <4> QED
          BY <1>2, <1>3, <2>2, <4>1 DEF FindKey
      <3> QED
        BY <1>1, <3>1
    <2> QED
      BY <2>1, <2>2
  <1>4. CASE ReadSchedule(w)
    <2>1. CASE Goto(w, "read_schedule", "insert")
      BY <1>4, <2>1
         DEF ReadSchedule, Finish, TypeInv, TypeOK, InHand, CalledPc, Goto, tables, history
    <2>2. CASE ~Goto(w, "read_schedule", "insert")
      <3>1. "NoAvailability" \in Outcomes
        BY DEF Outcomes
      <3> QED
        BY <1>1, <1>4, <2>2, <3>1 DEF ReadSchedule
    <2> QED
      BY <2>1, <2>2
  <1>5. CASE Insert(w)
    <2>1. rows' = rows \cup {NewRow(w)} /\ NewRow(w) \in Reservation
      BY <1>5, NewRowIsTyped DEF Insert, NewRow
    <2>2. req[w] \in Form
      BY <1>5 DEF Insert, TypeInv, InHand, CalledPc
    <2>3. rows' \subseteq Reservation /\ made' \subseteq Form
      BY <1>5, <2>1, <2>2 DEF Insert, TypeInv, TypeOK
    <2>4. "booked" \in Outcomes
      BY DEF Outcomes
    <2> QED
      BY <1>5, <2>3, <2>4, TypeFinish DEF Insert
  <1>6. CASE InsertDuplicate(w)
    BY <1>6, TablesAreTyped
       DEF InsertDuplicate, TypeInv, TypeOK, InHand, CalledPc, Goto, tables, history
  <1>7. CASE Recover(w)
    BY <1>1, <1>2, <1>7 DEF Recover
  <1> QED
    BY <1>3, <1>4, <1>5, <1>6, <1>7

LEMMA TypeStaff ==
    ASSUME TypeInv, AddType \/ \E t \in types : EditType(t) \/ DeleteType(t)
    PROVE  TypeInv'
  <1>1. types' \subseteq TypeRecord
    <2>1. CASE AddType
      <3>1. PICK n \in CarTypes, s \in FleetSizes :
               types' = types \cup {[id |-> nextType, name |-> n, size |-> s]}
        BY <2>1 DEF AddType, StaffWrite
      <3>2. [id |-> nextType, name |-> n, size |-> s] \in TypeRecord
        BY <2>1, FleetRowsAssumption DEF AddType, TypeRecord
      <3> QED
        BY <3>1, <3>2 DEF TypeInv, TypeOK
    <2>2. ASSUME NEW t \in types, EditType(t)
          PROVE  types' \subseteq TypeRecord
      <3>1. PICK n \in CarTypes, s \in FleetSizes :
               types' = (types \ {t}) \cup {[id |-> t.id, name |-> n, size |-> s]}
        BY <2>2 DEF EditType, StaffWrite
      <3>2. [id |-> t.id, name |-> n, size |-> s] \in TypeRecord
        BY FleetRowsAssumption DEF TypeRecord, TypeInv, TypeOK
      <3> QED
        BY <3>1, <3>2 DEF TypeInv, TypeOK
    <2>3. ASSUME NEW t \in types, DeleteType(t)
          PROVE  types' \subseteq TypeRecord
      BY <2>3 DEF DeleteType, StaffWrite, TypeInv, TypeOK
    <2> QED
      BY <2>1, <2>2, <2>3
  <1>2. edits' = edits + 1
        /\ UNCHANGED <<rows, requests, pc, req, kind, fleet, snapshot, answer, made, retry>>
    BY DEF AddType, EditType, DeleteType, StaffWrite
  <1>3. nextType' = nextType \/ nextType' = nextType + 1
    BY DEF AddType, EditType, DeleteType
  <1>4. touched' \subseteq TypeIds
    BY DEF AddType, EditType, DeleteType, TypeInv, TypeOK, TypeRecord
  <1> QED
    BY <1>1, <1>2, <1>3, <1>4 DEF TypeInv, TypeOK, InHand

LEMMA TypeStep == TypeInv /\ LockInv /\ RowInv /\ [Next]_vars => TypeInv'
  <1> SUFFICES ASSUME TypeInv, LockInv, RowInv, [Next]_vars PROVE TypeInv'
    OBVIOUS
  <1>1. CASE UNCHANGED vars
    BY <1>1 DEF vars, tables, history, TypeInv, TypeOK, InHand
  <1> QED
    BY <1>1, TypeForm, TypeLock, TypeWork, TypeStaff DEF Next, Terminated

-----------------------------------------------------------------------------
(* Who changes what *)

WorkerStep(w) ==
    \/ Receive(w) \/ CleanForm(w)
    \/ FindFleet(w) \/ LockFleet(w) \/ LockTimeout(w)
    \/ FindKey(w) \/ ReadSchedule(w)
    \/ Insert(w) \/ InsertDuplicate(w) \/ Recover(w)
    \/ Respond(w)

StaffStep == AddType \/ \E t \in types : EditType(t) \/ DeleteType(t)

LEMMA WorkersMindTheirOwn ==
    ASSUME TypeInv, NEW w \in Workers, WorkerStep(w)
    PROVE  /\ types' = types
           /\ ~Insert(w) => rows' = rows
           /\ \A v \in Workers \ {w} : /\ pc'[v] = pc[v] /\ req'[v] = req[v]
                                       /\ kind'[v] = kind[v] /\ fleet'[v] = fleet[v]
  BY DEF WorkerStep, Receive, CleanForm, FindFleet, LockFleet, LockTimeout, FindKey,
         ReadSchedule, Insert, InsertDuplicate, Recover, Respond, Finish, Goto,
         TypeInv, TypeOK, tables, history

LEMMA StaffOnlyWriteTypes ==
    ASSUME StaffStep
    PROVE  UNCHANGED <<rows, pc, req, kind, fleet, answer, made, retry>>
  BY DEF StaffStep, AddType, EditType, DeleteType, StaffWrite

\* A transaction starts with the lock, and then keeps what it has.
LEMMA StaysInHand ==
    ASSUME TypeInv, NEW w \in Workers, WorkerStep(w), InTransaction(w)'
    PROVE  LockFleet(w) \/ (InTransaction(w) /\ UNCHANGED <<fleet[w], kind[w], req[w]>>)
  BY DEF WorkerStep, Receive, CleanForm, FindFleet, LockFleet, LockTimeout, FindKey,
         ReadSchedule, Insert, InsertDuplicate, Recover, Respond, Finish, Goto,
         TypeInv, TypeOK, tables, history, InTransaction

-----------------------------------------------------------------------------
(* The locks *)

LEMMA LockInit == Init => LockInv
  BY DEF Init, LockInv, InTransaction

LEMMA LockWorks ==
    ASSUME TypeInv, LockInv, NEW w \in Workers, WorkerStep(w)
    PROVE  LockInv'
  <1>1. ASSUME InTransaction(w)'
        PROVE  /\ Locked(w)'
               /\ \A v \in Workers \ {w} : InTransaction(v) => fleet[v].id # fleet'[w].id
    <2>1. CASE LockFleet(w)
      <3>1. PICK t \in types : StillCalled(w, t) /\ fleet' = [fleet EXCEPT ![w] = t]
        BY <1>1, <2>1 DEF LockFleet, Finish, Goto, InTransaction, TypeInv, TypeOK
      <3>2. fleet'[w] = t /\ types' = types /\ kind' = kind /\ ~HeldByOther(w, t.id)
        BY <2>1, <3>1 DEF LockFleet, Finish, tables, StillCalled, TypeInv, TypeOK
      <3> QED
        BY <3>1, <3>2 DEF Locked, StillCalled, HeldByOther
    <2>2. CASE InTransaction(w) /\ UNCHANGED <<fleet[w], kind[w], req[w]>>
      BY <2>2, WorkersMindTheirOwn DEF LockInv, Locked
    <2> QED
      BY <1>1, <2>1, <2>2, StaysInHand
  <1>2. ASSUME NEW v \in Workers \ {w}, InTransaction(v)'
        PROVE  InTransaction(v) /\ Locked(v) /\ Locked(v)' /\ fleet'[v] = fleet[v]
    BY <1>2, WorkersMindTheirOwn DEF LockInv, InTransaction, Locked
  <1>3. \A v \in Workers : InTransaction(v)' => Locked(v)'
    BY <1>1, <1>2
  <1>4. ASSUME NEW u \in Workers, NEW v \in Workers, u # v, InTransaction(u)', InTransaction(v)'
        PROVE  fleet'[u].id # fleet'[v].id
    <2>1. CASE u # w /\ v # w
      BY <1>2, <1>4, <2>1 DEF LockInv
    <2>2. CASE u = w
      BY <1>1, <1>2, <1>4, <2>2
    <2>3. CASE v = w
      BY <1>1, <1>2, <1>4, <2>3
    <2> QED
      BY <2>1, <2>2, <2>3
  <1> QED
    BY <1>3, <1>4 DEF LockInv

\* Staff wait for the row: what a transaction has locked stays in the table.
LEMMA LockedRowsStay ==
    ASSUME LockInv, StaffStep, NEW w \in Workers, InTransaction(w)
    PROVE  fleet[w] \in types'
  <1>1. fleet[w] \in types /\ Held(fleet[w].id)
    BY DEF LockInv, Locked, Held
  <1>2. CASE AddType
    BY <1>1, <1>2 DEF AddType, StaffWrite
  <1>3. ASSUME NEW t \in types, EditType(t) \/ DeleteType(t)
        PROVE  fleet[w] \in types'
    <2>1. fleet[w] # t
      BY <1>1, <1>3 DEF EditType, DeleteType
    <2>2. types \ {t} \subseteq types'
      BY <1>3 DEF EditType, DeleteType, StaffWrite
    <2> QED
      BY <1>1, <2>1, <2>2
  <1> QED
    BY <1>2, <1>3 DEF StaffStep

LEMMA LockStep == TypeInv /\ LockInv /\ [Next]_vars => LockInv'
  <1> SUFFICES ASSUME TypeInv, LockInv, [Next]_vars PROVE LockInv'
    OBVIOUS
  <1>1. CASE UNCHANGED vars
    BY <1>1 DEF vars, tables, history, LockInv, InTransaction, Locked
  <1>2. CASE StaffStep
    <2>1. UNCHANGED <<pc, kind, fleet>>
      BY <1>2, StaffOnlyWriteTypes
    <2>2. \A w \in Workers : InTransaction(w) => fleet[w] \in types'
      BY <1>2, LockedRowsStay
    <2> QED
      BY <2>1, <2>2 DEF LockInv, InTransaction, Locked
  <1> QED
    BY <1>1, <1>2, LockWorks DEF Next, Terminated, WorkerStep, StaffStep

-----------------------------------------------------------------------------
(* The reservations *)

LEMMA RowInit == Init => RowInv
  BY FS_EmptySet DEF Init, RowInv, KeysUnique

LEMMA OnlyInsertsAddRows ==
    ASSUME TypeInv, [Next]_vars
    PROVE  rows' = rows \/ \E w \in Workers : Insert(w)
  BY WorkersMindTheirOwn, StaffOnlyWriteTypes
     DEF Next, Terminated, WorkerStep, StaffStep, vars, tables

\* What an insert adds is new: no row has its customer and key.
LEMMA InsertAdds ==
    ASSUME NEW w \in Workers, Insert(w)
    PROVE  /\ rows' = rows \cup {NewRow(w)}
           /\ \A b \in rows : ~SameRequest(b, NewRow(w))
           /\ NewRow(w) \notin rows
  BY DEF Insert, KeyIsFree, SameRequest, NewRow

LEMMA RowStep == TypeInv /\ RowInv /\ [Next]_vars => RowInv'
  <1> SUFFICES ASSUME TypeInv, RowInv, [Next]_vars PROVE RowInv'
    OBVIOUS
  <1>1. CASE rows' = rows
    BY <1>1 DEF RowInv, KeysUnique
  <1>2. ASSUME NEW w \in Workers, Insert(w) PROVE RowInv'
    <2>1. IsFiniteSet(rows')
      BY <1>2, InsertAdds, FS_AddElement DEF RowInv
    <2>2. KeysUnique'
      BY <1>2, InsertAdds DEF RowInv, KeysUnique, SameRequest
    <2> QED
      BY <2>1, <2>2 DEF RowInv
  <1> QED
    BY <1>1, <1>2, OnlyInsertsAddRows

-----------------------------------------------------------------------------
(* The room *)

LEMMA PeriodsAreIntervals == \A p \in Periods : p \in Period(Int)
  <1> SUFFICES ASSUME NEW p \in Periods PROVE p \in Period(Int)
    OBVIOUS
  <1>1. p \in [start : Instants, end : Instants] /\ p.start < p.end
    BY BookingAssumption DEF Period
  <1>2. Instants \subseteq Int
    BY BookingAssumption
  <1> QED
    BY <1>1, <1>2 DEF Period

LEMMA UsageIsNat ==
    ASSUME IsFiniteSet(rows), NEW id, NEW i
    PROVE  /\ IsFiniteSet({b \in rows : b.type = id})
           /\ IsFiniteSet({b \in {b \in rows : b.type = id} : Covers(b.period, i)})
           /\ Usage(id, i) \in Nat
  <1> DEFINE B == {b \in rows : b.type = id}
             C == {b \in B : Covers(b.period, i)}
  <1>1. B \subseteq rows /\ C \subseteq rows
    OBVIOUS
  <1>2. IsFiniteSet(B) /\ IsFiniteSet(C)
    <2> HIDE DEF B, C
    <2> QED
      BY <1>1, FS_Subset
  <1>3. Usage(id, i) = Cardinality(C)
    BY DEF Usage, UsageAt
  <1>4. Cardinality(C) \in Nat
    <2> HIDE DEF C
    <2> QED
      BY <1>2, FS_CardinalityType
  <1> QED
    BY <1>2, <1>3, <1>4

\* What the statement under the lock reads is room for the whole period.
LEMMA ReadScheduleFindsRoom ==
    ASSUME TypeInv, LockInv, RowInv, NEW w \in Workers, ReadSchedule(w), pc'[w] = "insert"
    PROVE  Room(w)
  <1> DEFINE p == req[w].period
             S == {b \in rows : b.type = fleet[w].id}
  <1>1. pc[w] = "read_schedule" /\ CanAccommodate(fleet[w].size, Within(S, p), p)
    <2>1. Within(S, p) = {b \in rows : b.type = fleet[w].id /\ Overlaps(b.period, p)}
      BY DEF Within
    <2> QED
      BY <2>1 DEF ReadSchedule, Finish, Goto, TypeInv, TypeOK, Visible, IsolationLevel
  <1>2. p \in Period(Int) /\ fleet[w].size \in Int
    <2>1. req[w] \in Form /\ fleet[w] \in TypeRecord
      BY <1>1 DEF TypeInv, TypeOK, InHand, CalledPc, LockInv, InTransaction, Locked
    <2> QED
      BY <2>1, PeriodsAreIntervals DEF Form, TypeRecord
  <1>3. IsFiniteSet(S) /\ \A b \in S : b.period \in Period(Int)
    BY PeriodsAreIntervals, FS_Subset DEF RowInv, TypeInv, TypeOK, Reservation
  <1> HIDE DEF S, p
  <1>4. \A t \in Int : Covers(p, t) => UsageAt(S, t) < fleet[w].size
    BY <1>1, <1>2, <1>3, SweepFindsRoom
  <1> QED
    BY <1>4 DEF Room, Usage, S, p

\* An insert takes one more car of its own row, during its period.
LEMMA InsertUsage ==
    ASSUME RowInv, NEW w \in Workers, Insert(w), NEW id, NEW i
    PROVE  \/ Usage(id, i)' = Usage(id, i)
           \/ /\ id = fleet[w].id
              /\ Covers(req[w].period, i)
              /\ Usage(id, i)' = Usage(id, i) + 1
  <1> DEFINE C == {b \in {b \in rows : b.type = id} : Covers(b.period, i)}
             D == {b \in {b \in rows' : b.type = id} : Covers(b.period, i)}
  <1>1. Usage(id, i) = Cardinality(C) /\ Usage(id, i)' = Cardinality(D)
    BY DEF Usage, UsageAt
  <1>2. rows' = rows \cup {NewRow(w)} /\ NewRow(w) \notin rows
    BY InsertAdds
  <1>3. NewRow(w).type = fleet[w].id /\ NewRow(w).period = req[w].period
    BY DEF NewRow
  <1>4. CASE id = fleet[w].id /\ Covers(req[w].period, i)
    <2>1. D = C \cup {NewRow(w)} /\ NewRow(w) \notin C
      BY <1>2, <1>3, <1>4
    <2>2. IsFiniteSet(C)
      BY UsageIsNat DEF RowInv
    <2>3. Cardinality(D) = Cardinality(C) + 1
      <3> HIDE DEF C, D
      <3> QED
        BY <2>1, <2>2, FS_AddElement
    <2> QED
      BY <1>1, <1>4, <2>3
  <1>5. CASE ~(id = fleet[w].id /\ Covers(req[w].period, i))
    <2>1. D = C
      BY <1>2, <1>3, <1>5
    <2> QED
      BY <1>1, <2>1
  <1> QED
    BY <1>4, <1>5

LEMMA RoomInit == Init => RoomInv
  BY DEF Init, RoomInv

LEMMA RoomStep == TypeInv /\ LockInv /\ RowInv /\ RoomInv /\ [Next]_vars => RoomInv'
  <1> SUFFICES ASSUME TypeInv, LockInv, RowInv, RoomInv, [Next]_vars PROVE RoomInv'
    OBVIOUS
  \* A worker whose row, form and reservations are left alone keeps its room.
  <1>1. ASSUME NEW v \in Workers, Room(v), rows' = rows, UNCHANGED <<req[v], fleet[v]>>
        PROVE  Room(v)'
    BY <1>1 DEF Room, Usage, UsageAt
  <1>2. CASE UNCHANGED vars
    BY <1>1, <1>2 DEF vars, tables, RoomInv
  <1>3. CASE StaffStep
    BY <1>1, <1>3, StaffOnlyWriteTypes DEF RoomInv
  <1>4. ASSUME NEW w \in Workers, WorkerStep(w), ~Insert(w) PROVE RoomInv'
    <2>1. rows' = rows
      BY <1>4, WorkersMindTheirOwn
    <2>2. ASSUME NEW v \in Workers \ {w}, pc'[v] = "insert" PROVE Room(v)'
      BY <1>1, <1>4, <2>1, <2>2, WorkersMindTheirOwn DEF RoomInv
    <2>3. ASSUME pc'[w] = "insert" PROVE Room(w)'
      <3>1. ReadSchedule(w) /\ UNCHANGED <<req[w], fleet[w]>>
        BY <1>4, <2>3
           DEF WorkerStep, Receive, CleanForm, FindFleet, LockFleet, LockTimeout, FindKey,
               ReadSchedule, InsertDuplicate, Recover, Respond, Finish, Goto,
               TypeInv, TypeOK
      <3> QED
        BY <1>1, <2>1, <2>3, <3>1, ReadScheduleFindsRoom
    <2> QED
      BY <2>2, <2>3 DEF RoomInv
  <1>5. ASSUME NEW w \in Workers, Insert(w) PROVE RoomInv'
    <2>1. pc'[w] # "insert" /\ InTransaction(w)
      BY <1>5 DEF Insert, Finish, Goto, TypeInv, TypeOK, InTransaction
    <2>2. ASSUME NEW v \in Workers \ {w}, pc'[v] = "insert" PROVE Room(v)'
      <3>1. /\ pc[v] = "insert" /\ UNCHANGED <<req[v], fleet[v]>>
            /\ fleet[v].id # fleet[w].id
        BY <1>5, <2>1, <2>2, WorkersMindTheirOwn DEF WorkerStep, LockInv, InTransaction
      <3>2. {b \in rows' : b.type = fleet[v].id} = {b \in rows : b.type = fleet[v].id}
        <4>1. NewRow(w).type # fleet[v].id
          BY <3>1 DEF NewRow
        <4>2. rows' = rows \cup {NewRow(w)}
          BY <1>5, InsertAdds
        <4> QED
          BY <4>1, <4>2
      <3> QED
        BY <3>1, <3>2 DEF RoomInv, Room, Usage
    <2> QED
      BY <2>1, <2>2 DEF RoomInv
  <1> QED
    BY <1>2, <1>3, <1>4, <1>5 DEF Next, Terminated, WorkerStep, StaffStep

-----------------------------------------------------------------------------
(* Rows that are left alone *)

LEMMA UntouchedInit == Init => UntouchedInv
  <1> SUFFICES ASSUME Init PROVE UntouchedInv
    OBVIOUS
  <1>1. NameInv
    <2>1. types \in InitialTypes /\ IsFiniteSet(types) /\ nextType = Cardinality(types) + 1
      BY FleetRowsAssumption DEF Init
    <2>2. Cardinality(types) \in Nat
      BY <2>1, FS_CardinalityType
    <2> QED
      BY <2>1, <2>2, FleetRowsAssumption DEF NameInv
  <1> QED
    BY <1>1 DEF Init, UntouchedInv, MadeInv, Sought, Retries, SeekPc

\* Staff keep the ids and the names unique.
LEMMA NameStep == TypeInv /\ NameInv /\ [Next]_vars => NameInv'
  <1> SUFFICES ASSUME TypeInv, NameInv, [Next]_vars PROVE NameInv'
    OBVIOUS
  <1>1. CASE UNCHANGED <<types, nextType>>
    BY <1>1 DEF NameInv
  <1>2. CASE AddType
    <2>1. PICK n \in CarTypes, s \in FleetSizes :
             /\ NameIsFree(n, types)
             /\ types' = types \cup {[id |-> nextType, name |-> n, size |-> s]}
      BY <1>2 DEF AddType, StaffWrite
    <2>2. nextType' = nextType + 1 /\ nextType \in Nat
      BY <1>2 DEF AddType, TypeInv, TypeOK
    <2> QED
      BY <2>1, <2>2 DEF NameInv, NameIsFree
  <1>3. ASSUME NEW t \in types, EditType(t) PROVE NameInv'
    <2>1. PICK n \in CarTypes, s \in FleetSizes :
             /\ NameIsFree(n, types \ {t})
             /\ types' = (types \ {t}) \cup {[id |-> t.id, name |-> n, size |-> s]}
      BY <1>3 DEF EditType, StaffWrite
    <2>2. nextType' = nextType
      BY <1>3 DEF EditType
    <2> QED
      BY <2>1, <2>2 DEF NameInv, NameIsFree
  <1>4. ASSUME NEW t \in types, DeleteType(t) PROVE NameInv'
    BY <1>4 DEF DeleteType, StaffWrite, NameInv
  <1>5. ASSUME NEW w \in Workers, WorkerStep(w) PROVE UNCHANGED <<types, nextType>>
    BY <1>5 DEF WorkerStep, Receive, CleanForm, FindFleet, LockFleet, LockTimeout, FindKey,
         ReadSchedule, Insert, InsertDuplicate, Recover, Respond, Finish, tables
  <1> QED
    BY <1>1, <1>2, <1>3, <1>4, <1>5 DEF Next, Terminated, WorkerStep, vars, tables

\* A row whose id staff do not touch keeps its name and its place.
LEMMA UntouchedRowsStay ==
    ASSUME StaffStep, NEW id, id \notin touched'
    PROVE  /\ id \notin touched
           /\ \A t \in types : t.id = id => \E u \in types' : u.id = id /\ u.name = t.name
  <1>1. CASE AddType
    BY <1>1 DEF AddType, StaffWrite
  <1>2. ASSUME NEW s \in types, EditType(s)
        PROVE  /\ id \notin touched
               /\ \A t \in types : t.id = id => \E u \in types' : u.id = id /\ u.name = t.name
    <2>1. PICK n \in CarTypes, z \in FleetSizes :
             /\ touched' = IF n = s.name THEN touched ELSE touched \cup {s.id}
             /\ types' = (types \ {s}) \cup {[id |-> s.id, name |-> n, size |-> z]}
      BY <1>2 DEF EditType, StaffWrite
    <2>2. PICK r : r = [id |-> s.id, name |-> n, size |-> z]
      OBVIOUS
    <2>3. r.id = s.id /\ r.name = n /\ r \in types'
      BY <2>1, <2>2
    <2>4. id \notin touched /\ (s.id = id => n = s.name)
      BY <2>1
    <2>5. \A t \in types : t = s \/ t \in types'
      BY <2>1
    <2> QED
      BY <2>3, <2>4, <2>5
  <1>3. ASSUME NEW s \in types, DeleteType(s)
        PROVE  /\ id \notin touched
               /\ \A t \in types : t.id = id => \E u \in types' : u.id = id /\ u.name = t.name
    BY <1>3 DEF DeleteType, StaffWrite
  <1> QED
    BY <1>1, <1>2, <1>3 DEF StaffStep

LEMMA UntouchedStaff ==
    ASSUME UntouchedInv, StaffStep
    PROVE  MadeInv' /\ \A w \in Workers : Sought(w)' /\ Retries(w)'
  <1>1. UNCHANGED <<rows, pc, req, kind, fleet, answer, made, retry>>
    BY StaffOnlyWriteTypes
  <1>2. MadeInv'
    BY <1>1, UntouchedRowsStay DEF UntouchedInv, MadeInv, SameRequest
  <1>3. ASSUME NEW w \in Workers PROVE Sought(w)' /\ Retries(w)'
    BY <1>1, UntouchedRowsStay DEF UntouchedInv, Sought, Retries
  <1> QED
    BY <1>2, <1>3

\* A worker touches no row, and leaves the others' work alone.
LEMMA WorkersTouchNothing ==
    ASSUME TypeInv, NEW w \in Workers, WorkerStep(w)
    PROVE  /\ touched' = touched /\ types' = types
           /\ ~Insert(w) => UNCHANGED <<rows, made>>
           /\ \A v \in Workers \ {w} :
                 UNCHANGED <<pc[v], req[v], kind[v], fleet[v], answer[v], retry[v]>>
  BY DEF WorkerStep, Receive, CleanForm, FindFleet, LockFleet, LockTimeout, FindKey,
         ReadSchedule, Insert, InsertDuplicate, Recover, Respond, Finish, Goto,
         TypeInv, TypeOK, tables, history

\* The booking a retry of an untouched row finds is its own.
LEMMA RetryFindsItsBooking ==
    ASSUME TypeInv, RowInv, UntouchedInv, NEW w \in Workers, pc[w] = "find_key",
           req[w] \in made, req[w].type \notin touched
    PROVE  /\ WithKey(Visible(w), req[w]) # {}
           /\ \A b \in WithKey(Visible(w), req[w]) : Replay(w, b, Visible(w)) = "replayed"
  <1>1. Visible(w) = [types |-> types, rows |-> rows]
    BY DEF Visible, IsolationLevel
  <1>2. PICK b \in rows : SameRequest(b, req[w]) /\ b.period = req[w].period /\ b.type = req[w].type
    BY DEF UntouchedInv, MadeInv
  <1>3. \A c \in rows : SameRequest(c, req[w]) => c = b
    BY <1>2 DEF RowInv, KeysUnique, SameRequest
  <1>4. \E t \in types : t.id = b.type /\ t.name = kind[w]
    BY <1>2 DEF UntouchedInv, Sought, SeekPc
  <1> QED
    BY <1>1, <1>2, <1>3, <1>4 DEF WithKey, Replay

LEMMA SoughtStep ==
    ASSUME TypeInv, UntouchedInv, NEW w \in Workers, WorkerStep(w)
    PROVE  Sought(w)'
  <1> USE DEF SeekPc, Goto, TypeInv, TypeOK
  <1>1. touched' = touched /\ types' = types /\ Sought(w)
    BY WorkersTouchNothing DEF UntouchedInv
  <1>2. CASE CleanForm(w)
    <2>1. CASE pc'[w] = "done"
      BY <2>1 DEF Sought
    <2>2. CASE pc'[w] # "done"
      <3>1. PICK t \in types : t.id = req[w].type /\ kind' = [kind EXCEPT ![w] = t.name]
                               /\ pc' = [pc EXCEPT ![w] = "find_fleet"]
        BY <1>2, <2>2 DEF CleanForm
      <3>2. kind'[w] = t.name /\ pc'[w] = "find_fleet" /\ req' = req
        BY <1>2, <3>1 DEF CleanForm
      <3> QED
        BY <1>1, <3>1, <3>2 DEF Sought
    <2> QED
      BY <2>1, <2>2
  <1>3. CASE FindFleet(w)
    <2>1. CASE pc'[w] = "lock_fleet"
      <3>1. PICK t \in types : t.name = kind[w] /\ fleet' = [fleet EXCEPT ![w] = t]
        BY <1>3, <2>1 DEF FindFleet, Finish
      <3>2. fleet'[w] = t /\ pc[w] = "find_fleet" /\ UNCHANGED <<req, kind>>
        BY <1>3, <2>1, <3>1 DEF FindFleet, Finish
      <3>3. req[w].type \notin touched => t.id = req[w].type
        BY <1>1, <3>1, <3>2 DEF Sought, UntouchedInv, NameInv
      <3> QED
        BY <1>1, <2>1, <3>2, <3>3 DEF Sought
    <2>2. CASE pc'[w] # "lock_fleet"
      BY <1>3, <2>2 DEF FindFleet, Finish, Sought
    <2> QED
      BY <2>1, <2>2
  <1>4. CASE LockFleet(w)
    <2>1. CASE pc'[w] = "find_key"
      <3>1. PICK t \in types : StillCalled(w, t) /\ fleet' = [fleet EXCEPT ![w] = t]
        BY <1>4, <2>1 DEF LockFleet, Finish
      <3>2. fleet'[w] = t /\ t.id = fleet[w].id /\ pc[w] = "lock_fleet" /\ UNCHANGED <<req, kind>>
        BY <1>4, <2>1, <3>1 DEF LockFleet, Finish, StillCalled
      <3> QED
        BY <1>1, <2>1, <3>2 DEF Sought
    <2>2. CASE pc'[w] # "find_key"
      BY <1>4, <2>2 DEF LockFleet, Finish, Sought
    <2> QED
      BY <2>1, <2>2
  <1>5. CASE ~CleanForm(w) /\ ~FindFleet(w) /\ ~LockFleet(w)
    <2>1. \/ pc'[w] \notin SeekPc
          \/ /\ pc[w] \in SeekPc \ {"find_fleet"} /\ pc'[w] \in SeekPc
             /\ UNCHANGED <<req, kind, fleet>>
      BY <1>5 DEF WorkerStep, Receive, LockTimeout, FindKey, ReadSchedule, Insert,
           InsertDuplicate, Recover, Respond, Finish
    <2> QED
      BY <1>1, <2>1 DEF Sought
  <1> QED
    BY <1>2, <1>3, <1>4, <1>5

LEMMA MadeStep ==
    ASSUME TypeInv, LockInv, RowInv, UntouchedInv, NEW w \in Workers, WorkerStep(w)
    PROVE  MadeInv' /\ made \subseteq made'
  <1>1. touched' = touched /\ types' = types
    BY WorkersTouchNothing
  <1>2. CASE Insert(w)
    <2>1. /\ rows' = rows \cup {NewRow(w)} /\ made' = made \cup {req[w]} /\ pc[w] = "insert"
      BY <1>2, InsertAdds DEF Insert
    <2>2. /\ SameRequest(NewRow(w), req[w]) /\ NewRow(w).period = req[w].period
          /\ NewRow(w).type = fleet[w].id
      BY DEF NewRow, SameRequest
    <2>3. req[w].type \notin touched =>
              fleet[w].id = req[w].type /\ \E t \in types : t.id = req[w].type
      BY <2>1 DEF UntouchedInv, Sought, SeekPc
    <2>4. \A f \in made : f.type \notin touched =>
              /\ \E b \in rows' : SameRequest(b, f) /\ b.period = f.period /\ b.type = f.type
              /\ \E t \in types : t.id = f.type
      BY <2>1 DEF UntouchedInv, MadeInv
    <2>5. req[w].type \notin touched =>
              /\ \E b \in rows' : /\ SameRequest(b, req[w]) /\ b.period = req[w].period
                                  /\ b.type = req[w].type
              /\ \E t \in types : t.id = req[w].type
      BY <2>1, <2>2, <2>3
    <2>6. MadeInv'
      <3>1. ASSUME NEW f \in made', f.type \notin touched'
            PROVE  /\ \E b \in rows' : SameRequest(b, f) /\ b.period = f.period /\ b.type = f.type
                   /\ \E t \in types' : t.id = f.type
        BY <1>1, <2>1, <2>4, <2>5, <3>1
      <3> QED
        BY <3>1 DEF MadeInv, SameRequest
    <2> QED
      BY <2>1, <2>6
  <1>3. CASE ~Insert(w)
    BY <1>1, <1>3, WorkersTouchNothing DEF UntouchedInv, MadeInv
  <1> QED
    BY <1>2, <1>3

LEMMA RetryStep ==
    ASSUME TypeInv, LockInv, RowInv, UntouchedInv, NEW w \in Workers, WorkerStep(w)
    PROVE  Retries(w)'
  <1> USE DEF Goto, TypeInv, TypeOK
  <1>1. touched' = touched /\ types' = types /\ Retries(w) /\ Sought(w) /\ made \subseteq made'
    BY WorkersTouchNothing, MadeStep DEF UntouchedInv
  <1>2. CASE Receive(w)
    <2>1. PICK f \in Form :
              /\ req' = [req EXCEPT ![w] = f] /\ retry' = [retry EXCEPT ![w] = f \in made]
      BY <1>2 DEF Receive
    <2>2. req'[w] = f /\ (retry'[w] <=> f \in made) /\ pc'[w] = "form" /\ made' = made
      <3>1. retry'[w] = (f \in made)
        BY <2>1
      <3> QED
        BY <1>2, <2>1, <3>1 DEF Receive
    <2> QED
      BY <2>2 DEF Retries
  <1>3. CASE Respond(w)
    BY <1>3 DEF Respond, Retries
  <1>4. CASE ~Receive(w) /\ ~Respond(w)
    <2>1. UNCHANGED <<retry, req>>
      BY <1>4 DEF WorkerStep, CleanForm, FindFleet, LockFleet, LockTimeout, FindKey,
           ReadSchedule, Insert, InsertDuplicate, Recover, Finish, history
    <2>2. SUFFICES ASSUME retry[w], req[w].type \notin touched
                   PROVE  /\ pc'[w] \in {"form", "find_fleet", "lock_fleet", "find_key", "done"}
                          /\ pc'[w] = "done" => answer'[w] \in {"replayed", "FleetBusy"}
      BY <1>1, <2>1 DEF Retries
    <2>3. /\ req[w] \in made
          /\ pc[w] \in {"form", "find_fleet", "lock_fleet", "find_key", "done"}
      BY <1>1, <2>2 DEF Retries
    <2>4. CASE CleanForm(w)
      <3>1. \E t \in types : t.id = req[w].type
        BY <2>2, <2>3 DEF UntouchedInv, MadeInv
      <3> QED
        BY <2>4, <3>1 DEF CleanForm
    <2>5. CASE FindFleet(w)
      <3>1. pc[w] = "find_fleet"
        BY <2>5 DEF FindFleet
      <3>2. \E t \in types : t.name = kind[w]
        BY <1>1, <2>2, <3>1 DEF Sought, SeekPc
      <3> QED
        BY <2>5, <3>2 DEF FindFleet
    <2>6. CASE LockFleet(w)
      <3>1. \E t \in types : StillCalled(w, t)
        BY <1>1, <2>2, <2>6 DEF LockFleet, Sought, SeekPc, StillCalled
      <3> QED
        BY <2>6, <3>1 DEF LockFleet
    <2>7. CASE LockTimeout(w)
      BY <2>7 DEF LockTimeout, Finish
    <2>8. CASE FindKey(w)
      <3>1. pc[w] = "find_key"
        BY <2>8 DEF FindKey, Finish
      <3>2. \E b \in WithKey(Visible(w), req[w]) : Finish(w, "find_key", Replay(w, b, Visible(w)))
        BY <2>2, <2>3, <2>8, <3>1, RetryFindsItsBooking DEF FindKey
      <3>3. Finish(w, "find_key", "replayed")
        BY <2>2, <2>3, <3>1, <3>2, RetryFindsItsBooking
      <3> QED
        BY <3>3 DEF Finish
    <2>9. pc[w] \notin {"read_schedule", "insert", "recover"}
      BY <2>3
    <2> QED
      BY <1>4, <2>4, <2>5, <2>6, <2>7, <2>8, <2>9
         DEF WorkerStep, ReadSchedule, Insert, InsertDuplicate, Recover, Finish
  <1> QED
    BY <1>2, <1>3, <1>4

LEMMA UntouchedStep ==
    TypeInv /\ LockInv /\ RowInv /\ UntouchedInv /\ [Next]_vars => UntouchedInv'
  <1> SUFFICES ASSUME TypeInv, LockInv, RowInv, UntouchedInv, [Next]_vars PROVE UntouchedInv'
    OBVIOUS
  <1>1. NameInv'
    BY NameStep DEF UntouchedInv
  <1>2. ASSUME NEW w \in Workers, WorkerStep(w), NEW v \in Workers
        PROVE  Sought(v)' /\ Retries(v)'
    <2>1. CASE v = w
      BY <1>2, <2>1, SoughtStep, RetryStep
    <2>2. CASE v # w
      <3>1. /\ touched' = touched /\ types' = types /\ made \subseteq made'
            /\ UNCHANGED <<pc[v], req[v], kind[v], fleet[v], answer[v], retry[v]>>
        BY <1>2, <2>2, WorkersTouchNothing, MadeStep
      <3> QED
        BY <3>1 DEF UntouchedInv, Sought, Retries
    <2> QED
      BY <2>1, <2>2
  <1>3. CASE UNCHANGED vars
    BY <1>1, <1>3 DEF vars, tables, history, UntouchedInv, MadeInv, Sought, Retries
  <1>4. CASE StaffStep
    BY <1>1, <1>4, UntouchedStaff DEF UntouchedInv
  <1>5. ASSUME NEW w \in Workers, WorkerStep(w) PROVE UntouchedInv'
    BY <1>1, <1>2, <1>5, MadeStep DEF UntouchedInv
  <1> QED
    BY <1>3, <1>4, <1>5 DEF Next, Terminated, WorkerStep, StaffStep

-----------------------------------------------------------------------------
(* The theorems *)

LEMMA RowsInvariant == Spec => []RowsInv
  <1>1. Init => RowsInv
    BY TypeInit, LockInit, RowInit, RoomInit, UntouchedInit DEF RowsInv
  <1>2. RowsInv /\ [Next]_vars => RowsInv'
    BY TypeStep, LockStep, RowStep, RoomStep, UntouchedStep DEF RowsInv
  <1> QED
    BY <1>1, <1>2, PTL DEF Spec

\* The variables keep their types: no worker holds a row, a name or an answer
\* that the code has no branch for.
THEOREM RowsTypeCorrect == Spec => []TypeOK
  <1>1. RowsInv => TypeOK
    BY DEF RowsInv, TypeInv
  <1> QED
    BY <1>1, RowsInvariant, PTL

\* The row a booking points at is the one its form offered, unless staff renamed
\* or deleted that row itself: ModelChoiceField's id and _lock's name agree.
THEOREM UntouchedRowsBooked == Spec => []UntouchedRowsAreBooked
  <1>1. RowsInv => UntouchedRowsAreBooked
    BY DEF RowsInv, UntouchedInv, MadeInv, UntouchedRowsAreBooked
  <1> QED
    BY <1>1, RowsInvariant, PTL

\* A form that is sent again after it made a booking is answered with it, or
\* told to try again, unless its own row was renamed: the key is looked up
\* before the policy and the schedule are asked, on the row the form named.
THEOREM RenamesAloneLoseRetries == Spec => []OnlyRenamesLoseRetries
  <1>1. RowsInv => OnlyRenamesLoseRetries
    BY DEF RowsInv, UntouchedInv, Retries, OnlyRenamesLoseRetries
  <1> QED
    BY <1>1, RowsInvariant, PTL

\* The row a booking points at is called, when it commits, what the desk was
\* called with, however often staff renamed rows while the lock was awaited.
THEOREM BookedAsAsked == Spec => BooksWhatWasAsked
  <1>1. ASSUME RowsInv, [Next]_vars, NEW b \in rows' \ rows
        PROVE  \E w \in Workers :
                  /\ pc[w] = "insert" /\ answer'[w] = "booked"
                  /\ SameRequest(b, req[w])
                  /\ \E t \in types' : t.id = b.type /\ t.name = kind[w]
    <2>1. PICK w \in Workers : Insert(w)
      BY <1>1, OnlyInsertsAddRows DEF RowsInv
    <2>2. b = NewRow(w)
      BY <1>1, <2>1, InsertAdds
    <2>3. pc[w] = "insert" /\ answer'[w] = "booked" /\ types' = types
      BY <1>1, <2>1 DEF Insert, Finish, RowsInv, TypeInv, TypeOK
    <2>4. fleet[w] \in types /\ fleet[w].name = kind[w]
      BY <1>1, <2>3 DEF RowsInv, LockInv, InTransaction, Locked
    <2> QED
      BY <2>2, <2>3, <2>4 DEF NewRow, SameRequest
  <1>2. RowsInv /\ [Next]_vars =>
          [\A b \in rows' \ rows : \E w \in Workers :
              /\ pc[w] = "insert" /\ answer'[w] = "booked"
              /\ SameRequest(b, req[w])
              /\ \E t \in types' : t.id = b.type /\ t.name = kind[w]]_vars
    BY <1>1
  <1> QED
    BY <1>2, RowsInvariant, PTL DEF Spec, BooksWhatWasAsked

\* No booking puts more cars of a row on the road than the row has when the
\* booking commits, whatever staff did to it while its lock was awaited.
THEOREM RowsNeverOverbooked == Spec => NeverOverbooks
  <1>1. ASSUME RowsInv, [Next]_vars, NEW id \in TypeIds, NEW i \in Instants,
               Usage(id, i)' > Usage(id, i)
        PROVE  \E t \in types' : t.id = id /\ Usage(id, i)' <= t.size
    <2>1. Usage(id, i) \in Nat /\ i \in Int
      <3>1. IsFiniteSet(rows) /\ i \in Int
        BY <1>1, BookingAssumption DEF RowsInv, RowInv
      <3> QED
        BY <3>1, UsageIsNat
    <2>2. rows' # rows
      BY <1>1, <2>1 DEF Usage
    <2>3. PICK w \in Workers : Insert(w)
      BY <1>1, <2>2, OnlyInsertsAddRows DEF RowsInv
    <2>4. id = fleet[w].id /\ Covers(req[w].period, i) /\ Usage(id, i)' = Usage(id, i) + 1
      BY <1>1, <2>1, <2>3, InsertUsage DEF RowsInv
    <2>5. pc[w] = "insert" /\ types' = types
      BY <2>3 DEF Insert, Finish, Goto
    <2>6. Usage(id, i) < fleet[w].size
      BY <1>1, <2>1, <2>4, <2>5 DEF RowsInv, RoomInv, Room
    <2>7. fleet[w] \in types /\ fleet[w].size \in Nat
      BY <1>1, <2>5 DEF RowsInv, LockInv, InTransaction, Locked, TypeInv, TypeOK, TypeRecord
    <2> QED
      BY <2>1, <2>4, <2>5, <2>6, <2>7
  <1>2. RowsInv /\ [Next]_vars =>
          [\A id \in TypeIds, i \in Instants :
              Usage(id, i)' > Usage(id, i) =>
                  \E t \in types' : t.id = id /\ Usage(id, i)' <= t.size]_vars
    BY <1>1
  <1> QED
    BY <1>2, RowsInvariant, PTL DEF Spec, NeverOverbooks
=============================================================================
