------------------------------ MODULE FleetRows -----------------------------
(***************************************************************************)
(* The rows of the fleet table (rentals/models.py) as reserve() meets them *)
(* while staff edit them.  The dashboard's form sends the id of a row, the *)
(* desk is called with the row's name, the ledger looks the row up by that *)
(* name and locks it, and bookings point at its id: in between, staff may  *)
(* rename rows, resize them, add and delete them.  What a statement sees   *)
(* is its snapshot, and when that is taken is for the isolation level.     *)
(*                                                                         *)
(* The policy, cancellations and lost connections are in PostgresDesk; all *)
(* that is left of the first here is that it may refuse.                   *)
(***************************************************************************)
EXTENDS Booking, FleetSchedule

CONSTANTS
    Workers,        \* the connections that handle requests
    InitialTypes,   \* the fleet tables the history may start from
    TypeIds,        \* bound: ids of fleet rows
    FleetSizes,     \* the sizes staff may enter
    MaxRequests,    \* bound: requests clients send
    MaxEdits        \* bound: times staff change the fleet table

TypeRecord == [id : TypeIds, name : CarTypes, size : Nat]

ASSUME FleetRowsAssumption ==
    /\ InitialTypes \subseteq SUBSET TypeRecord
    /\ \A table \in InitialTypes :
        /\ IsFiniteSet(table)
        /\ \A t \in table : t.id \in 1 .. Cardinality(table)
        /\ \A s, t \in table : s.id = t.id \/ s.name = t.name => s = t
    /\ FleetSizes \subseteq Nat
    /\ MaxRequests \in Nat
    /\ MaxEdits \in Nat

VARIABLES
    types,      \* table rentals_cartype, as committed
    nextType,   \* its id sequence
    rows,       \* table rentals_reservation, as committed
    requests,   \* requests received so far
    edits,      \* changes staff have made
    pc,         \* what each worker is about to do
    req,        \* the form it was sent
    kind,       \* the car type it calls the desk with
    fleet,      \* the fleet row it has found, then locked
    snapshot,   \* the tables as its transaction, or its statement, sees them
    answer,     \* the outcome it reports
    made,       \* history: the forms that have made a booking
    retry,      \* history: the worker's form had made one when it was sent
    touched     \* history: the rows, by id, that were ever renamed or deleted

tables == <<types, nextType, rows>>
history == <<made, retry, touched>>
vars == <<tables, requests, edits, pc, req, kind, fleet, snapshot, answer, history>>

Form == [customer : Customers, type : TypeIds, period : Periods, key : Keys]
Reservation ==
    [id : Nat, customer : Customers, type : TypeIds, period : Periods, key : Keys]
Tables == [types : SUBSET TypeRecord, rows : SUBSET Reservation]

NoForm == [nothing |-> "sent"]
NoKind == "no type"
NoRow == [nothing |-> "found"]
NoTables == [types |-> {}, rows |-> {}]

Outcomes ==
    {"none", "booked", "replayed", "InvalidForm", "CarTypeNotFound", "FleetBusy",
     "IdempotencyConflict", "InvalidRentalPeriod", "NoAvailability"}

TypeOK ==
    /\ types \subseteq TypeRecord
    /\ nextType \in Nat
    /\ rows \subseteq Reservation
    /\ requests \in Nat
    /\ edits \in Nat
    /\ pc \in [Workers -> {"idle", "form", "find_fleet", "lock_fleet", "find_key",
                           "read_schedule", "insert", "recover", "done"}]
    /\ req \in [Workers -> Form \cup {NoForm}]
    /\ kind \in [Workers -> CarTypes \cup {NoKind}]
    /\ fleet \in [Workers -> TypeRecord \cup {NoRow}]
    /\ snapshot \in [Workers -> Tables]
    /\ answer \in [Workers -> Outcomes]
    /\ made \subseteq Form
    /\ retry \in [Workers -> BOOLEAN]
    /\ touched \subseteq TypeIds

Init ==
    /\ types \in InitialTypes
    /\ nextType = Cardinality(types) + 1
    /\ rows = {}
    /\ requests = 0 /\ edits = 0
    /\ pc = [w \in Workers |-> "idle"]
    /\ req = [w \in Workers |-> NoForm]
    /\ kind = [w \in Workers |-> NoKind]
    /\ fleet = [w \in Workers |-> NoRow]
    /\ snapshot = [w \in Workers |-> NoTables]
    /\ answer = [w \in Workers |-> "none"]
    /\ made = {}
    /\ retry = [w \in Workers |-> FALSE]
    /\ touched = {}

-----------------------------------------------------------------------------
(* What a statement sees *)

\* A bug: the level is left to a server or a role that has another default.
InheritedLevel == "REPEATABLE READ"

\* DATABASES["default"]["OPTIONS"]["isolation_level"]
IsolationLevel == "READ COMMITTED"

\* At READ COMMITTED every statement takes a snapshot of its own; at the levels
\* above it, the first statement of a transaction takes it for all of them.
Visible(w) ==
    IF IsolationLevel = "READ COMMITTED" THEN [types |-> types, rows |-> rows]
    ELSE snapshot[w]

InTransaction(w) == pc[w] \in {"find_key", "read_schedule", "insert"}

Held(id) == \E w \in Workers : InTransaction(w) /\ fleet[w].id = id
HeldByOther(w, id) == \E v \in Workers \ {w} : InTransaction(v) /\ fleet[v].id = id

SameRequest(b, r) == b.customer = r.customer /\ b.key = r.key

\* find_by_key among these rows
WithKey(table, r) == {b \in table.rows : SameRequest(b, r)}

\* A booking is of the type its row is called now: Booking.is_for after
\* _to_booking(row, row.car_type.kind).
Replay(w, b, table) ==
    IF b.period = req[w].period /\ \E t \in table.types : t.id = b.type /\ t.name = kind[w]
    THEN "replayed" ELSE "IdempotencyConflict"

-----------------------------------------------------------------------------
Goto(w, from, to) == pc[w] = from /\ pc' = [pc EXCEPT ![w] = to]

\* The transaction, if there is one, is over, and its locks and snapshot with it.
Finish(w, from, outcome) ==
    /\ Goto(w, from, "done")
    /\ answer' = [answer EXCEPT ![w] = outcome]
    /\ fleet' = [fleet EXCEPT ![w] = NoRow]
    /\ snapshot' = [snapshot EXCEPT ![w] = NoTables]
    /\ UNCHANGED <<types, nextType, requests, edits, req, kind, retry, touched>>

\* The form may be as old as it likes: it names any row there has been.
Receive(w) ==
    /\ requests < MaxRequests
    /\ requests' = requests + 1
    /\ Goto(w, "idle", "form")
    /\ \E f \in Form :
        /\ req' = [req EXCEPT ![w] = f]
        /\ retry' = [retry EXCEPT ![w] = f \in made]
    /\ UNCHANGED <<tables, edits, kind, fleet, snapshot, answer, made, touched>>

\* ModelChoiceField reads the row by its id, and .kind is its name by then.
CleanForm(w) ==
    /\ pc[w] = "form"
    /\ \/ \E t \in types :
           /\ t.id = req[w].type
           /\ Goto(w, "form", "find_fleet")
           /\ kind' = [kind EXCEPT ![w] = t.name]
           /\ UNCHANGED answer
       \/ /\ \A t \in types : t.id # req[w].type
          /\ Goto(w, "form", "done")
          /\ answer' = [answer EXCEPT ![w] = "InvalidForm"]
          /\ UNCHANGED kind
    /\ UNCHANGED <<tables, requests, edits, req, fleet, snapshot, history>>

\* _lock: the transaction's first statement looks for the row of that name in
\* its snapshot, and then goes for the lock.
FindFleet(w) ==
    \/ /\ Goto(w, "find_fleet", "lock_fleet")
       /\ \E t \in types : t.name = kind[w] /\ fleet' = [fleet EXCEPT ![w] = t]
       /\ snapshot' = [snapshot EXCEPT ![w] = [types |-> types, rows |-> rows]]
       /\ UNCHANGED <<tables, requests, edits, req, kind, answer, history>>
    \/ /\ pc[w] = "find_fleet"
       /\ \A t \in types : t.name # kind[w]
       /\ Finish(w, "find_fleet", "CarTypeNotFound")
       /\ UNCHANGED <<rows, made>>

\* A bug: the row is locked by the id that was found, whatever it is called.
StillThere(w, t) == t.id = fleet[w].id

\* The lock is granted on the newest version of the row, and PostgreSQL asks
\* the WHERE of the statement again of it.
StillCalled(w, t) == t.id = fleet[w].id /\ t.name = kind[w]

LockFleet(w) ==
    /\ pc[w] = "lock_fleet"
    /\ ~HeldByOther(w, fleet[w].id)
    /\ \/ /\ Goto(w, "lock_fleet", "find_key")
          /\ \E t \in types :
              /\ StillCalled(w, t)
              /\ fleet' = [fleet EXCEPT ![w] = t]
          /\ UNCHANGED <<tables, requests, edits, req, kind, snapshot, answer, history>>
       \/ /\ \A t \in types : ~StillCalled(w, t)
          /\ Finish(w, "lock_fleet", "CarTypeNotFound")
          /\ UNCHANGED <<rows, made>>

LockTimeout(w) ==
    /\ pc[w] = "lock_fleet"
    /\ HeldByOther(w, fleet[w].id)
    /\ Finish(w, "lock_fleet", "FleetBusy")
    /\ UNCHANGED <<rows, made>>

\* A bug: the policy is asked before the key is looked up.
PolicyFirst(w) ==
    LET table == Visible(w) IN
    \/ /\ pc[w] = "find_key"
       /\ \E b \in WithKey(table, req[w]) : Finish(w, "find_key", Replay(w, b, table))
       /\ UNCHANGED <<rows, made>>
    \/ /\ Goto(w, "find_key", "read_schedule")
       /\ WithKey(table, req[w]) = {}
       /\ UNCHANGED <<tables, requests, edits, req, kind, fleet, snapshot, answer, history>>
    \/ /\ pc[w] = "find_key"
       /\ Finish(w, "find_key", "InvalidRentalPeriod")
       /\ UNCHANGED <<rows, made>>

\* The key is looked up, and then the policy asked.
FindKey(w) ==
    LET table == Visible(w) IN
    \/ /\ pc[w] = "find_key"
       /\ \E b \in WithKey(table, req[w]) : Finish(w, "find_key", Replay(w, b, table))
       /\ UNCHANGED <<rows, made>>
    \/ /\ Goto(w, "find_key", "read_schedule")
       /\ WithKey(table, req[w]) = {}
       /\ UNCHANGED <<tables, requests, edits, req, kind, fleet, snapshot, answer, history>>
    \/ /\ pc[w] = "find_key"
       /\ WithKey(table, req[w]) = {}
       /\ Finish(w, "find_key", "InvalidRentalPeriod")
       /\ UNCHANGED <<rows, made>>

\* fleet.schedule(period).can_accommodate(period)
ReadSchedule(w) ==
    LET booked == {b \in Visible(w).rows :
                      b.type = fleet[w].id /\ Overlaps(b.period, req[w].period)}
    IN
    \/ /\ Goto(w, "read_schedule", "insert")
       /\ CanAccommodate(fleet[w].size, booked, req[w].period)
       /\ UNCHANGED <<tables, requests, edits, req, kind, fleet, snapshot, answer, history>>
    \/ /\ pc[w] = "read_schedule"
       /\ ~CanAccommodate(fleet[w].size, booked, req[w].period)
       /\ Finish(w, "read_schedule", "NoAvailability")
       /\ UNCHANGED <<rows, made>>

\* The unique index knows every committed row, whatever the snapshot.
KeyIsFree(w) == \A b \in rows : ~SameRequest(b, req[w])

\* add() and the commit: the row points at the id of the locked row.
Insert(w) ==
    /\ pc[w] = "insert"
    /\ KeyIsFree(w)
    /\ Finish(w, "insert", "booked")
    /\ rows' = rows \cup {[id |-> Cardinality(rows) + 1, customer |-> req[w].customer,
                            type |-> fleet[w].id, period |-> req[w].period,
                            key |-> req[w].key]}
    /\ made' = made \cup {req[w]}

\* A bug: the ledger's own exception reaches the view.
EscapeDuplicate(w) ==
    /\ pc[w] = "insert"
    /\ ~KeyIsFree(w)
    /\ Finish(w, "insert", "DuplicateIdempotencyKey")
    /\ UNCHANGED <<rows, made>>

InsertDuplicate(w) ==
    /\ Goto(w, "insert", "recover")
    /\ ~KeyIsFree(w)
    /\ fleet' = [fleet EXCEPT ![w] = NoRow]
    /\ snapshot' = [snapshot EXCEPT ![w] = NoTables]
    /\ UNCHANGED <<tables, requests, edits, req, kind, answer, history>>

\* After the rollback: a statement, and so a snapshot, of its own.
Recover(w) ==
    LET table == [types |-> types, rows |-> rows] IN
    /\ pc[w] = "recover"
    /\ \E b \in WithKey(table, req[w]) : Finish(w, "recover", Replay(w, b, table))
    /\ UNCHANGED <<rows, made>>

Respond(w) ==
    /\ Goto(w, "done", "idle")
    /\ req' = [req EXCEPT ![w] = NoForm]
    /\ kind' = [kind EXCEPT ![w] = NoKind]
    /\ answer' = [answer EXCEPT ![w] = "none"]
    /\ retry' = [retry EXCEPT ![w] = FALSE]
    /\ UNCHANGED <<tables, requests, edits, fleet, snapshot, made, touched>>

-----------------------------------------------------------------------------
(* CarTypeAdmin: writes wait for the bookings that have locked the row *)

StaffWrite(table) ==
    /\ edits < MaxEdits
    /\ edits' = edits + 1
    /\ types' = table
    /\ UNCHANGED <<rows, requests, pc, req, kind, fleet, snapshot, answer, made, retry>>

\* A bug: the name is not unique.
AnyName(n, others) == TRUE

\* name is unique
NameIsFree(n, others) == \A t \in others : t.name # n

\* The change form saves the name and the size.
EditType(t) ==
    /\ ~Held(t.id)
    /\ \E n \in CarTypes, s \in FleetSizes :
        /\ NameIsFree(n, types \ {t})
        /\ n # t.name \/ s # t.size
        /\ touched' = IF n = t.name THEN touched ELSE touched \cup {t.id}
        /\ StaffWrite((types \ {t}) \cup {[id |-> t.id, name |-> n, size |-> s]})
    /\ UNCHANGED nextType

AddType ==
    /\ nextType \in TypeIds
    /\ nextType' = nextType + 1
    /\ \E n \in CarTypes, s \in FleetSizes :
        /\ NameIsFree(n, types)
        /\ StaffWrite(types \cup {[id |-> nextType, name |-> n, size |-> s]})
    /\ UNCHANGED touched

\* on_delete=PROTECT
DeleteType(t) ==
    /\ ~Held(t.id)
    /\ \A b \in rows : b.type # t.id
    /\ StaffWrite(types \ {t})
    /\ touched' = touched \cup {t.id}
    /\ UNCHANGED nextType

\* Every request the bound allows has been answered.
Terminated ==
    /\ requests = MaxRequests
    /\ \A w \in Workers : pc[w] = "idle"
    /\ UNCHANGED vars

Next ==
    \/ \E w \in Workers :
        \/ Receive(w) \/ CleanForm(w)
        \/ FindFleet(w) \/ LockFleet(w) \/ LockTimeout(w)
        \/ FindKey(w) \/ ReadSchedule(w)
        \/ Insert(w) \/ InsertDuplicate(w) \/ Recover(w)
        \/ Respond(w)
    \/ \E t \in types : EditType(t) \/ DeleteType(t)
    \/ AddType
    \/ Terminated

Spec == Init /\ [][Next]_vars

-----------------------------------------------------------------------------
Usage(id, t) == UsageAt({b \in rows : b.type = id}, t)

\* No booking puts more cars of a row on the road than the row says when the
\* booking is committed, although staff may resize the row, and others book the
\* last car, while the statement that locks it waits.
NeverOverbooks ==
    [][\A id \in TypeIds, i \in Instants :
          Usage(id, i)' > Usage(id, i) =>
              \E t \in types' : t.id = id /\ Usage(id, i)' <= t.size]_vars

\* A booking is made for a car of the type the desk was called with, or not at
\* all: a row that is renamed, swapped with another or deleted between the form
\* and the lock is not booked under its new name.
BooksWhatWasAsked ==
    [][\A b \in rows' \ rows : \E w \in Workers :
          /\ pc[w] = "insert" /\ answer'[w] = "booked"
          /\ SameRequest(b, req[w])
          /\ \E t \in types' : t.id = b.type /\ t.name = kind[w]]_vars

\* A form sends an id and is booked by a name, but what it books is the row it
\* offered, unless that row itself was renamed or deleted: no other row can be
\* given its name, or be found by it, however staff shuffle the rest.
UntouchedRowsAreBooked ==
    \A f \in made : f.type \notin touched =>
        \E b \in rows : SameRequest(b, f) /\ b.type = f.type

\* Only a rename of its own row makes a retry lose its reservation: resizing the
\* row, selling it out, a start that has passed, renames of other rows and
\* deletions never do, in whichever step of the retry they come.
OnlyRenamesLoseRetries ==
    \A w \in Workers :
        pc[w] = "done" /\ retry[w] /\ req[w].type \notin touched =>
            answer[w] \in {"replayed", "FleetBusy"}

-----------------------------------------------------------------------------
\* README.md: "Same user, key and parameters: the original reservation is
\* returned, flagged `replayed`, even if the fleet has since sold out or the
\* start time has passed."
RetryReturnsTheOriginal ==
    \A w \in Workers :
        pc[w] = "done" /\ retry[w] => answer[w] \in {"replayed", "FleetBusy"}
=============================================================================
