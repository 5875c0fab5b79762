# Vehicle rentals: formal model

TLA+ modules, TLC configurations and TLAPS proofs about the car rental service
in this repository. They answer the questions its tests can only sample: what
happens when many requests, cancellations, fleet changes, retries and failures
interleave.

- `tlc -workers 2 -config capacity.cfg MCDesk` model-checks one run.
- `tlapm PostgresDesk_proofs.tla`, and the same with each of the other seven
  `_proofs` modules, checks the proofs.

## 1. The system

A Django application books cars of three kinds. Customers book a *type* of car
for a period; a type has a fleet of interchangeable cars. The domain is plain
Python, and talks to storage through an abstract ledger with two
implementations.

| Component | State | Operations | Correct when |
|---|---|---|---|
| `domain/period.py` RentalPeriod | none (a value) | construct, `overlaps`, `duration`, `for_days` | half-open: return and pick-up at one instant do not meet; N days end at the same wall-clock time |
| `domain/policy.py` BookingPolicy | limits | `validate` | exactly the periods the business allows are accepted |
| `domain/schedule.py` FleetSchedule | fleet size, booked periods | `peak_usage`, `remaining`, `can_accommodate` | says yes iff at no instant of the window all cars are out |
| `domain/booking.py` Booking | id, customer, type, period, key, status, cancellation time | `is_for`, `may_be_managed_by`, `cancel` | cancelled at most once, before the rental ends, by owner or staff |
| `domain/desk.py` ReservationDesk | none of its own | `reserve`, `cancel`, `availability`, `reservations_for` | never overbooks; one booking per key; retries find their booking; answers are true |
| `ledger.py`, `models.py` PostgreSQL ledger | tables `rentals_cartype`, `rentals_reservation`, row locks, open transactions | `exclusive`, `add`, `find_by_key`, `exclusive_booking`, `save`, `schedule`, `bookings_of` | the desk's check and insert are one; nobody waits in a circle |
| `domain/in_memory.py` in-memory ledger | dictionary of bookings, a lock per fleet, a table lock | the same | the same contract, without rollback |
| `views.py`, `forms.py` dashboard | the form in the browser and its key | check, book, cancel | double click, refresh and back button never book twice |
| `admin.py` admin site | – | add, rename, resize or delete a fleet, cancel selected bookings | bookings in progress see a fleet as it is; the action reports what happened |
| `config/settings.py` connection settings | isolation level, `lock_timeout`, `statement_timeout` | – | READ COMMITTED; every wait is bounded |
| compose start-up: migrations, `seed_demo`, `create_dev_superuser`, web | tables and their record, fleet rows, accounts, `.env` | `up`, `down`, the job's three commands | done before the web serves; safe to repeat, whatever customers and staff did since |
| `healthcheck.py` | `DJANGO_ALLOWED_HOSTS` | the probe of `/healthz` | asks for a host the application accepts |
| request ids, access log, templates, Django auth | per-request context | – | no influence on bookings |

How they interact: a web worker calls the desk; the desk opens the ledger's
exclusive block, which is a database transaction holding the fleet row
`FOR UPDATE`; inside it looks up the key, asks the policy and the schedule, and
inserts. A cancellation is a transaction of its own that locks the reservation
row and never the fleet. Staff write fleet rows from the admin site, and cancel
ticked reservations by one call of the desk each. All workers share nothing but
the database. `docker compose up` runs a one-shot job on that database, the first
time before there are workers, and again while those of the last time still serve.

What is hard: check-then-insert under concurrency; one key used along two fleet
locks, where only the unique index stands between two bookings; answers lost
after the commit and retried later; three kinds of waiting (fleet rows,
reservation rows, index entries of open transactions) under one `lock_timeout`;
staff shrinking, renaming or deleting a fleet in the middle of a booking; a loop
of cancellations that fails half-way; a start-up job that is killed and repeated;
the sweep's boundary cases.
`PROJECT.json` lists each hazard at its line with the property that watches it.

## 2. The modules

```
RentalPeriod          Period(T), Overlaps, Duration, Covers
 ├─ BookingPolicy         Permits: BookingPolicy.validate
 │    └─ WallClock        for_days on a clock that is moved
 ├─ FleetSchedule         PeakUsage, CanAccommodate, Remaining
 │    └─ PeakSweep        the loop of peak_usage
 └─ Booking               the record and its rules
HealthProbe           the probe's Host header and ALLOWED_HOSTS
Calculations          PeakSweep, WallClock and HealthProbe    <- MCCalculations
Desk                  requests and answers; EXTENDS BookingPolicy,
 │                    FleetSchedule and Booking
 ├─ Reservations          abstract: what a desk promises
 ├─ PostgresDesk          the desk on PostgreSQL              <- MCDesk
 │    └─ AdminSite        cancel_selected                     <- MCAdmin
 ├─ InMemoryDesk          the desk on the in-memory ledger    <- MCInMemory
 └─ Dashboard             browsers, forms, views              <- MCDashboard
FleetRows             the lock by name, rows that are edited  <- MCFleetRows
ComposeStartup        docker compose up, again and again      <- MCCompose

FleetSchedule_proofs <- PostgresDesk_proofs <- AdminSite_proofs
 │                   <- Calculations_proofs
 │                   <- InMemoryDesk_proofs
 │                   <- Dashboard_proofs
 │                   <- FleetRows_proofs
ComposeStartup_proofs
```

`PostgresDesk` and `InMemoryDesk` each take an instance of `Reservations` and
state `KeepsThePromises == Promise!Spec`; `AdminSite` inherits the first.

**RentalPeriod, BookingPolicy, FleetSchedule, Booking** are operators without
state, one module per Python module. An instant is a number. `FleetSchedule`
states the sweep by what it computes: the running total after the pick-ups of an
instant is the number of clipped pick-ups so far minus the number of clipped
returns so far, and the peak is the largest total right after a pick-up, or 0.
Its independent meaning is `UsageAt`, the number of bookings whose half-open
period covers an instant. **PeakSweep** is the loop as it is written, with
`events`, `in_use` and `peak` as its variables. One turn of the loop is a step: it
takes an event that the sort puts before all that are left, any one of those that
compare equal, so that every order `events.sort()` can produce is a behaviour.

**Reservations** is the abstract desk, and models no code. A request takes
effect in one step between its arrival and its answer, and its answer is true in
that step: `Book`, `Replay`, `Refuse`, `Cancel`, `RefuseToCancel`. `Fail` is a
server error; one that arrives instead of an answer (`TakeEffect`) leaves it open
whether the request took effect. It has no locks, no transactions and no order of
checks beyond what a client can tell. Two of its guards are weaker than one would
first write, because the code is: the policy and the cancellation may have been
judged by an earlier clock (`\E t \in 0 .. now`), and a key
that is new to the index may have been refused by the policy although it has
booked *another* car type.

**PostgresDesk** has one action per SQL statement together with the Python code
that runs up to the next one. `pc[w]` says which statement worker `w` sends
next:

| `pc` | Code | Actions |
|---|---|---|
| `lock_fleet` | `_lock`, `SELECT ... FOR UPDATE` | `LockFleet`, `CarTypeMissing`, `LockFleetTimeout` |
| `find_key` | `find_by_key`, `_replay` | `FindNoKey`, `FindKey` |
| `validate` | `policy.validate(period, now)` | `Accept`, `RefusePeriod` |
| `read_schedule` | `fleet.schedule(period).can_accommodate` | `FindRoom`, `FindNoRoom` |
| `insert` | `add`, with its savepoint | `Insert`, `InsertDuplicate`, `InsertTimeout` |
| `commit`, `rollback` | leaving `transaction.atomic()` | `Commit`, `Rollback` |
| `recover` | the `except DuplicateIdempotencyKey` of `reserve` | `Recover` |
| `lock_booking` | `exclusive_booking` | `LockBooking`, `BookingMissing`, `LockBookingTimeout` |
| `decide` | the body of `cancel` and `save` | `RefuseCancel`, `CancelAgain`, `CancelBooking` |
| `done` | the answer leaves | `Respond` |

`fleet`, `rows` and `nextId` are the tables; `fleetHeld` and `rowHeld` the row
locks of each transaction; `written` the row versions it has written and not
committed. PostgreSQL at READ COMMITTED is modelled by its documented
behaviour: a statement sees the rows committed when it runs, an insert waits for
an open transaction that wrote the same unique key, locks last to the end of the
transaction, an id taken from the sequence never comes back, and a row lock
granted after a wait shows the newest version of the row. A failure (`Abort`,
`CommitUnacknowledged`) may strike at any statement, the second after the
database has committed: the client gets a server error and may send the same
request again. `SetFleet` and `DeleteFleet` are the admin site and `seed_demo`.

Refinement mapping: `rows`, `fleet`, `now` and `req` are themselves; a request's
answer counts as given (`Decided`) from the step that decides it, except that one
with rows to write counts only once they are committed, and the loser of a race
for a key only once it has found the winner.

**InMemoryDesk** keeps the dictionary `_bookings`, the lock of each fleet
(`fleetLock`) and the table lock (`table`). A scan holds the table lock from its
first line to its last, so it is one action that needs `TableFree`; `add` and
`exclusive_booking` hold it over a decision, so `Add` and `LockBooking` take it and
`Store`, `KeepBooking` and `Save` give it back. A booking is visible when it is
stored, not at the end of the block, and a wait has no limit. `table` is never
waited for by its holder, so the RLock's re-entrance needs no count.

**Dashboard** is the browsers and the workers that handle what they post. A post
is a form filled in any way, with any key, while earlier posts may still be in
work: double click, refresh, back button, retry and a key that was tampered with
are all one action, `Submit`. `Malformed` stands for the keys that
`IdempotencyKey` does not take; the form refuses some of them itself
(`FormRefused`), the desk the others. `forms[c]` holds the keys that customer
`c`'s forms have had, so that `NewKey` issues another. `SubmitCancel` names any
reservation, also another customer's or one there never was. The desk's two
writing calls are one step each here (`Reserve`, `Cancel`), written from `desk.py`
with all their answers; that one step is enough is what `PostgresDesk` implementing
`Reservations` shows. `availability`, which takes no lock, is three (`CheckPolicy`,
`ReadFleet`, `ReadRows`). `Redirect`, `Reissue`, `Explain` and `ShowNoForm` are the
branches of the view after the desk's answer. The variables
after `page` are history: which forms have been submitted, and what was said by
checks during which nothing changed.

**AdminSite** adds to `PostgresDesk` the loop of `cancel_selected`: `batch[w]` is
the action a worker is carrying out, with the ids it has still to cancel, its
count and the ids it has an error message for. `CancelNext` hands one id to the
desk as a request of the staff member's, and the actions of `PostgresDesk` carry it
out; `CountCancelled` and `NoteRefusal` are the `else` and the `except` of the
loop, `StopBatch` an exception that is not a `DomainError`. Everything else
of `PostgresDesk` goes on between two ids, and the step relation is checked to
implement `Reservations` still.

**FleetRows** is `reserve` seen from the fleet table. A form sends the id of a row
(`CleanForm` turns it into the name it has by then), the desk is called with the
name, `FindFleet` finds the row of that name and `LockFleet` locks it, after
whatever wait, on its newest version if that is still called so. `EditType`,
`AddType` and `DeleteType` are the admin site; an edit may change the name and the
size at once. `Visible(w)` is what a statement sees: at READ COMMITTED the tables
as they are, above it the snapshot that the transaction's first statement took,
before it waited. That the settings name the first is `IsolationLevel`, and the
mutant that inherits the other overbooks. `touched` is history: the rows, by id,
that were ever renamed or deleted. Policy, cancellation and lost connections are
left to `PostgresDesk`; all that is left of the policy is that it may refuse.

**ComposeStartup** is `docker compose up`. `jobPc` is the next statement of the
job: `migrate` and `record` (a migration commits its tables and is recorded
afterwards, which is how Django treats one that leaves constraints to the end of
its transaction), `seed`, `seed_insert` and `seed_again` (the look, the insert
and the second look of `get_or_create`), `superuser` and `create_superuser`. The
job may die before any of them, `.env` may say something else at each `Up`, and
the web processes of the last start serve on: `CheckSignUp` and `SaveSignUp` are
`signup`, whose check and insert are two statements, and `EditFleet` and
`EditAccount` are staff.

**WallClock** is `for_days`: a zone with one change forward and one back, the two
readings of a repeated time and none of a skipped one, `fold`, and the first and
the last instant of the calendar. **HealthProbe** has the two readings of
`DJANGO_ALLOWED_HOSTS`, the settings' and the probe's. **Calculations** has one
initial state for each input of the sweep, the clock or the probe. On a schedule
the loop then takes its turns; the others are computed at once.
**Desk** holds what the ledgers share.

Abstracted: names, wording, logging, column formats, the user table; a booking's
status column (a CHECK makes it say the same as the cancellation time); the
clock of the desk moves in units, and never back.

## 3. What TLC checks

| Run | Instance | Shows |
|---|---|---|
| `capacity` | PostgresDesk, 3 workers, 4 requests, a fleet of 2 that staff set to 1 or 2 or delete, periods [0,1) [2,3) [0,3) | `NeverOverbooks`; `RefusedOnlyWhenFull`: nobody is refused while a car is free throughout, which counting overlaps would get wrong; `TypeOK` |
| `keys` | PostgresDesk, 3 workers, 4 requests with one key over 2 types and 2 periods, failures, a clock that passes the start | `OneBookingPerKey`, `DuplicateKeyNeverEscapes`, `AnswersAreDurable`, `RetriesFindTheirBooking`, `WaitChainsEnd` |
| `admin` | AdminSite, 2 workers, 4 requests, batches of cancellations among them, of a customer and of staff over 2 types, failures, a clock that passes the end | `BatchReportIsTrue`: each ticked reservation is counted or named, truly and once; `KeepsThePromises`: every request takes effect at one instant; `HistoryIsKept` |
| `stalled` | PostgresDesk, 3 workers, 4 requests, `lock_timeout` on, one worker may stop for ever anywhere | `AllAnswered`: the other workers' requests are all answered |
| `in_memory` | InMemoryDesk, 3 threads, 3 requests, 2 keys, 2 types or one without a fleet | `KeepsThePromises`, `AllAnswered`; by `TypeOK`, `DuplicateIdempotencyKey` is no caller's answer |
| `dashboard` | Dashboard, 2 workers, 3 posts, 3 keys, 2 periods, and any key tampered with, a fleet of 1 that may become 2 or go | `MessagesAreTrue`; `SpentFormsAreReissued`: a form is called "already used" only if it was, or if its key is none, and the next one works; `AdviceHolds` |
| `calculations` | every schedule of up to 3 bookings and every window over 5 instants; 5 zones, every hour of 4 days, 1 to 4 days; up to 3 allowed hosts | `PeakIsLargestUse`, `RemainingIsMost`, in whatever order the sort leaves equal events; `DueWhenTheClockShows`, `DaysDecideTheLength`; `ProbeIsAccepted` |
| `fleet_rows` | FleetRows, 2 workers, 3 posts with 2 keys, 2 fleet rows and 3 names, 2 edits | `BooksWhatWasAsked`, `NeverOverbooks`; `UntouchedRowsAreBooked`: a form books the row it offered, unless that row was renamed or deleted; `OnlyRenamesLoseRetries`; by `TypeOK` the loser of a race for a key always finds an answer |
| `startup` | ComposeStartup, 3 times `up`, 5 contents of `.env`, 2 names, 2 edits | `WebFindsItsTables`, `FleetEditsSurvive`, `AccountsSurvive`, `SuperusersComeFromDev`, `StartsEnd` |
| `insert_timeout`, `many_days`, `rename` | | violations, see findings |

**Bounds.** `MaxRequests` and `MaxPosts` bound the requests of a history,
`MaxNow` the clock. Three workers are enough for a chain of two waits and for a
third party to commit between two statements of another; four requests allow
three at once and a retry, a cancellation or a re-booking after them. One or two
cars already have both "last car" and "free car"; the three periods of `capacity`
are the smallest where the number of overlaps and the peak differ. The runs split
the dimensions: `capacity` has no failures, no clock and no timeouts (a timeout
only takes a request away), `keys` has no staff, `admin` has failures, timeouts,
a clock and two workers. Empty `FleetSizes` means that the staff leave the
fleets' sizes alone in that run. A batch of `admin` is one of its requests, whatever
it ticks: two bookings, a batch and a cancellation that meets it, or two batches.
In `dashboard` the keys
bound the forms that can be shown; one customer cancels there, so that of the two
reasons for "not found" TLC sees the reservation that never was, and the proofs
see another's too. In `fleet_rows` two edits can swap a name onto
another row, or delete a row and add one of that name, inside one booking. In
`startup` three starts allow one that dies half-way, one that fails on what it
left, and one more; the five contents of `.env` are nothing set, a typo, a
developer with and without a password and one who spells it with a capital. In
`calculations` a unit is an hour and both changes of the year can fall into one
rental; `LastWall` stands for the end of year 9999, `FirstWall` for the start of year 1;
`many_days` is about the last only, and puts the first out of reach. Workers, keys
and names of bookings are symmetric; the runs with liveness use no symmetry.

**Fairness.** `FairSpec` asks weak fairness of `Progress(w)`, what the code of a
worker does next; in `PostgresDesk` for every worker that is not in `Stalled`. A
gunicorn worker runs on by itself; a statement that can be answered is answered;
`lock_timeout` fires when its time is over. In `InMemoryDesk` it is asked of every
thread, since nothing there ends a wait. In `ComposeStartup` it is asked of the
job, which runs on unless it is killed, and of `StartWeb`, which compose does by
itself when the job has succeeded. Nothing is asked of clients, staff,
failures or the clock. Requests are finite, so what an endless stream of others
could do to one waiting request (PostgreSQL queues row locks in order of arrival,
but the model does not) is not examined.

**Findings.** Two statements of the documents are stronger than the code, and
one input meets no rule.

- README.md:188 says that a booking that cannot get the lock raises `FleetBusy`
  "instead of a 500", and the test of one key raced over two types wants "a clean
  domain error, not a 500". `add()` translates `IntegrityError` only: when
  `lock_timeout` expires while the INSERT waits on the unique index, the
  `OperationalError` is a 500 (`ReserveNeverFails`). The client can retry it
  safely: `OneBookingPerKey` and `RetriesFindTheirBooking` hold.
- README.md:200 says that the same user, key and parameters find the original
  reservation "even if the fleet has since sold out or the start time has
  passed". The fleet is looked up first, by a name: if staff rename the row after
  the form has been read, the retry is told that there is no such fleet
  (`RetryReturnsTheOriginal`). Nothing else that staff do to the fleet has that
  effect (`OnlyRenamesLoseRetries`).
- The form leaves the number of days to the policy, but some three million days
  from now there is no date, and `for_days` raises `OverflowError` before the
  policy is asked (`PolicyDecidesTheDays`).

Two sentences of the documents are to be read with care, although no run of its
own is spent on them. "Different types never wait for each other" (README.md:177)
leaves out one key in flight for two types, where the second INSERT waits for the
first transaction, which itself waits for nobody (`WaitChainsEnd`). And a car
comes back "at the time of day it went out" unless the clocks skip that time:
`DueWhenTheClockShows` says what holds. A third is on the page: a form whose key was
tampered with is told "This form was already used" although it never was
(views.py:97-101, where the comment names both cases); `SpentFormsAreReissued`
allows that, and asks that the form shown next has a key that works.

## 4. What is proved

Every safety property of the passing runs is a theorem for all values of the
constants. The hypotheses are the named assumptions of the modules
(`BookingAssumption`, `PolicyAssumption`, `DeskAssumption`, `AdminAssumption`,
`InMemoryAssumption`, `DashboardAssumption`, `FleetRowsAssumption`,
`ComposeAssumption`, `CalculationsAssumption`, `WallClockAssumption`,
`HostAssumption`, `LengthAssumption`). TLC evaluates them in each run. All but the
last two give the constants their types, and say that the tables a history starts
from are finite; `HostAssumption` says that the names a deployment may list
include the two that the settings allow by default.

`LengthAssumption` is about the default policy and is used by `DaysDecide` only:
the longest rental is a number of whole days (90, policy.py:35), the shortest, one
hour, and the allowance for daylight saving, another hour (policy.py:14, 34),
together are no longer than a day, and no clock moves by more than the allowance.
The last is the comment at policy.py:11. Almost all zones that move their clocks
move them by an hour; one that moves them by two is outside the theorem, and there
a rental of 90 days that spans the end of summer would be refused.

| Module | Theorem | Says |
|---|---|---|
| `FleetSchedule_proofs` | `PeakIsEnough`, `PeakIsReached` | the peak bounds the usage at every instant of the window, and is attained at its start or at a pick-up in it |
| | `SweepFindsRoom` | `CanAccommodate` iff at every instant of the window fewer cars are out than there are |
| | `RemainingIsGuaranteed` | `Remaining` is the largest number of cars free at every instant of the window |
| `PostgresDesk_proofs` | `TypeCorrect`, `FleetNeverOverbooked`, `KeyBooksOnce` | `TypeOK`, `NeverOverbooks`, `OneBookingPerKey` |
| | `RecordsAreKept`, `RefusalsAreTrue`, `WaitingEnds` | `HistoryIsKept`, `RefusedOnlyWhenFull`, `WaitChainsEnd` |
| | `AnswersHold`, `LosersFindTheWinner`, `RetriesAreRecognised` | `AnswersAreDurable`, `DuplicateKeyNeverEscapes`, `RetriesFindTheirBooking` |
| | `DeskKeepsThePromises` | the desk on PostgreSQL implements `Reservations` |
| `Calculations_proofs` | `LoopComputesThePeak` | `PeakIsLargestUse`: the loop ends with the largest number of cars out at an instant of the window, in whatever order it takes equal events |
| | `RemainingFits` | `RemainingIsMost` |
| | `DueOnTheClock`, `DaysDecide` | `DueWhenTheClockShows`, `DaysDecideTheLength` |
| | `ProbeIsAnswered` | `ProbeIsAccepted` |
| `AdminSite_proofs` | `BatchReports`, `AdminKeepsRecords` | `BatchReportIsTrue`, `HistoryIsKept` |
| | `AdminKeepsThePromises` | with batches too, the desk implements `Reservations` |
| `InMemoryDesk_proofs` | `InMemoryTypes` | `TypeOK`, hence that no caller sees `DuplicateIdempotencyKey` |
| | `InMemoryNeverOverbooks` | at every instant the bookings need no more cars than the fleet has |
| | `InMemoryKeyBooksOnce` | a key names one booking, without a unique index |
| | `InMemoryKeepsThePromises` | the desk on the in-memory ledger implements `Reservations` |
| `Dashboard_proofs` | `DashboardTypes`, `MessagesHold` | `TypeOK`, `MessagesAreTrue` |
| | `SpentFormsReissued`, `ChecksAgree` | `SpentFormsAreReissued`, `AdviceHolds` |
| `FleetRows_proofs` | `RowsTypeCorrect`, `BookedAsAsked`, `RowsNeverOverbooked` | `TypeOK`, `BooksWhatWasAsked`, `NeverOverbooks` (of the size at the commit) |
| | `UntouchedRowsBooked`, `RenamesAloneLoseRetries` | `UntouchedRowsAreBooked`, `OnlyRenamesLoseRetries` |
| `ComposeStartup_proofs` | `StartTypeCorrect`, `WebIsReady`, `SuperusersNeedDev` | `TypeOK`, `WebFindsItsTables`, `SuperusersComeFromDev` |
| | `SeedNeverOverwrites`, `StartKeepsAccounts` | `FleetEditsSurvive`, `AccountsSurvive` |

The desk is thus shown to keep one set of promises on either ledger: every request
takes effect at one instant, and its answer was true then. That a key books once, and
that a fleet suffices at every instant, is proved on each ledger from its own
invariant, because the reasons differ: a unique index and a row lock, or a table
lock over the search and the store. With PostgreSQL staff may shrink a
fleet below what is booked, so there `NeverOverbooks` speaks of each step; the
sizes of the in-memory ledger never change, so there the fleet suffices in every
state. `InMemoryNeverOverbooks` and `InMemoryKeyBooksOnce` are such consequences;
no run needs to check them again.

**PostgresDesk.** The inductive invariant `DeskInv` has four layers, each using
those before.

1. `TypeInv`: types, and the request and booking in hand.
2. `LockInv`: a worker between the fleet lock and its commit holds exactly that
   fleet row, no two workers hold one row, and a write set exists only while
   its transaction is about to commit.
3. `RowInv`: keys are unique among committed rows *and* the rows about to be
   committed, ids are fresh, and a worker that is about to cancel has in hand the
   row as it is stored. `OneBookingPerKey` alone is not inductive: the hazard is
   two open transactions.
4. `RoomInv`: a worker past the availability check still has a car at every
   instant of its period. It survives the steps of others because only a holder
   of the fleet lock can add usage of that type or change its fleet, and everyone
   else's commit, a cancellation, only lowers usage (`UsageChanges`). It starts to
   hold by `PeakIsEnough`, the step from the sweep to the meaning of "in use".

`RefusalsAreTrue` runs the other way: `PeakIsReached` gives the instant with no
car, and since it is a booking's own pick-up or the start of the request it is one
of the instants the property speaks of. `WaitingEnds` is layer 2 alone: who waits
for a fleet or a reservation holds nothing, and who has written waits for nothing.
`RecordsAreKept` is layer 3: only commits write, and the one stored row a commit
replaces is the one that was read under its lock.

Answers need what a worker knows, `AnswerInv`, inductive relative to `DeskInv`.
`Searched`: once a worker has not found its key, no row with that key and *its car
type* can appear, because whoever would commit one holds the same fleet lock.
`Lost`: between the refused INSERT and the search for the winner the key stays
taken, because no row is ever lost (`RowsKeepTheirFields`). `Durable`: what is
about to be reported is in the table, or in the write set that the next step
commits.

The refinement needs one layer more, `TalkInv`: the answer a worker has in hand
goes with its request and its `pc`, whoever is about to cancel may do so, and the
policy allowed a booking at some moment of the past. Then every step is one of
`Reservations` or does not show. The instant at which a request takes effect is
the commit if it writes, the search that finds the winner if it lost a race, and
otherwise the step that decides. `Book` gets its car at every instant from
`RoomInv`, its unused key from `RowInv`; an acknowledgement lost after the commit
is `TakeEffect` with a server error.

**Calculations.** `SweepInv` is the invariant of the loop. `CountInv`: the events
taken sort before those left, and `in_use` is the number of bookings whose pick-up
is taken minus that of the bookings whose return is. `PeakInv`: the peak is at
least `in_use`, at most `PeakUsage`, and at least the use after each pick-up time
whose events are all taken. `PeakIsLargestUse` alone speaks of the end only. The
upper bound is the step that needs the order of the sort: a turn that raises the
peak takes a pick-up, returns at that instant sort before it and are taken, so
`in_use` is at most the use after that instant. The order of equal events
does not matter for it. When nothing is left the bounds meet, and `PeakIsEnough`
and `PeakIsReached` turn the peak into the largest use.

The clock: the two ends of a rental are each read with one of two offsets, so the
time that passes differs from the days by no more than the shift, and the policy's
limit in whole days plus its allowance separates `days` from `days + 1`. A time
that is shown again is read with fold 0, hence at its first reading. The probe: the
first entry with a name is among the allowed hosts; where no entry has one, the only
host allowed is the star; and where nothing is set, `localhost` is the default of
both sides.

**AdminSite.** A step of it is a step of `PostgresDesk`, the choice of a batch, or
the request of the next cancellation (`AdminSteps`), so that the four invariants
carry over. `BatchInv` follows one batch: the ids still to come, the one in work,
those counted and those named are the ids that were ticked, each in one place
only; whatever was counted is cancelled, and whatever was named has ended
uncancelled, with no cancellation of it decided earlier and still to be committed
(`Ended`). Since no row is lost and no stamp is taken back, this stays true while
others cancel.

**InMemoryDesk.** `DeskInv` has the four layers again, with other reasons: the
table lock is held by exactly the worker between `add` and the store, or between
the read and the save of a cancellation (`LockInv`), so what a worker has read is
still in the dictionary when it writes (`Knows`, `Decision`). The key that `Add`
found free is free until `Store`, across two fleet locks. Nothing is rolled back,
so `Store` is the instant of a booking and `Save` that of a cancellation.

**Dashboard.** `DashInv` says what ties the pages to the bookings.

- `RowInv`, `FormInv`: every booking is of a form that was submitted,
  every well-formed key that was submitted is known, whoever made it up, and each
  key has one booking. So a new key is on no booking and on no submitted form, and
  a conflict means an earlier submission.
- `Knows`: a worker whose form's booking had been cancelled when it was sent
  (`late`) can only be answered with that booking; an answer "booked" or
  "replayed" is of a booking as asked, and one that is reported as standing is
  not of a late form. With `RowsKept` (bookings are only added or cancelled)
  what a page says stays true, which `MessagesAreTrue` alone cannot tell.
- `Undisturbed` and `StillTrue`: a check in progress that neither staff nor the
  clock disturbed has the size of the fleet and the verdict of the policy as they
  are, and the advice it leaves is `Remaining` of the bookings as they are.
  Bookings and cancellations may fall between its two reads, because the second
  sees them. `RemainingIsGuaranteed` and `CanAccommodate` then agree on whether
  there is a car.

**FleetRows.** `RowsInv` has the same layers with other reasons. `LockInv` says
that the row in hand *is* a row of the table, under the name asked for, and nobody
else's: it starts to hold because the lock is granted on the newest version and
the name is asked again, and lasts because staff wait for a locked row. `RoomInv`
starts to hold because the statement that reads the bookings sees the table as it
is (`Visible`); with a snapshot from before the wait the step fails, which is the
mutant TLC kills.

That only a rename or a deletion of its own row can divert a form or lose its retry
is `UntouchedInv`. `NameInv`: ids are never given twice and names are unique, so no
other row can take the name of an untouched one. `Sought`: hence the name a worker
looks for is still that row's, and the row it finds and locks is that row.
`MadeInv`: a form that has made a booking has it, for the period it asked for and
on the row it named, which cannot go while it is booked. `Retries`: so the lookup
of the key finds that booking, under that name, and a retry never reaches the
policy or the schedule; this is where the order of `reserve` is used. That keys are
unique in the table is a lemma on the way, for it is what makes the booking found
the one that was made.

**ComposeStartup.** `StartInv` adds three layers to `TypeOK`. `EnvInv`: a job
that runs has a `.env`. `ProgressInv`: past `migrate` every migration is recorded,
and each demo type has had a row or is still in the list of the seeding, so that
none is missing when the list is empty; `WebFindsItsTables` alone forgets that list.
`ReadyInv`: the job is about to create a superuser only in a dev environment, and
the two invariants themselves. That staff's and customers' rows survive is then a
matter of each step: `SeedInsert` and `CreateSuperuser` write only under a name
that has no row at that statement, whatever the look before it saw.

**Only model-checked.** Liveness, `AllAnswered` and `StartsEnd`: fairness and
`ENABLED` are out of the prover's reach. What the proofs add to it is
`WaitChainsEnd`, which is why no wait depends on itself.

## 5. Not modelled

- Logging and request ids: a context variable set and reset around each request,
  and formatting. They change no state that bookings depend on.
- Templates, routing, middleware, TLS switches, login, logout and sessions:
  configuration of Django, whose own behaviour is not this code's.
- `/healthz` answers 503 without a database; what Docker then does is its own.
- `reservations_for` and `bookings_of`: one SELECT each, which changes nothing.
- Which label the page showed for a row id: if staff swap two names between the
  page and the post, the form books the type the id stands for by then. `FleetRows`
  begins at that id.
- A check of availability during which staff change the fleet: `AdviceHolds`
  allows bookings and cancellations between its two statements, but not that. The
  count is documented as advice.

`PROJECT.json` gives the reason for each component that is left out in part.

## 6. Plan

What could still be added, in order of importance:

1. The label a page showed for a row id, which `UntouchedRowsAreBooked` leaves open
   for a row that was itself renamed: a variable of `FleetRows` for the name the
   customer saw, and the answer to what a swap of two names does to it.
2. Liveness where requests never end and PostgreSQL's queue of row locks decides
   who comes next.
3. `reservations_for` in `Dashboard`: that the list a page shows is the one of an
   instant between request and answer.
