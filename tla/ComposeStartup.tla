--------------------------- MODULE ComposeStartup ---------------------------
(***************************************************************************)
(* docker compose up (docker-compose.yml): a one-shot job migrates the     *)
(* database, seeds the demo fleet and makes the developer's superuser, and *)
(* the web processes start once it has succeeded.  `up` is run again after *)
(* a crash, a change of .env or an update, on the same database and while  *)
(* the old web processes still serve: customers sign up and staff edit     *)
(* fleets and accounts between any two statements of the job.              *)
(***************************************************************************)
EXTENDS Integers, Sequences

CONSTANTS
    EnvFiles,     \* the contents .env may have: [env, username, password]
    Usernames,    \* the names accounts may have
    CarTypes,     \* the closed set of car types
    DemoFleet,    \* the demo types and their sizes, in the order they are seeded
    FleetSizes,   \* the sizes staff may set
    MaxUps,       \* bound: times `docker compose up` is run
    MaxEdits      \* bound: changes staff make

ASSUME ComposeAssumption ==
    /\ \A f \in EnvFiles : DOMAIN f = {"env", "username", "password"} /\ f.username \in Usernames
    /\ DemoFleet \in Seq([name : CarTypes, size : Nat])
    /\ FleetSizes \subseteq Nat
    /\ MaxUps \in Nat
    /\ MaxEdits \in Nat

VARIABLES
    ups,        \* times the project has been brought up
    edits,      \* changes staff have made
    jobPc,      \* what the job does next, or how its container ended
    jobEnv,     \* the .env it was created with
    todo,       \* the demo types it has still to see to
    web,        \* the .env the web processes run with
    tables,     \* the migrations whose tables exist
    recorded,   \* the migrations in django_migrations
    types,      \* table rentals_cartype: the size of each type with a row
    users,      \* table accounts_user
    signingUp,  \* names whose sign-up form has been found valid
    seeded,     \* history: types that have had a row
    devJob      \* history: a job in a dev environment has made a superuser

database == <<tables, recorded, types, users>>
vars == <<ups, edits, jobPc, jobEnv, todo, web, database, signingUp, seeded, devJob>>

NoFleet == -1
NoEnv == [nothing |-> "runs"]
NoUser == [nothing |-> "signed up"]

\* The columns that matter here of accounts.User; a name is the key of its row.
Account == [superuser : BOOLEAN, password : {"of its owner", "of the .env", "changed"}]

\* Each application's first migration, and what must have been applied before.
AccountsInitial == [name |-> "accounts", after |-> {}]
RentalsInitial == [name |-> "rentals", after |-> {"accounts"}]
Migrations == {AccountsInitial, RentalsInitial}
MigrationNames == {m.name : m \in Migrations}

Running == {"migrate", "record", "seed", "seed_insert", "seed_again",
            "superuser", "create_superuser"}

TypeOK ==
    /\ ups \in Nat /\ edits \in Nat
    /\ jobPc \in Running \cup {"none", "succeeded", "failed"}
    /\ jobEnv \in EnvFiles \cup {NoEnv}
    /\ todo \in Seq([name : CarTypes, size : Nat])
    /\ web \in EnvFiles \cup {NoEnv}
    /\ tables \subseteq MigrationNames
    /\ recorded \subseteq tables
    /\ types \in [CarTypes -> Nat \cup {NoFleet}]
    /\ users \in [Usernames -> Account \cup {NoUser}]
    /\ signingUp \subseteq Usernames
    /\ seeded \subseteq CarTypes
    /\ devJob \in BOOLEAN

Init ==
    /\ ups = 0 /\ edits = 0
    /\ jobPc = "none" /\ jobEnv = NoEnv /\ todo = <<>>
    /\ web = NoEnv
    /\ tables = {} /\ recorded = {}
    /\ types = [t \in CarTypes |-> NoFleet]
    /\ users = [u \in Usernames |-> NoUser]
    /\ signingUp = {}
    /\ seeded = {} /\ devJob = FALSE

-----------------------------------------------------------------------------
(* settings.py, as every process of the job and of the web reads it *)

\* ${DJANGO_ENV:-production}, then _one_of: blanks and capitals do not matter.
Spelt(env) ==
    CASE env = "" -> "production"
      [] env = " Dev" -> "dev"
      [] OTHER -> env

\* A bug: whatever is not production is a developer's machine.
AnythingElseIsDev(f) == IF Spelt(f.env) = "production" THEN "production" ELSE "dev"

Environment(f) ==
    IF Spelt(f.env) \in {"dev", "production"} THEN Spelt(f.env) ELSE "ImproperlyConfigured"

-----------------------------------------------------------------------------
(* The job: migrate && seed_demo && create_dev_superuser --if-dev *)

Goto(from, to) == jobPc = from /\ jobPc' = to

\* A step of the job leaves the rest of the world alone, but for what it says.
JobOnly == UNCHANGED <<ups, edits, jobEnv, web, signingUp>>

\* Settings that are not proper stop the first command, and so the job.
RefuseSettings ==
    /\ Goto("migrate", "failed")
    /\ Environment(jobEnv) = "ImproperlyConfigured"
    /\ JobOnly /\ UNCHANGED <<todo, database, seeded, devJob>>

Due == {m \in Migrations : m.name \notin recorded /\ m.after \subseteq recorded}

\* A migration is one transaction.  Both leave constraints and indexes to its
\* end, and such a migration is recorded after it.
ApplyMigration ==
    /\ jobPc = "migrate"
    /\ Environment(jobEnv) # "ImproperlyConfigured"
    /\ \E m \in Due :
        \/ /\ Goto("migrate", "record")
           /\ m.name \notin tables
           /\ tables' = tables \cup {m.name}
        \/ /\ Goto("migrate", "failed")
           /\ m.name \in tables
           /\ UNCHANGED tables
    /\ JobOnly /\ UNCHANGED <<todo, recorded, types, users, seeded, devJob>>

\* A bug: migrate --fake, for tables some of which are there.
RecordAll ==
    /\ Goto("record", "migrate")
    /\ recorded' = MigrationNames
    /\ JobOnly /\ UNCHANGED <<todo, tables, types, users, seeded, devJob>>

RecordMigration ==
    /\ Goto("record", "migrate")
    /\ recorded' = tables
    /\ JobOnly /\ UNCHANGED <<todo, tables, types, users, seeded, devJob>>

NothingToMigrate ==
    /\ Goto("migrate", "seed")
    /\ Due = {}
    /\ Environment(jobEnv) # "ImproperlyConfigured"
    /\ JobOnly /\ UNCHANGED <<todo, database, seeded, devJob>>

Demo == Head(todo)
HasRow(name) == types[name] # NoFleet

Put(name, size) ==
    /\ types' = [types EXCEPT ![name] = size]
    /\ seeded' = seeded \cup {name}

\* A bug: update_or_create.
SeedAnew ==
    /\ Goto("seed", "seed")
    /\ todo # <<>>
    /\ Put(Demo.name, Demo.size)
    /\ todo' = Tail(todo)
    /\ JobOnly /\ UNCHANGED <<tables, recorded, users, devJob>>

\* get_or_create looks first,
SeedLook ==
    /\ todo # <<>>
    /\ \/ /\ Goto("seed", "seed")
          /\ HasRow(Demo.name)
          /\ todo' = Tail(todo)
       \/ /\ Goto("seed", "seed_insert")
          /\ ~HasRow(Demo.name)
          /\ UNCHANGED todo
    /\ JobOnly /\ UNCHANGED <<database, seeded, devJob>>

\* inserts,
SeedInsert ==
    \/ /\ Goto("seed_insert", "seed")
       /\ ~HasRow(Demo.name)
       /\ Put(Demo.name, Demo.size)
       /\ todo' = Tail(todo)
       /\ JobOnly /\ UNCHANGED <<tables, recorded, users, devJob>>
    \/ /\ Goto("seed_insert", "seed_again")
       /\ HasRow(Demo.name)
       /\ JobOnly /\ UNCHANGED <<todo, database, seeded, devJob>>

\* and looks again when someone else has inserted the name: if it is gone by
\* then, the command fails.
SeedAgain ==
    /\ \/ /\ Goto("seed_again", "seed")
          /\ HasRow(Demo.name)
          /\ todo' = Tail(todo)
       \/ /\ Goto("seed_again", "failed")
          /\ ~HasRow(Demo.name)
          /\ UNCHANGED todo
    /\ JobOnly /\ UNCHANGED <<database, seeded, devJob>>

SeedDone ==
    /\ Goto("seed", "superuser")
    /\ todo = <<>>
    /\ JobOnly /\ UNCHANGED <<todo, database, seeded, devJob>>

\* A bug: the account that has the name is made a superuser.
PromoteOwner ==
    LET inDev == Environment(jobEnv) = "dev"
        found == inDev /\ users[jobEnv.username] # NoUser
    IN
    /\ jobPc = "superuser"
    /\ jobPc' = IF found \/ ~inDev THEN "succeeded" ELSE "create_superuser"
    /\ users' = IF found THEN [users EXCEPT ![jobEnv.username].superuser = TRUE] ELSE users
    /\ devJob' = (devJob \/ found)
    /\ JobOnly /\ UNCHANGED <<todo, tables, recorded, types, seeded>>

\* The gate comes first; then the password must be there; then the name must be
\* nobody's, or a superuser's.
FindSuperuser ==
    LET owner == users[jobEnv.username] IN
    /\ jobPc = "superuser"
    /\ \/ /\ Environment(jobEnv) # "dev"
          /\ jobPc' = "succeeded"
       \/ /\ Environment(jobEnv) = "dev"
          /\ \/ /\ jobEnv.password = ""
                /\ jobPc' = "failed"
             \/ /\ jobEnv.password # ""
                /\ jobPc' = IF owner = NoUser THEN "create_superuser"
                            ELSE IF owner.superuser THEN "succeeded" ELSE "failed"
    /\ JobOnly /\ UNCHANGED <<todo, database, seeded, devJob>>

\* The name is unique: if someone has signed up with it since, the INSERT fails.
CreateSuperuser ==
    \/ /\ Goto("create_superuser", "succeeded")
       /\ users[jobEnv.username] = NoUser
       /\ users' = [users EXCEPT ![jobEnv.username] =
                       [superuser |-> TRUE, password |-> "of the .env"]]
       /\ devJob' = (devJob \/ Spelt(jobEnv.env) = "dev")
       /\ JobOnly /\ UNCHANGED <<todo, tables, recorded, types, seeded>>
    \/ /\ Goto("create_superuser", "failed")
       /\ users[jobEnv.username] # NoUser
       /\ JobOnly /\ UNCHANGED <<todo, database, seeded, devJob>>

JobStep ==
    \/ RefuseSettings \/ ApplyMigration \/ RecordMigration \/ NothingToMigrate
    \/ SeedLook \/ SeedInsert \/ SeedAgain \/ SeedDone
    \/ FindSuperuser \/ CreateSuperuser

\* The container is killed or loses the database; what was committed stays.
JobDies ==
    /\ jobPc \in Running /\ jobPc' = "failed"
    /\ JobOnly /\ UNCHANGED <<todo, database, seeded, devJob>>

-----------------------------------------------------------------------------
(* The one who runs compose *)

\* The job runs again with what .env says now; the web goes on until it is done.
Up ==
    /\ ups < MaxUps /\ ups' = ups + 1
    /\ jobPc \notin Running
    /\ jobPc' = "migrate"
    /\ jobEnv' \in EnvFiles
    /\ todo' = DemoFleet
    /\ UNCHANGED <<edits, web, database, signingUp, seeded, devJob>>

\* A bug: condition: service_started.
JobHasStarted == jobPc # "none"

\* A bug: condition: service_healthy, of a service without a health check.
JobIsHealthy == jobPc = "healthy"

\* condition: service_completed_successfully
JobHasSucceeded == jobPc = "succeeded"

\* Web processes that already run with this .env are left alone.
StartWeb ==
    /\ JobHasSucceeded
    /\ web # jobEnv
    /\ web' = jobEnv
    /\ signingUp' = {}
    /\ UNCHANGED <<ups, edits, jobPc, jobEnv, todo, database, seeded, devJob>>

\* docker compose down: the containers go, the volume stays.
Down ==
    /\ jobPc # "none"
    /\ jobPc' = "none" /\ jobEnv' = NoEnv /\ todo' = <<>>
    /\ web' = NoEnv
    /\ signingUp' = {}
    /\ UNCHANGED <<ups, edits, database, seeded, devJob>>

-----------------------------------------------------------------------------
(* What the web processes serve in the meantime *)

Serving == web # NoEnv
InTheBrowser == UNCHANGED <<ups, jobPc, jobEnv, todo, web, tables, recorded, devJob>>

\* signup(): the form is valid if the name is free,
CheckSignUp(u) ==
    /\ Serving
    /\ users[u] = NoUser /\ u \notin signingUp
    /\ signingUp' = signingUp \cup {u}
    /\ InTheBrowser /\ UNCHANGED <<edits, types, users, seeded>>

\* and save() inserts it, unless it has been taken since.
SaveSignUp(u) ==
    /\ Serving /\ u \in signingUp
    /\ signingUp' = signingUp \ {u}
    /\ \/ /\ users[u] = NoUser
          /\ users' = [users EXCEPT ![u] =
                          [superuser |-> FALSE, password |-> "of its owner"]]
       \/ /\ users[u] # NoUser
          /\ UNCHANGED users
    /\ InTheBrowser /\ UNCHANGED <<edits, types, seeded>>

ByStaff ==
    /\ Serving
    /\ edits < MaxEdits /\ edits' = edits + 1
    /\ \E u \in Usernames : users[u] # NoUser /\ users[u].superuser
    /\ InTheBrowser /\ UNCHANGED signingUp

\* CarTypeAdmin: a type is added, resized, or deleted if it has no bookings.
EditFleet(t) ==
    /\ ByStaff
    /\ \/ \E n \in FleetSizes \ {types[t]} : Put(t, n)
       \/ /\ HasRow(t)
          /\ types' = [types EXCEPT ![t] = NoFleet]
          /\ UNCHANGED seeded
    /\ UNCHANGED users

\* accounts/admin.py: an account gets another password or another status, or
\* is deleted.
EditAccount(u) ==
    /\ ByStaff
    /\ users[u] # NoUser
    /\ \E a \in [superuser : BOOLEAN, password : {users[u].password, "changed"}] \cup {NoUser} :
        /\ a # users[u]
        /\ users' = [users EXCEPT ![u] = a]
    /\ UNCHANGED <<types, seeded>>

\* Nothing more is asked of the project.
Terminated ==
    /\ ups = MaxUps /\ jobPc \notin Running
    /\ UNCHANGED vars

Next ==
    \/ JobStep \/ JobDies
    \/ Up \/ StartWeb \/ Down
    \/ \E u \in Usernames : CheckSignUp(u) \/ SaveSignUp(u) \/ EditAccount(u)
    \/ \E t \in CarTypes : EditFleet(t)
    \/ Terminated

Spec == Init /\ [][Next]_vars

\* The job goes on while nothing kills it, and compose starts what may start.
FairSpec == Spec /\ WF_vars(JobStep) /\ WF_vars(StartWeb)

-----------------------------------------------------------------------------
JobStepped == jobPc \in Running /\ <<jobPc, todo>>' # <<jobPc, todo>>

\* The web never serves a database that is not ready: however often the job
\* died or failed before, its tables are there and recorded, and every demo type
\* has had its row (which staff may have deleted since).
WebFindsItsTables ==
    Serving => recorded = MigrationNames /\ {DemoFleet[i].name : i \in DOMAIN DemoFleet} \subseteq seeded

\* "Never overwrites: a fleet size edited in the admin survives a restart",
\* although it is edited or added while the job looks and inserts.
FleetEditsSurvive ==
    [][JobStepped => \A t \in CarTypes : HasRow(t) => types'[t] = types[t]]_vars

\* A start changes no account there is: a customer with the superuser's name is
\* not promoted, even if they signed up since the job looked, and a password
\* changed in the admin survives.
AccountsSurvive ==
    [][JobStepped => \A u \in Usernames : users[u] # NoUser => users'[u] = users[u]]_vars

\* Whatever .env said over the project's life, there is no superuser unless a
\* job whose .env said dev has made the first.
SuperusersComeFromDev ==
    (\E u \in Usernames : users[u] # NoUser /\ users[u].superuser) => devJob

\* Every start comes to an end: the web serves with the .env of the job, or the
\* job has failed, or the project was brought down.
StartsEnd ==
    jobPc \in Running ~> (web = jobEnv \/ jobPc \in {"failed", "none"})
=============================================================================
