----------------------- MODULE ComposeStartup_proofs ------------------------
(* Why a start never serves an unready database, and never writes over what  *)
(* customers and staff have done: for any .env files, names and demo fleet,  *)
(* however often the job dies or is run again.                               *)
EXTENDS ComposeStartup, TLAPS

DemoNames == {DemoFleet[i].name : i \in DOMAIN DemoFleet}

\* A job that has been started has the .env of its start.
EnvInv == jobPc \in Running \cup {"succeeded"} => jobEnv \in EnvFiles

\* Past `migrate` every migration is recorded; the demo types the seeding has
\* not come to are still in its list, and past it there are none.
ProgressInv ==
    /\ jobPc \in {"seed", "seed_insert", "seed_again", "superuser",
                  "create_superuser", "succeeded"} => recorded = MigrationNames
    /\ jobPc \in Running \cup {"succeeded"} =>
          \A n \in DemoNames : n \in seeded \/ \E j \in DOMAIN todo : todo[j].name = n
    /\ jobPc \in {"seed_insert", "seed_again"} => todo # <<>>
    /\ jobPc \in {"superuser", "create_superuser", "succeeded"} => DemoNames \subseteq seeded
    /\ \A t \in CarTypes : HasRow(t) => t \in seeded

\* What the job creates a superuser by, and what the web rests on.
ReadyInv ==
    /\ jobPc = "create_superuser" => Environment(jobEnv) = "dev"
    /\ SuperusersComeFromDev
    /\ WebFindsItsTables

StartInv == TypeOK /\ EnvInv /\ ProgressInv /\ ReadyInv

-----------------------------------------------------------------------------
(* Types *)

LEMMA MigrationsByName == MigrationNames = {"accounts", "rentals"}
  BY DEF MigrationNames, Migrations, AccountsInitial, RentalsInitial

LEMMA EnvFields ==
    ASSUME NEW f \in EnvFiles
    PROVE  f.username \in Usernames
  BY ComposeAssumption

LEMMA InitHolds == Init => StartInv
  <1> SUFFICES ASSUME Init PROVE StartInv
    OBVIOUS
  <1> USE DEF Init, Running
  <1>1. TypeOK
    <2>1. types \in [CarTypes -> Nat \cup {NoFleet}]
      OBVIOUS
    <2>2. users \in [Usernames -> Account \cup {NoUser}]
      OBVIOUS
    <2>3. todo \in Seq([name : CarTypes, size : Nat])
      OBVIOUS
    <2> QED
      BY <2>1, <2>2, <2>3 DEF TypeOK
  <1>2. EnvInv /\ ProgressInv
    BY DEF EnvInv, ProgressInv, HasRow
  <1>3. ReadyInv
    BY DEF ReadyInv, SuperusersComeFromDev, WebFindsItsTables, Serving, NoUser
  <1> QED
    BY <1>1, <1>2, <1>3 DEF StartInv

LEMMA DemoListIsTyped == DemoFleet \in Seq([name : CarTypes, size : Nat])
  BY ComposeAssumption

LEMMA HeadOfList ==
    ASSUME NEW S, NEW s \in Seq(S), s # <<>>
    PROVE  /\ Head(s) \in S /\ Tail(s) \in Seq(S)
           /\ \A j \in DOMAIN s : s[j] = Head(s) \/ \E k \in DOMAIN Tail(s) : Tail(s)[k] = s[j]
  <1>1. Head(s) \in S /\ Tail(s) \in Seq(S) /\ Len(Tail(s)) = Len(s) - 1
    OBVIOUS
  <1>2. ASSUME NEW j \in DOMAIN s, j # 1
        PROVE  j - 1 \in DOMAIN Tail(s) /\ Tail(s)[j - 1] = s[j]
    BY <1>2
  <1>3. 1 \in DOMAIN s => s[1] = Head(s)
    OBVIOUS
  <1> QED
    BY <1>1, <1>2, <1>3

LEMMA TypeJob ==
    ASSUME TypeOK, EnvInv, ProgressInv, JobStep \/ JobDies
    PROVE  TypeOK'
  <1> USE DEF TypeOK, Running, JobOnly, Goto, database
  <1>0. todo # <<>> => Demo \in [name : CarTypes, size : Nat]
                       /\ Tail(todo) \in Seq([name : CarTypes, size : Nat])
    BY HeadOfList DEF Demo
  <1>1. CASE RefuseSettings
    BY <1>1 DEF RefuseSettings
  <1>2. CASE ApplyMigration
    BY <1>2 DEF ApplyMigration, Due, MigrationNames
  <1>3. CASE RecordMigration
    BY <1>3 DEF RecordMigration
  <1>4. CASE NothingToMigrate
    BY <1>4 DEF NothingToMigrate
  <1>5. CASE SeedLook
    BY <1>0, <1>5 DEF SeedLook
  <1>6. CASE SeedInsert
    BY <1>0, <1>6 DEF SeedInsert, ProgressInv, Put
  <1>7. CASE SeedAgain
    BY <1>0, <1>7 DEF SeedAgain, ProgressInv
  <1>8. CASE SeedDone
    BY <1>8 DEF SeedDone
  <1>9. CASE FindSuperuser
    BY <1>9 DEF FindSuperuser
  <1>10. CASE CreateSuperuser
    <2>1. jobEnv \in EnvFiles
      BY <1>10 DEF CreateSuperuser, EnvInv
    <2>2. [superuser |-> TRUE, password |-> "of the .env"] \in Account
      BY DEF Account
    <2> QED
      BY <1>10, <2>1, <2>2 DEF CreateSuperuser
  <1>11. CASE JobDies
    BY <1>11 DEF JobDies
  <1> QED
    BY <1>1, <1>2, <1>3, <1>4, <1>5, <1>6, <1>7, <1>8, <1>9, <1>10, <1>11 DEF JobStep

LEMMA TypeOthers ==
    ASSUME TypeOK, EnvInv, [Next]_vars, ~JobStep, ~JobDies
    PROVE  TypeOK'
  <1> USE DEF TypeOK, Running, database
  <1>1. CASE Up
    BY <1>1, DemoListIsTyped DEF Up
  <1>2. CASE StartWeb
    BY <1>2 DEF StartWeb, JobHasSucceeded, EnvInv
  <1>3. CASE Down
    BY <1>3 DEF Down
  <1>4. ASSUME NEW u \in Usernames, CheckSignUp(u)
        PROVE  TypeOK'
    BY <1>4 DEF CheckSignUp, InTheBrowser
  <1>5. ASSUME NEW u \in Usernames, SaveSignUp(u)
        PROVE  TypeOK'
    <2>1. [superuser |-> FALSE, password |-> "of its owner"] \in Account
      BY DEF Account
    <2> QED
      BY <1>5, <2>1 DEF SaveSignUp, InTheBrowser
  <1>6. ASSUME NEW u \in Usernames, EditAccount(u)
        PROVE  TypeOK'
    <2>1. users[u] \in Account
      BY <1>6 DEF EditAccount
    <2>2. [superuser : BOOLEAN, password : {users[u].password, "changed"}] \subseteq Account
      BY <2>1 DEF Account
    <2> QED
      BY <1>6, <2>2 DEF EditAccount, ByStaff, InTheBrowser
  <1>7. ASSUME NEW t \in CarTypes, EditFleet(t)
        PROVE  TypeOK'
    BY <1>7, ComposeAssumption DEF EditFleet, ByStaff, InTheBrowser, Put
  <1>8. CASE UNCHANGED vars
    BY <1>8 DEF vars
  <1> QED
    BY <1>1, <1>2, <1>3, <1>4, <1>5, <1>6, <1>7, <1>8 DEF Next, Terminated

LEMMA TypeStep == TypeOK /\ EnvInv /\ ProgressInv /\ [Next]_vars => TypeOK'
  BY TypeJob, TypeOthers

-----------------------------------------------------------------------------
(* The job's environment *)

LEMMA EnvStep == EnvInv /\ [Next]_vars => EnvInv'
  <1> SUFFICES ASSUME EnvInv, [Next]_vars PROVE EnvInv'
    OBVIOUS
  <1> USE DEF EnvInv, Running
  <1>1. CASE JobStep
    BY <1>1 DEF JobStep, RefuseSettings, ApplyMigration, RecordMigration, NothingToMigrate,
       SeedLook, SeedInsert, SeedAgain, SeedDone, FindSuperuser, CreateSuperuser, JobOnly, Goto
  <1>2. CASE JobDies \/ Up \/ StartWeb \/ Down
    BY <1>2 DEF JobDies, Up, StartWeb, Down, JobOnly
  <1>3. ASSUME NEW u \in Usernames, CheckSignUp(u) \/ SaveSignUp(u) \/ EditAccount(u)
        PROVE  EnvInv'
    BY <1>3 DEF CheckSignUp, SaveSignUp, EditAccount, ByStaff, InTheBrowser
  <1>4. ASSUME NEW t \in CarTypes, EditFleet(t)
        PROVE  EnvInv'
    BY <1>4 DEF EditFleet, ByStaff, InTheBrowser
  <1>5. CASE UNCHANGED vars
    BY <1>5 DEF vars
  <1> QED
    BY <1>1, <1>2, <1>3, <1>4, <1>5 DEF Next, Terminated

-----------------------------------------------------------------------------
(* The job's progress *)

\* Nothing is due only when everything is recorded.
LEMMA NothingDue ==
    ASSUME recorded \subseteq MigrationNames, Due = {}
    PROVE  recorded = MigrationNames
  <1>1. AccountsInitial \in Migrations /\ RentalsInitial \in Migrations
    BY DEF Migrations
  <1>2. "accounts" \in recorded
    <2>1. AccountsInitial.name = "accounts" /\ AccountsInitial.after = {}
      BY DEF AccountsInitial
    <2> QED
      BY <1>1, <2>1 DEF Due
  <1>3. "rentals" \in recorded
    <2>1. RentalsInitial.name = "rentals" /\ RentalsInitial.after = {"accounts"}
      BY DEF RentalsInitial
    <2> QED
      BY <1>1, <1>2, <2>1 DEF Due
  <1> QED
    BY <1>2, <1>3, MigrationsByName

LEMMA DemoIsTyped ==
    ASSUME TypeOK, todo # <<>>
    PROVE  Demo.name \in CarTypes
  <1>1. Demo \in [name : CarTypes, size : Nat]
    BY HeadOfList DEF TypeOK, Demo
  <1> QED
    BY <1>1

\* A demo type that is left in the list is its head or left in the tail.
LEMMA ListShortens ==
    ASSUME TypeOK, todo # <<>>, todo' = Tail(todo), Demo.name \in seeded',
           seeded \subseteq seeded',
           \A n \in DemoNames : n \in seeded \/ \E j \in DOMAIN todo : todo[j].name = n
    PROVE  \A n \in DemoNames : n \in seeded' \/ \E j \in DOMAIN todo' : todo'[j].name = n
  <1>1. \A j \in DOMAIN todo : todo[j] = Demo \/ \E k \in DOMAIN Tail(todo) : Tail(todo)[k] = todo[j]
    BY HeadOfList DEF TypeOK, Demo
  <1> QED
    BY <1>1

LEMMA ProgressJob ==
    ASSUME TypeOK, ProgressInv, JobStep \/ JobDies
    PROVE  ProgressInv'
  <1> USE DEF ProgressInv, Running, JobOnly, Goto, database, HasRow
  <1>1. CASE RefuseSettings \/ JobDies
    BY <1>1 DEF RefuseSettings, JobDies
  <1>2. CASE ApplyMigration
    BY <1>2 DEF ApplyMigration
  <1>3. CASE RecordMigration
    BY <1>3 DEF RecordMigration
  <1>4. CASE NothingToMigrate
    BY <1>4, NothingDue DEF NothingToMigrate, TypeOK
  <1>5. CASE SeedLook
    <2>1. CASE ~HasRow(Demo.name)
      BY <1>5, <2>1 DEF SeedLook
    <2>2. CASE HasRow(Demo.name)
      <3>1. Demo.name \in CarTypes
        BY <1>5, DemoIsTyped DEF SeedLook
      <3>2. \A n \in DemoNames : n \in seeded' \/ \E j \in DOMAIN todo' : todo'[j].name = n
        <4>1. todo # <<>> /\ todo' = Tail(todo) /\ seeded' = seeded
          BY <1>5, <2>2 DEF SeedLook
        <4>2. Demo.name \in seeded
          BY <2>2, <3>1
        <4>3. \A n \in DemoNames : n \in seeded \/ \E j \in DOMAIN todo : todo[j].name = n
          BY <1>5 DEF SeedLook
        <4> QED
          BY <4>1, <4>2, <4>3, ListShortens
      <3> QED
        BY <1>5, <2>2, <3>2 DEF SeedLook
    <2> QED
      BY <2>1, <2>2
  <1>6. CASE SeedInsert
    <2>1. CASE HasRow(Demo.name)
      BY <1>6, <2>1 DEF SeedInsert
    <2>2. CASE ~HasRow(Demo.name)
      <3>1. \A n \in DemoNames : n \in seeded' \/ \E j \in DOMAIN todo' : todo'[j].name = n
        BY <1>6, <2>2, ListShortens DEF SeedInsert, Put
      <3>2. \A t \in CarTypes : HasRow(t)' => t \in seeded'
        BY <1>6, <2>2 DEF SeedInsert, Put, TypeOK
      <3> QED
        BY <1>6, <2>2, <3>1, <3>2 DEF SeedInsert, Put
    <2> QED
      BY <2>1, <2>2
  <1>7. CASE SeedAgain
    <2>1. CASE ~HasRow(Demo.name)
      BY <1>7, <2>1 DEF SeedAgain
    <2>2. CASE HasRow(Demo.name)
      <3>1. Demo.name \in CarTypes
        BY <1>7, DemoIsTyped DEF SeedAgain
      <3>2. \A n \in DemoNames : n \in seeded' \/ \E j \in DOMAIN todo' : todo'[j].name = n
        <4>1. todo # <<>> /\ todo' = Tail(todo) /\ seeded' = seeded
          BY <1>7, <2>2 DEF SeedAgain
        <4>2. Demo.name \in seeded
          BY <2>2, <3>1
        <4>3. \A n \in DemoNames : n \in seeded \/ \E j \in DOMAIN todo : todo[j].name = n
          BY <1>7 DEF SeedAgain
        <4> QED
          BY <4>1, <4>2, <4>3, ListShortens
      <3> QED
        BY <1>7, <2>2, <3>2 DEF SeedAgain
    <2> QED
      BY <2>1, <2>2
  <1>8. CASE SeedDone
    BY <1>8 DEF SeedDone
  <1>9. CASE FindSuperuser
    BY <1>9 DEF FindSuperuser
  <1>10. CASE CreateSuperuser
    BY <1>10 DEF CreateSuperuser
  <1> QED
    BY <1>1, <1>2, <1>3, <1>4, <1>5, <1>6, <1>7, <1>8, <1>9, <1>10 DEF JobStep

LEMMA ProgressOthers ==
    ASSUME TypeOK, ProgressInv, [Next]_vars, ~JobStep, ~JobDies
    PROVE  ProgressInv'
  <1> USE DEF ProgressInv, Running, database, HasRow
  <1>1. CASE Up
    BY <1>1 DEF Up, DemoNames
  <1>2. CASE StartWeb \/ Down
    BY <1>2 DEF StartWeb, Down
  <1>3. ASSUME NEW u \in Usernames, CheckSignUp(u) \/ SaveSignUp(u) \/ EditAccount(u)
        PROVE  ProgressInv'
    BY <1>3 DEF CheckSignUp, SaveSignUp, EditAccount, ByStaff, InTheBrowser
  <1>4. ASSUME NEW t \in CarTypes, EditFleet(t)
        PROVE  ProgressInv'
    <2>1. /\ \A s \in CarTypes : HasRow(s)' => s \in seeded'
          /\ seeded \subseteq seeded'
      BY <1>4 DEF EditFleet, ByStaff, Put, TypeOK
    <2> QED
      BY <1>4, <2>1 DEF EditFleet, ByStaff, InTheBrowser
  <1>5. CASE UNCHANGED vars
    BY <1>5 DEF vars
  <1> QED
    BY <1>1, <1>2, <1>3, <1>4, <1>5 DEF Next, Terminated

LEMMA ProgressStep == TypeOK /\ ProgressInv /\ [Next]_vars => ProgressInv'
  BY ProgressJob, ProgressOthers

-----------------------------------------------------------------------------
(* What the web and the superusers rest on *)

\* What has been recorded or seeded stays so, and so does the history of jobs.
LEMMA NothingIsUndone ==
    ASSUME TypeOK, [Next]_vars
    PROVE  recorded \subseteq recorded' /\ seeded \subseteq seeded' /\ (devJob => devJob')
  <1> USE DEF JobOnly, database
  <1>1. CASE JobStep
    BY <1>1 DEF TypeOK, JobStep, RefuseSettings, ApplyMigration, RecordMigration,
       NothingToMigrate, SeedLook, SeedInsert, SeedAgain, SeedDone, FindSuperuser,
       CreateSuperuser, Put
  <1>2. CASE JobDies \/ Up \/ StartWeb \/ Down
    BY <1>2 DEF JobDies, Up, StartWeb, Down
  <1>3. ASSUME NEW u \in Usernames, CheckSignUp(u) \/ SaveSignUp(u) \/ EditAccount(u)
        PROVE  recorded = recorded' /\ seeded = seeded' /\ devJob = devJob'
    BY <1>3 DEF CheckSignUp, SaveSignUp, EditAccount, ByStaff, InTheBrowser
  <1>4. ASSUME NEW t \in CarTypes, EditFleet(t)
        PROVE  recorded = recorded' /\ seeded \subseteq seeded' /\ devJob = devJob'
    BY <1>4 DEF EditFleet, ByStaff, InTheBrowser, Put
  <1>5. CASE UNCHANGED vars
    BY <1>5 DEF vars
  <1> QED
    BY <1>1, <1>2, <1>3, <1>4, <1>5 DEF Next, Terminated

\* Only StartWeb makes the web serve, and only once the job has succeeded.
LEMMA WebStep ==
    ASSUME TypeOK, TypeOK', ProgressInv, WebFindsItsTables, [Next]_vars
    PROVE  WebFindsItsTables'
  <1>1. CASE Serving
    BY <1>1, NothingIsUndone DEF WebFindsItsTables, TypeOK
  <1>2. CASE StartWeb
    BY <1>2, NothingIsUndone DEF StartWeb, JobHasSucceeded, ProgressInv, DemoNames,
       WebFindsItsTables, database
  <1>3. CASE ~Serving /\ ~StartWeb
    <2>1. web' = web \/ web' = NoEnv
      <3>1. CASE JobStep
        BY <3>1 DEF JobStep, RefuseSettings, ApplyMigration, RecordMigration,
           NothingToMigrate, SeedLook, SeedInsert, SeedAgain, SeedDone, FindSuperuser,
           CreateSuperuser, JobOnly
      <3>2. CASE JobDies \/ Up \/ Down
        BY <3>2 DEF JobDies, Up, Down, JobOnly
      <3>3. ASSUME NEW u \in Usernames, CheckSignUp(u) \/ SaveSignUp(u) \/ EditAccount(u)
            PROVE  web' = web
        BY <3>3 DEF CheckSignUp, SaveSignUp, EditAccount, ByStaff, InTheBrowser
      <3>4. ASSUME NEW t \in CarTypes, EditFleet(t)
            PROVE  web' = web
        BY <3>4 DEF EditFleet, ByStaff, InTheBrowser
      <3>5. CASE UNCHANGED vars
        BY <3>5 DEF vars
      <3> QED
        BY <1>3, <3>1, <3>2, <3>3, <3>4, <3>5 DEF Next, Terminated
    <2> QED
      BY <1>3, <2>1 DEF Serving, WebFindsItsTables
  <1> QED
    BY <1>1, <1>2, <1>3

\* The command that creates a superuser has passed its gate.
LEMMA GateStep ==
    ASSUME jobPc = "create_superuser" => Environment(jobEnv) = "dev", [Next]_vars
    PROVE  (jobPc = "create_superuser" => Environment(jobEnv) = "dev")'
  <1> DEFINE Gate == jobPc = "create_superuser" => Environment(jobEnv) = "dev"
  <1> USE DEF Goto, JobOnly
  <1>1. CASE JobStep
    BY <1>1 DEF JobStep, RefuseSettings, ApplyMigration, RecordMigration, NothingToMigrate,
       SeedLook, SeedInsert, SeedAgain, SeedDone, FindSuperuser, CreateSuperuser
  <1>2. CASE JobDies \/ Up \/ StartWeb \/ Down
    BY <1>2 DEF JobDies, Up, StartWeb, Down
  <1>3. ASSUME NEW u \in Usernames, CheckSignUp(u) \/ SaveSignUp(u) \/ EditAccount(u)
        PROVE  jobPc' = jobPc /\ jobEnv' = jobEnv
    BY <1>3 DEF CheckSignUp, SaveSignUp, EditAccount, ByStaff, InTheBrowser
  <1>4. ASSUME NEW t \in CarTypes, EditFleet(t)
        PROVE  jobPc' = jobPc /\ jobEnv' = jobEnv
    BY <1>4 DEF EditFleet, ByStaff, InTheBrowser
  <1>5. CASE UNCHANGED vars
    BY <1>5 DEF vars
  <1> QED
    BY <1>1, <1>2, <1>3, <1>4, <1>5 DEF Next, Terminated

IsSuperuser(u) == users[u] # NoUser /\ users[u].superuser

LEMMA SuperuserStep ==
    ASSUME TypeOK, SuperusersComeFromDev, [Next]_vars,
           jobPc = "create_superuser" => Environment(jobEnv) = "dev"
    PROVE  SuperusersComeFromDev'
  <1> SUFFICES ASSUME ~devJob, ~devJob', NEW u \in Usernames, IsSuperuser(u)'
               PROVE  FALSE
    BY NothingIsUndone DEF SuperusersComeFromDev, IsSuperuser
  <1>1. \A v \in Usernames : ~IsSuperuser(v)
    BY DEF SuperusersComeFromDev, IsSuperuser
  <1>2. users' # users
    BY <1>1 DEF IsSuperuser
  <1>3. ASSUME JobStep \/ JobDies PROVE FALSE
    <2>1. CASE CreateSuperuser
      <3>1. users[jobEnv.username] = NoUser /\ devJob' = (devJob \/ Spelt(jobEnv.env) = "dev")
        BY <1>2, <2>1 DEF CreateSuperuser, database
      <3>2. Environment(jobEnv) = "dev"
        BY <2>1 DEF CreateSuperuser, Goto
      <3> QED
        BY <3>1, <3>2 DEF Environment
    <2> QED
      BY <1>2, <1>3, <2>1 DEF JobStep, RefuseSettings, ApplyMigration, RecordMigration,
         NothingToMigrate, SeedLook, SeedInsert, SeedAgain, SeedDone, FindSuperuser,
         JobDies, JobOnly, database
  <1>4. ASSUME NEW v \in Usernames, SaveSignUp(v) PROVE FALSE
    <2>1. users' = [users EXCEPT ![v] = [superuser |-> FALSE, password |-> "of its owner"]]
      BY <1>2, <1>4 DEF SaveSignUp
    <2> QED
      BY <1>1, <2>1 DEF IsSuperuser, TypeOK
  <1>5. ASSUME NEW v \in Usernames, EditAccount(v) PROVE FALSE
    BY <1>1, <1>5 DEF EditAccount, ByStaff, IsSuperuser
  <1>6. ASSUME NEW v \in Usernames, CheckSignUp(v) PROVE FALSE
    BY <1>2, <1>6 DEF CheckSignUp
  <1>7. ASSUME NEW t \in CarTypes, EditFleet(t) PROVE FALSE
    BY <1>2, <1>7 DEF EditFleet
  <1>8. CASE Up \/ StartWeb \/ Down \/ UNCHANGED vars
    BY <1>2, <1>8 DEF Up, StartWeb, Down, vars, database
  <1> QED
    BY <1>3, <1>4, <1>5, <1>6, <1>7, <1>8 DEF Next, Terminated

-----------------------------------------------------------------------------
LEMMA StartInvariant == Spec => []StartInv
  <1>1. StartInv /\ [Next]_vars => StartInv'
    <2> SUFFICES ASSUME StartInv, [Next]_vars PROVE StartInv'
      OBVIOUS
    <2>1. TypeOK' /\ EnvInv' /\ ProgressInv'
      BY TypeStep, EnvStep, ProgressStep DEF StartInv
    <2>2. ReadyInv'
      BY <2>1, WebStep, GateStep, SuperuserStep DEF StartInv, ReadyInv
    <2> QED
      BY <2>1, <2>2 DEF StartInv
  <1> QED
    BY <1>1, InitHolds, PTL DEF Spec

\* The state of the project is well typed, and a migration that is recorded has
\* its tables (manage.py migrate, docker-compose.yml).
THEOREM StartTypeCorrect == Spec => []TypeOK
  <1>1. StartInv => TypeOK
    BY DEF StartInv
  <1> QED
    BY <1>1, StartInvariant, PTL

\* The web serves only a database whose migrations are recorded and whose demo
\* types have all had a row (service_completed_successfully), for any demo fleet.
THEOREM WebIsReady == Spec => []WebFindsItsTables
  <1>1. StartInv => WebFindsItsTables
    BY DEF StartInv, ReadyInv
  <1> QED
    BY <1>1, StartInvariant, PTL

\* No superuser without a job that ran with DJANGO_ENV=dev
\* (create_dev_superuser), whatever was in .env before and after.
THEOREM SuperusersNeedDev == Spec => []SuperusersComeFromDev
  <1>1. StartInv => SuperusersComeFromDev
    BY DEF StartInv, ReadyInv
  <1> QED
    BY <1>1, StartInvariant, PTL

-----------------------------------------------------------------------------
(* What a start leaves alone *)

\* A step in which the job gets on is a step of the job, or its end.
LEMMA OnlyTheJobSteps ==
    ASSUME [Next]_vars, JobStepped
    PROVE  JobStep \/ UNCHANGED database
  <1>1. CASE JobDies \/ Up \/ StartWeb \/ Down
    BY <1>1 DEF JobDies, Up, StartWeb, Down
  <1>2. ASSUME NEW u \in Usernames, CheckSignUp(u) \/ SaveSignUp(u) \/ EditAccount(u)
        PROVE  FALSE
    BY <1>2 DEF JobStepped, CheckSignUp, SaveSignUp, EditAccount, ByStaff, InTheBrowser
  <1>3. ASSUME NEW t \in CarTypes, EditFleet(t)
        PROVE  FALSE
    BY <1>3 DEF JobStepped, EditFleet, ByStaff, InTheBrowser
  <1>4. CASE UNCHANGED vars
    BY <1>4 DEF vars, database
  <1> QED
    BY <1>1, <1>2, <1>3, <1>4 DEF Next, Terminated

\* The fleet a start finds, it leaves: a type that has a row keeps its size,
\* also one that staff add between the look and the insert of seed_demo.
THEOREM SeedNeverOverwrites == Spec => FleetEditsSurvive
  <1>1. ASSUME StartInv, [Next]_vars, JobStepped, NEW t \in CarTypes, HasRow(t)
        PROVE  types'[t] = types[t]
    <2>1. CASE UNCHANGED database
      BY <2>1 DEF database
    <2>2. CASE SeedInsert
      BY <1>1, <2>2 DEF SeedInsert, Put, StartInv, TypeOK, HasRow, database
    <2>3. CASE JobStep /\ ~SeedInsert
      BY <2>3 DEF JobStep, RefuseSettings, ApplyMigration, RecordMigration,
         NothingToMigrate, SeedLook, SeedAgain, SeedDone, FindSuperuser,
         CreateSuperuser, database
    <2> QED
      BY <1>1, <2>1, <2>2, <2>3, OnlyTheJobSteps
  <1>2. StartInv /\ [Next]_vars =>
           [JobStepped => \A t \in CarTypes : HasRow(t) => types'[t] = types[t]]_vars
    BY <1>1
  <1> QED
    BY <1>2, StartInvariant, PTL DEF Spec, FleetEditsSurvive

\* The accounts a start finds, it leaves: an owner of the superuser's name is not
\* promoted, and a changed password stands (create_dev_superuser).
THEOREM StartKeepsAccounts == Spec => AccountsSurvive
  <1>1. ASSUME StartInv, [Next]_vars, JobStepped, NEW u \in Usernames, users[u] # NoUser
        PROVE  users'[u] = users[u]
    <2>1. CASE UNCHANGED database
      BY <2>1 DEF database
    <2>2. CASE CreateSuperuser
      BY <1>1, <2>2 DEF CreateSuperuser, StartInv, TypeOK, database
    <2>3. CASE JobStep /\ ~CreateSuperuser
      BY <2>3 DEF JobStep, RefuseSettings, ApplyMigration, RecordMigration,
         NothingToMigrate, SeedLook, SeedInsert, SeedAgain, SeedDone, FindSuperuser,
         database
    <2> QED
      BY <1>1, <2>1, <2>2, <2>3, OnlyTheJobSteps
  <1>2. StartInv /\ [Next]_vars =>
           [JobStepped => \A u \in Usernames : users[u] # NoUser => users'[u] = users[u]]_vars
    BY <1>1
  <1> QED
    BY <1>2, StartInvariant, PTL DEF Spec, AccountsSurvive
=============================================================================
