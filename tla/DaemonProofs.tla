---------------------------- MODULE DaemonProofs ----------------------------
(***************************************************************************)
(* The life of the process, for any accounts, workers, requests, binaries  *)
(* and bounds: type correctness, the schema, what runs when, and what a    *)
(* request in progress can count on.                                       *)
(***************************************************************************)
EXTENDS Daemon, SequenceTheorems, TLAPS

(* The steps of main, in the order in which it goes through them.          *)
Early   == {"down", "open", "migrate", "recover"}
Built   == {"pool", "servers", "serving"} \cup Stopping
Draining == {"serving", "stop_api", "stop_admin"}

\* what is done is recorded, and an open transaction is about what is not
SchemaInv ==
  /\ recorded = 1 .. Len(applied)
  /\ \A n \in 1 .. Len(applied) : applied[n] = n
  /\ 1 .. at - 1 \subseteq recorded
  /\ tx # "none" => main = "migrate" /\ at <= files /\ at \notin recorded
  /\ main \notin {"down", "open", "migrate"} => at > files

DbInv == dbOpen = (main \notin {"down", "open", "exit"})

\* the loops are those of the accounts that are available
AccountInv ==
  /\ building # NoAccount => main = "accounts" /\ status[building] = "none"
  /\ \A a \in Accounts :
       /\ status[a] # "available" => loop[a] = "off"
       /\ main \in Early => status[a] = "none"
       /\ main \in Built => status[a] # "none"
       /\ main \notin {"close", "exit"} /\ status[a] = "available" => loop[a] = "running"
       /\ main \in {"close", "exit"} => loop[a] # "running"
  /\ main \in Built /\ Accounts # {} => \E a \in Accounts : status[a] = "available"

WorkerInv ==
  \A w \in Workers :
    /\ worker[w] # "off" => main \in {"servers", "wait_pool"} \cup Draining
    /\ main \in {"servers"} \cup Draining => worker[w] # "off"

LeftInv ==
  /\ main # "down" => boots >= 1
  /\ main \notin Early => leftBy \subseteq {boots}

ServerInv ==
  /\ \A s \in Servers : server[s] # "off" => main \in {"serving"} \cup Stopping
  /\ main \in Stopping => server["api"] = "closed"
  /\ main \in Stopping \ {"stop_api"} => server["admin"] = "closed"

\* a request in progress holds up the shutdown until it is late
CallInv ==
  \A c \in Requests :
    call[c] \in InFlight /\ ~late =>
      /\ main \in Draining
      /\ c \in ApiCalls => main # "stop_admin"

Inv == TypeOK /\ SchemaInv /\ DbInv /\ AccountInv /\ WorkerInv /\ LeftInv /\ ServerInv /\ CallInv

-----------------------------------------------------------------------------
(* How a step can be taken apart.                                          *)

LEMMA NothingRuns ==
  /\ Nothing.status = [a \in Accounts |-> "none"]
  /\ Nothing.loop = [a \in Accounts |-> "off"]
  /\ Nothing.worker = [w \in Workers |-> "off"]
  /\ Nothing.server = [s \in Servers |-> "off"]
  BY DEF Nothing

MainType ==
  /\ main \in {"down", "serving"} \cup Starting \cup Stopping
  /\ dbOpen \in BOOLEAN /\ late \in BOOLEAN
  /\ leftBy \subseteq 1 .. MaxBoots
  /\ boots \in 0 .. MaxBoots /\ faults \in 0 .. MaxFaults

AccountType ==
  /\ building \in Accounts \cup {NoAccount}
  /\ stage \in {"client", "crypto", "sync"}
  /\ status \in [Accounts -> {"none", "failed", "available"}]
  /\ loop \in [Accounts -> {"off", "running", "cancelled"}]

PartType ==
  /\ worker \in [Workers -> {"off", "idle", "busy"}]
  /\ wiring \in {"off", "subscribing", "on"}
  /\ subscribed \subseteq Types
  /\ server \in [Servers -> {"off", "starting", "listening", "failed", "closed"}]
  /\ call \in [Requests -> {"new", "handling", "waiting", "answered", "lost"}]

LEMMA TypeParts ==
  /\ TypeOK <=> (MigrationsTypeOK /\ MainType /\ AccountType /\ PartType)
  /\ TypeOK' <=> (MigrationsTypeOK' /\ MainType' /\ AccountType' /\ PartType')
  BY DEF TypeOK, MainType, AccountType, PartType

\* the parts a step does not touch
LEMMA TypeKept ==
  /\ MigrationsTypeOK /\ UNCHANGED <<disk, migration>> => MigrationsTypeOK'
  /\ MainType /\ UNCHANGED <<main, dbOpen, late, leftBy, budget>> => MainType'
  /\ AccountType /\ UNCHANGED accounts => AccountType'
  /\ PartType /\ UNCHANGED <<worker, corr, server, call>> => PartType'
<1>1. MigrationsTypeOK /\ UNCHANGED <<disk, migration>> => MigrationsTypeOK'
  BY DEF MigrationsTypeOK, disk, migration
<1>2. MainType /\ UNCHANGED <<main, dbOpen, late, leftBy, budget>> => MainType'
  BY DEF MainType, budget
<1>3. AccountType /\ UNCHANGED accounts => AccountType'
  BY DEF AccountType, accounts
<1>4. PartType /\ UNCHANGED <<worker, corr, server, call>> => PartType'
  BY DEF PartType, corr
<1> QED
  BY <1>1, <1>2, <1>3, <1>4

LEMMA DownIsDie == ASSUME TypeOK, Fatal \/ Crash \/ Return
                   PROVE  Die /\ faults' \in 0 .. MaxFaults
  BY BoundsAssumption DEF Fatal, Crash, Return, TypeOK

LEMMA DieDown == ASSUME TypeOK, Die, faults' \in 0 .. MaxFaults, main # "down" => boots >= 1,
                        Busy # {} => main # "down"
                 PROVE  TypeOK'
<1>1. MigrationsTypeOK'
  BY DEF TypeOK, Die, MigrationsTypeOK, disk
<1>2. /\ status' \in [Accounts -> {"none", "failed", "available"}]
      /\ loop' \in [Accounts -> {"off", "running", "cancelled"}]
      /\ worker' \in [Workers -> {"off", "idle", "busy"}]
      /\ server' \in [Servers -> {"off", "starting", "listening", "failed", "closed"}]
  BY NothingRuns DEF Die
<1>3. call' \in [Requests -> {"new", "handling", "waiting", "answered", "lost"}]
  BY DEF Die, TypeOK
<1>4. leftBy' \subseteq 1 .. MaxBoots
  BY BoundsAssumption DEF Die, TypeOK
<1> QED
  BY <1>1, <1>2, <1>3, <1>4 DEF TypeOK, Die

-----------------------------------------------------------------------------
(* Type correctness.                                                       *)

LEMMA InitType == Init => TypeOK
<1> SUFFICES ASSUME Init PROVE TypeOK
  OBVIOUS
<1>1. MigrationsTypeOK
  <2>1. applied \in Seq(1 .. MaxFiles)
    BY EmptySeq DEF Init, MigrationsInit
  <2> QED
    BY <2>1, FilesAssumption DEF Init, MigrationsInit, MigrationsTypeOK
<1>2. /\ status \in [Accounts -> {"none", "failed", "available"}]
      /\ loop \in [Accounts -> {"off", "running", "cancelled"}]
      /\ worker \in [Workers -> {"off", "idle", "busy"}]
      /\ server \in [Servers -> {"off", "starting", "listening", "failed", "closed"}]
      /\ call \in [Requests -> {"new", "handling", "waiting", "answered", "lost"}]
  BY NothingRuns DEF Init
<1>3. leftBy \subseteq 1 .. MaxBoots /\ boots \in 0 .. MaxBoots /\ faults \in 0 .. MaxFaults
  BY BoundsAssumption DEF Init
<1> QED
  BY <1>1, <1>2, <1>3 DEF Init, TypeOK

LEMMA MigrateType ==
  ASSUME TypeOK, SchemaInv, Migrate
  PROVE  MigrationsTypeOK'
<1> USE FilesAssumption DEF TypeOK, MigrationsTypeOK, Migrate, Done, Recorded, disk
<1>1. CASE SkipApplied
  BY <1>1 DEF SkipApplied
<1>2. CASE BeginTx \/ ApplyScript \/ RecordVersion
  BY <1>2 DEF BeginTx, ApplyScript, RecordVersion
<1>3. CASE Commit
  <2>1. at \in 1 .. MaxFiles
    BY <1>3 DEF Commit, SchemaInv
  <2>2. applied' \in Seq(1 .. MaxFiles)
    BY <1>3, <2>1, AppendProperties DEF Commit
  <2> QED
    BY <1>3, <2>1, <2>2 DEF Commit
<1> QED
  BY <1>1, <1>2, <1>3

LEMMA StartupType ==
  ASSUME TypeOK, SchemaInv, LeftInv, WorkerInv, Startup \/ MigrationFails
  PROVE  TypeOK'
<1>0. /\ Busy # {} => main # "down"
      /\ MigrationsTypeOK /\ MainType /\ AccountType /\ PartType
  BY TypeParts DEF Busy, WorkerInv, Draining
<1>D. ASSUME Fatal \/ (Die /\ UNCHANGED faults) PROVE TypeOK'
  BY <1>0, <1>D, DownIsDie, DieDown DEF LeftInv, MainType
<1> SUFFICES ASSUME ~Fatal, ~(Die /\ UNCHANGED faults)
             PROVE  MigrationsTypeOK' /\ MainType' /\ AccountType' /\ PartType'
  BY <1>D, TypeParts
<1>1. CASE OpenDatabase
  <2>1. MainType'
    BY <1>0, <1>1 DEF OpenDatabase, MainType, Starting, budget
  <2> QED
    BY <1>0, <1>1, <2>1, TypeKept DEF OpenDatabase
<1>2. CASE RunMigrations
  <2>1. MigrationsTypeOK'
    BY <1>0, <1>2, MigrateType, TypeKept DEF RunMigrations
  <2>2. MainType'
    BY <1>0, <1>2 DEF RunMigrations, MainType, Starting, budget
  <2> QED
    BY <1>0, <1>2, <2>1, <2>2, TypeKept DEF RunMigrations
<1>3. CASE RecoverOnStartup
  <2>1. MainType'
    BY <1>0, <1>3 DEF RecoverOnStartup, MainType, Starting, budget
  <2> QED
    BY <1>0, <1>3, <2>1, TypeKept DEF RecoverOnStartup
<1>4. CASE \E a \in Accounts : StartAccount(a)
  <2>1. AccountType'
    BY <1>0, <1>4 DEF StartAccount, AccountType
  <2> QED
    BY <1>0, <1>4, <2>1, TypeKept DEF StartAccount
<1>5. CASE AccountFails
  <2>1. AccountType'
    BY <1>0, <1>5 DEF AccountFails, AccountType
  <2> QED
    BY <1>0, <1>5, <2>1, TypeKept DEF AccountFails
<1>6. CASE AccountProceeds
  <2>1. AccountType'
    BY <1>0, <1>6 DEF AccountProceeds, AccountType
  <2> QED
    BY <1>0, <1>6, <2>1, TypeKept DEF AccountProceeds
<1>7. CASE StartSync
  <2>1. AccountType'
    BY <1>0, <1>7 DEF StartSync, AccountType
  <2> QED
    BY <1>0, <1>7, <2>1, TypeKept DEF StartSync
<1>8. CASE CheckFailures
  <2>1. MainType'
    BY <1>0, <1>8 DEF CheckFailures, MainType, Starting, budget
  <2> QED
    BY <1>0, <1>8, <2>1, TypeKept DEF CheckFailures
<1>9. CASE StartPool
  <2>1. MainType' /\ PartType'
    BY <1>0, <1>9 DEF StartPool, MainType, PartType, Starting, corr, budget
  <2> QED
    BY <1>0, <1>9, <2>1, TypeKept DEF StartPool
<1>10. CASE StartServers
  <2>1. MainType' /\ PartType'
    BY <1>0, <1>10 DEF StartServers, MainType, PartType, budget
  <2> QED
    BY <1>0, <1>10, <2>1, TypeKept DEF StartServers
<1> QED
  BY <1>1, <1>2, <1>3, <1>4, <1>5, <1>6, <1>7, <1>8, <1>9, <1>10 DEF Startup, MigrationFails

LEMMA RunType ==
  ASSUME TypeOK, LeftInv, WorkerInv, Goroutines \/ Callers
  PROVE  TypeOK'
<1>0. MigrationsTypeOK /\ MainType /\ AccountType /\ PartType
  BY TypeParts
<1> SUFFICES MigrationsTypeOK' /\ MainType' /\ AccountType' /\ PartType'
  BY TypeParts
<1>1. CASE \E s \in Servers : Listen(s)
  <2>1. PartType'
    BY <1>0, <1>1 DEF Listen, PartType, corr
  <2> QED
    BY <1>0, <1>1, <2>1, TypeKept DEF Listen
<1>2. CASE (\E t \in Types : Subscribe(t)) \/ StartCleanup
  <2>1. PartType'
    BY <1>0, <1>2 DEF Subscribe, StartCleanup, PartType
  <2> QED
    BY <1>0, <1>2, <2>1, TypeKept DEF Subscribe, StartCleanup
<1>3. CASE \E w \in Workers : Work(w) \/ WorkerExits(w)
  <2> PICK w \in Workers : Work(w) \/ WorkerExits(w)
    BY <1>3
  <2>1. worker[w] # "off" /\ leftBy' \subseteq leftBy \cup {boots}
    BY DEF Work, WorkerExits
  <2>2. boots \in 1 .. MaxBoots
    BY <1>0, <2>1, BoundsAssumption DEF WorkerInv, LeftInv, Draining, MainType
  <2>3. MainType'
    BY <1>0, <2>1, <2>2 DEF Work, WorkerExits, MainType, budget
  <2>4. PartType'
    BY <1>0 DEF Work, WorkerExits, PartType, corr
  <2> QED
    BY <1>0, <2>3, <2>4, TypeKept DEF Work, WorkerExits
<1>4. CASE \E a \in Accounts : LoopExits(a)
  <2>1. AccountType'
    BY <1>0, <1>4 DEF LoopExits, AccountType
  <2> QED
    BY <1>0, <1>4, <2>1, TypeKept DEF LoopExits
<1>5. CASE \E c \in Requests : Arrive(c) \/ Wait(c) \/ Answer(c)
  <2>1. PartType'
    BY <1>0, <1>5 DEF Arrive, Wait, Answer, PartType, corr
  <2> QED
    BY <1>0, <1>5, <2>1, TypeKept DEF Arrive, Wait, Answer
<1> QED
  BY <1>1, <1>2, <1>3, <1>4, <1>5 DEF Goroutines, Callers

LEMMA StopType ==
  ASSUME TypeOK, LeftInv, WorkerInv, Boot \/ Signal \/ DeadlinePasses \/ Shutdown \/ Crash
  PROVE  TypeOK'
<1>0. MigrationsTypeOK /\ MainType /\ AccountType /\ PartType
  BY TypeParts
<1>1. CASE Boot
  <2>1. MigrationsTypeOK'
    BY <1>0, <1>1, FilesAssumption DEF Boot, MigrationsTypeOK, disk
  <2>2. MainType'
    BY <1>0, <1>1, BoundsAssumption DEF Boot, MainType, Starting
  <2> QED
    BY <1>0, <1>1, <2>1, <2>2, TypeKept, TypeParts DEF Boot
<1>2. CASE Signal \/ ApiStopped
  <2>1. MainType'
    BY <1>0, <1>2 DEF Signal, ApiStopped, MainType, Stopping, budget
  <2>2. PartType'
    BY <1>0, <1>2 DEF Signal, ApiStopped, PartType, corr
  <2> QED
    BY <1>0, <1>2, <2>1, <2>2, TypeKept, TypeParts DEF Signal, ApiStopped
<1>3. CASE DeadlinePasses \/ AdminStopped \/ PoolStopped \/ CloseDb
  <2>1. MainType'
    BY <1>0, <1>3
       DEF DeadlinePasses, AdminStopped, PoolStopped, CloseDb, MainType, Stopping, budget
  <2> QED
    BY <1>0, <1>3, <2>1, TypeKept, TypeParts
       DEF DeadlinePasses, AdminStopped, PoolStopped, CloseDb
<1>4. CASE StopAll
  <2>1. MainType'
    BY <1>0, <1>4 DEF StopAll, MainType, Stopping, budget
  <2>2. AccountType'
    BY <1>0, <1>4 DEF StopAll, AccountType
  <2> QED
    BY <1>0, <1>4, <2>1, <2>2, TypeKept, TypeParts DEF StopAll
<1>5. CASE Return \/ Crash
  <2>1. Busy # {} => main # "down"
    BY DEF Busy, WorkerInv, Draining
  <2> QED
    BY <1>5, <2>1, DownIsDie, DieDown DEF LeftInv
<1> QED
  BY <1>1, <1>2, <1>3, <1>4, <1>5 DEF Shutdown

-----------------------------------------------------------------------------
(* The schema.                                                             *)

LEMMA DieSchema == ASSUME TypeOK, SchemaInv, Die PROVE SchemaInv'
  BY DEF SchemaInv, Die, disk

LEMMA CommitSchema == ASSUME TypeOK, SchemaInv, main = "migrate", Commit, UNCHANGED main
                      PROVE  SchemaInv'
<1> DEFINE n == Len(applied)
<1>1. applied \in Seq(1 .. MaxFiles) /\ n \in Nat /\ at \in Nat \ {0} /\ files \in Nat
  BY FilesAssumption, LenProperties DEF TypeOK, MigrationsTypeOK
<1>2. /\ applied' = Append(applied, at) /\ recorded' = recorded \cup {at}
      /\ at' = at + 1 /\ files' = files /\ tx' = "none"
  BY DEF Commit
<1>3. /\ recorded = 1 .. n
      /\ \A k \in 1 .. n : applied[k] = k
      /\ 1 .. at - 1 \subseteq recorded
      /\ at \notin recorded
  BY DEF SchemaInv, Commit
<1>4. Len(applied') = n + 1 /\ applied'[n + 1] = at
      /\ \A k \in 1 .. n : applied'[k] = applied[k]
  <2>1. at \in 1 .. MaxFiles
    BY <1>1, FilesAssumption DEF SchemaInv, Commit, TypeOK, MigrationsTypeOK
  <2>2. /\ Len(Append(applied, at)) = n + 1
        /\ Append(applied, at)[n + 1] = at
        /\ \A k \in 1 .. n : Append(applied, at)[k] = applied[k]
    BY <1>1, <2>1, AppendProperties
  <2> QED
    BY <1>2, <2>2
<1>5. at = n + 1
  <2> HIDE DEF n
  <2> QED
    BY <1>1, <1>3
<1>6. /\ recorded' = 1 .. n + 1
      /\ 1 .. at' - 1 \subseteq recorded'
      /\ \A k \in 1 .. n + 1 : applied'[k] = k
  <2> HIDE DEF n
  <2> QED
    BY <1>1, <1>2, <1>3, <1>4, <1>5
<1> QED
  BY <1>2, <1>4, <1>6 DEF SchemaInv

LEMMA MigrateSchema == ASSUME TypeOK, SchemaInv, main = "migrate", Migrate, UNCHANGED main
                       PROVE  SchemaInv'
<1>1. at \in Nat /\ files \in Nat
  BY FilesAssumption DEF TypeOK, MigrationsTypeOK
<1>2. CASE SkipApplied
  BY <1>1, <1>2 DEF SkipApplied, Recorded, SchemaInv, disk
<1>3. CASE BeginTx
  BY <1>1, <1>3 DEF BeginTx, Recorded, Done, SchemaInv, disk
<1>4. CASE ApplyScript \/ RecordVersion
  BY <1>4 DEF ApplyScript, RecordVersion, SchemaInv, disk
<1>5. CASE Commit
  BY <1>5, CommitSchema
<1> QED
  BY <1>2, <1>3, <1>4, <1>5 DEF Migrate

LEMMA NextSchema == ASSUME TypeOK, SchemaInv, Next PROVE SchemaInv'
<1> USE DEF disk, migration
<1>1. CASE Die
  BY <1>1, DieSchema
<1>2. CASE Boot
  BY <1>2 DEF Boot, SchemaInv
<1>3. CASE RunMigrations
  <2>1. CASE Migrate /\ UNCHANGED main
    BY <1>3, <2>1, MigrateSchema DEF RunMigrations
  <2>2. CASE Done /\ main' = "recover" /\ UNCHANGED <<disk, migration>>
    <3>1. at \in Nat /\ files \in Nat
      BY FilesAssumption DEF TypeOK, MigrationsTypeOK
    <3>2. tx = "none"
      BY <2>2, <3>1 DEF Done, SchemaInv
    <3> QED
      BY <2>2, <3>1, <3>2 DEF Done, SchemaInv
  <2> QED
    BY <1>3, <2>1, <2>2 DEF RunMigrations
<1>4. ASSUME UNCHANGED <<disk, migration>>,
             \/ main' = main
             \/ main = "open" /\ main' = "migrate"
             \/ main \notin {"down", "open", "migrate"}
      PROVE  SchemaInv'
  BY <1>4 DEF SchemaInv
<1>5. CASE ~Die /\ Startup /\ ~RunMigrations
  BY <1>4, <1>5 DEF Startup, OpenDatabase, RecoverOnStartup, StartAccount, AccountFails,
     AccountProceeds, StartSync, CheckFailures, StartPool, StartServers, Fatal
<1>6. CASE Goroutines \/ Callers
  BY <1>4, <1>6 DEF Goroutines, Callers, Listen, Subscribe, StartCleanup, Work, WorkerExits,
     LoopExits, Arrive, Wait, Answer
<1>7. CASE ~Die /\ (Signal \/ DeadlinePasses \/ Shutdown)
  BY <1>4, <1>7 DEF Signal, DeadlinePasses, Shutdown, ApiStopped, AdminStopped, PoolStopped,
     StopAll, CloseDb, Return, Stopping
<1> QED
  BY <1>1, <1>2, <1>3, <1>5, <1>6, <1>7 DEF Next, MigrationFails, Fatal, Crash

-----------------------------------------------------------------------------
(* The database.                                                           *)

LEMMA NextDb == ASSUME DbInv, Next PROVE DbInv'
<1> USE DEF DbInv
<1>1. CASE Die
  BY <1>1 DEF Die
<1>2. CASE Boot
  BY <1>2 DEF Boot
<1>3. CASE ~Die /\ Startup
  BY <1>3 DEF Startup, OpenDatabase, RunMigrations, RecoverOnStartup, StartAccount, AccountFails,
     AccountProceeds, StartSync, CheckFailures, StartPool, StartServers, Fatal
<1>4. CASE Goroutines \/ Callers
  BY <1>4 DEF Goroutines, Callers, Listen, Subscribe, StartCleanup, Work, WorkerExits, LoopExits,
     Arrive, Wait, Answer
<1>5. CASE ~Die /\ (Signal \/ DeadlinePasses \/ Shutdown)
  BY <1>5 DEF Signal, DeadlinePasses, Shutdown, ApiStopped, AdminStopped, PoolStopped, StopAll,
     CloseDb, Return
<1> QED
  BY <1>1, <1>2, <1>3, <1>4, <1>5 DEF Next, MigrationFails, Fatal, Crash

-----------------------------------------------------------------------------
(* The accounts.                                                           *)

LEMMA StartAccounts ==
  ASSUME TypeOK, AccountInv, Startup, ~Die
  PROVE  AccountInv'
<1> USE DEF accounts
<1>1. CASE OpenDatabase \/ RunMigrations \/ RecoverOnStartup
  BY <1>1 DEF OpenDatabase, RunMigrations, RecoverOnStartup, Fatal, AccountInv, Early, Built, Stopping
<1>2. CASE \E a \in Accounts : StartAccount(a)
  BY <1>2 DEF StartAccount, AccountInv, Early, Built, Stopping
<1>3. ASSUME building # NoAccount PROVE main = "accounts" /\ building \in Accounts
  BY <1>3 DEF AccountInv, TypeOK
<1>4. CASE AccountFails
  <2>1. /\ building # NoAccount /\ building' = NoAccount /\ UNCHANGED <<main, loop>>
        /\ status' = [status EXCEPT ![building] = "failed"]
    BY <1>4 DEF AccountFails
  <2>2. loop[building] = "off"
    BY <1>3, <2>1 DEF AccountInv
  <2>3. \A a \in Accounts : status'[a] = IF a = building THEN "failed" ELSE status[a]
    BY <2>1 DEF TypeOK
  <2> QED
    BY <1>3, <2>1, <2>2, <2>3 DEF AccountInv, Early, Built, Stopping
<1>5. CASE AccountProceeds
  BY <1>5 DEF AccountProceeds, AccountInv
<1>6. CASE StartSync
  <2>1. /\ building # NoAccount /\ building' = NoAccount /\ UNCHANGED main
        /\ status' = [status EXCEPT ![building] = "available"]
        /\ loop' = [loop EXCEPT ![building] = "running"]
    BY <1>6 DEF StartSync
  <2>2. \A a \in Accounts : /\ status'[a] = IF a = building THEN "available" ELSE status[a]
                           /\ loop'[a] = IF a = building THEN "running" ELSE loop[a]
    BY <2>1 DEF TypeOK
  <2> QED
    BY <1>3, <2>1, <2>2 DEF AccountInv, Early, Built, Stopping
<1>7. CASE CheckFailures
  <2>1. /\ main = "accounts" /\ main' = "pool" /\ UNCHANGED accounts
        /\ \A a \in Accounts : status[a] # "none"
        /\ Accounts # {} => Available # {}
    BY <1>7 DEF CheckFailures
  <2> QED
    BY <1>7, <2>1 DEF CheckFailures, AccountInv, Available, Early, Built, Stopping
<1>8. CASE StartPool \/ StartServers
  BY <1>8 DEF StartPool, StartServers, AccountInv, Early, Built, Stopping
<1> QED
  BY <1>1, <1>2, <1>4, <1>5, <1>6, <1>7, <1>8 DEF Startup

LEMMA NextAccounts == ASSUME TypeOK, AccountInv, Next PROVE AccountInv'
<1> USE DEF accounts
<1>1. CASE Die
  BY <1>1, NothingRuns DEF Die, AccountInv, Early, Built, Stopping
<1>2. CASE Boot
  BY <1>2 DEF Boot, AccountInv, Early, Built, Stopping
<1>3. CASE ~Die /\ Startup
  BY <1>3, StartAccounts
<1>4. CASE \E a \in Accounts : LoopExits(a)
  <2> PICK a \in Accounts : LoopExits(a)
    BY <1>4
  <2>1. \A b \in Accounts : loop'[b] = IF b = a THEN "off" ELSE loop[b]
    BY DEF LoopExits, TypeOK
  <2> QED
    BY <2>1 DEF LoopExits, AccountInv
<1>5. CASE (Goroutines \/ Callers) /\ ~\E a \in Accounts : LoopExits(a)
  <2>1. UNCHANGED <<main, accounts>>
    BY <1>5 DEF Goroutines, Callers, Listen, Subscribe, StartCleanup, Work, WorkerExits, Arrive,
       Wait, Answer
  <2> QED
    BY <2>1 DEF AccountInv
<1>6. CASE StopAll
  <2>1. \A a \in Accounts : loop'[a] = IF loop[a] = "running" THEN "cancelled" ELSE loop[a]
    BY <1>6 DEF StopAll
  <2> QED
    BY <1>6, <2>1 DEF StopAll, AccountInv, Early, Built, Stopping
<1>7. CASE CloseDb
  BY <1>7 DEF CloseDb, AccountInv, Early, Built, Stopping
<1>8. CASE Signal \/ DeadlinePasses \/ ApiStopped \/ AdminStopped \/ PoolStopped
  BY <1>8 DEF Signal, DeadlinePasses, ApiStopped, AdminStopped, PoolStopped, AccountInv, Early,
     Built, Stopping
<1> QED
  BY <1>1, <1>2, <1>3, <1>4, <1>5, <1>6, <1>7, <1>8
     DEF Next, MigrationFails, Fatal, Crash, Shutdown, Return

-----------------------------------------------------------------------------
(* The workers, and what they leave behind.                                *)

LEMMA NextWorker == ASSUME TypeOK, WorkerInv, Next PROVE WorkerInv'
<1> USE DEF Draining
<1>1. CASE Die
  BY <1>1, NothingRuns DEF Die, WorkerInv
<1>2. CASE Boot
  BY <1>2 DEF Boot, WorkerInv
<1>3. CASE StartPool
  BY <1>3 DEF StartPool, WorkerInv
<1>4. CASE ~Die /\ Startup /\ ~StartPool
  BY <1>4 DEF Startup, OpenDatabase, RunMigrations, RecoverOnStartup, StartAccount, AccountFails,
     AccountProceeds, StartSync, CheckFailures, StartServers, Fatal, WorkerInv
<1>5. CASE \E w \in Workers : Work(w) \/ WorkerExits(w)
  <2> PICK w \in Workers : Work(w) \/ WorkerExits(w)
    BY <1>5
  <2>1. \A v \in Workers : v # w => worker'[v] = worker[v]
    BY DEF Work, WorkerExits, TypeOK
  <2>2. worker[w] # "off" /\ UNCHANGED main /\ (main # "wait_pool" => worker'[w] # "off")
    BY DEF Work, WorkerExits, TypeOK
  <2> QED
    BY <2>1, <2>2 DEF WorkerInv
<1>6. CASE (Goroutines \/ Callers) /\ ~\E w \in Workers : Work(w) \/ WorkerExits(w)
  <2>1. UNCHANGED <<main, worker>>
    BY <1>6 DEF Goroutines, Callers, Listen, Subscribe, StartCleanup, LoopExits, Arrive, Wait,
       Answer
  <2> QED
    BY <2>1 DEF WorkerInv
<1>7. CASE Signal \/ DeadlinePasses \/ ApiStopped \/ AdminStopped \/ PoolStopped \/ StopAll
           \/ CloseDb
  BY <1>7 DEF Signal, DeadlinePasses, ApiStopped, AdminStopped, PoolStopped, StopAll, CloseDb,
     WorkerInv
<1> QED
  BY <1>1, <1>2, <1>3, <1>4, <1>5, <1>6, <1>7
     DEF Next, MigrationFails, Fatal, Crash, Shutdown, Return

LEMMA NextLeft == ASSUME TypeOK, LeftInv, WorkerInv, Next PROVE LeftInv'
<1> USE DEF Early, LeftInv, budget
<1>1. CASE Die
  BY <1>1 DEF Die
<1>2. CASE Boot
  BY <1>2, BoundsAssumption DEF Boot, TypeOK
<1>3. CASE ~Die /\ Startup
  BY <1>3 DEF Startup, OpenDatabase, RunMigrations, RecoverOnStartup, StartAccount, AccountFails,
     AccountProceeds, StartSync, CheckFailures, StartPool, StartServers, Fatal
<1>4. CASE \E w \in Workers : Work(w) \/ WorkerExits(w)
  <2> PICK w \in Workers : Work(w) \/ WorkerExits(w)
    BY <1>4
  <2>1. leftBy' \subseteq leftBy \cup {boots} /\ UNCHANGED <<main, boots>>
    BY DEF Work, WorkerExits
  <2>2. main \notin Early
    BY DEF Work, WorkerExits, WorkerInv, Draining
  <2> QED
    BY <2>1, <2>2
<1>5. CASE (Goroutines \/ Callers) /\ ~\E w \in Workers : Work(w) \/ WorkerExits(w)
  <2>1. UNCHANGED <<main, boots, leftBy>>
    BY <1>5 DEF Goroutines, Callers, Listen, Subscribe, StartCleanup, LoopExits, Arrive, Wait,
       Answer
  <2> QED
    BY <2>1
<1>6. CASE Signal \/ DeadlinePasses \/ ApiStopped \/ AdminStopped \/ PoolStopped \/ StopAll
           \/ CloseDb
  BY <1>6 DEF Signal, DeadlinePasses, ApiStopped, AdminStopped, PoolStopped, StopAll, CloseDb,
     Stopping
<1> QED
  BY <1>1, <1>2, <1>3, <1>4, <1>5, <1>6
     DEF Next, MigrationFails, Fatal, Crash, Shutdown, Return

-----------------------------------------------------------------------------
(* Servers and requests.                                                   *)

LEMMA NextServer == ASSUME TypeOK, ServerInv, Next PROVE ServerInv'
<1> USE DEF Stopping, Servers
<1>1. CASE Die
  BY <1>1, NothingRuns DEF Die, ServerInv
<1>2. CASE Boot
  BY <1>2 DEF Boot, ServerInv
<1>3. CASE StartServers
  BY <1>3 DEF StartServers, ServerInv
<1>4. CASE ~Die /\ Startup /\ ~StartServers
  BY <1>4 DEF Startup, OpenDatabase, RunMigrations, RecoverOnStartup, StartAccount, AccountFails,
     AccountProceeds, StartSync, CheckFailures, StartPool, Fatal, ServerInv
<1>5. CASE \E s \in Servers : Listen(s)
  <2> PICK s \in Servers : Listen(s)
    BY <1>5
  <2>1. \A r \in Servers : r # s => server'[r] = server[r]
    BY DEF Listen, TypeOK
  <2>2. server[s] = "starting" /\ UNCHANGED main
    BY DEF Listen
  <2> QED
    BY <2>1, <2>2 DEF ServerInv
<1>6. CASE (Goroutines \/ Callers) /\ ~\E s \in Servers : Listen(s)
  <2>1. UNCHANGED <<main, server>>
    BY <1>6 DEF Goroutines, Callers, Subscribe, StartCleanup, Work, WorkerExits, LoopExits, Arrive,
       Wait, Answer
  <2> QED
    BY <2>1 DEF ServerInv
<1>7. CASE Signal \/ ApiStopped
  <2>1. \A s \in Servers : server'[s] \in {server[s], "closed"}
    BY <1>7 DEF Signal, ApiStopped, TypeOK
  <2>2. /\ Signal => server'["api"] = "closed"
        /\ ApiStopped => server'["admin"] = "closed" /\ server'["api"] = server["api"]
    BY DEF Signal, ApiStopped, TypeOK
  <2> QED
    BY <1>7, <2>1, <2>2 DEF Signal, ApiStopped, ServerInv
<1>8. CASE DeadlinePasses \/ AdminStopped \/ PoolStopped \/ StopAll \/ CloseDb
  BY <1>8 DEF DeadlinePasses, AdminStopped, PoolStopped, StopAll, CloseDb, ServerInv
<1> QED
  BY <1>1, <1>2, <1>3, <1>4, <1>5, <1>6, <1>7, <1>8
     DEF Next, MigrationFails, Fatal, Crash, Shutdown, Return

LEMMA NextCall == ASSUME TypeOK, ServerInv, CallInv, Next PROVE CallInv'
<1> USE DEF Draining, InFlight
<1>1. CASE Die
  BY <1>1 DEF Die, CallInv
<1>2. CASE Boot
  BY <1>2 DEF Boot, CallInv
<1>3. CASE ~Die /\ Startup
  BY <1>3 DEF Startup, OpenDatabase, RunMigrations, RecoverOnStartup, StartAccount, AccountFails,
     AccountProceeds, StartSync, CheckFailures, StartPool, StartServers, Fatal, CallInv
<1>4. CASE Goroutines
  <2>1. UNCHANGED <<main, late, call>>
    BY <1>4 DEF Goroutines, Listen, Subscribe, StartCleanup, Work, WorkerExits, LoopExits
  <2> QED
    BY <2>1 DEF CallInv
<1>5. CASE Callers
  <2> PICK c \in Requests : Arrive(c) \/ Wait(c) \/ Answer(c)
    BY <1>5 DEF Callers
  <2>1. UNCHANGED <<main, late>> /\ \A d \in Requests : d # c => call'[d] = call[d]
    BY DEF Arrive, Wait, Answer, TypeOK
  <2>2. CASE Arrive(c)
    <3>1. server[ServerOf(c)] = "listening" /\ ServerOf(c) \in Servers
      BY <2>2 DEF Arrive, ServerOf, Servers
    <3>2. main \in Draining /\ (c \in ApiCalls => main = "serving")
      BY <3>1 DEF ServerInv, ServerOf, Servers, Stopping
    <3> QED
      BY <2>1, <3>2 DEF CallInv
  <2>3. CASE Wait(c)
    BY <2>1, <2>3 DEF Wait, TypeOK, CallInv
  <2>4. CASE Answer(c)
    BY <2>1, <2>4 DEF Answer, TypeOK, CallInv
  <2> QED
    BY <2>2, <2>3, <2>4
<1>6. CASE Signal \/ DeadlinePasses
  BY <1>6 DEF Signal, DeadlinePasses, CallInv
<1>7. CASE ApiStopped
  <2>1. \A c \in ApiCalls : call[c] \in InFlight => late
    BY <1>7 DEF ApiStopped, Drained, Pending, ServerOf, Requests
  <2> QED
    BY <1>7, <2>1 DEF ApiStopped, CallInv
<1>8. CASE AdminStopped
  <2>1. \A c \in Requests \ ApiCalls : call[c] \in InFlight => late
    BY <1>8 DEF AdminStopped, Drained, Pending, ServerOf
  <2>2. \A c \in Requests : ~(call[c] \in InFlight /\ ~late)
    BY <1>8, <2>1 DEF AdminStopped, CallInv
  <2> QED
    BY <1>8, <2>2 DEF AdminStopped, CallInv
<1>9. CASE PoolStopped \/ StopAll \/ CloseDb
  BY <1>9 DEF PoolStopped, StopAll, CloseDb, CallInv
<1> QED
  BY <1>1, <1>2, <1>3, <1>4, <1>5, <1>6, <1>7, <1>8, <1>9
     DEF Next, MigrationFails, Fatal, Crash, Shutdown, Return

-----------------------------------------------------------------------------
(* All of it is inductive.                                                 *)

LEMMA InitInv == Init => Inv
<1> SUFFICES ASSUME Init PROVE Inv
  OBVIOUS
<1>1. SchemaInv
  BY DEF Init, MigrationsInit, SchemaInv
<1>2. DbInv /\ LeftInv
  BY DEF Init, DbInv, LeftInv, Early
<1>3. AccountInv /\ WorkerInv
  BY NothingRuns DEF Init, AccountInv, WorkerInv, Early, Built, Stopping, Draining
<1>4. ServerInv /\ CallInv
  BY NothingRuns DEF Init, ServerInv, CallInv, Servers, Stopping, InFlight
<1> QED
  BY <1>1, <1>2, <1>3, <1>4, InitType DEF Inv

LEMMA NextInv == Inv /\ [Next]_vars => Inv'
<1> SUFFICES ASSUME Inv, [Next]_vars PROVE Inv'
  OBVIOUS
<1>1. CASE Next
  <2>1. TypeOK'
    BY <1>1, StartupType, RunType, StopType DEF Inv, Next
  <2>2. SchemaInv' /\ DbInv' /\ AccountInv' /\ WorkerInv'
    BY <1>1, NextSchema, NextDb, NextAccounts, NextWorker DEF Inv
  <2>3. LeftInv' /\ ServerInv' /\ CallInv'
    BY <1>1, NextLeft, NextServer, NextCall DEF Inv
  <2> QED
    BY <2>1, <2>2, <2>3 DEF Inv
<1>2. CASE UNCHANGED vars
  <2> USE <1>2 DEF vars, disk, migration, accounts, corr, budget
  <2>1. TypeOK'
    BY DEF Inv, TypeOK, MigrationsTypeOK
  <2>2. SchemaInv' /\ DbInv' /\ LeftInv'
    BY DEF Inv, SchemaInv, DbInv, LeftInv
  <2>3. AccountInv' /\ WorkerInv'
    BY DEF Inv, AccountInv, WorkerInv
  <2>4. ServerInv' /\ CallInv'
    BY DEF Inv, ServerInv, CallInv
  <2> QED
    BY <2>1, <2>2, <2>3, <2>4 DEF Inv
<1> QED
  BY <1>1, <1>2

LEMMA Invariant == Spec => []Inv
  BY InitInv, NextInv, PTL DEF Spec

-----------------------------------------------------------------------------
(* What the runs check, for all values of the constants.                   *)

\* Every variable of the process keeps its type, whatever starts, fails or dies.
THEOREM TypeCorrect == Spec => []TypeOK
<1>1. Inv => TypeOK
  BY DEF Inv
<1> QED
  BY <1>1, Invariant, PTL

\* Whatever binaries ran and wherever they died: each schema file took effect
\* once, in order, and persistence.Migrate's table records exactly those.
THEOREM SchemaIsExact == Spec => []SchemaExact
<1>1. Inv => SchemaExact
  <2> SUFFICES ASSUME Inv PROVE SchemaExact
    OBVIOUS
  <2>1. DOMAIN applied = 1 .. Len(applied)
    BY DEF Inv, TypeOK, MigrationsTypeOK
  <2> QED
    BY <2>1 DEF Inv, SchemaInv, SchemaExact
<1> QED
  BY <1>1, Invariant, PTL

\* Sync loops, workers and servers of main run only on an open database that has
\* all tables of the binary, workers only after the recovery of earlier jobs.
THEOREM PartsAreReady == Spec => []PartsReady
<1>1. Inv => PartsReady
  <2> SUFFICES ASSUME Inv PROVE PartsReady
    OBVIOUS
  <2>1. ASSUME NEW a \in Accounts, loop[a] = "running"
        PROVE  main \notin Early /\ main \notin {"close", "exit"}
    BY <2>1 DEF Inv, AccountInv
  <2>2. ASSUME NEW w \in Workers, worker[w] # "off"
        PROVE  main \notin Early /\ main \notin {"close", "exit"}
    BY <2>2 DEF Inv, WorkerInv, Draining, Early
  <2>3. ASSUME NEW s \in Servers, server[s] = "listening"
        PROVE  main \notin Early /\ main \notin {"close", "exit"}
    BY <2>3 DEF Inv, ServerInv, Servers, Stopping, Early
  <2>4. ASSUME main \notin Early, main \notin {"close", "exit"}
        PROVE  dbOpen /\ 1 .. files \subseteq recorded
    <3>1. dbOpen /\ at > files /\ 1 .. at - 1 \subseteq recorded
      BY <2>4 DEF Inv, DbInv, SchemaInv, Early
    <3>2. at \in Nat /\ files \in Nat
      BY FilesAssumption DEF Inv, TypeOK, MigrationsTypeOK
    <3> QED
      BY <3>1, <3>2
  <2>5. Running => dbOpen /\ 1 .. files \subseteq recorded
    BY <2>1, <2>2, <2>3, <2>4 DEF Running
  <2>6. (\E w \in Workers : worker[w] # "off") => leftBy \subseteq {boots}
    BY <2>2 DEF Inv, LeftInv
  <2> QED
    BY <2>5, <2>6 DEF PartsReady
<1> QED
  BY <1>1, Invariant, PTL

\* StartAll and checkFailures have decided on every account before anything is
\* served, one account is up, and none that was given up has a sync loop.
THEOREM AccountsAreDecided == Spec => []AccountsDecided
<1>1. Inv => AccountsDecided
  <2> SUFFICES ASSUME Inv PROVE AccountsDecided
    OBVIOUS
  <2>1. (\E w \in Workers : worker[w] # "off") \/ server["api"] # "off"
          => main \in Built
    BY DEF Inv, WorkerInv, ServerInv, Servers, Built, Draining, Stopping
  <2>2. main \in Built =>
          /\ \A a \in Accounts : status[a] # "none"
          /\ Accounts # {} => Available # {}
    BY DEF Inv, AccountInv, Available
  <2>3. \A a \in Accounts : status[a] = "failed" => loop[a] = "off"
    BY DEF Inv, AccountInv
  <2> QED
    BY <2>1, <2>2, <2>3 DEF AccountsDecided
<1> QED
  BY <1>1, Invariant, PTL

\* Until shutdown's 30 seconds have passed, a request in progress at either
\* server has its database, and one of the API its loops and workers too.
THEOREM DrainIsServed == Spec => []DrainServed
<1>1. Inv => DrainServed
  <2> SUFFICES ASSUME Inv, ~late PROVE DrainServed
    BY DEF DrainServed
  <2>1. ASSUME NEW c \in Requests, call[c] \in InFlight
        PROVE  main \in Draining /\ dbOpen
    BY <2>1 DEF Inv, CallInv, DbInv, Draining
  <2>2. ASSUME main \in Draining
        PROVE  /\ \A a \in Available : loop[a] = "running"
               /\ \A w \in Workers : worker[w] # "off"
    BY <2>2 DEF Inv, AccountInv, WorkerInv, Available, Draining
  <2> QED
    BY <2>1, <2>2 DEF DrainServed, Pending
<1> QED
  BY <1>1, Invariant, PTL
=============================================================================
