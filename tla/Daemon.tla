------------------------------- MODULE Daemon -------------------------------
(***************************************************************************)
(* The life of the matfix process: main opens and migrates the database,   *)
(* recovers the queue, starts the accounts one after the other, then the   *)
(* workers, and lets the correlation manager and the two servers start on  *)
(* goroutines of their own.  A signal makes it stop them in order.         *)
(*                                                                         *)
(* What the parts do while they run is in the modules about them; here it  *)
(* matters only that they run, and that they use the database.             *)
(***************************************************************************)
EXTENDS Migrations, FiniteSets

CONSTANTS
  Accounts,    \* cfg.Accounts
  NoAccount,
  Workers,     \* cfg.Queue.Concurrency goroutines
  Types,       \* the event types the correlation manager subscribes to
  ApiCalls,    \* requests to the HTTP API
  AdminCalls,  \* requests to the admin socket
  MaxBoots,    \* bound: process starts
  MaxFaults    \* bound: failing statements of main over a behaviour

ASSUME PartsAssumption ==
  /\ NoAccount \notin Accounts
  /\ ApiCalls \cap AdminCalls = {}
ASSUME BoundsAssumption == MaxBoots \in Nat /\ MaxFaults \in Nat

VARIABLES
  main,        \* where main is
  dbOpen,
  building,    \* the account in startAccount
  stage,       \* how far it is: "client", "crypto", "sync"
  status,      \* AccountManager.accounts
  loop,        \* each account's sync loop
  worker,
  wiring,      \* correlationMgr.Start: "off", "subscribing", "on" (cleanup runs)
  subscribed,  \* event types it has subscribed to
  server,      \* "api" and "admin": "off", "starting", "listening", "failed", "closed"
  late,        \* 30 seconds have passed since the shutdown began
  call,        \* where each request is
  leftBy,      \* the starts of the process that left rows in "sending"
  boots, faults

accounts == <<building, stage, status, loop>>
corr     == <<wiring, subscribed>>
budget   == <<boots, faults>>
vars     == <<disk, migration, main, dbOpen, accounts, worker, corr, server, late, call,
              leftBy, budget>>

Servers  == {"api", "admin"}
Requests == ApiCalls \cup AdminCalls
ServerOf(c) == IF c \in ApiCalls THEN "api" ELSE "admin"

Starting == {"open", "migrate", "recover", "accounts", "pool", "servers"}
Stopping == {"stop_api", "stop_admin", "wait_pool", "stop_accounts", "close", "exit"}
InFlight == {"handling", "waiting"}

Available == {a \in Accounts : status[a] = "available"}
Pending(s) == {c \in Requests : ServerOf(c) = s /\ call[c] \in InFlight}

Nothing ==
  [status |-> [a \in Accounts |-> "none"], loop |-> [a \in Accounts |-> "off"],
   worker |-> [w \in Workers |-> "off"], server |-> [s \in Servers |-> "off"]]

Init ==
  /\ MigrationsInit
  /\ main = "down" /\ dbOpen = FALSE
  /\ building = NoAccount /\ stage = "client"
  /\ status = Nothing.status /\ loop = Nothing.loop
  /\ worker = Nothing.worker /\ server = Nothing.server
  /\ wiring = "off" /\ subscribed = {}
  /\ late = FALSE
  /\ call = [c \in Requests |-> "new"]
  /\ leftBy = {}
  /\ boots = 0 /\ faults = 0

-----------------------------------------------------------------------------
(* The end of the process, wanted or not: memory is gone, the files stay.  *)

Busy == {w \in Workers : worker[w] = "busy"}

Die ==
  /\ main' = "down" /\ dbOpen' = FALSE
  /\ tx' = "none"
  /\ building' = NoAccount /\ stage' = "client"
  /\ status' = Nothing.status /\ loop' = Nothing.loop
  /\ worker' = Nothing.worker /\ server' = Nothing.server
  /\ wiring' = "off" /\ subscribed' = {}
  /\ late' = FALSE
  /\ call' = [c \in Requests |-> IF call[c] \in InFlight THEN "lost" ELSE call[c]]
  /\ leftBy' = IF Busy = {} THEN leftBy ELSE leftBy \cup {boots}
  /\ UNCHANGED <<disk, files, at, boots>>

Crash == main # "down" /\ Die /\ UNCHANGED faults

\* a statement of main fails: os.Exit(1)
Fatal == faults < MaxFaults /\ faults' = faults + 1 /\ Die

-----------------------------------------------------------------------------
(* Startup.                                                                *)

\* the configuration is loaded; the binary may be another one than last time
Boot ==
  /\ main = "down"
  /\ boots < MaxBoots
  /\ boots' = boots + 1
  /\ main' = "open"
  /\ files' \in 1 .. MaxFiles
  /\ at' = 1
  /\ UNCHANGED <<disk, tx, dbOpen, accounts, worker, corr, server, late, call, leftBy, faults>>

\* the three pragmas, and the table schema_migrations if it does not exist
OpenDatabase ==
  /\ main = "open"
  /\ \/ /\ dbOpen' = TRUE
        /\ main' = "migrate"
        /\ UNCHANGED <<disk, migration, accounts, worker, corr, server, late, call, leftBy,
                       budget>>
     \/ Fatal

RunMigrations ==
  /\ main = "migrate"
  /\ \/ /\ Migrate
        /\ UNCHANGED main
     \/ /\ Done
        /\ main' = "recover"
        /\ UNCHANGED <<disk, migration>>
  /\ UNCHANGED <<dbOpen, accounts, worker, corr, server, late, call, leftBy, budget>>

MigrationFails == main = "migrate" /\ ~Done /\ Fatal

\* mutant: the rows are put back in the background
RecoverLater ==
  /\ main = "recover"
  /\ main' = "accounts"
  /\ UNCHANGED <<disk, migration, dbOpen, accounts, worker, corr, server, late, call, leftBy,
                 budget>>

\* no row is left in "sending"
RecoverOnStartup ==
  /\ main = "recover"
  /\ \/ /\ leftBy' = {}
        /\ main' = "accounts"
        /\ UNCHANGED <<disk, migration, dbOpen, accounts, worker, corr, server, late, call,
                       budget>>
     \/ Fatal

\* StartAll takes the accounts one by one; which comes first makes no difference
StartAccount(a) ==
  /\ main = "accounts"
  /\ building = NoAccount
  /\ status[a] = "none"
  /\ building' = a
  /\ stage' = "client"
  /\ UNCHANGED <<disk, migration, main, dbOpen, status, loop, worker, corr, server, late, call,
                 leftBy, budget>>

\* the error of startAccount is recorded, the next account is taken
AccountFails ==
  /\ building # NoAccount
  /\ stage \in {"client", "crypto"}
  /\ status' = [status EXCEPT ![building] = "failed"]
  /\ building' = NoAccount
  /\ UNCHANGED <<disk, migration, main, dbOpen, stage, loop, worker, corr, server, late, call,
                 leftBy, budget>>

\* mutant: the sync loop is started before the crypto manager is there
SyncBeforeCrypto ==
  /\ building # NoAccount
  /\ \/ /\ stage = "client" /\ stage' = "crypto"
        /\ loop' = [loop EXCEPT ![building] = "running"]
        /\ UNCHANGED <<building, status>>
     \/ /\ stage = "sync"
        /\ status' = [status EXCEPT ![building] = "available"]
        /\ building' = NoAccount
        /\ UNCHANGED <<stage, loop>>
  /\ UNCHANGED <<disk, migration, main, dbOpen, worker, corr, server, late, call, leftBy,
                 budget>>

\* engine.NewClient; then crypto.New, which upgrades its schemas and loads the
\* Olm account (a key backup that cannot be restored is no error)
AccountProceeds ==
  /\ building # NoAccount
  /\ \/ stage = "client" /\ stage' = "crypto"
     \/ stage = "crypto" /\ stage' = "sync"
  /\ UNCHANGED <<disk, migration, main, dbOpen, building, status, loop, worker, corr, server,
                 late, call, leftBy, budget>>

\* the sync loop runs from here on, while the next account is still starting
StartSync ==
  /\ building # NoAccount
  /\ stage = "sync"
  /\ loop' = [loop EXCEPT ![building] = "running"]
  /\ status' = [status EXCEPT ![building] = "available"]
  /\ building' = NoAccount
  /\ UNCHANGED <<disk, migration, main, dbOpen, stage, worker, corr, server, late, call, leftBy,
                 budget>>

\* checkFailures: all accounts failed is fatal, some is not
CheckFailures ==
  /\ main = "accounts"
  /\ building = NoAccount
  /\ \A a \in Accounts : status[a] # "none"
  /\ IF Accounts # {} /\ Available = {}
     THEN Die /\ UNCHANGED faults
     ELSE /\ main' = "pool"
          /\ UNCHANGED <<disk, migration, dbOpen, accounts, worker, corr, server, late, call,
                         leftBy, budget>>

StartPool ==
  /\ main = "pool"
  /\ main' = "servers"
  /\ worker' = [w \in Workers |-> "idle"]
  /\ UNCHANGED <<disk, migration, dbOpen, accounts, corr, server, late, call, leftBy, budget>>

\* three go statements, then main waits for a signal
StartServers ==
  /\ main = "servers"
  /\ main' = "serving"
  /\ wiring' = "subscribing"
  /\ server' = [s \in Servers |-> "starting"]
  /\ UNCHANGED <<disk, migration, dbOpen, accounts, worker, subscribed, late, call, leftBy,
                 budget>>

Startup ==
  \/ OpenDatabase \/ RunMigrations \/ RecoverOnStartup
  \/ \E a \in Accounts : StartAccount(a)
  \/ AccountFails \/ AccountProceeds \/ StartSync \/ CheckFailures \/ StartPool \/ StartServers

-----------------------------------------------------------------------------
(* Goroutines.                                                             *)

\* a server binds its address, which may fail (logged only); after a Shutdown
\* that came first it returns at once
Listen(s) ==
  /\ server[s] = "starting"
  /\ \E o \in {"listening", "failed"} : server' = [server EXCEPT ![s] = o]
  /\ UNCHANGED <<disk, migration, main, dbOpen, accounts, worker, corr, late, call, leftBy,
                 budget>>

Subscribe(t) ==
  /\ wiring = "subscribing"
  /\ t \notin subscribed
  /\ subscribed' = subscribed \cup {t}
  /\ UNCHANGED <<disk, migration, main, dbOpen, accounts, worker, wiring, server, late, call,
                 leftBy, budget>>

StartCleanup ==
  /\ wiring = "subscribing"
  /\ subscribed = Types
  /\ wiring' = "on"
  /\ UNCHANGED <<disk, migration, main, dbOpen, accounts, worker, subscribed, server, late,
                 call, leftBy, budget>>

\* between "sending" and the outcome a worker is busy; if it panics or the outcome
\* cannot be written, the row stays in "sending"
Work(w) ==
  /\ main # "wait_pool"
  /\ \/ /\ worker[w] = "idle"
        /\ worker' = [worker EXCEPT ![w] = "busy"]
        /\ UNCHANGED leftBy
     \/ /\ worker[w] = "busy"
        /\ worker' = [worker EXCEPT ![w] = "idle"]
        /\ leftBy' \in {leftBy, leftBy \cup {boots}}
  /\ UNCHANGED <<disk, migration, main, dbOpen, accounts, corr, server, late, call, budget>>

\* with its context cancelled a busy worker cannot record the outcome
WorkerExits(w) ==
  /\ main = "wait_pool"
  /\ worker[w] # "off"
  /\ worker' = [worker EXCEPT ![w] = "off"]
  /\ leftBy' = IF worker[w] = "busy" THEN leftBy \cup {boots} ELSE leftBy
  /\ UNCHANGED <<disk, migration, main, dbOpen, accounts, corr, server, late, call, budget>>

LoopExits(a) ==
  /\ loop[a] = "cancelled"
  /\ loop' = [loop EXCEPT ![a] = "off"]
  /\ UNCHANGED <<disk, migration, main, dbOpen, building, stage, status, worker, corr, server,
                 late, call, leftBy, budget>>

\* a connection counts from here on: Shutdown waits for it
Arrive(c) ==
  /\ call[c] = "new"
  /\ server[ServerOf(c)] = "listening"
  /\ call' = [call EXCEPT ![c] = "handling"]
  /\ UNCHANGED <<disk, migration, main, dbOpen, accounts, worker, corr, server, late, leftBy,
                 budget>>

\* a request to the API may come to wait for an event; its row needs the database
Wait(c) ==
  /\ c \in ApiCalls
  /\ call[c] = "handling"
  /\ dbOpen
  /\ call' = [call EXCEPT ![c] = "waiting"]
  /\ UNCHANGED <<disk, migration, main, dbOpen, accounts, worker, corr, server, late, leftBy,
                 budget>>

\* an answer, an error, an event (while a loop publishes and all is subscribed)
\* or the caller's timeout
Answer(c) ==
  /\ call[c] \in InFlight
  /\ call' = [call EXCEPT ![c] = "answered"]
  /\ UNCHANGED <<disk, migration, main, dbOpen, accounts, worker, corr, server, late, leftBy,
                 budget>>

-----------------------------------------------------------------------------
(* shutdown, on a signal.  A signal before main waits for it is a crash, a  *)
(* second one is ignored.                                                  *)

\* mutant: the accounts go first
SignalStopsAccounts ==
  /\ main = "serving"
  /\ main' = "stop_api"
  /\ server' = [server EXCEPT !["api"] = "closed"]
  /\ loop' = [a \in Accounts |-> IF loop[a] = "running" THEN "cancelled" ELSE loop[a]]
  /\ UNCHANGED <<disk, migration, dbOpen, building, stage, status, worker, corr, late, call,
                 leftBy, budget>>

\* http.Server.Shutdown closes the listener, or lets Start return, before it waits
Signal ==
  /\ main = "serving"
  /\ main' = "stop_api"
  /\ server' = [server EXCEPT !["api"] = "closed"]
  /\ UNCHANGED <<disk, migration, dbOpen, accounts, worker, corr, late, call, leftBy, budget>>

\* shutdownTimeout; the 30 seconds of api.Server.Stop begin at the same time
DeadlinePasses ==
  /\ main \in Stopping
  /\ ~late
  /\ late' = TRUE
  /\ UNCHANGED <<disk, migration, main, dbOpen, accounts, worker, corr, server, call, leftBy,
                 budget>>

\* mutant: Shutdown with a context that has no deadline
DrainedOnly(s) == Pending(s) = {}

Drained(s) == Pending(s) = {} \/ late

\* the API server has stopped, the admin server begins to
ApiStopped ==
  /\ main = "stop_api"
  /\ Drained("api")
  /\ main' = "stop_admin"
  /\ server' = [server EXCEPT !["admin"] = "closed"]
  /\ UNCHANGED <<disk, migration, dbOpen, accounts, worker, corr, late, call, leftBy, budget>>

\* the admin server has stopped, WorkerPool.Stop cancels
AdminStopped ==
  /\ main = "stop_admin"
  /\ Drained("admin")
  /\ main' = "wait_pool"
  /\ UNCHANGED <<disk, migration, dbOpen, accounts, worker, corr, server, late, call, leftBy,
                 budget>>

\* wg.Wait, which knows no deadline
PoolStopped ==
  /\ main = "wait_pool"
  /\ \A w \in Workers : worker[w] = "off"
  /\ main' = "stop_accounts"
  /\ UNCHANGED <<disk, migration, dbOpen, accounts, worker, corr, server, late, call, leftBy,
                 budget>>

\* the loops are told to stop and not waited for
StopAll ==
  /\ main = "stop_accounts"
  /\ main' = "close"
  /\ loop' = [a \in Accounts |-> IF loop[a] = "running" THEN "cancelled" ELSE loop[a]]
  /\ UNCHANGED <<disk, migration, dbOpen, building, stage, status, worker, corr, server, late,
                 call, leftBy, budget>>

CloseDb ==
  /\ main = "close"
  /\ main' = "exit"
  /\ dbOpen' = FALSE
  /\ UNCHANGED <<disk, migration, accounts, worker, corr, server, late, call, leftBy, budget>>

Return == main = "exit" /\ Die /\ UNCHANGED faults

Shutdown == ApiStopped \/ AdminStopped \/ PoolStopped \/ StopAll \/ CloseDb \/ Return

-----------------------------------------------------------------------------

Goroutines ==
  \/ \E s \in Servers : Listen(s)
  \/ \E t \in Types : Subscribe(t)
  \/ StartCleanup
  \/ \E w \in Workers : Work(w) \/ WorkerExits(w)
  \/ \E a \in Accounts : LoopExits(a)

Callers == \E c \in Requests : Arrive(c) \/ Wait(c) \/ Answer(c)

Next ==
  \/ Boot \/ Startup \/ MigrationFails
  \/ Goroutines \/ Callers
  \/ Signal \/ DeadlinePasses \/ Shutdown
  \/ Crash

Spec == Init /\ [][Next]_vars

\* Go runs what is runnable and time passes.  Requests may take for ever.
Fairness ==
  /\ WF_vars(Startup) /\ WF_vars(Shutdown) /\ WF_vars(DeadlinePasses)
  /\ \A t \in Types : WF_vars(Subscribe(t))
  /\ WF_vars(StartCleanup)
  /\ \A w \in Workers : WF_vars(WorkerExits(w))

FairSpec == Spec /\ Fairness

-----------------------------------------------------------------------------

TypeOK ==
  /\ MigrationsTypeOK
  /\ main \in {"down", "serving"} \cup Starting \cup Stopping
  /\ dbOpen \in BOOLEAN
  /\ building \in Accounts \cup {NoAccount}
  /\ stage \in {"client", "crypto", "sync"}
  /\ status \in [Accounts -> {"none", "failed", "available"}]
  /\ loop \in [Accounts -> {"off", "running", "cancelled"}]
  /\ worker \in [Workers -> {"off", "idle", "busy"}]
  /\ wiring \in {"off", "subscribing", "on"}
  /\ subscribed \subseteq Types
  /\ server \in [Servers -> {"off", "starting", "listening", "failed", "closed"}]
  /\ late \in BOOLEAN
  /\ call \in [Requests -> {"new", "handling", "waiting", "answered", "lost"}]
  /\ leftBy \subseteq 1 .. MaxBoots
  /\ boots \in 0 .. MaxBoots /\ faults \in 0 .. MaxFaults

Running ==
  \/ \E a \in Accounts : loop[a] = "running"
  \/ \E w \in Workers : worker[w] # "off"
  \/ \E s \in Servers : server[s] = "listening"

\* Loops that were not told to stop, workers and servers find an open database with
\* all the tables of their binary; and no worker pulls while a job of an earlier
\* process is still in "sending".  (A cancelled loop may outlive the database; its
\* statements then fail, see SyncLoop.)
PartsReady ==
  /\ Running => dbOpen /\ 1 .. files \subseteq recorded
  /\ (\E w \in Workers : worker[w] # "off") => leftBy \subseteq {boots}

\* Nothing is served before every account is up or given up; one of them is up (its
\* client is made, which does not ask the homeserver), and no sync loop runs for one
\* that was given up.
AccountsDecided ==
  /\ (\E w \in Workers : worker[w] # "off") \/ server["api"] # "off" =>
       /\ \A a \in Accounts : status[a] # "none"
       /\ Accounts # {} => Available # {}
  /\ \A a \in Accounts : status[a] = "failed" => loop[a] = "off"

\* A request that is in progress when the shutdown begins finds everything it
\* may be waiting for, loops, workers and database, until 30 seconds have passed.
DrainServed ==
  ~late =>
    /\ Pending("api") # {} =>
         /\ \A a \in Available : loop[a] = "running"
         /\ \A w \in Workers : worker[w] # "off"
    /\ Pending("api") \cup Pending("admin") # {} => dbOpen

\* A start ends in service or in an exit, an accepted signal ends in an exit even
\* if requests never end, and the correlation manager comes to see every event.
LifeCycleEnds ==
  /\ main \in Starting ~> main \in {"serving", "down"}
  /\ main \in Stopping ~> main = "down"
  /\ wiring = "subscribing" ~> subscribed = Types \/ main = "down"
=============================================================================
