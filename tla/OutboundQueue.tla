---------------------------- MODULE OutboundQueue ----------------------------
(***************************************************************************)
(* The outbound side of matfix: SubmissionManager.Submit on the HTTP       *)
(* handlers' goroutines, the QueueManager over the outbound_queue table,   *)
(* the worker pool, and the life of the process around them (crash         *)
(* recovery at startup, ordered shutdown, crash).                          *)
(*                                                                         *)
(* The database runs on one connection, so a statement or a transaction is *)
(* one step; everything between two statements is a separate step.  Job j  *)
(* is the row the submit call j inserts (its id is a fresh UUID).          *)
(***************************************************************************)
EXTENDS Naturals, FiniteSets

CONSTANTS
  Requests,    \* POST /v1/send calls; also the jobs they may create
  Accounts,    \* configured accounts
  Keys,        \* idempotency keys clients use
  NoKey,       \* the empty idempotency key
  Workers,     \* worker goroutines
  NoJob,       \* no row
  MaxRetries,  \* retry_policy.max_retries
  MaxBoots,    \* bound: number of process starts
  MaxFaults,   \* bound: database errors over a behaviour
  MaxPanics    \* bound: panics inside processOne over a behaviour

ASSUME RetriesAssumption == MaxRetries \in Nat
ASSUME NamesAssumption == NoJob \notin Requests /\ NoKey \notin Keys
ASSUME RequestsAssumption == IsFiniteSet(Requests)
ASSUME BoundsAssumption == MaxBoots \in Nat /\ MaxFaults \in Nat /\ MaxPanics \in Nat

VARIABLES
  \* the table outbound_queue
  state,      \* column state, "none" when the row does not exist
  retry,      \* column retry_count
  sched,      \* column scheduled_at against the clock: "now" is 0, "later"
              \* is in the future, "due" is a retry time that has passed
  createdAt,  \* column created_at, as the number of older rows
  \* one submit call per request
  hpc,        \* where the call is
  acct,       \* its account_id (column account_id of its row)
  idem,       \* its idempotency_key (column idempotency_key of its row)
  answer,     \* the job id it returned
  \* the worker pool
  wpc,        \* where each worker is
  wjob,       \* the job a worker holds
  wretry,     \* job.RetryCount as read when the job was claimed
  todo,       \* accounts the current pass has still to visit
  worked,     \* whether the pass has processed a job
  notify,     \* whether the capacity-1 wake-up channel holds a token
  \* the process
  life,       \* "down", "up", "closing" (API stopped), "stopping" (worker context cancelled)
  available,  \* accounts whose startup succeeded
  boots, faults, panics,
  \* what an observer counts
  delivered,  \* events the homeserver stored for a job
  lost,       \* deliveries whose answer never reached the worker
  tries,      \* times a worker claimed the job
  restored,   \* times startup recovery put the job back
  announced   \* delivery events published on the bus for the job

rows     == <<state, retry, sched, createdAt>>
calls    == <<hpc, acct, idem, answer>>
pool     == <<wpc, wjob, wretry, todo, worked>>
process  == <<life, available, boots>>
budget   == <<faults, panics>>
observed == <<delivered, lost, tries, restored, announced>>
vars     == <<rows, calls, pool, notify, process, budget, observed>>

States     == {"none", "queued", "sending", "acknowledged", "dead_letter"}
Final      == {"acknowledged", "dead_letter"}
InFlight   == {"check", "resolve", "lookup", "insert", "notify"}
Outcomes   == {"accepted", "rejected", "conflict", "lost"}
Announcing == {"tell_ack", "tell_retry", "tell_exhausted"}
Busy       == {"claimed", "ack", "failed"}

Rows == {j \in Requests : state[j] # "none"}

TypeOK ==
  /\ state \in [Requests -> States]
  /\ retry \in [Requests -> 0..MaxRetries]
  /\ sched \in [Requests -> {"now", "later", "due"}]
  /\ createdAt \in [Requests -> Nat]
  /\ hpc \in [Requests -> {"new"} \cup InFlight \cup Outcomes]
  /\ acct \in [Requests -> Accounts]
  /\ idem \in [Requests -> Keys \cup {NoKey}]
  /\ answer \in [Requests -> Requests \cup {NoJob}]
  /\ wpc \in [Workers -> {"off", "pull", "idle"} \cup Busy \cup Announcing]
  /\ wjob \in [Workers -> Requests \cup {NoJob}]
  /\ wretry \in [Workers -> 0..MaxRetries]
  /\ todo \in [Workers -> SUBSET Accounts]
  /\ worked \in [Workers -> BOOLEAN]
  /\ notify \in BOOLEAN
  /\ life \in {"down", "up", "closing", "stopping"}
  /\ available \in SUBSET Accounts
  /\ boots \in 0..MaxBoots /\ faults \in 0..MaxFaults /\ panics \in 0..MaxPanics
  /\ delivered \in [Requests -> Nat]
  /\ lost \in [Requests -> Nat]
  /\ tries \in [Requests -> Nat]
  /\ restored \in [Requests -> Nat]
  /\ announced \in [Requests -> SUBSET {"ack", "retry", "exhausted"}]

Init ==
  /\ state = [j \in Requests |-> "none"]
  /\ retry = [j \in Requests |-> 0]
  /\ sched = [j \in Requests |-> "now"]
  /\ createdAt = [j \in Requests |-> 0]
  /\ hpc = [r \in Requests |-> "new"]
  /\ acct \in [Requests -> Accounts]
  /\ idem \in [Requests -> Keys \cup {NoKey}]
  /\ answer = [r \in Requests |-> NoJob]
  /\ wpc = [w \in Workers |-> "off"]
  /\ wjob = [w \in Workers |-> NoJob]
  /\ wretry = [w \in Workers |-> 0]
  /\ todo = [w \in Workers |-> {}]
  /\ worked = [w \in Workers |-> FALSE]
  /\ notify = FALSE
  /\ life = "down"
  /\ available = {}
  /\ boots = 0 /\ faults = 0 /\ panics = 0
  /\ delivered = [j \in Requests |-> 0]
  /\ lost = [j \in Requests |-> 0]
  /\ tries = [j \in Requests |-> 0]
  /\ restored = [j \in Requests |-> 0]
  /\ announced = [j \in Requests |-> {}]

-----------------------------------------------------------------------------
(* Submission.  The request context is not cancelled by the server's       *)
(* shutdown: calls in flight go on while the process closes.               *)

Serving == life \in {"up", "closing", "stopping"}
DbFault == faults < MaxFaults /\ faults' = faults + 1

SameKey(r) == {j \in Rows : acct[j] = acct[r] /\ idem[j] = idem[r]}

Finish(r, outcome) == hpc' = [hpc EXCEPT ![r] = outcome]
Return(r, j) ==
  /\ Finish(r, "accepted")
  /\ answer' = [answer EXCEPT ![r] = j]

\* the request has been validated
Submit(r) ==
  /\ life = "up"
  /\ hpc[r] = "new"
  /\ hpc' = [hpc EXCEPT ![r] = "check"]
  /\ UNCHANGED <<rows, acct, idem, answer, pool, notify, process, budget, observed>>

\* a lookup by idempotency key answers with the row it finds, or goes on
LookUp(r, here, next) ==
  /\ Serving
  /\ hpc[r] = here
  /\ \/ /\ idem[r] # NoKey
        /\ \E j \in SameKey(r) : Return(r, j)
        /\ UNCHANGED faults
     \/ /\ idem[r] = NoKey \/ SameKey(r) = {}
        /\ Finish(r, next)
        /\ UNCHANGED <<answer, faults>>
     \/ /\ idem[r] # NoKey
        /\ DbFault
        /\ Finish(r, "rejected")
        /\ UNCHANGED answer
  /\ UNCHANGED <<rows, acct, idem, pool, notify, process, panics, observed>>

CheckIdempotency(r) == LookUp(r, "check", "resolve")
EnqueueLookup(r)    == LookUp(r, "lookup", "insert")

\* the client lookup, then the destination's room, which may fail to resolve
ResolveDestination(r) ==
  /\ Serving
  /\ hpc[r] = "resolve"
  /\ \/ acct[r] \in available /\ Finish(r, "lookup")
     \/ Finish(r, "rejected")
  /\ UNCHANGED <<rows, acct, idem, answer, pool, notify, process, budget, observed>>

\* mutant: the index is not unique
NeverConflicts(r) == FALSE

\* the unique index on (account_id, idempotency_key) where the key is not empty
Conflicts(r) == idem[r] # NoKey /\ SameKey(r) # {}

InsertRow(r) ==
  /\ Serving
  /\ hpc[r] = "insert"
  /\ \/ /\ ~Conflicts(r)
        /\ state' = [state EXCEPT ![r] = "queued"]
        /\ createdAt' = [createdAt EXCEPT ![r] = Cardinality(Rows)]
        /\ Finish(r, "notify")
        /\ UNCHANGED faults
     \/ /\ Conflicts(r)
        /\ Finish(r, "conflict")
        /\ UNCHANGED <<state, createdAt, faults>>
     \/ /\ DbFault
        /\ Finish(r, "rejected")
        /\ UNCHANGED <<state, createdAt>>
  /\ UNCHANGED <<retry, sched, acct, idem, answer, pool, notify, process, panics, observed>>

\* the non-blocking send on the capacity-1 channel, then the answer
NotifyWorkers(r) ==
  /\ Serving
  /\ hpc[r] = "notify"
  /\ notify' = TRUE
  /\ Return(r, r)
  /\ UNCHANGED <<rows, acct, idem, pool, process, budget, observed>>

\* the client goes away: the statement in progress fails with its context,
\* or the answer is written to a closed connection
Disconnect(r) ==
  /\ Serving
  /\ hpc[r] \in InFlight
  /\ Finish(r, "lost")
  /\ notify' = (notify \/ hpc[r] = "notify")
  /\ UNCHANGED <<rows, acct, idem, answer, pool, process, budget, observed>>

Submission ==
  \E r \in Requests :
    \/ Submit(r) \/ CheckIdempotency(r) \/ ResolveDestination(r)
    \/ EnqueueLookup(r) \/ InsertRow(r) \/ NotifyWorkers(r) \/ Disconnect(r)

-----------------------------------------------------------------------------
(* The worker pool.  With the context cancelled every database call fails  *)
(* before it starts; without it a call may still fail, within MaxFaults.   *)

Running == life \in {"up", "closing"}

DbOk    == Running /\ UNCHANGED faults
DbError == \/ life = "stopping" /\ UNCHANGED faults
           \/ Running /\ DbFault

Eligible(a) == {j \in Rows : acct[j] = a /\ state[j] = "queued" /\ sched[j] # "later"}

\* ORDER BY scheduled_at, created_at: fresh rows (scheduled_at = 0) in creation
\* order, then retries.  The order of two elapsed retry times is left open.
First(jobs) ==
  LET fresh == {j \in jobs : sched[j] = "now"}
  IN  IF fresh = {} THEN jobs
      ELSE {j \in fresh : \A i \in fresh : createdAt[j] <= createdAt[i]}

\* mutant: the context is looked at in the idle select only
ExitWhenIdle(w) ==
  /\ life = "stopping"
  /\ wpc[w] = "idle"
  /\ wpc' = [wpc EXCEPT ![w] = "off"]
  /\ UNCHANGED <<rows, calls, wjob, wretry, todo, worked, notify, process, budget, observed>>

\* ctx.Err() at the head of a pass, between accounts and in the idle select
WorkerExit(w) ==
  /\ life = "stopping"
  /\ wpc[w] \in {"pull", "idle"}
  /\ wpc' = [wpc EXCEPT ![w] = "off"]
  /\ UNCHANGED <<rows, calls, wjob, wretry, todo, worked, notify, process, budget, observed>>

\* mutant: the transaction selects the row and does not mark it
ClaimUnmarked(w, j) ==
  /\ wjob' = [wjob EXCEPT ![w] = j]
  /\ wretry' = [wretry EXCEPT ![w] = retry[j]]
  /\ wpc' = [wpc EXCEPT ![w] = "claimed"]
  /\ tries' = [tries EXCEPT ![j] = @ + 1]
  /\ UNCHANGED state

\* the transaction that selects the next row and marks it sending
Claim(w, j) ==
  /\ state' = [state EXCEPT ![j] = "sending"]
  /\ wjob' = [wjob EXCEPT ![w] = j]
  /\ wretry' = [wretry EXCEPT ![w] = retry[j]]
  /\ wpc' = [wpc EXCEPT ![w] = "claimed"]
  /\ tries' = [tries EXCEPT ![j] = @ + 1]

PullNext(w) ==
  /\ Running
  /\ wpc[w] = "pull"
  /\ \E a \in todo[w] :
       /\ todo' = [todo EXCEPT ![w] = @ \ {a}]
       /\ \/ /\ \E j \in First(Eligible(a)) : Claim(w, j)
             /\ UNCHANGED faults
          \/ /\ Eligible(a) = {} /\ UNCHANGED faults
             /\ UNCHANGED <<state, wjob, wretry, wpc, tries>>
          \/ /\ DbFault
             /\ UNCHANGED <<state, wjob, wretry, wpc, tries>>
  /\ UNCHANGED <<retry, sched, createdAt, calls, worked, notify, process, panics,
                 delivered, lost, restored, announced>>

\* the end of a pass: another one at once if it found work, else wait
EndPass(w) ==
  /\ Running
  /\ wpc[w] = "pull"
  /\ todo[w] = {}
  /\ IF worked[w]
     THEN /\ todo' = [todo EXCEPT ![w] = Accounts]
          /\ UNCHANGED wpc
     ELSE /\ wpc' = [wpc EXCEPT ![w] = "idle"]
          /\ UNCHANGED todo
  /\ worked' = [worked EXCEPT ![w] = FALSE]
  /\ UNCHANGED <<rows, calls, wjob, wretry, notify, process, budget, observed>>

StartPass(w) ==
  /\ Running
  /\ wpc[w] = "idle"
  /\ wpc' = [wpc EXCEPT ![w] = "pull"]
  /\ todo' = [todo EXCEPT ![w] = Accounts]
  /\ UNCHANGED <<rows, calls, wjob, wretry, worked, process, budget, observed>>

WakeByNotify(w) == notify /\ notify' = FALSE /\ StartPass(w)

\* mutant: no poll ticker
NoTicker(w) == FALSE

WakeByTicker(w) == UNCHANGED notify /\ StartPass(w)

\* processOne returns true
Done(w) ==
  /\ wpc' = [wpc EXCEPT ![w] = "pull"]
  /\ wjob' = [wjob EXCEPT ![w] = NoJob]
  /\ worked' = [worked EXCEPT ![w] = TRUE]

\* mutant: max_retries counts attempts
ExhaustedWhenReached(n) == n >= MaxRetries

Exhausted(n) == n > MaxRetries

\* mutant: a retry is scheduled with the count the job already had
RescheduleUncounted(w) ==
  /\ state' = [state EXCEPT ![wjob[w]] = "queued"]
  /\ sched' = [sched EXCEPT ![wjob[w]] = "later"]
  /\ UNCHANGED <<retry, createdAt>>

\* QueueManager.ScheduleRetry on the job w holds
Reschedule(w) ==
  LET j == wjob[w]
      n == wretry[w] + 1
  IN  IF Exhausted(n)
      THEN /\ state' = [state EXCEPT ![j] = "dead_letter"]
           /\ UNCHANGED <<retry, sched, createdAt>>
      ELSE /\ state' = [state EXCEPT ![j] = "queued"]
           /\ retry' = [retry EXCEPT ![j] = n]
           /\ sched' = [sched EXCEPT ![j] = "later"]
           /\ UNCHANGED createdAt

\* the account has no client: reschedule, publish nothing
NoClient(w) ==
  /\ wpc[w] = "claimed"
  /\ acct[wjob[w]] \notin available
  /\ \/ DbOk /\ Reschedule(w)
     \/ DbError /\ UNCHANGED rows
  /\ Done(w)
  /\ UNCHANGED <<calls, wretry, todo, notify, process, panics, observed>>

\* client.Send: an answer, or an error before or after the homeserver stored
\* the event; with the context cancelled, always an error
Send(w) ==
  /\ wpc[w] = "claimed"
  /\ acct[wjob[w]] \in available
  /\ \/ /\ Running
        /\ wpc' = [wpc EXCEPT ![w] = "ack"]
        /\ delivered' = [delivered EXCEPT ![wjob[w]] = @ + 1]
        /\ UNCHANGED lost
     \/ /\ wpc' = [wpc EXCEPT ![w] = "failed"]
        /\ delivered' = [delivered EXCEPT ![wjob[w]] = @ + 1]
        /\ lost' = [lost EXCEPT ![wjob[w]] = @ + 1]
     \/ /\ wpc' = [wpc EXCEPT ![w] = "failed"]
        /\ UNCHANGED <<delivered, lost>>
  /\ UNCHANGED <<rows, calls, wjob, wretry, todo, worked, notify, process, budget,
                 tries, restored, announced>>

\* Transition to acknowledged; an error is logged and the event still published
Acknowledge(w) ==
  /\ wpc[w] = "ack"
  /\ \/ DbOk /\ state' = [state EXCEPT ![wjob[w]] = "acknowledged"]
     \/ DbError /\ UNCHANGED state
  /\ wpc' = [wpc EXCEPT ![w] = "tell_ack"]
  /\ UNCHANGED <<retry, sched, createdAt, calls, wjob, wretry, todo, worked, notify,
                 process, panics, observed>>

\* mutant: the outcome is published although ScheduleRetry failed
TellAnyway(w) ==
  /\ wpc[w] = "failed"
  /\ \/ DbOk /\ Reschedule(w)
     \/ DbError /\ UNCHANGED rows
  /\ wpc' = [wpc EXCEPT ![w] = IF Exhausted(wretry[w] + 1)
                               THEN "tell_exhausted" ELSE "tell_retry"]
  /\ UNCHANGED <<calls, wjob, wretry, todo, worked, notify, process, panics, observed>>

\* onSendFailure: an error of ScheduleRetry is logged and nothing published
OnSendFailure(w) ==
  /\ wpc[w] = "failed"
  /\ \/ /\ DbOk
        /\ Reschedule(w)
        /\ wpc' = [wpc EXCEPT ![w] = IF Exhausted(wretry[w] + 1)
                                     THEN "tell_exhausted" ELSE "tell_retry"]
        /\ UNCHANGED <<wjob, worked>>
     \/ /\ DbError
        /\ Done(w)
        /\ UNCHANGED rows
  /\ UNCHANGED <<calls, wretry, todo, notify, process, panics, observed>>

Told(pc) == CASE pc = "tell_ack" -> "ack"
              [] pc = "tell_retry" -> "retry"
              [] OTHER -> "exhausted"

Publish(w) ==
  /\ wpc[w] \in Announcing
  /\ announced' = [announced EXCEPT ![wjob[w]] = @ \cup {Told(wpc[w])}]
  /\ Done(w)
  /\ UNCHANGED <<rows, calls, wretry, todo, notify, process, budget,
                 delivered, lost, tries, restored>>

\* a panic below processOne is recovered; the row stays as it is
Panic(w) ==
  /\ wpc[w] \in {"claimed", "ack"}
  /\ panics < MaxPanics
  /\ panics' = panics + 1
  /\ Done(w)
  /\ UNCHANGED <<rows, calls, wretry, todo, notify, process, faults, observed>>

\* a retry time passes
Elapse(j) ==
  /\ sched[j] = "later"
  /\ sched' = [sched EXCEPT ![j] = "due"]
  /\ UNCHANGED <<state, retry, createdAt, calls, pool, notify, process, budget, observed>>

Deliver(w) ==
  \/ NoClient(w) \/ Send(w) \/ Acknowledge(w) \/ OnSendFailure(w) \/ Publish(w)
Pass(w) ==
  \/ PullNext(w) \/ EndPass(w) \/ WakeByNotify(w) \/ WakeByTicker(w) \/ WorkerExit(w)

-----------------------------------------------------------------------------
(* The process.                                                            *)

\* mutant: recovery puts back whatever has not been delivered
NotDelivered(j) == state[j] \in {"sending", "dead_letter"}

\* the WHERE clause of RestoreStuck
Stuck(j) == state[j] = "sending"

\* RecoverOnStartup (RestoreStuck), StartAll (at least one account), workers.Start
Boot ==
  /\ life = "down"
  /\ boots < MaxBoots
  /\ boots' = boots + 1
  /\ life' = "up"
  /\ state' = [j \in Requests |-> IF Stuck(j) THEN "queued" ELSE state[j]]
  /\ restored' = [j \in Requests |->
                    IF Stuck(j) THEN restored[j] + 1 ELSE restored[j]]
  /\ available' \in SUBSET Accounts \ {{}}
  /\ wpc' = [w \in Workers |-> "pull"]
  /\ wjob' = [w \in Workers |-> NoJob]
  /\ wretry' = [w \in Workers |-> 0]
  /\ todo' = [w \in Workers |-> Accounts]
  /\ worked' = [w \in Workers |-> FALSE]
  /\ notify' = FALSE
  /\ UNCHANGED <<retry, sched, createdAt, calls, budget, delivered, lost, tries, announced>>

\* a signal: the API server stops first
StopServing ==
  /\ life = "up"
  /\ life' = "closing"
  /\ UNCHANGED <<rows, calls, pool, notify, available, boots, budget, observed>>

\* WorkerPool.Stop cancels the workers' context (the API server has drained
\* its calls or has given up on them after 30 seconds)
CancelWorkers ==
  /\ life = "closing"
  /\ life' = "stopping"
  /\ UNCHANGED <<rows, calls, pool, notify, available, boots, budget, observed>>

Abandoned == [r \in Requests |-> IF hpc[r] \in InFlight THEN "lost" ELSE hpc[r]]

\* every worker has returned: the database is closed and the process ends
Terminate ==
  /\ life = "stopping"
  /\ \A w \in Workers : wpc[w] = "off"
  /\ life' = "down"
  /\ hpc' = Abandoned
  /\ UNCHANGED <<rows, acct, idem, answer, pool, notify, available, boots, budget, observed>>

Crash ==
  /\ life # "down"
  /\ life' = "down"
  /\ hpc' = Abandoned
  /\ wpc' = [w \in Workers |-> "off"]
  /\ wjob' = [w \in Workers |-> NoJob]
  /\ UNCHANGED <<rows, acct, idem, answer, wretry, todo, worked, notify, available,
                 boots, budget, observed>>

Next ==
  \/ Submission
  \/ \E w \in Workers : Pass(w) \/ Deliver(w) \/ Panic(w)
  \/ \E j \in Requests : Elapse(j)
  \/ Boot \/ StopServing \/ CancelWorkers \/ Terminate \/ Crash

Spec == Init /\ [][Next]_vars

\* Goroutines are scheduled, the ticker fires, time passes, calls to the
\* homeserver return, the process is started again while the bound allows it.
\* A signal, a crash, a fault, a client or a retry that succeeds is never owed.
Fairness ==
  /\ \A w \in Workers : WF_vars(Pass(w)) /\ WF_vars(Deliver(w))
  /\ \A j \in Requests : WF_vars(Elapse(j))
  /\ WF_vars(CancelWorkers) /\ WF_vars(Terminate) /\ WF_vars(Boot)

FairSpec == Spec /\ Fairness

-----------------------------------------------------------------------------
(* Properties.                                                             *)

Holds(w, j) == wpc[w] \in Busy /\ wjob[w] = j

\* A job is processed by at most one worker, its row says "sending" as long
\* as one processes it, and the retry count the worker read at the claim is
\* still the row's: the claim transaction is the only lock the queue has.
SingleHolder ==
  \A w \in Workers : wpc[w] \in Busy =>
    /\ wjob[w] \in Requests
    /\ state[wjob[w]] = "sending"
    /\ wretry[w] = retry[wjob[w]]
    /\ \A v \in Workers : Holds(v, wjob[w]) => v = w

\* Every claim of a job is paid for by a counted retry, by a startup recovery,
\* or is the claim that is in progress or settled the job: no path puts a job
\* back for free, so a job is tried at most max_retries + 1 + recoveries times.
AttemptsAccounted ==
  \A j \in Requests :
    tries[j] = retry[j] + restored[j] + (IF state[j] \in {"sending"} \cup Final THEN 1 ELSE 0)

\* A dead-lettered job has used every retry the policy allows.
DeadLetterExhausted ==
  \A j \in Requests : state[j] = "dead_letter" => retry[j] = MaxRetries

\* At-least-once delivery made precise: the homeserver has a second copy of a
\* job only for an answer that was lost or a recovery of a job left "sending".
DuplicatesExplained ==
  \A j \in Requests :
    delivered[j] <= lost[j] + restored[j]
                      + (IF state[j] \in {"sending", "acknowledged"} THEN 1 ELSE 0)

\* What the bus tells is true: an acknowledgement was stored by the homeserver,
\* exhaustion is final, and an acknowledged row has been delivered.
EventsTruthful ==
  \A j \in Requests :
    /\ "ack" \in announced[j] => delivered[j] > 0
    /\ "exhausted" \in announced[j] => state[j] = "dead_letter"
    /\ state[j] = "acknowledged" => delivered[j] > 0

\* The table holds one job per account and idempotency key, and every caller
\* that was answered for that key was answered with this job.
OneJobPerKey ==
  \A r \in Requests :
    /\ idem[r] # NoKey => \A i, j \in SameKey(r) : i = j
    /\ answer[r] # NoJob =>
         IF idem[r] = NoKey THEN answer[r] = r /\ r \in Rows ELSE answer[r] \in SameKey(r)

\* What the proofs add to these to make them inductive: a call that has not
\* inserted its row has none, and what a worker is about to report is so.
NotInserted ==
  \A r \in Requests : hpc[r] \in {"new"} \cup (InFlight \ {"notify"}) => state[r] = "none"

ReportsHold ==
  \A w \in Workers :
    /\ wpc[w] \in Announcing => wjob[w] \in Requests
    /\ wpc[w] \in {"ack", "tell_ack"} => delivered[wjob[w]] > 0
    /\ wpc[w] = "tell_exhausted" => state[wjob[w]] = "dead_letter"
    /\ wpc[w] \in {"claimed", "failed"} =>
         delivered[wjob[w]] <= lost[wjob[w]] + restored[wjob[w]]

IInv ==
  /\ TypeOK
  /\ NotInserted
  /\ SingleHolder
  /\ AttemptsAccounted
  /\ DeadLetterExhausted
  /\ DuplicatesExplained
  /\ ReportsHold
  /\ EventsTruthful

\* What follows for an operator: a job is sent at most once per retry and once
\* per start of the process, however often the process dies.
AttemptsBounded == \A j \in Requests : tries[j] <= MaxRetries + boots

\* rows that say "sending" although no worker has them
Stranded == {j \in Requests : state[j] = "sending" /\ \A w \in Workers : ~Holds(w, j)}

\* As long as the workers run, a database error or a panic strands one job at
\* most and nothing else strands any; the next start puts them back.
StrandedPaid == Running => Cardinality(Stranded) <= faults + panics

\* Starts are counted and a row is restored at later ones only.
RestoredAfterwards ==
  /\ Serving => boots > 0
  /\ \A j \in Requests : IF state[j] = "none" THEN restored[j] = 0 ELSE restored[j] < boots

\* A settled job is never touched again, not even by a restart's recovery.
FinalStays ==
  [][\A j \in Requests : state[j] \in Final =>
       state'[j] = state[j] /\ tries'[j] = tries[j] /\ delivered'[j] = delivered[j]]_vars

ClientStatus(st) ==
  IF st = "none" THEN "absent" ELSE IF st \in Final THEN st ELSE "pending"

Client == INSTANCE Delivery WITH
  Jobs   <- Requests,
  status <- [j \in Requests |-> ClientStatus(state[j])],
  owner  <- [j \in Requests |->
               IF state[j] = "none" THEN [account |-> NoKey, key |-> NoKey]
               ELSE [account |-> acct[j], key |-> idem[j]]],
  copies <- delivered

\* The queue, with its workers, retries, faults and restarts, implements the
\* client's view of it: see Delivery.
ImplementsDelivery == Client!Spec

\* In a process that is not stopped or killed for good, and without database
\* faults and panics, an accepted job is eventually settled: whatever the
\* homeserver answers, whichever accounts came back after a restart, and
\* although the wake-up channel holds one token: the ticker is enough.
JobsSettle ==
  <>[](life = "up") =>
    \A j \in Requests : state[j] \in {"queued", "sending"} ~> state[j] \in Final

\* Once the workers' context is cancelled the pool stops and the process ends,
\* however many sends are in flight.
ShutdownEnds == life = "stopping" ~> life = "down"

\* What worker.go:86 says of an account without a client ("put the job back so
\* it can be tried later"): the job is queued again.
PutBack ==
  [][\A w \in Workers :
       wpc[w] = "claimed" /\ acct[wjob[w]] \notin available =>
         state'[wjob[w]] # "dead_letter"]_vars

\* What shutdown.go:24 says of stopping the workers ("Drain the worker pool -
\* wait for in-flight send jobs to finish"): an orderly end of the process
\* leaves no job in the middle of a delivery.
Drained == [][Terminate => \A j \in Requests : state[j] # "sending"]_vars
=============================================================================
