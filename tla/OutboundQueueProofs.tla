------------------------- MODULE OutboundQueueProofs -------------------------
(***************************************************************************)
(* Proofs about OutboundQueue for every set of requests, accounts, keys    *)
(* and workers and every value of the bounds.                              *)
(***************************************************************************)
EXTENDS OutboundQueue, FiniteSetTheorems, TLAPS

(***************************************************************************)
(* Type correctness.                                                       *)
(***************************************************************************)

LEMMA RowCountType == Cardinality(Rows) \in Nat
<1>1. Rows \subseteq Requests
  BY DEF Rows
<1>2. IsFiniteSet(Rows)
  BY <1>1, RequestsAssumption, FS_Subset
<1> QED
  BY <1>2, FS_CardinalityType

LEMMA InitTypeOK == Init => TypeOK
<1> SUFFICES ASSUME Init
             PROVE  TypeOK
  OBVIOUS
<1>1. todo \in [Workers -> SUBSET Accounts]
  BY DEF Init
<1>2. announced \in [Requests -> SUBSET {"ack", "retry", "exhausted"}]
  BY DEF Init
<1>3. /\ retry \in [Requests -> 0..MaxRetries] /\ wretry \in [Workers -> 0..MaxRetries]
      /\ boots \in 0..MaxBoots /\ faults \in 0..MaxFaults /\ panics \in 0..MaxPanics
  BY RetriesAssumption, BoundsAssumption DEF Init
<1> QED
  BY <1>1, <1>2, <1>3 DEF Init, TypeOK, States, InFlight, Outcomes, Busy, Announcing

LEMMA SubmissionTypeOK ==
  ASSUME TypeOK, NEW r \in Requests,
         \/ Submit(r) \/ CheckIdempotency(r) \/ ResolveDestination(r)
         \/ EnqueueLookup(r) \/ InsertRow(r) \/ NotifyWorkers(r) \/ Disconnect(r)
  PROVE  TypeOK'
<1> USE DEF TypeOK, States, InFlight, Outcomes, Busy, Announcing,
            rows, calls, pool, process, budget, observed, Finish, Return
<1>1. CASE Submit(r)
  BY <1>1 DEF Submit
<1>2. ASSUME NEW here \in InFlight, NEW next \in InFlight, LookUp(r, here, next)
      PROVE  TypeOK'
  <2>1. SameKey(r) \subseteq Requests
    BY DEF SameKey, Rows
  <2>2. hpc' \in [Requests -> {"new"} \cup InFlight \cup Outcomes]
    BY <1>2 DEF LookUp
  <2>3. answer' \in [Requests -> Requests \cup {NoJob}]
    BY <1>2, <2>1 DEF LookUp
  <2>4. faults' \in 0..MaxFaults
    BY <1>2, BoundsAssumption DEF LookUp, DbFault
  <2> QED
    BY <1>2, <2>2, <2>3, <2>4 DEF LookUp
<1>3. CASE CheckIdempotency(r)
  BY <1>3, <1>2 DEF CheckIdempotency
<1>4. CASE ResolveDestination(r)
  BY <1>4 DEF ResolveDestination
<1>5. CASE EnqueueLookup(r)
  BY <1>5, <1>2 DEF EnqueueLookup
<1>6. CASE InsertRow(r)
  <2>1. faults' \in 0..MaxFaults
    BY <1>6, BoundsAssumption DEF InsertRow, DbFault
  <2>2. createdAt' \in [Requests -> Nat]
    BY <1>6, RowCountType DEF InsertRow
  <2> QED
    BY <1>6, <2>1, <2>2 DEF InsertRow
<1>7. CASE NotifyWorkers(r)
  BY <1>7 DEF NotifyWorkers
<1>8. CASE Disconnect(r)
  BY <1>8 DEF Disconnect
<1> QED
  BY <1>1, <1>3, <1>4, <1>5, <1>6, <1>7, <1>8

LEMMA RescheduleTypeOK ==
  ASSUME TypeOK, NEW w \in Workers, Reschedule(w)
  PROVE  /\ state' \in [Requests -> States]
         /\ retry' \in [Requests -> 0..MaxRetries]
         /\ sched' \in [Requests -> {"now", "later", "due"}]
         /\ createdAt' \in [Requests -> Nat]
<1>1. CASE Exhausted(wretry[w] + 1)
  BY <1>1 DEF Reschedule, TypeOK, States
<1>2. CASE ~Exhausted(wretry[w] + 1)
  <2>1. wretry[w] + 1 \in 0..MaxRetries
    BY <1>2, RetriesAssumption DEF Exhausted, TypeOK
  <2> QED
    BY <1>2, <2>1 DEF Reschedule, TypeOK, States
<1> QED
  BY <1>1, <1>2

LEMMA WorkerTypeOK ==
  ASSUME TypeOK, NEW w \in Workers, Pass(w) \/ Deliver(w) \/ Panic(w)
  PROVE  TypeOK'
<1> USE DEF TypeOK, States, InFlight, Outcomes, Busy, Announcing,
            rows, calls, pool, process, budget, observed
<1>1. CASE PullNext(w)
  <2>1. PICK a \in todo[w] :
          /\ todo' = [todo EXCEPT ![w] = @ \ {a}]
          /\ \/ \E j \in First(Eligible(a)) : Claim(w, j)
             \/ UNCHANGED <<state, wjob, wretry, wpc, tries>>
    BY <1>1 DEF PullNext
  <2>2. First(Eligible(a)) \subseteq Requests
    BY DEF First, Eligible, Rows
  <2>3. faults' \in 0..MaxFaults
    BY <1>1, BoundsAssumption DEF PullNext, DbFault
  <2>4. todo' \in [Workers -> SUBSET Accounts]
    BY <2>1
  <2>5. CASE \E j \in First(Eligible(a)) : Claim(w, j)
    <3>1. PICK j \in Requests : Claim(w, j)
      BY <2>5, <2>2
    <3>2. /\ state' \in [Requests -> States]
          /\ wpc' \in [Workers -> {"off", "pull", "idle"} \cup Busy \cup Announcing]
          /\ wjob' \in [Workers -> Requests \cup {NoJob}]
          /\ wretry' \in [Workers -> 0..MaxRetries]
      BY <3>1 DEF Claim
    <3>3. tries' \in [Requests -> Nat]
      BY <3>1 DEF Claim
    <3> QED
      BY <1>1, <2>3, <2>4, <3>2, <3>3 DEF PullNext
  <2>6. CASE UNCHANGED <<state, wjob, wretry, wpc, tries>>
    BY <1>1, <2>3, <2>4, <2>6 DEF PullNext
  <2> QED
    BY <2>1, <2>5, <2>6
<1>2. CASE EndPass(w)
  <2>1. CASE worked[w]
    BY <1>2, <2>1 DEF EndPass
  <2>2. CASE ~worked[w]
    BY <1>2, <2>2 DEF EndPass
  <2> QED
    BY <2>1, <2>2
<1>3. CASE WakeByNotify(w)
  BY <1>3 DEF WakeByNotify, StartPass
<1>4. CASE WakeByTicker(w)
  BY <1>4 DEF WakeByTicker, StartPass
<1>5. CASE WorkerExit(w)
  BY <1>5 DEF WorkerExit
<1>6. ASSUME DbOk \/ DbError
      PROVE  faults' \in 0..MaxFaults
  BY <1>6, BoundsAssumption DEF DbOk, DbError, DbFault
<1>7. CASE NoClient(w)
  <2>1. faults' \in 0..MaxFaults
    BY <1>6, <1>7 DEF NoClient
  <2>2. CASE Reschedule(w)
    BY <1>7, <2>1, <2>2, RescheduleTypeOK DEF NoClient, Done
  <2>3. CASE UNCHANGED rows
    BY <1>7, <2>1, <2>3 DEF NoClient, Done
  <2> QED
    BY <1>7, <2>2, <2>3 DEF NoClient
<1>8. CASE Send(w)
  BY <1>8 DEF Send
<1>9. CASE Acknowledge(w)
  <2>1. faults' \in 0..MaxFaults
    BY <1>6, <1>9 DEF Acknowledge
  <2> QED
    BY <1>9, <2>1 DEF Acknowledge
<1>10. CASE OnSendFailure(w)
  <2>1. faults' \in 0..MaxFaults
    BY <1>6, <1>10 DEF OnSendFailure
  <2>2. CASE Reschedule(w) /\ UNCHANGED <<wjob, worked>>
    BY <1>10, <2>1, <2>2, RescheduleTypeOK DEF OnSendFailure, Done
  <2>3. CASE UNCHANGED rows /\ Done(w)
    BY <1>10, <2>1, <2>3 DEF OnSendFailure, Done
  <2> QED
    BY <1>10, <2>2, <2>3 DEF OnSendFailure
<1>11. CASE Publish(w)
  <2>1. Told(wpc[w]) \in {"ack", "retry", "exhausted"}
    BY <1>11 DEF Publish, Told
  <2> QED
    BY <1>11, <2>1 DEF Publish, Done
<1>12. CASE Panic(w)
  BY <1>12, BoundsAssumption DEF Panic, Done
<1> QED
  BY <1>1, <1>2, <1>3, <1>4, <1>5, <1>7, <1>8, <1>9, <1>10, <1>11, <1>12
  DEF Pass, Deliver

LEMMA ProcessTypeOK ==
  ASSUME TypeOK,
         \/ \E j \in Requests : Elapse(j)
         \/ Boot \/ StopServing \/ CancelWorkers \/ Terminate \/ Crash
  PROVE  TypeOK'
<1> USE DEF TypeOK, States, InFlight, Outcomes, Busy, Announcing,
            rows, calls, pool, process, budget, observed
<1>1. ASSUME NEW j \in Requests, Elapse(j)
      PROVE  TypeOK'
  BY <1>1 DEF Elapse
<1>2. CASE Boot
  <2>1. state' \in [Requests -> States] /\ restored' \in [Requests -> Nat]
    BY <1>2 DEF Boot
  <2>2. todo' \in [Workers -> SUBSET Accounts] /\ available' \in SUBSET Accounts
    BY <1>2 DEF Boot
  <2>3. wretry' \in [Workers -> 0..MaxRetries] /\ boots' \in 0..MaxBoots
    BY <1>2, BoundsAssumption, RetriesAssumption DEF Boot
  <2>4. /\ wpc' \in [Workers -> {"off", "pull", "idle"} \cup Busy \cup Announcing]
        /\ wjob' \in [Workers -> Requests \cup {NoJob}]
        /\ worked' \in [Workers -> BOOLEAN]
    BY <1>2 DEF Boot
  <2> QED
    BY <1>2, <2>1, <2>2, <2>3, <2>4 DEF Boot
<1>3. CASE StopServing
  BY <1>3 DEF StopServing
<1>4. CASE CancelWorkers
  BY <1>4 DEF CancelWorkers
<1>5. Abandoned \in [Requests -> {"new"} \cup InFlight \cup Outcomes]
  BY DEF Abandoned
<1>6. CASE Terminate
  BY <1>5, <1>6 DEF Terminate
<1>7. CASE Crash
  BY <1>5, <1>7 DEF Crash
<1> QED
  BY <1>1, <1>2, <1>3, <1>4, <1>6, <1>7

LEMMA NextTypeOK == TypeOK /\ [Next]_vars => TypeOK'
<1> SUFFICES ASSUME TypeOK, [Next]_vars
             PROVE  TypeOK'
  OBVIOUS
<1>1. CASE Submission
  BY <1>1, SubmissionTypeOK DEF Submission
<1>2. CASE \E w \in Workers : Pass(w) \/ Deliver(w) \/ Panic(w)
  BY <1>2, WorkerTypeOK
<1>3. CASE UNCHANGED vars
  BY <1>3 DEF TypeOK, vars, rows, calls, pool, process, budget, observed
<1> QED
  BY <1>1, <1>2, <1>3, ProcessTypeOK DEF Next

\* The table's columns, the calls, the workers and the process stay within the
\* values the code gives them; retry_count never exceeds max_retries.
THEOREM TypeCorrect == Spec => []TypeOK
<1>1. Init => TypeOK
  BY InitTypeOK
<1>2. TypeOK /\ [Next]_vars => TypeOK'
  BY NextTypeOK
<1> QED
  BY <1>1, <1>2, PTL DEF Spec

(***************************************************************************)
(* The inductive invariant.  Most steps are quiet: they leave the rows'    *)
(* states and counts and the observer alone, and a worker that changes its *)
(* place in the code lets go of its job.  The others insert a row, claim   *)
(* one, send, settle or reschedule the one held, report it, or boot.       *)
(***************************************************************************)

Quiet ==
  /\ UNCHANGED <<state, retry, observed>>
  /\ \A w \in Workers :
       \/ wpc'[w] \in {"off", "pull", "idle"}
       \/ wpc'[w] = wpc[w] /\ wjob'[w] = wjob[w] /\ wretry'[w] = wretry[w]
  /\ \A r \in Requests :
       hpc'[r] \in {"new"} \cup (InFlight \ {"notify"}) =>
         hpc[r] \in {"new"} \cup (InFlight \ {"notify"})

LEMMA QuietPreserves ==
  ASSUME IInv, TypeOK', Quiet
  PROVE  IInv'
<1> USE DEF IInv, Quiet, observed, Busy, Announcing
<1>1. NotInserted'
  BY DEF NotInserted
<1>2. SingleHolder'
  BY DEF SingleHolder, Holds
<1>3. AttemptsAccounted' /\ DeadLetterExhausted'
  BY DEF AttemptsAccounted, DeadLetterExhausted, Final
<1>4. DuplicatesExplained' /\ EventsTruthful'
  BY DEF DuplicatesExplained, EventsTruthful
<1>5. ReportsHold'
  BY DEF ReportsHold
<1> QED
  BY <1>1, <1>2, <1>3, <1>4, <1>5

LEMMA SubmissionPreserves ==
  ASSUME IInv, TypeOK', NEW r \in Requests,
         \/ Submit(r) \/ CheckIdempotency(r) \/ ResolveDestination(r)
         \/ EnqueueLookup(r) \/ InsertRow(r) \/ NotifyWorkers(r) \/ Disconnect(r)
  PROVE  IInv'
<1> USE DEF rows, calls, pool, process, budget, observed, InFlight, Finish, Return
<1>1. hpc \in [Requests -> {"new"} \cup InFlight \cup Outcomes]
  BY DEF IInv, TypeOK
<1>2. CASE /\ UNCHANGED <<state, retry, wpc, wjob, wretry, observed>>
           /\ \E place \in InFlight \cup Outcomes :
                /\ hpc' = [hpc EXCEPT ![r] = place]
                /\ place \in InFlight \ {"notify"} =>
                     hpc[r] \in {"new"} \cup (InFlight \ {"notify"})
  <2>1. PICK place \in InFlight \cup Outcomes :
          /\ hpc' = [hpc EXCEPT ![r] = place]
          /\ place \in InFlight \ {"notify"} =>
               hpc[r] \in {"new"} \cup (InFlight \ {"notify"})
    BY <1>2
  <2>2. place # "new"
    BY <2>1 DEF Outcomes
  <2>3. ASSUME NEW q \in Requests, hpc'[q] \in {"new"} \cup (InFlight \ {"notify"})
        PROVE  hpc[q] \in {"new"} \cup (InFlight \ {"notify"})
    <3>1. CASE q = r
      BY <1>1, <2>1, <2>2, <2>3, <3>1
    <3>2. CASE q # r
      BY <1>1, <2>1, <2>3, <3>2
    <3> QED
      BY <3>1, <3>2
  <2>4. Quiet
    BY <1>2, <2>3 DEF Quiet
  <2> QED
    BY <2>4, QuietPreserves
<1>3. CASE Submit(r)
  BY <1>2, <1>3 DEF Submit
<1>4. CASE CheckIdempotency(r)
  BY <1>2, <1>4 DEF CheckIdempotency, LookUp, Outcomes
<1>5. CASE ResolveDestination(r)
  BY <1>2, <1>5 DEF ResolveDestination, Outcomes
<1>6. CASE EnqueueLookup(r)
  BY <1>2, <1>6 DEF EnqueueLookup, LookUp, Outcomes
<1>7. CASE NotifyWorkers(r)
  BY <1>2, <1>7 DEF NotifyWorkers, Outcomes
<1>8. CASE Disconnect(r)
  BY <1>2, <1>8 DEF Disconnect, Outcomes
<1>9. CASE InsertRow(r)
  <2>1. CASE UNCHANGED <<state, createdAt>>
    BY <1>2, <1>9, <2>1 DEF InsertRow, Outcomes
  <2>2. CASE /\ state' = [state EXCEPT ![r] = "queued"]
             /\ hpc' = [hpc EXCEPT ![r] = "notify"]
    <3>1. state[r] = "none"
      BY <1>9 DEF InsertRow, IInv, NotInserted
    <3>2. state'[r] = "queued" /\ \A j \in Requests \ {r} : state'[j] = state[j]
      BY <2>2 DEF IInv, TypeOK
    <3>3. UNCHANGED <<retry, wpc, wjob, wretry, observed>>
      BY <1>9 DEF InsertRow
    <3>4. NotInserted'
      BY <1>1, <2>2, <3>2 DEF IInv, NotInserted
    <3>5. SingleHolder'
      BY <3>1, <3>2, <3>3 DEF IInv, SingleHolder, Holds
    <3>6. AttemptsAccounted' /\ DeadLetterExhausted'
      BY <3>1, <3>2, <3>3 DEF IInv, AttemptsAccounted, DeadLetterExhausted, Final
    <3>7. DuplicatesExplained' /\ EventsTruthful'
      BY <3>1, <3>2, <3>3 DEF IInv, DuplicatesExplained, EventsTruthful
    <3>8. ReportsHold'
      BY <3>1, <3>2, <3>3 DEF IInv, ReportsHold, Announcing
    <3> QED
      BY <3>4, <3>5, <3>6, <3>7, <3>8 DEF IInv
  <2> QED
    BY <1>9, <2>1, <2>2 DEF InsertRow
<1> QED
  BY <1>3, <1>4, <1>5, <1>6, <1>7, <1>8, <1>9

\* ScheduleRetry on the job w holds, after which w holds it no more
LEMMA ReschedulePreserves ==
  ASSUME IInv, TypeOK', NEW w \in Workers,
         wpc[w] \in {"claimed", "failed"},
         Reschedule(w),
         \A v \in Workers \ {w} :
           wpc'[v] = wpc[v] /\ wjob'[v] = wjob[v] /\ wretry'[v] = wretry[v],
         \/ wpc'[w] \in {"pull", "tell_retry"}
         \/ wpc'[w] = "tell_exhausted" /\ Exhausted(wretry[w] + 1),
         wpc'[w] # "pull" => wjob'[w] = wjob[w],
         UNCHANGED <<hpc, observed>>
  PROVE  IInv'
<1> DEFINE j == wjob[w]
<1>1. /\ j \in Requests /\ state[j] = "sending" /\ wretry[w] = retry[j]
      /\ \A v \in Workers \ {w} : wpc[v] \in Busy => wjob[v] # j
  BY DEF IInv, SingleHolder, Holds, Busy
<1>2. /\ state'[j] \in {"queued", "dead_letter"}
      /\ \A i \in Requests \ {j} : state'[i] = state[i] /\ retry'[i] = retry[i]
  BY <1>1 DEF Reschedule, IInv, TypeOK
<1>3. state'[j] = "queued" => retry'[j] = retry[j] + 1
  BY <1>1 DEF Reschedule, IInv, TypeOK
<1>4. state'[j] = "dead_letter" => retry'[j] = retry[j] /\ retry[j] = MaxRetries
  <2> SUFFICES ASSUME state'[j] = "dead_letter"
               PROVE  retry'[j] = retry[j] /\ retry[j] = MaxRetries
    OBVIOUS
  <2>1. Exhausted(wretry[w] + 1) /\ retry' = retry
    BY <1>1 DEF Reschedule, IInv, TypeOK
  <2>2. retry[j] \in 0..MaxRetries
    BY <1>1 DEF IInv, TypeOK
  <2> QED
    BY <1>1, <2>1, <2>2, RetriesAssumption DEF Exhausted
<1>5. delivered[j] <= lost[j] + restored[j]
  BY <1>1 DEF IInv, ReportsHold
<1>6. NotInserted'
  BY <1>1, <1>2 DEF IInv, NotInserted, InFlight
<1>7. SingleHolder'
  BY <1>1, <1>2 DEF IInv, SingleHolder, Holds, Busy
<1>8. AttemptsAccounted'
  <2> SUFFICES ASSUME NEW i \in Requests
               PROVE  tries[i] = retry'[i] + restored[i]
                        + (IF state'[i] \in {"sending"} \cup Final THEN 1 ELSE 0)
    BY DEF AttemptsAccounted, observed
  <2>1. tries[i] = retry[i] + restored[i]
                     + (IF state[i] \in {"sending"} \cup Final THEN 1 ELSE 0)
    BY DEF IInv, AttemptsAccounted
  <2>2. retry[i] \in Nat /\ restored[i] \in Nat
    BY DEF IInv, TypeOK
  <2>3. CASE i = j
    BY <1>1, <1>2, <1>3, <1>4, <2>1, <2>2, <2>3 DEF Final
  <2>4. CASE i # j
    BY <1>2, <2>1, <2>4
  <2> QED
    BY <2>3, <2>4
<1>9. DeadLetterExhausted'
  BY <1>2, <1>4 DEF IInv, DeadLetterExhausted
<1>10. DuplicatesExplained'
  <2> SUFFICES ASSUME NEW i \in Requests
               PROVE  delivered[i] <= lost[i] + restored[i]
                        + (IF state'[i] \in {"sending", "acknowledged"} THEN 1 ELSE 0)
    BY DEF DuplicatesExplained, observed
  <2>1. CASE i = j
    BY <1>2, <1>5, <2>1 DEF IInv, TypeOK
  <2>2. CASE i # j
    BY <1>2, <2>2 DEF IInv, DuplicatesExplained
  <2> QED
    BY <2>1, <2>2
<1>11. EventsTruthful'
  BY <1>1, <1>2 DEF IInv, EventsTruthful, observed
<1>12. wpc'[w] = "tell_exhausted" => state'[j] = "dead_letter"
  BY <1>1 DEF Reschedule, IInv, TypeOK
<1>13. ReportsHold'
  BY <1>1, <1>2, <1>12 DEF IInv, ReportsHold, Announcing, observed
<1> QED
  BY <1>6, <1>7, <1>8, <1>9, <1>10, <1>11, <1>13 DEF IInv

LEMMA ClaimPreserves ==
  ASSUME IInv, TypeOK', NEW w \in Workers, NEW j \in Requests,
         wpc[w] = "pull", state[j] = "queued", Claim(w, j),
         UNCHANGED <<retry, hpc, delivered, lost, restored, announced>>
  PROVE  IInv'
<1>1. /\ state'[j] = "sending" /\ tries'[j] = tries[j] + 1
      /\ \A i \in Requests \ {j} : state'[i] = state[i] /\ tries'[i] = tries[i]
      /\ wpc'[w] = "claimed" /\ wjob'[w] = j /\ wretry'[w] = retry[j]
      /\ \A v \in Workers \ {w} :
           wpc'[v] = wpc[v] /\ wjob'[v] = wjob[v] /\ wretry'[v] = wretry[v]
  BY DEF Claim, IInv, TypeOK
<1>2. \A v \in Workers : wpc[v] \in Busy => wjob[v] # j
  BY DEF IInv, SingleHolder
<1>3. NotInserted'
  BY <1>1 DEF IInv, NotInserted, InFlight
<1>4. SingleHolder'
  BY <1>1, <1>2 DEF IInv, SingleHolder, Holds, Busy
<1>5. AttemptsAccounted'
  <2> SUFFICES ASSUME NEW i \in Requests
               PROVE  tries'[i] = retry[i] + restored[i]
                        + (IF state'[i] \in {"sending"} \cup Final THEN 1 ELSE 0)
    BY DEF AttemptsAccounted
  <2>1. tries[i] = retry[i] + restored[i]
                     + (IF state[i] \in {"sending"} \cup Final THEN 1 ELSE 0)
    BY DEF IInv, AttemptsAccounted
  <2>2. retry[i] \in Nat /\ restored[i] \in Nat
    BY DEF IInv, TypeOK
  <2> QED
    BY <1>1, <2>1, <2>2 DEF Final
<1>6. DeadLetterExhausted'
  BY <1>1 DEF IInv, DeadLetterExhausted
<1>7. delivered[j] <= lost[j] + restored[j]
  BY DEF IInv, DuplicatesExplained, TypeOK
<1>8. DuplicatesExplained'
  <2> SUFFICES ASSUME NEW i \in Requests
               PROVE  delivered[i] <= lost[i] + restored[i]
                        + (IF state'[i] \in {"sending", "acknowledged"} THEN 1 ELSE 0)
    BY DEF DuplicatesExplained
  <2>1. delivered[i] \in Nat /\ lost[i] \in Nat /\ restored[i] \in Nat
    BY DEF IInv, TypeOK
  <2>2. CASE i = j
    BY <1>1, <1>7, <2>1, <2>2
  <2>3. CASE i # j
    BY <1>1, <2>3 DEF IInv, DuplicatesExplained
  <2> QED
    BY <2>2, <2>3
<1>9. EventsTruthful'
  BY <1>1 DEF IInv, EventsTruthful
<1>10. ReportsHold'
  BY <1>1, <1>7 DEF IInv, ReportsHold, Announcing
<1> QED
  BY <1>3, <1>4, <1>5, <1>6, <1>8, <1>9, <1>10 DEF IInv

LEMMA SendPreserves ==
  ASSUME IInv, TypeOK', NEW w \in Workers, Send(w)
  PROVE  IInv'
<1> DEFINE j == wjob[w]
<1> USE DEF rows, calls, process, budget
<1>1. /\ wpc[w] = "claimed" /\ j \in Requests /\ state[j] = "sending"
      /\ \A v \in Workers \ {w} : wpc[v] \in Busy => wjob[v] # j
  BY DEF Send, IInv, SingleHolder, Holds, Busy
<1>2. /\ UNCHANGED <<state, retry, hpc, wjob, wretry, tries, restored, announced>>
      /\ \A v \in Workers \ {w} : wpc'[v] = wpc[v]
      /\ \A i \in Requests \ {j} : delivered'[i] = delivered[i] /\ lost'[i] = lost[i]
  BY DEF Send, IInv, TypeOK
<1>3. \/ wpc'[w] = "ack" /\ delivered'[j] = delivered[j] + 1 /\ lost'[j] = lost[j]
      \/ wpc'[w] = "failed" /\ delivered'[j] = delivered[j] + 1 /\ lost'[j] = lost[j] + 1
      \/ wpc'[w] = "failed" /\ delivered'[j] = delivered[j] /\ lost'[j] = lost[j]
  BY <1>1 DEF Send, IInv, TypeOK
<1>4. /\ delivered[j] \in Nat /\ lost[j] \in Nat /\ restored[j] \in Nat
      /\ delivered[j] <= lost[j] + restored[j]
  BY <1>1 DEF IInv, TypeOK, ReportsHold
<1>5. NotInserted' /\ AttemptsAccounted' /\ DeadLetterExhausted'
  BY <1>2 DEF IInv, NotInserted, AttemptsAccounted, DeadLetterExhausted
<1>6. SingleHolder'
  BY <1>1, <1>2, <1>3 DEF IInv, SingleHolder, Holds, Busy
<1>7. DuplicatesExplained'
  <2> SUFFICES ASSUME NEW i \in Requests
               PROVE  delivered'[i] <= lost'[i] + restored[i]
                        + (IF state[i] \in {"sending", "acknowledged"} THEN 1 ELSE 0)
    BY <1>2 DEF DuplicatesExplained
  <2>1. CASE i = j
    BY <1>1, <1>3, <1>4, <2>1
  <2>2. CASE i # j
    BY <1>2, <2>2 DEF IInv, DuplicatesExplained
  <2> QED
    BY <2>1, <2>2
<1>8. \A i \in Requests : delivered[i] > 0 => delivered'[i] > 0
  BY <1>2, <1>3, <1>4
<1>9. EventsTruthful'
  BY <1>2, <1>8 DEF IInv, EventsTruthful
<1>10. ReportsHold'
  <2> SUFFICES ASSUME NEW v \in Workers
               PROVE  /\ wpc'[v] \in Announcing => wjob[v] \in Requests
                      /\ wpc'[v] \in {"ack", "tell_ack"} => delivered'[wjob[v]] > 0
                      /\ wpc'[v] = "tell_exhausted" => state[wjob[v]] = "dead_letter"
                      /\ wpc'[v] \in {"claimed", "failed"} =>
                           delivered'[wjob[v]] <= lost'[wjob[v]] + restored[wjob[v]]
    BY <1>2 DEF ReportsHold
  <2>1. CASE v = w
    BY <1>3, <1>4, <2>1 DEF Announcing
  <2>2. CASE v # w /\ wpc[v] \in Busy
    BY <1>1, <1>2, <2>2 DEF IInv, ReportsHold, SingleHolder, Busy, Announcing
  <2>3. CASE v # w /\ wpc[v] \notin Busy
    BY <1>2, <1>8, <2>3 DEF IInv, ReportsHold, Busy, Announcing
  <2> QED
    BY <2>1, <2>2, <2>3
<1> QED
  BY <1>5, <1>6, <1>7, <1>9, <1>10 DEF IInv

LEMMA AcknowledgePreserves ==
  ASSUME IInv, TypeOK', NEW w \in Workers, Acknowledge(w)
  PROVE  IInv'
<1> DEFINE j == wjob[w]
<1>1. /\ wpc[w] = "ack" /\ j \in Requests /\ state[j] = "sending"
      /\ \A v \in Workers \ {w} : wpc[v] \in Busy => wjob[v] # j
      /\ delivered[j] > 0
  BY DEF Acknowledge, IInv, SingleHolder, Holds, Busy, ReportsHold
<1>2. /\ UNCHANGED <<retry, hpc, wjob, wretry, observed>>
      /\ wpc'[w] = "tell_ack"
      /\ \A v \in Workers \ {w} : wpc'[v] = wpc[v]
      /\ \A i \in Requests \ {j} : state'[i] = state[i]
      /\ state'[j] \in {"sending", "acknowledged"}
  BY <1>1 DEF Acknowledge, IInv, TypeOK, calls, process
<1>3. NotInserted'
  BY <1>1, <1>2 DEF IInv, NotInserted, InFlight
<1>4. SingleHolder'
  BY <1>1, <1>2 DEF IInv, SingleHolder, Holds, Busy
<1>5. AttemptsAccounted' /\ DeadLetterExhausted'
  BY <1>1, <1>2 DEF IInv, AttemptsAccounted, DeadLetterExhausted, Final, observed
<1>6. DuplicatesExplained' /\ EventsTruthful'
  BY <1>1, <1>2 DEF IInv, DuplicatesExplained, EventsTruthful, observed
<1>7. ReportsHold'
  BY <1>1, <1>2 DEF IInv, ReportsHold, Announcing, observed
<1> QED
  BY <1>3, <1>4, <1>5, <1>6, <1>7 DEF IInv

LEMMA PublishPreserves ==
  ASSUME IInv, TypeOK', NEW w \in Workers, Publish(w)
  PROVE  IInv'
<1> DEFINE j == wjob[w]
<1>1. /\ wpc[w] \in Announcing /\ j \in Requests
      /\ wpc[w] = "tell_ack" => delivered[j] > 0
      /\ wpc[w] = "tell_exhausted" => state[j] = "dead_letter"
  BY DEF Publish, IInv, ReportsHold
<1>2. /\ UNCHANGED <<state, retry, hpc, wretry, delivered, lost, tries, restored>>
      /\ wpc'[w] = "pull"
      /\ \A v \in Workers \ {w} : wpc'[v] = wpc[v] /\ wjob'[v] = wjob[v]
      /\ \A i \in Requests \ {j} : announced'[i] = announced[i]
      /\ announced'[j] = announced[j] \cup {Told(wpc[w])}
  BY <1>1 DEF Publish, Done, IInv, TypeOK, rows, calls
<1>3. NotInserted' /\ AttemptsAccounted' /\ DeadLetterExhausted' /\ DuplicatesExplained'
  BY <1>2 DEF IInv, NotInserted, AttemptsAccounted, DeadLetterExhausted, DuplicatesExplained
<1>4. SingleHolder'
  BY <1>2 DEF IInv, SingleHolder, Holds, Busy
<1>5. /\ Told(wpc[w]) = "ack" => delivered[j] > 0
      /\ Told(wpc[w]) = "exhausted" => state[j] = "dead_letter"
  BY <1>1 DEF Told, Announcing
<1>6. EventsTruthful'
  BY <1>2, <1>5 DEF IInv, EventsTruthful
<1>7. ReportsHold'
  BY <1>2 DEF IInv, ReportsHold, Announcing
<1> QED
  BY <1>3, <1>4, <1>6, <1>7 DEF IInv

LEMMA BootPreserves ==
  ASSUME IInv, TypeOK', Boot
  PROVE  IInv'
<1>1. /\ UNCHANGED <<retry, hpc, delivered, lost, tries, announced>>
      /\ \A w \in Workers : wpc'[w] = "pull"
      /\ \A i \in Requests :
           IF state[i] = "sending"
           THEN state'[i] = "queued" /\ restored'[i] = restored[i] + 1
           ELSE state'[i] = state[i] /\ restored'[i] = restored[i]
  BY DEF Boot, Stuck, calls
<1>2. NotInserted'
  BY <1>1 DEF IInv, NotInserted
<1>3. SingleHolder' /\ ReportsHold'
  BY <1>1 DEF SingleHolder, ReportsHold, Busy, Announcing
<1>4. AttemptsAccounted'
  <2> SUFFICES ASSUME NEW i \in Requests
               PROVE  tries[i] = retry[i] + restored'[i]
                        + (IF state'[i] \in {"sending"} \cup Final THEN 1 ELSE 0)
    BY <1>1 DEF AttemptsAccounted
  <2>1. tries[i] = retry[i] + restored[i]
                     + (IF state[i] \in {"sending"} \cup Final THEN 1 ELSE 0)
    BY DEF IInv, AttemptsAccounted
  <2>2. retry[i] \in Nat /\ restored[i] \in Nat
    BY DEF IInv, TypeOK
  <2> QED
    BY <1>1, <2>1, <2>2 DEF Final
<1>5. DeadLetterExhausted' /\ EventsTruthful'
  BY <1>1 DEF IInv, DeadLetterExhausted, EventsTruthful
<1>6. DuplicatesExplained'
  <2> SUFFICES ASSUME NEW i \in Requests
               PROVE  delivered[i] <= lost[i] + restored'[i]
                        + (IF state'[i] \in {"sending", "acknowledged"} THEN 1 ELSE 0)
    BY <1>1 DEF DuplicatesExplained
  <2>1. delivered[i] <= lost[i] + restored[i]
                          + (IF state[i] \in {"sending", "acknowledged"} THEN 1 ELSE 0)
    BY DEF IInv, DuplicatesExplained
  <2>2. delivered[i] \in Nat /\ lost[i] \in Nat /\ restored[i] \in Nat
    BY DEF IInv, TypeOK
  <2> QED
    BY <1>1, <2>1, <2>2
<1> QED
  BY <1>2, <1>3, <1>4, <1>5, <1>6 DEF IInv

LEMMA WorkerPreserves ==
  ASSUME IInv, TypeOK', NEW w \in Workers, Pass(w) \/ Deliver(w) \/ Panic(w)
  PROVE  IInv'
<1> USE DEF rows, calls, pool, process, budget, observed
<1>1. ASSUME UNCHANGED <<state, retry, hpc, wretry, observed>>,
             \E place \in {"off", "pull", "idle"} : wpc' = [wpc EXCEPT ![w] = place],
             \A v \in Workers \ {w} : wjob'[v] = wjob[v]
      PROVE  IInv'
  <2>1. Quiet
    BY <1>1 DEF Quiet, IInv, TypeOK
  <2> QED
    BY <2>1, QuietPreserves
<1>2. CASE PullNext(w)
  <2>1. CASE \E a \in todo[w], j \in Requests : j \in First(Eligible(a)) /\ Claim(w, j)
    <3>1. PICK j \in Requests : state[j] = "queued" /\ Claim(w, j)
      BY <2>1 DEF First, Eligible
    <3> QED
      BY <1>2, <3>1, ClaimPreserves DEF PullNext
  <2>2. CASE UNCHANGED <<state, wjob, wretry, wpc, tries>>
    <3>1. Quiet
      BY <1>2, <2>2 DEF Quiet, PullNext
    <3> QED
      BY <3>1, QuietPreserves
  <2> QED
    BY <1>2, <2>1, <2>2 DEF PullNext, First, Eligible, Rows
<1>3. CASE EndPass(w)
  <2>1. Quiet
    BY <1>3 DEF EndPass, Quiet, IInv, TypeOK
  <2> QED
    BY <2>1, QuietPreserves
<1>4. CASE WakeByNotify(w) \/ WakeByTicker(w) \/ WorkerExit(w)
  BY <1>1, <1>4 DEF WakeByNotify, WakeByTicker, StartPass, WorkerExit
<1>5. CASE Panic(w)
  BY <1>1, <1>5 DEF Panic, Done, IInv, TypeOK
<1>6. CASE NoClient(w)
  <2>1. CASE Reschedule(w)
    BY <1>6, <2>1, ReschedulePreserves DEF NoClient, Done, IInv, TypeOK
  <2>2. CASE UNCHANGED rows
    BY <1>1, <1>6, <2>2 DEF NoClient, Done, IInv, TypeOK
  <2> QED
    BY <1>6, <2>1, <2>2 DEF NoClient
<1>7. CASE OnSendFailure(w)
  <2>1. CASE /\ Reschedule(w)
             /\ wpc' = [wpc EXCEPT ![w] = IF Exhausted(wretry[w] + 1)
                                          THEN "tell_exhausted" ELSE "tell_retry"]
             /\ UNCHANGED wjob
    BY <1>7, <2>1, ReschedulePreserves DEF OnSendFailure, IInv, TypeOK
  <2>2. CASE UNCHANGED rows /\ Done(w)
    BY <1>1, <1>7, <2>2 DEF OnSendFailure, Done, IInv, TypeOK
  <2> QED
    BY <1>7, <2>1, <2>2 DEF OnSendFailure
<1> QED
  BY <1>2, <1>3, <1>4, <1>5, <1>6, <1>7, SendPreserves, AcknowledgePreserves, PublishPreserves
  DEF Pass, Deliver

LEMMA ProcessPreserves ==
  ASSUME IInv, TypeOK',
         \/ \E j \in Requests : Elapse(j)
         \/ Boot \/ StopServing \/ CancelWorkers \/ Terminate \/ Crash
  PROVE  IInv'
<1> USE DEF rows, calls, pool, process, budget, observed
<1>1. CASE \E j \in Requests : Elapse(j)
  BY <1>1, QuietPreserves DEF Elapse, Quiet
<1>2. CASE StopServing \/ CancelWorkers
  BY <1>2, QuietPreserves DEF StopServing, CancelWorkers, Quiet
<1>3. CASE hpc' = Abandoned /\ UNCHANGED <<state, retry, observed>>
           /\ \A w \in Workers :
                \/ wpc'[w] = "off"
                \/ wpc'[w] = wpc[w] /\ wjob'[w] = wjob[w] /\ wretry'[w] = wretry[w]
  <2>1. Quiet
    BY <1>3 DEF Quiet, Abandoned, InFlight
  <2> QED
    BY <2>1, QuietPreserves
<1>4. CASE Terminate
  BY <1>3, <1>4 DEF Terminate
<1>5. CASE Crash
  BY <1>3, <1>5 DEF Crash
<1> QED
  BY <1>1, <1>2, <1>4, <1>5, BootPreserves

LEMMA InitIInv == Init => IInv
<1> SUFFICES ASSUME Init
             PROVE  IInv
  OBVIOUS
<1>1. TypeOK
  BY InitTypeOK
<1>2. NotInserted /\ SingleHolder /\ ReportsHold
  BY DEF Init, NotInserted, SingleHolder, ReportsHold, Busy, Announcing
<1>3. AttemptsAccounted /\ DeadLetterExhausted /\ DuplicatesExplained /\ EventsTruthful
  BY DEF Init, AttemptsAccounted, DeadLetterExhausted, DuplicatesExplained, EventsTruthful, Final
<1> QED
  BY <1>1, <1>2, <1>3 DEF IInv

LEMMA NextIInv == IInv /\ [Next]_vars => IInv'
<1> SUFFICES ASSUME IInv, [Next]_vars
             PROVE  IInv'
  OBVIOUS
<1>1. TypeOK'
  BY NextTypeOK DEF IInv
<1>2. CASE Submission
  BY <1>1, <1>2, SubmissionPreserves DEF Submission
<1>3. CASE \E w \in Workers : Pass(w) \/ Deliver(w) \/ Panic(w)
  BY <1>1, <1>3, WorkerPreserves
<1>4. CASE UNCHANGED vars
  BY <1>1, <1>4, QuietPreserves DEF Quiet, vars, rows, calls, pool, observed
<1> QED
  BY <1>1, <1>2, <1>3, <1>4, ProcessPreserves DEF Next

\* The queue's safety invariants hold whatever the number of jobs, workers,
\* retries, restarts, faults and panics.
THEOREM QueueInvariant == Spec => []IInv
<1>1. Init => IInv
  BY InitIInv
<1>2. IInv /\ [Next]_vars => IInv'
  BY NextIInv
<1> QED
  BY <1>1, <1>2, PTL DEF Spec

\* A job is processed by at most one worker and its row says so: the claim
\* transaction of PullNext excludes every other worker until the job is settled,
\* rescheduled, or recovered after a restart.
THEOREM SingleHolderCorrect == Spec => []SingleHolder
BY QueueInvariant, PTL DEF IInv

\* The number of claims of a job is its retry count plus its recoveries (plus the
\* last one): no error path of the workers gives a job a free attempt.
THEOREM AttemptsAccountedCorrect == Spec => []AttemptsAccounted
BY QueueInvariant, PTL DEF IInv

\* A job is dead-lettered only with retry_count = max_retries.
THEOREM DeadLetterExhaustedCorrect == Spec => []DeadLetterExhausted
BY QueueInvariant, PTL DEF IInv

\* Copies of a job at the homeserver are bounded by one plus the answers lost on
\* the way back and the recoveries of the job at startup.
THEOREM DuplicatesExplainedCorrect == Spec => []DuplicatesExplained
BY QueueInvariant, PTL DEF IInv

\* DeliveryAcknowledged and RetryExhausted are never published of a job that was
\* not delivered or that is not dead-lettered.
THEOREM EventsTruthfulCorrect == Spec => []EventsTruthful
BY QueueInvariant, PTL DEF IInv

(***************************************************************************)
(* Settled jobs.                                                           *)
(***************************************************************************)

LEMMA SettledStep ==
  ASSUME IInv, [Next]_vars, NEW j \in Requests, state[j] \in Final
  PROVE  state'[j] = state[j] /\ tries'[j] = tries[j] /\ delivered'[j] = delivered[j]
<1> USE DEF Final, rows, calls, pool, process, budget, observed
<1>1. CASE Submission
  <2>1. PICK r \in Requests :
          \/ Submit(r) \/ CheckIdempotency(r) \/ ResolveDestination(r)
          \/ EnqueueLookup(r) \/ InsertRow(r) \/ NotifyWorkers(r) \/ Disconnect(r)
    BY <1>1 DEF Submission
  <2>2. CASE InsertRow(r)
    <3>1. state[r] = "none"
      BY <2>2 DEF InsertRow, IInv, NotInserted, InFlight
    <3> QED
      BY <2>2, <3>1 DEF InsertRow, IInv, TypeOK
  <2>3. CASE ~InsertRow(r)
    BY <2>1, <2>3 DEF Submit, CheckIdempotency, ResolveDestination, EnqueueLookup, LookUp,
                      NotifyWorkers, Disconnect
  <2> QED
    BY <2>2, <2>3
<1>2. CASE \E w \in Workers : Pass(w) \/ Deliver(w) \/ Panic(w)
  <2>1. PICK w \in Workers : Pass(w) \/ Deliver(w) \/ Panic(w)
    BY <1>2
  <2>2. wpc[w] \in Busy => wjob[w] # j
    BY DEF IInv, SingleHolder
  <2>3. Reschedule(w) /\ wpc[w] \in Busy => state'[j] = state[j]
    BY <2>2 DEF Reschedule, IInv, TypeOK
  <2>4. CASE PullNext(w)
    BY <2>4 DEF PullNext, First, Eligible, Claim, IInv, TypeOK
  <2>5. CASE NoClient(w)
    BY <2>3, <2>5 DEF NoClient, Busy
  <2>6. CASE Send(w)
    BY <2>2, <2>6 DEF Send, Busy, IInv, TypeOK
  <2>7. CASE Acknowledge(w)
    BY <2>2, <2>7 DEF Acknowledge, Busy, IInv, TypeOK
  <2>8. CASE OnSendFailure(w)
    BY <2>3, <2>8 DEF OnSendFailure, Busy
  <2>9. CASE EndPass(w) \/ WakeByNotify(w) \/ WakeByTicker(w) \/ WorkerExit(w)
             \/ Publish(w) \/ Panic(w)
    BY <2>9 DEF EndPass, WakeByNotify, WakeByTicker, StartPass, WorkerExit, Publish, Panic
  <2> QED
    BY <2>1, <2>4, <2>5, <2>6, <2>7, <2>8, <2>9 DEF Pass, Deliver
<1>3. CASE \E i \in Requests : Elapse(i)
  BY <1>3 DEF Elapse
<1>4. CASE Boot
  BY <1>4 DEF Boot, Stuck
<1>5. CASE StopServing \/ CancelWorkers \/ Terminate \/ Crash
  BY <1>5 DEF StopServing, CancelWorkers, Terminate, Crash
<1>6. CASE UNCHANGED vars
  BY <1>6 DEF vars
<1> QED
  BY <1>1, <1>2, <1>3, <1>4, <1>5, <1>6 DEF Next

\* An acknowledged or dead-lettered job is never claimed, sent or changed again,
\* not even by RestoreStuck after a restart.
THEOREM FinalStaysCorrect == Spec => FinalStays
<1>1. IInv /\ [Next]_vars =>
        [\A j \in Requests : state[j] \in Final =>
           state'[j] = state[j] /\ tries'[j] = tries[j] /\ delivered'[j] = delivered[j]]_vars
  BY SettledStep
<1> QED
  BY <1>1, QueueInvariant, PTL DEF Spec, FinalStays

(***************************************************************************)
(* Idempotency keys.                                                       *)
(***************************************************************************)

\* a call about to answer with the row it inserted has inserted it
Inserted == \A r \in Requests : hpc[r] = "notify" => state[r] # "none"

LEMMA RowsGrow ==
  ASSUME IInv, [Next]_vars
  PROVE  /\ UNCHANGED <<acct, idem>>
         /\ \A j \in Requests : state[j] # "none" => state'[j] # "none"
         /\ \A j \in Requests :
              state[j] = "none" /\ state'[j] # "none" =>
                InsertRow(j) /\ ~Conflicts(j)
                /\ state' = [state EXCEPT ![j] = "queued"] /\ UNCHANGED answer
<1> USE DEF rows, calls, pool, process, budget, observed
<1>1. CASE Submission
  <2>1. PICK r \in Requests :
          \/ Submit(r) \/ CheckIdempotency(r) \/ ResolveDestination(r)
          \/ EnqueueLookup(r) \/ InsertRow(r) \/ NotifyWorkers(r) \/ Disconnect(r)
    BY <1>1 DEF Submission
  <2>2. CASE InsertRow(r)
    BY <2>2 DEF InsertRow, IInv, TypeOK
  <2>3. CASE ~InsertRow(r)
    BY <2>1, <2>3 DEF Submit, CheckIdempotency, ResolveDestination, EnqueueLookup, LookUp,
                      NotifyWorkers, Disconnect
  <2> QED
    BY <2>2, <2>3
<1>2. CASE \E w \in Workers : Pass(w) \/ Deliver(w) \/ Panic(w)
  <2>1. PICK w \in Workers : Pass(w) \/ Deliver(w) \/ Panic(w)
    BY <1>2
  <2>2. wpc[w] \in Busy => wjob[w] \in Requests /\ state[wjob[w]] = "sending"
    BY DEF IInv, SingleHolder
  <2>3. UNCHANGED <<acct, idem>>
    BY <2>1 DEF Pass, Deliver, PullNext, EndPass, WakeByNotify, WakeByTicker, StartPass,
                WorkerExit, NoClient, Send, Acknowledge, OnSendFailure, Publish, Panic
  <2>4. ASSUME wpc[w] \in Busy, Reschedule(w), NEW j \in Requests
        PROVE  state'[j] = "none" <=> state[j] = "none"
    BY <2>2, <2>4 DEF Reschedule, IInv, TypeOK
  <2>5. ASSUME NEW j \in Requests
        PROVE  state'[j] = "none" <=> state[j] = "none"
    <3>1. CASE PullNext(w)
      BY <3>1 DEF PullNext, First, Eligible, Claim, IInv, TypeOK
    <3>2. CASE NoClient(w)
      BY <2>4, <3>2 DEF NoClient, Busy
    <3>3. CASE Acknowledge(w)
      BY <2>2, <3>3 DEF Acknowledge, Busy, IInv, TypeOK
    <3>4. CASE OnSendFailure(w)
      BY <2>4, <3>4 DEF OnSendFailure, Busy
    <3>5. CASE EndPass(w) \/ WakeByNotify(w) \/ WakeByTicker(w) \/ WorkerExit(w)
               \/ Send(w) \/ Publish(w) \/ Panic(w)
      BY <3>5 DEF EndPass, WakeByNotify, WakeByTicker, StartPass, WorkerExit, Send,
                  Publish, Panic
    <3> QED
      BY <2>1, <3>1, <3>2, <3>3, <3>4, <3>5 DEF Pass, Deliver
  <2> QED
    BY <2>3, <2>5
<1>3. CASE \E i \in Requests : Elapse(i)
  BY <1>3 DEF Elapse
<1>4. CASE Boot
  BY <1>4 DEF Boot, Stuck
<1>5. CASE StopServing \/ CancelWorkers \/ Terminate \/ Crash
  BY <1>5 DEF StopServing, CancelWorkers, Terminate, Crash
<1>6. CASE UNCHANGED vars
  BY <1>6 DEF vars
<1> QED
  BY <1>1, <1>2, <1>3, <1>4, <1>5, <1>6 DEF Next

LEMMA AnswersStep ==
  ASSUME IInv, Inserted, [Next]_vars, NEW r \in Requests, answer'[r] # answer[r]
  PROVE  \/ idem[r] # NoKey /\ answer'[r] \in SameKey(r)
         \/ answer'[r] = r /\ r \in Rows
<1> USE DEF rows, calls, pool, process, budget, observed
<1>1. PICK q \in Requests :
        CheckIdempotency(q) \/ EnqueueLookup(q) \/ NotifyWorkers(q)
  BY DEF Next, vars, Submission, Submit, ResolveDestination, InsertRow, Disconnect,
         Pass, Deliver, PullNext, EndPass, WakeByNotify, WakeByTicker, StartPass,
         WorkerExit, NoClient, Send, Acknowledge, OnSendFailure, Publish, Panic,
         Elapse, Boot, StopServing, CancelWorkers, Terminate, Crash
<1>2. \E j \in Requests \cup {NoJob} : answer' = [answer EXCEPT ![q] = j]
  BY <1>1, SameKey(q) \subseteq Requests
  DEF CheckIdempotency, EnqueueLookup, LookUp, NotifyWorkers, Return, SameKey, Rows, IInv, TypeOK
<1>3. q = r
  BY <1>2 DEF IInv, TypeOK
<1>4. CASE CheckIdempotency(q) \/ EnqueueLookup(q)
  BY <1>3, <1>4 DEF CheckIdempotency, EnqueueLookup, LookUp, Return, IInv, TypeOK
<1>5. CASE NotifyWorkers(q)
  BY <1>3, <1>5 DEF NotifyWorkers, Return, Inserted, Rows, IInv, TypeOK
<1> QED
  BY <1>1, <1>4, <1>5

LEMMA InsertedStep ==
  ASSUME IInv, Inserted, [Next]_vars
  PROVE  Inserted'
<1> USE DEF rows, calls, pool, process, budget, observed
<1> SUFFICES ASSUME NEW r \in Requests, hpc'[r] = "notify"
             PROVE  state'[r] # "none"
  BY DEF Inserted
<1>1. CASE hpc[r] = "notify"
  BY <1>1, RowsGrow DEF Inserted
<1>2. CASE hpc[r] # "notify"
  <2>1. PICK q \in Requests :
          \/ Submit(q) \/ CheckIdempotency(q) \/ ResolveDestination(q)
          \/ EnqueueLookup(q) \/ InsertRow(q) \/ NotifyWorkers(q) \/ Disconnect(q)
    BY <1>2 DEF Next, vars, Submission, Abandoned, InFlight,
         Pass, Deliver, PullNext, EndPass, WakeByNotify, WakeByTicker, StartPass,
         WorkerExit, NoClient, Send, Acknowledge, OnSendFailure, Publish, Panic,
         Elapse, Boot, StopServing, CancelWorkers, Terminate, Crash
  <2>2. InsertRow(q) /\ q = r /\ state' = [state EXCEPT ![q] = "queued"]
    BY <1>2, <2>1 DEF Submit, CheckIdempotency, ResolveDestination, EnqueueLookup, LookUp,
         InsertRow, NotifyWorkers, Disconnect, Finish, Return, IInv, TypeOK
  <2> QED
    BY <2>2 DEF IInv, TypeOK
<1> QED
  BY <1>1, <1>2

LEMMA OneJobPerKeyStep ==
  ASSUME IInv, Inserted, OneJobPerKey, [Next]_vars
  PROVE  OneJobPerKey'
<1>1. \A r \in Requests : SameKey(r) \subseteq SameKey(r)'
  BY RowsGrow DEF SameKey, Rows
<1>2. ASSUME NEW r \in Requests, idem[r] # NoKey,
             NEW i \in SameKey(r)', NEW j \in SameKey(r)', i # j
      PROVE  FALSE
  <2>1. /\ i \in Requests /\ j \in Requests
        /\ acct[i] = acct[r] /\ acct[j] = acct[r] /\ idem[i] = idem[r] /\ idem[j] = idem[r]
        /\ state'[i] # "none" /\ state'[j] # "none"
    BY <1>2, RowsGrow DEF SameKey, Rows
  <2>2. ~(state[i] # "none" /\ state[j] # "none")
    BY <1>2, <2>1 DEF OneJobPerKey, SameKey, Rows
  <2>3. ASSUME NEW new \in Requests, NEW old \in Requests, new # old,
               state[new] = "none", state'[new] # "none", state'[old] # "none",
               acct[old] = acct[new], idem[old] = idem[new], idem[new] # NoKey
        PROVE  FALSE
    <3>1. ~Conflicts(new) /\ state' = [state EXCEPT ![new] = "queued"]
      BY <2>3, RowsGrow
    <3>2. state[old] # "none"
      BY <2>3, <3>1 DEF IInv, TypeOK
    <3> QED
      BY <2>3, <3>1, <3>2 DEF Conflicts, SameKey, Rows
  <2>4. CASE state[i] = "none"
    BY <1>2, <2>1, <2>3, <2>4
  <2>5. CASE state[j] = "none"
    BY <1>2, <2>1, <2>3, <2>5
  <2> QED
    BY <2>2, <2>4, <2>5
<1>3. ASSUME NEW r \in Requests, answer'[r] # NoJob
      PROVE  IF idem[r] = NoKey THEN answer'[r] = r /\ r \in Rows'
             ELSE answer'[r] \in SameKey(r)'
  <2>1. Rows \subseteq Rows'
    BY RowsGrow DEF Rows
  <2>2. CASE answer'[r] = answer[r]
    BY <1>1, <1>3, <2>1, <2>2 DEF OneJobPerKey
  <2>3. CASE answer'[r] # answer[r]
    <3>1. CASE idem[r] # NoKey /\ answer'[r] \in SameKey(r)
      BY <1>1, <3>1
    <3>2. CASE answer'[r] = r /\ r \in Rows
      BY <1>1, <2>1, <3>2 DEF SameKey
    <3> QED
      BY <2>3, <3>1, <3>2, AnswersStep
  <2> QED
    BY <2>2, <2>3
<1> QED
  BY <1>2, <1>3, RowsGrow DEF OneJobPerKey

\* The unique index and the two lookups give every submitter of a key the same
\* job, through races between calls, crashes and repeated submissions.
THEOREM OneJobPerKeyCorrect == Spec => []OneJobPerKey
<1>1. Init => Inserted /\ OneJobPerKey
  BY NamesAssumption DEF Init, Inserted, OneJobPerKey, SameKey, Rows
<1>2. IInv /\ Inserted /\ OneJobPerKey /\ [Next]_vars => (Inserted /\ OneJobPerKey)'
  BY InsertedStep, OneJobPerKeyStep
<1> QED
  BY <1>1, <1>2, QueueInvariant, PTL DEF Spec

(***************************************************************************)
(* What strands a job.  While the workers run, a step that is not paid for *)
(* leaves no new row "sending" without a worker; a database error or a     *)
(* panic leaves at most the row of the worker it hits.                     *)
(***************************************************************************)

LEMMA StrandedFinite == IsFiniteSet(Stranded) /\ Cardinality(Stranded) \in Nat
<1>1. Stranded \subseteq Requests
  BY DEF Stranded
<1> QED
  BY <1>1, RequestsAssumption, FS_Subset, FS_CardinalityType

LEMMA PaidFor ==
  ASSUME NEW f \in Nat, NEW p \in Nat, NEW g \in Nat, NEW q \in Nat, f <= g, p <= q,
         NEW c \in Nat, NEW d \in Nat, d <= c, c <= f + p
  PROVE  d <= g + q
OBVIOUS

LEMMA NoneStranded ==
  ASSUME TypeOK, TypeOK', StrandedPaid, Running, Stranded' \subseteq Stranded,
         faults <= faults', panics <= panics'
  PROVE  StrandedPaid'
<1>1. Cardinality(Stranded') <= Cardinality(Stranded) /\ Cardinality(Stranded') \in Nat
  BY StrandedFinite, FS_Subset, FS_CardinalityType
<1>2. faults \in Nat /\ panics \in Nat /\ faults' \in Nat /\ panics' \in Nat
  BY BoundsAssumption DEF TypeOK
<1>3. Cardinality(Stranded) \in Nat /\ Cardinality(Stranded) <= faults + panics
  BY StrandedFinite DEF StrandedPaid
<1>4. Cardinality(Stranded') <= faults' + panics'
  BY <1>1, <1>2, <1>3, PaidFor
<1> QED
  BY <1>4 DEF StrandedPaid

LEMMA OneStranded ==
  ASSUME TypeOK, TypeOK', StrandedPaid, Running, NEW j, Stranded' \subseteq Stranded \cup {j},
         faults' + panics' = faults + panics + 1
  PROVE  StrandedPaid'
<1> DEFINE more == Stranded \cup {j}
<1>1. /\ IsFiniteSet(more) /\ Cardinality(more) \in Nat
      /\ Cardinality(more) <= Cardinality(Stranded) + 1
  <2>1. IsFiniteSet(more) /\ Cardinality(more) = (IF j \in Stranded THEN Cardinality(Stranded)
                                                  ELSE Cardinality(Stranded) + 1)
    BY StrandedFinite, FS_AddElement
  <2> QED
    BY <2>1, StrandedFinite
<1>2. Cardinality(Stranded') <= Cardinality(more) /\ Cardinality(Stranded') \in Nat
  BY <1>1, FS_Subset, FS_CardinalityType
<1>3. /\ faults \in Nat /\ panics \in Nat
      /\ Cardinality(Stranded) \in Nat /\ Cardinality(Stranded) <= faults + panics
  BY StrandedFinite, BoundsAssumption DEF TypeOK, StrandedPaid
<1> QED
  BY <1>1, <1>2, <1>3 DEF StrandedPaid

\* a worker lets go of its row when a statement failed or it panicked
LEMMA LetGo ==
  ASSUME IInv, NEW w \in Workers, wpc[w] \in Busy, UNCHANGED state,
         \A v \in Workers \ {w} : wpc'[v] = wpc[v] /\ wjob'[v] = wjob[v]
  PROVE  Stranded' \subseteq Stranded \cup {wjob[w]}
BY DEF Stranded, Holds

\* a worker settles or puts back its row
LEMMA HandsBack ==
  ASSUME IInv, NEW w \in Workers, wpc[w] \in Busy, NEW st \in States \ {"sending"},
         state' = [state EXCEPT ![wjob[w]] = st],
         \A v \in Workers \ {w} : wpc'[v] = wpc[v] /\ wjob'[v] = wjob[v]
  PROVE  Stranded' \subseteq Stranded
BY DEF Stranded, Holds, IInv, TypeOK

LEMMA WorkerStrands ==
  ASSUME IInv, TypeOK', StrandedPaid, Running,
         NEW w \in Workers, Pass(w) \/ Deliver(w) \/ Panic(w)
  PROVE  StrandedPaid'
<1>t. /\ TypeOK /\ faults \in Nat /\ panics \in Nat
      /\ wpc \in [Workers -> {"off", "pull", "idle"} \cup Busy \cup Announcing]
      /\ wjob \in [Workers -> Requests \cup {NoJob}] /\ state \in [Requests -> States]
  BY BoundsAssumption DEF IInv, TypeOK
<1> USE DEF rows, calls, pool, process, budget, observed
<1>1. ASSUME wpc[w] \in Busy, Reschedule(w), DbOk, UNCHANGED panics,
             \A v \in Workers \ {w} : wpc'[v] = wpc[v] /\ wjob'[v] = wjob[v]
      PROVE  StrandedPaid'
  <2>1. \E st \in States \ {"sending"} : state' = [state EXCEPT ![wjob[w]] = st]
    BY <1>1 DEF Reschedule, States
  <2>2. Stranded' \subseteq Stranded /\ UNCHANGED <<faults, panics>>
    BY <1>1, <2>1, HandsBack DEF DbOk
  <2> QED
    BY <1>t, <2>2, NoneStranded
<1>2. ASSUME wpc[w] \in Busy, UNCHANGED <<state, panics>>, DbError,
             \A v \in Workers \ {w} : wpc'[v] = wpc[v] /\ wjob'[v] = wjob[v]
      PROVE  StrandedPaid'
  <2>1. Stranded' \subseteq Stranded \cup {wjob[w]}
    BY <1>2, LetGo
  <2>2. faults' + panics' = faults + panics + 1
    BY <1>t, <1>2 DEF DbError, DbFault, Running
  <2> QED
    BY <1>t, <2>1, <2>2, OneStranded
\* no row changes its state, and whoever is busy stays busy with its row
<1>3. ASSUME UNCHANGED <<state, faults, panics>>,
             \A v \in Workers : wpc[v] \in Busy => wpc'[v] \in Busy /\ wjob'[v] = wjob[v]
      PROVE  StrandedPaid'
  <2>1. Stranded' \subseteq Stranded /\ UNCHANGED <<faults, panics>>
    BY <1>3 DEF Stranded, Holds
  <2> QED
    BY <1>t, <2>1, NoneStranded
<1>4. CASE PullNext(w)
  <2>1. PICK a \in todo[w] :
          \/ \E j \in First(Eligible(a)) : Claim(w, j)
          \/ UNCHANGED <<state, wjob, wpc>>
    BY <1>4 DEF PullNext
  <2>2. wpc[w] \notin Busy /\ faults <= faults' /\ UNCHANGED panics
    BY <1>t, <1>4 DEF PullNext, Busy, DbFault
  <2>3. Stranded' \subseteq Stranded
    <3>1. CASE UNCHANGED <<state, wjob, wpc>>
      BY <3>1 DEF Stranded, Holds
    <3>2. ASSUME NEW j \in First(Eligible(a)), Claim(w, j)
          PROVE  Stranded' \subseteq Stranded
      <4>1. Holds(w, j)' /\ \A i \in Requests \ {j} : state'[i] = state[i]
        BY <1>t, <3>2 DEF Claim, Holds, Busy
      <4>2. \A v \in Workers, i \in Requests : Holds(v, i) => Holds(v, i)'
        BY <1>t, <2>2, <3>2 DEF Claim, Holds
      <4> QED
        BY <4>1, <4>2 DEF Stranded
    <3> QED
      BY <2>1, <3>1, <3>2
  <2> QED
    BY <1>t, <2>2, <2>3, NoneStranded
<1>5. CASE EndPass(w) \/ WakeByNotify(w) \/ WakeByTicker(w) \/ WorkerExit(w) \/ Publish(w)
  BY <1>t, <1>3, <1>5 DEF EndPass, WakeByNotify, WakeByTicker, StartPass, WorkerExit,
     Publish, Done, Busy, Announcing
<1>6. CASE Send(w)
  BY <1>t, <1>3, <1>6 DEF Send, Busy
<1>7. CASE NoClient(w)
  <2>1. wpc[w] \in Busy /\ UNCHANGED panics
    BY <1>7 DEF NoClient, Busy
  <2>2. \A v \in Workers \ {w} : wpc'[v] = wpc[v] /\ wjob'[v] = wjob[v]
    BY <1>t, <1>7 DEF NoClient, Done
  <2>3. (DbOk /\ Reschedule(w)) \/ (DbError /\ UNCHANGED state)
    BY <1>7 DEF NoClient
  <2> QED
    BY <1>1, <1>2, <2>1, <2>2, <2>3
<1>8. CASE Acknowledge(w)
  <2>1. /\ wpc[w] \in Busy /\ UNCHANGED panics
        /\ \A v \in Workers \ {w} : wpc'[v] = wpc[v] /\ wjob'[v] = wjob[v]
        /\ \/ DbOk /\ state' = [state EXCEPT ![wjob[w]] = "acknowledged"]
           \/ DbError /\ UNCHANGED state
    BY <1>t, <1>8 DEF Acknowledge, Busy
  <2>2. CASE DbOk /\ state' = [state EXCEPT ![wjob[w]] = "acknowledged"]
    <3>1. Stranded' \subseteq Stranded /\ UNCHANGED <<faults, panics>>
      BY <2>1, <2>2, HandsBack DEF States, DbOk
    <3> QED
      BY <1>t, <3>1, NoneStranded
  <2> QED
    BY <1>2, <2>1, <2>2
<1>9. CASE OnSendFailure(w)
  <2>1. wpc[w] \in Busy /\ UNCHANGED panics
    BY <1>9 DEF OnSendFailure, Busy
  <2>2. \A v \in Workers \ {w} : wpc'[v] = wpc[v] /\ wjob'[v] = wjob[v]
    BY <1>t, <1>9 DEF OnSendFailure, Done
  <2>3. (DbOk /\ Reschedule(w)) \/ (DbError /\ UNCHANGED state)
    BY <1>9 DEF OnSendFailure
  <2> QED
    BY <1>1, <1>2, <2>1, <2>2, <2>3
<1>10. CASE Panic(w)
  <2>1. Stranded' \subseteq Stranded \cup {wjob[w]}
    BY <1>t, <1>10, LetGo DEF Panic, Done, Busy
  <2>2. faults' + panics' = faults + panics + 1
    BY <1>t, <1>10 DEF Panic
  <2> QED
    BY <1>t, <2>1, <2>2, OneStranded
<1> QED
  BY <1>4, <1>5, <1>6, <1>7, <1>8, <1>9, <1>10 DEF Pass, Deliver

LEMMA StrandedStep ==
  ASSUME IInv, TypeOK', StrandedPaid, [Next]_vars
  PROVE  StrandedPaid'
<1>t. /\ TypeOK /\ faults \in Nat /\ panics \in Nat
      /\ hpc \in [Requests -> {"new"} \cup InFlight \cup Outcomes]
      /\ state \in [Requests -> States]
  BY BoundsAssumption DEF IInv, TypeOK
<1> USE DEF rows, calls, pool, process, budget, observed
<1>1. SUFFICES ASSUME Running' PROVE StrandedPaid'
  BY DEF StrandedPaid
<1>2. ASSUME Running, UNCHANGED <<panics, wpc, wjob>>, faults <= faults',
             \A j \in Requests : state'[j] = "sending" => state[j] = "sending"
      PROVE  StrandedPaid'
  <2>1. Stranded' \subseteq Stranded
    BY <1>2 DEF Stranded, Holds
  <2> QED
    BY <1>t, <1>2, <2>1, NoneStranded
<1>3. CASE Submission
  <2>1. PICK r \in Requests :
          \/ Submit(r) \/ CheckIdempotency(r) \/ ResolveDestination(r)
          \/ EnqueueLookup(r) \/ InsertRow(r) \/ NotifyWorkers(r) \/ Disconnect(r)
    BY <1>3 DEF Submission
  <2>2. /\ UNCHANGED <<panics, wpc, wjob, life>>
        /\ faults' = faults \/ faults' = faults + 1
        /\ state' = state \/ state' = [state EXCEPT ![r] = "queued"]
    BY <2>1 DEF Submit, CheckIdempotency, ResolveDestination, EnqueueLookup, LookUp,
       InsertRow, NotifyWorkers, Disconnect, DbFault
  <2> QED
    BY <1>t, <1>1, <1>2, <2>2 DEF Running
<1>4. CASE \E w \in Workers : Pass(w) \/ Deliver(w) \/ Panic(w)
  <2>1. PICK w \in Workers : Pass(w) \/ Deliver(w) \/ Panic(w)
    BY <1>4
  <2>2. UNCHANGED life
    BY <2>1 DEF Pass, Deliver, PullNext, EndPass, WakeByNotify, WakeByTicker, StartPass,
       WorkerExit, NoClient, Send, Acknowledge, OnSendFailure, Publish, Panic
  <2> QED
    BY <1>1, <2>1, <2>2, WorkerStrands DEF Running
<1>5. CASE (\E j \in Requests : Elapse(j)) \/ StopServing \/ UNCHANGED vars
  BY <1>t, <1>1, <1>2, <1>5 DEF Elapse, StopServing, Running, vars
<1>6. CASE CancelWorkers \/ Terminate \/ Crash
  BY <1>1, <1>6 DEF CancelWorkers, Terminate, Crash, Running
<1>7. CASE Boot
  <2>1. \A j \in Requests : state'[j] # "sending"
    BY <1>7 DEF Boot, Stuck
  <2>2. Stranded' = {}
    BY <2>1 DEF Stranded
  <2>3. Cardinality(Stranded') = 0 /\ faults' = faults /\ panics' = panics
    BY <1>7, <2>2, FS_EmptySet DEF Boot
  <2> QED
    BY <1>t, <2>3 DEF StrandedPaid
<1> QED
  BY <1>3, <1>4, <1>5, <1>6, <1>7 DEF Next

\* While the workers run, each row left "sending" without a worker (worker.go drops
\* the error of Transition and of ScheduleRetry, and recovers panics) is paid for by
\* a database error or a panic of its own: without them nothing is ever stranded.
THEOREM StrandedPaidCorrect == Spec => []StrandedPaid
<1>1. Init => StrandedPaid
  BY DEF Init, StrandedPaid, Running
<1>2. IInv /\ StrandedPaid /\ [Next]_vars => StrandedPaid'
  BY StrandedStep, NextTypeOK DEF IInv
<1> QED
  BY <1>1, <1>2, QueueInvariant, PTL DEF Spec

LEMMA RestoredStep ==
  ASSUME IInv, TypeOK', RestoredAfterwards, [Next]_vars
  PROVE  RestoredAfterwards'
<1>t. /\ boots \in Nat /\ restored \in [Requests -> Nat] /\ state \in [Requests -> States]
      /\ life \in {"down", "up", "closing", "stopping"}
  BY BoundsAssumption DEF IInv, TypeOK
<1> USE DEF rows, calls, pool, process, budget, observed
<1>1. CASE Boot
  <2>1. /\ boots' = boots + 1 /\ life' = "up"
        /\ \A j \in Requests : /\ restored'[j] = restored[j] + (IF Stuck(j) THEN 1 ELSE 0)
                               /\ state'[j] = "none" <=> state[j] = "none"
                               /\ state[j] = "none" => ~Stuck(j)
    BY <1>t, <1>1 DEF Boot, Stuck
  <2> QED
    BY <1>t, <2>1 DEF RestoredAfterwards, Serving
<1>2. CASE ~Boot
  <2>1. /\ UNCHANGED <<boots, restored>> /\ (Serving' => Serving)
        /\ \A j \in Requests : state[j] = "none" /\ state'[j] # "none" => Serving
    <3>1. \A j \in Requests : state[j] = "none" /\ state'[j] # "none" => InsertRow(j)
      BY RowsGrow
    <3>2. UNCHANGED <<boots, restored>> /\ (Serving' => Serving)
      BY <1>2 DEF Next, vars, Submission, Submit, CheckIdempotency, ResolveDestination,
         EnqueueLookup, LookUp, InsertRow, NotifyWorkers, Disconnect,
         Pass, Deliver, PullNext, EndPass, WakeByNotify, WakeByTicker, StartPass,
         WorkerExit, NoClient, Send, Acknowledge, OnSendFailure, Publish, Panic,
         Elapse, StopServing, CancelWorkers, Terminate, Crash, Serving
    <3> QED
      BY <3>1, <3>2 DEF InsertRow
  <2>2. \A j \in Requests : state[j] # "none" => state'[j] # "none"
    BY RowsGrow
  <2> QED
    BY <1>t, <2>1, <2>2 DEF RestoredAfterwards
<1> QED
  BY <1>1, <1>2

\* A job is tried at most once per retry and once per start of the process:
\* at-least-once delivery sends it max_retries + boots times at the very most.
THEOREM AttemptsBoundedCorrect == Spec => []AttemptsBounded
<1>1. Init => RestoredAfterwards
  BY DEF Init, RestoredAfterwards, Serving
<1>2. IInv /\ RestoredAfterwards /\ [Next]_vars => RestoredAfterwards'
  BY RestoredStep, NextTypeOK DEF IInv
<1>3. ASSUME IInv, RestoredAfterwards PROVE AttemptsBounded
  <2> SUFFICES ASSUME NEW j \in Requests PROVE tries[j] <= MaxRetries + boots
    BY DEF AttemptsBounded
  <2>1. /\ tries[j] = retry[j] + restored[j] + (IF state[j] \in {"sending"} \cup Final THEN 1 ELSE 0)
        /\ retry[j] \in 0 .. MaxRetries /\ restored[j] \in Nat /\ boots \in Nat /\ MaxRetries \in Nat
        /\ IF state[j] = "none" THEN restored[j] = 0 ELSE restored[j] < boots
    BY <1>3, RetriesAssumption, BoundsAssumption
    DEF IInv, TypeOK, AttemptsAccounted, RestoredAfterwards
  <2> QED
    BY <2>1 DEF Final
<1> QED
  BY <1>1, <1>2, <1>3, QueueInvariant, PTL DEF Spec

(***************************************************************************)
(* The queue implements Delivery.                                          *)
(***************************************************************************)

LEMMA RefinementInit == Init => Client!Init
BY DEF Init, Client!Init, Client!Unowned, ClientStatus, Final

LEMMA RefinementStep ==
  ASSUME IInv, [Next]_vars
  PROVE  [Client!Next]_(Client!vars)
<1> USE DEF rows, calls, pool, process, budget, observed
<1> DEFINE status == [j \in Requests |-> ClientStatus(state[j])]
           owner  == [j \in Requests |->
                        IF state[j] = "none" THEN [account |-> NoKey, key |-> NoKey]
                        ELSE [account |-> acct[j], key |-> idem[j]]]
<1>1. ASSUME UNCHANGED <<acct, idem, delivered>>,
             \A j \in Requests : ClientStatus(state'[j]) = ClientStatus(state[j])
      PROVE  UNCHANGED Client!vars
  <2>1. \A j \in Requests : state'[j] = "none" <=> state[j] = "none"
    BY <1>1 DEF ClientStatus, Final, IInv, TypeOK, States
  <2> QED
    BY <1>1, <2>1 DEF Client!vars
<1>2. ASSUME NEW j \in Requests, state[j] = "sending",
             NEW st \in {"queued", "acknowledged", "dead_letter"},
             state' = [state EXCEPT ![j] = st],
             UNCHANGED <<acct, idem, delivered>>, st = "acknowledged" => delivered[j] > 0
      PROVE  [Client!Next]_(Client!vars)
  <2>1. status' = [status EXCEPT ![j] = ClientStatus(st)] /\ owner' = owner
    BY <1>2 DEF IInv, TypeOK
  <2>2. status[j] = "pending"
    BY <1>2 DEF ClientStatus, Final
  <2>3. CASE st = "queued"
    BY <1>1, <1>2, <2>3 DEF ClientStatus, Final, IInv, TypeOK
  <2>4. CASE st = "acknowledged"
    <3>1. Client!Acknowledge(j)
      BY <1>2, <2>1, <2>2, <2>4 DEF Client!Acknowledge, ClientStatus, Final
    <3> QED
      BY <3>1 DEF Client!Next
  <2>5. CASE st = "dead_letter"
    <3>1. Client!GiveUp(j)
      BY <1>2, <2>1, <2>2, <2>5 DEF Client!GiveUp, ClientStatus, Final
    <3> QED
      BY <3>1 DEF Client!Next
  <2> QED
    BY <2>3, <2>4, <2>5
<1>3. CASE Submission
  <2>1. PICK r \in Requests :
          \/ Submit(r) \/ CheckIdempotency(r) \/ ResolveDestination(r)
          \/ EnqueueLookup(r) \/ InsertRow(r) \/ NotifyWorkers(r) \/ Disconnect(r)
    BY <1>3 DEF Submission
  <2>2. CASE UNCHANGED <<state, acct, idem, delivered>>
    BY <1>1, <2>2
  <2>3. CASE InsertRow(r) /\ ~Conflicts(r) /\ state' = [state EXCEPT ![r] = "queued"]
    <3>1. state[r] = "none"
      BY <2>3 DEF InsertRow, IInv, NotInserted, InFlight
    <3>2. PICK o \in Client!Owners : o = [account |-> acct[r], key |-> idem[r]]
      BY DEF Client!Owners, IInv, TypeOK
    <3>3. UNCHANGED <<acct, idem, delivered>>
      BY <2>3 DEF InsertRow
    <3>4. /\ status[r] = "absent"
          /\ status' = [status EXCEPT ![r] = "pending"]
          /\ owner' = [owner EXCEPT ![r] = o]
      BY <2>3, <3>1, <3>2, <3>3 DEF ClientStatus, Final, IInv, TypeOK
    <3>5. ASSUME o.key # NoKey, NEW i \in Requests, status[i] # "absent"
          PROVE  owner[i] # o
      <4>1. state[i] # "none"
        BY <3>5 DEF ClientStatus
      <4>2. ~(acct[i] = acct[r] /\ idem[i] = idem[r])
        BY <2>3, <3>2, <3>5, <4>1 DEF Conflicts, SameKey, Rows
      <4> QED
        BY <3>2, <4>1, <4>2
    <3>6. Client!Accept(r, o)
      BY <3>3, <3>4, <3>5 DEF Client!Accept
    <3> QED
      BY <3>2, <3>6 DEF Client!Next
  <2> QED
    BY <2>1, <2>2, <2>3 DEF Submit, CheckIdempotency, ResolveDestination, EnqueueLookup,
         LookUp, InsertRow, NotifyWorkers, Disconnect
<1>4. CASE \E w \in Workers : Pass(w) \/ Deliver(w) \/ Panic(w)
  <2>1. PICK w \in Workers : Pass(w) \/ Deliver(w) \/ Panic(w)
    BY <1>4
  <2>2. /\ UNCHANGED <<acct, idem>>
        /\ wpc[w] \in Busy => wjob[w] \in Requests /\ state[wjob[w]] = "sending"
    BY RowsGrow DEF IInv, SingleHolder
  <2>3. ASSUME Reschedule(w), wpc[w] \in Busy, UNCHANGED delivered
        PROVE  [Client!Next]_(Client!vars)
    BY <1>2, <2>2, <2>3 DEF Reschedule
  <2>4. CASE PullNext(w)
    <3>1. CASE UNCHANGED state
      BY <1>1, <2>2, <2>4, <3>1 DEF PullNext
    <3>2. CASE \E j \in Requests : state[j] = "queued" /\ Claim(w, j)
      BY <1>1, <2>2, <2>4, <3>2 DEF PullNext, Claim, ClientStatus, Final, IInv, TypeOK
    <3> QED
      BY <2>4, <3>1, <3>2 DEF PullNext, First, Eligible, Rows
  <2>5. CASE NoClient(w)
    <3>1. CASE UNCHANGED state
      BY <1>1, <2>2, <2>5, <3>1 DEF NoClient
    <3> QED
      BY <2>3, <2>5, <3>1 DEF NoClient, Busy
  <2>6. CASE Send(w)
    <3> DEFINE j == wjob[w]
    <3>1. CASE UNCHANGED delivered
      BY <1>1, <2>2, <2>6, <3>1 DEF Send
    <3>2. CASE delivered' = [delivered EXCEPT ![j] = @ + 1]
      <4>1. j \in Requests /\ status[j] = "pending"
        BY <2>2, <2>6 DEF Send, Busy, ClientStatus, Final
      <4>2. UNCHANGED <<status, owner>>
        BY <2>2, <2>6 DEF Send
      <4>3. Client!Deliver(j)
        BY <3>2, <4>1, <4>2 DEF Client!Deliver
      <4> QED
        BY <4>1, <4>3 DEF Client!Next
    <3> QED
      BY <2>6, <3>1, <3>2 DEF Send
  <2>7. CASE Acknowledge(w)
    <3>1. CASE UNCHANGED state
      BY <1>1, <2>2, <2>7, <3>1 DEF Acknowledge
    <3>2. CASE state' = [state EXCEPT ![wjob[w]] = "acknowledged"]
      <4>1. delivered[wjob[w]] > 0
        BY <2>7 DEF Acknowledge, IInv, ReportsHold
      <4> QED
        BY <1>2, <2>2, <2>7, <3>2, <4>1 DEF Acknowledge, Busy
    <3> QED
      BY <2>7, <3>1, <3>2 DEF Acknowledge
  <2>8. CASE OnSendFailure(w)
    <3>1. CASE UNCHANGED state
      BY <1>1, <2>2, <2>8, <3>1 DEF OnSendFailure
    <3> QED
      BY <2>3, <2>8, <3>1 DEF OnSendFailure, Busy
  <2>9. CASE EndPass(w) \/ WakeByNotify(w) \/ WakeByTicker(w) \/ WorkerExit(w)
             \/ Publish(w) \/ Panic(w)
    BY <1>1, <2>2, <2>9 DEF EndPass, WakeByNotify, WakeByTicker, StartPass, WorkerExit,
         Publish, Panic
  <2> QED
    BY <2>1, <2>4, <2>5, <2>6, <2>7, <2>8, <2>9 DEF Pass, Deliver
<1>5. CASE \/ \E i \in Requests : Elapse(i)
           \/ StopServing \/ CancelWorkers \/ Terminate \/ Crash
  BY <1>1, <1>5 DEF Elapse, StopServing, CancelWorkers, Terminate, Crash
<1>6. CASE Boot
  BY <1>1, <1>6 DEF Boot, Stuck, ClientStatus, Final
<1>7. CASE UNCHANGED vars
  BY <1>1, <1>7 DEF vars
<1> QED
  BY <1>3, <1>4, <1>5, <1>6, <1>7 DEF Next

\* Every behaviour of submissions, workers, faults and restarts is a behaviour of
\* the abstract at-least-once delivery service.
THEOREM ImplementsDeliveryCorrect == Spec => ImplementsDelivery
<1>1. Init => Client!Init
  BY RefinementInit
<1>2. IInv /\ [Next]_vars => [Client!Next]_(Client!vars)
  BY RefinementStep
<1> QED
  BY <1>1, <1>2, QueueInvariant, PTL DEF Spec, ImplementsDelivery, Client!Spec
=============================================================================
