----------------------------- MODULE Correlation -----------------------------
(***************************************************************************)
(* CorrelationManager: POST /v1/ask and POST /v1/receive register a handle *)
(* in memory and a row in correlation_state, and wait; inbound events come *)
(* from the event bus on one goroutine per event type; deadlines are       *)
(* enforced by a timer per handle and by a periodic sweep.                 *)
(*                                                                         *)
(* A handle is settled inside its sync.Once.  The once is open, then       *)
(* "given" (the result is in the channel, done is closed), "removed" (gone *)
(* from the map) and "done" (the row is updated); a second caller of the   *)
(* once waits for "done".  The manager's RWMutex is held for the map only, *)
(* so a look at the map is one step.                                       *)
(***************************************************************************)
EXTENDS Naturals, Sequences, FiniteSets, SequencesExt

CONSTANTS
  Asks,       \* POST /v1/ask calls
  Receives,   \* POST /v1/receive calls
  Limit,      \* Limit[v]: the receive's limit, 0 for none
  Events,     \* inbound events
  NoEvent,
  Types,      \* the event types the manager subscribes to
  TypeOf,     \* TypeOf[e]: the type of e
  Matches,    \* pairs <<h, e>>: e belongs to h's account and satisfies its filter
  Cause,      \* Cause[e]: the ask whose message e answers or echoes, or NoHandle
  Echo,       \* Echo[a]: the event that is a's own message coming back
  NoHandle,
  Capacity,   \* of a subscription's channel
  MaxBoots,   \* bound: process starts
  MaxFaults   \* bound: database errors over a behaviour

Handles == Asks \cup Receives
Sweeper == "sweep"

ASSUME LimitAssumption == Limit \in [Receives -> Nat]
ASSUME HandlesAssumption == NoHandle \notin Handles /\ Asks \cap Receives = {}
ASSUME EventsAssumption ==
  /\ NoEvent \notin Events
  /\ TypeOf \in [Events -> Types]
  /\ Cause \in [Events -> Asks \cup {NoHandle}]
  /\ Echo \in [Asks -> Events \cup {NoEvent}]
ASSUME TypesAssumption == Sweeper \notin Types
ASSUME BoundsAssumption == MaxBoots \in Nat \ {0} /\ MaxFaults \in Nat /\ Capacity \in Nat \ {0}

VARIABLES
  phase, queue, handling,  \* the manager's subscription of each type: see EventChannel
  targets,    \* targets[t]: handles the event in hand has still to go to
  doing,      \* doing[g]: the handle whose once goroutine g is inside, or NoHandle
  pc,         \* where each call is
  live,       \* the maps asks and receives
  once, verdict,  \* each handle's once, and the state its winner will write
  result,     \* what the result channel was given
  collected,  \* events a receive has collected
  spawned,    \* receives with a "go resolveReceive" that has not run
  row,        \* correlation_state
  due,        \* handles whose timeout_at has passed
  sweeping,   \* "off", "asleep", "resolving": the cleanup goroutine
  expired,    \* handles the sweep has still to expire
  sweepNow,   \* what was due when the sweep began
  up, boots, faults,
  published,  \* inbound events the sync loop has published
  log,        \* log[t]: the events that entered t's channel, in order
  since       \* since[h]: how many of each log were taken when h entered the map

channels == <<phase, queue, handling>>
routing  == <<targets, doing>>
handles  == <<live, once, verdict, result, collected, spawned>>
cleanup  == <<sweeping, expired, sweepNow>>
process  == <<up, boots>>
history  == <<published, log, since>>
vars     == <<channels, routing, pc, handles, row, due, cleanup, process, faults, history>>

Channel == INSTANCE EventChannel WITH Subs <- Types

Early    == {"new", "sent", "inserted"}
Waiting  == {"sent", "inserted", "waiting"}
Outcomes == {"answered", "timed_out", "cancelled", "failed", "lost"}

Closed == [t \in Types |-> "unmade"]
Empty  == [t \in Types |-> <<>>]
Idle   == [t \in Types |-> NoEvent]
Free   == [g \in Types \cup {Sweeper} |-> NoHandle]

Init ==
  /\ phase = Closed /\ queue = Empty /\ handling = Idle
  /\ targets = [t \in Types |-> {}] /\ doing = Free
  /\ live = {} /\ spawned = {}
  /\ sweeping = "off" /\ expired = {} /\ sweepNow = {}
  /\ pc = [h \in Handles |-> "new"]
  /\ once = [h \in Handles |-> "open"]
  /\ verdict = [h \in Handles |-> "none"]
  /\ result = [h \in Handles |-> <<>>]
  /\ collected = [v \in Receives |-> <<>>]
  /\ row = [h \in Handles |-> "none"]
  /\ due = {}
  /\ up = TRUE /\ boots = 1 /\ faults = 0
  /\ published = {} /\ log = Empty
  /\ since = [h \in Handles |-> [t \in Types |-> 0]]

DbFault == faults < MaxFaults /\ faults' = faults + 1

-----------------------------------------------------------------------------
(* The calls.                                                              *)

\* SendDirect: the message is at the homeserver before anything is registered
SendDirect(a) ==
  /\ up
  /\ pc[a] = "new"
  /\ \E p \in {"sent", "failed"} : pc' = [pc EXCEPT ![a] = p]
  /\ UNCHANGED <<channels, routing, handles, row, due, cleanup, process, faults, history>>

InsertRow(h) ==
  /\ up
  /\ pc[h] = IF h \in Asks THEN "sent" ELSE "new"
  /\ \/ /\ row' = [row EXCEPT ![h] = "pending"]
        /\ pc' = [pc EXCEPT ![h] = "inserted"]
        /\ UNCHANGED faults
     \/ /\ DbFault
        /\ pc' = [pc EXCEPT ![h] = "failed"]
        /\ UNCHANGED row
  /\ UNCHANGED <<channels, routing, handles, due, cleanup, process, history>>

\* into the map; the timer goroutine starts
Activate(h) ==
  /\ up
  /\ pc[h] = "inserted"
  /\ pc' = [pc EXCEPT ![h] = "waiting"]
  /\ live' = live \cup {h}
  /\ since' = [since EXCEPT ![h] = [t \in Types |-> Len(log[t]) - Len(queue[t])]]
  /\ UNCHANGED <<channels, routing, once, verdict, result, collected, spawned, row, due,
                 cleanup, process, faults, published, log>>

\* mutant: a timed-out ask does not close its channel
WaitForEvent(h) ==
  /\ pc[h] = "waiting"
  /\ result[h] # <<>>
  /\ pc' = [pc EXCEPT ![h] = "answered"]
  /\ UNCHANGED <<channels, routing, handles, row, due, cleanup, process, faults, history>>

\* the result is there: an event or events, or none
WaitReturns(h) ==
  /\ pc[h] = "waiting"
  /\ once[h] # "open"
  /\ pc' = [pc EXCEPT ![h] = IF result[h] = <<>> THEN "timed_out" ELSE "answered"]
  /\ UNCHANGED <<channels, routing, handles, row, due, cleanup, process, faults, history>>

\* the client disconnects: nobody waits any more, the handle stays
Cancel(h) ==
  /\ pc[h] = "waiting"
  /\ pc' = [pc EXCEPT ![h] = "cancelled"]
  /\ UNCHANGED <<channels, routing, handles, row, due, cleanup, process, faults, history>>

-----------------------------------------------------------------------------
(* Settling a handle.                                                      *)

\* mutant: no sync.Once
SettleAgain(h, v, events) ==
  /\ once' = [once EXCEPT ![h] = "given"]
  /\ verdict' = [verdict EXCEPT ![h] = v]
  /\ result' = [result EXCEPT ![h] = events]

\* once.Do: the first caller gives the result, any other changes nothing
Settle(h, v, events) ==
  IF once[h] = "open"
  THEN /\ once' = [once EXCEPT ![h] = "given"]
       /\ verdict' = [verdict EXCEPT ![h] = v]
       /\ result' = [result EXCEPT ![h] = events]
  ELSE UNCHANGED <<once, verdict, result>>

\* goroutine g calls once.Do: it is inside until the once is done
EnterOnce(g, h) ==
  doing' = IF once[h] = "done" THEN doing ELSE [doing EXCEPT ![g] = h]

Gathered(h) == IF h \in Asks THEN <<>> ELSE collected[h]

\* mutant: an expired handle is left to the sweep
RemoveResolved(h) ==
  /\ once[h] = "given"
  /\ once' = [once EXCEPT ![h] = "removed"]
  /\ live' = IF verdict[h] = "resolved" THEN live \ {h} ELSE live
  /\ UNCHANGED <<channels, routing, pc, verdict, result, collected, spawned, row, due,
                 cleanup, process, faults, history>>

RemoveHandle(h) ==
  /\ once[h] = "given"
  /\ once' = [once EXCEPT ![h] = "removed"]
  /\ live' = live \ {h}
  /\ UNCHANGED <<channels, routing, pc, verdict, result, collected, spawned, row, due,
                 cleanup, process, faults, history>>

\* UpdateState; its error is ignored, and a row that was pruned stays away.  The
\* goroutines that were inside the once, or waited for it, go on.
Persist(h) ==
  /\ once[h] = "removed"
  /\ once' = [once EXCEPT ![h] = "done"]
  /\ \/ /\ row' = [row EXCEPT ![h] = IF @ = "pruned" THEN @ ELSE verdict[h]]
        /\ UNCHANGED faults
     \/ DbFault /\ UNCHANGED row
  /\ doing' = [g \in DOMAIN doing |-> IF doing[g] = h THEN NoHandle ELSE doing[g]]
  /\ UNCHANGED <<channels, targets, pc, live, verdict, result, collected, spawned, due,
                 cleanup, process, history>>

TimerFires(h) ==
  /\ h \in live \cap due
  /\ once[h] = "open"
  /\ Settle(h, "expired", Gathered(h))
  /\ UNCHANGED <<channels, routing, pc, live, collected, spawned, row, due, cleanup,
                 process, faults, history>>

\* the goroutine collectForReceive started
ResolveReceive(h) ==
  /\ h \in spawned
  /\ spawned' = spawned \ {h}
  /\ Settle(h, "resolved", collected[h])
  /\ UNCHANGED <<channels, routing, pc, live, collected, row, due, cleanup, process,
                 faults, history>>

-----------------------------------------------------------------------------
(* Inbound events.                                                         *)

\* the sync loop publishes an event; without a subscription nobody gets it
PublishInbound(e) ==
  LET t == TypeOf[e] IN
  /\ up
  /\ e \notin published
  /\ Cause[e] # NoHandle => pc[Cause[e]] # "new"
  /\ published' = published \cup {e}
  /\ \/ Channel!Offer(t, e)
     \/ phase[t] # "open" /\ UNCHANGED channels
  /\ log' = IF queue'[t] = queue[t] THEN log ELSE [log EXCEPT ![t] = Append(@, e)]
  /\ UNCHANGED <<routing, pc, handles, row, due, cleanup, process, faults, since>>

\* mutant: an event that resolves an ask is not offered to the receives
MatchedFirst(e) ==
  LET asks == {a \in live \cap Asks : <<a, e>> \in Matches /\ Echo[a] # e}
  IN  IF asks # {} THEN asks ELSE {v \in live \cap Receives : <<v, e>> \in Matches}

\* the handles in the maps that match e; an ask never matches its own message
Matched(e) ==
  {h \in live : <<h, e>> \in Matches /\ (h \in Asks => Echo[h] # e)}

\* mutant: the newest event is taken first
TakeNewest(t) ==
  /\ handling[t] = NoEvent
  /\ queue[t] # <<>>
  /\ handling' = [handling EXCEPT ![t] = Last(queue[t])]
  /\ queue' = [queue EXCEPT ![t] = Front(@)]
  /\ targets' = [targets EXCEPT ![t] = Matched(Last(queue[t]))]
  /\ UNCHANGED <<phase, doing, pc, handles, row, due, cleanup, process, faults, history>>

\* handleEvent collects the matches under the read lock
HandleEvent(t) ==
  /\ Channel!Take(t)
  /\ targets' = [targets EXCEPT ![t] = Matched(Head(queue[t]))]
  /\ UNCHANGED <<doing, pc, handles, row, due, cleanup, process, faults, history>>

DeliverToAsk(t, a) ==
  /\ doing[t] = NoHandle
  /\ a \in targets[t] \cap Asks
  /\ targets' = [targets EXCEPT ![t] = @ \ {a}]
  /\ EnterOnce(t, a)
  /\ Settle(a, "resolved", <<handling[t]>>)
  /\ UNCHANGED <<channels, pc, live, collected, spawned, row, due, cleanup, process,
                 faults, history>>

\* a limit of 0 is none
Full(v) == Limit[v] > 0 /\ Len(collected[v]) >= Limit[v]

\* mutant: the event stays among the matches
CollectTwice(t, v) ==
  /\ doing[t] = NoHandle
  /\ v \in targets[t]
  /\ targets[t] \cap Asks = {}
  /\ UNCHANGED targets
  /\ collected' = [collected EXCEPT ![v] = IF Full(v) THEN @ ELSE Append(@, handling[t])]
  /\ spawned' = IF ~Full(v) /\ Full(v)' THEN spawned \cup {v} ELSE spawned
  /\ UNCHANGED <<channels, doing, pc, live, once, verdict, result, row, due, cleanup,
                 process, faults, history>>

\* after the asks, the receives; the event that fills one starts its resolver
CollectForReceive(t, v) ==
  /\ doing[t] = NoHandle
  /\ v \in targets[t]
  /\ targets[t] \cap Asks = {}
  /\ targets' = [targets EXCEPT ![t] = @ \ {v}]
  /\ collected' = [collected EXCEPT ![v] = IF Full(v) THEN @ ELSE Append(@, handling[t])]
  /\ spawned' = IF ~Full(v) /\ Full(v)' THEN spawned \cup {v} ELSE spawned
  /\ UNCHANGED <<channels, doing, pc, live, once, verdict, result, row, due, cleanup,
                 process, faults, history>>

EventHandled(t) ==
  /\ doing[t] = NoHandle
  /\ targets[t] = {}
  /\ Channel!Return(t)
  /\ UNCHANGED <<routing, pc, handles, row, due, cleanup, process, faults, history>>

Dispatch(t) ==
  \/ HandleEvent(t) \/ EventHandled(t)
  \/ \E a \in Asks : DeliverToAsk(t, a)
  \/ \E v \in Receives : CollectForReceive(t, v)

-----------------------------------------------------------------------------
(* The cleanup goroutine, and the process.                                 *)

\* (a sweep that finds nothing past its deadline changes nothing)
SweepBegins ==
  /\ sweeping = "asleep"
  /\ \E h \in due : h \in live \/ row[h] = "pending"
  /\ sweeping' = "resolving"
  /\ expired' = live \cap due
  /\ sweepNow' = due
  /\ UNCHANGED <<channels, routing, pc, handles, row, due, process, faults, history>>

SweepExpires(h) ==
  /\ sweeping = "resolving"
  /\ doing[Sweeper] = NoHandle
  /\ h \in expired
  /\ expired' = expired \ {h}
  /\ EnterOnce(Sweeper, h)
  /\ Settle(h, "expired", Gathered(h))
  /\ UNCHANGED <<channels, targets, pc, live, collected, spawned, row, due, sweeping,
                 sweepNow, process, faults, history>>

\* mutant: the statement deletes terminal rows, as its comment says
DeletesTerminal(h) == row[h] \in {"resolved", "expired"}

\* mutant: the statement has no deadline
DeletesAny(h) == row[h] = "pending"

\* the WHERE clause of DeleteExpired
Deletes(h) == row[h] = "pending" /\ h \in sweepNow

SweepDeletes ==
  /\ sweeping = "resolving"
  /\ expired = {}
  /\ doing[Sweeper] = NoHandle
  /\ sweeping' = "asleep"
  /\ sweepNow' = {}
  /\ \/ /\ row' = [h \in Handles |-> IF Deletes(h) THEN "pruned" ELSE row[h]]
        /\ UNCHANGED faults
     \/ DbFault /\ UNCHANGED row
  /\ UNCHANGED <<channels, routing, pc, handles, due, expired, process, history>>

Sweep ==
  SweepBegins \/ SweepDeletes \/ \E h \in Handles : SweepExpires(h)

\* Start runs on a goroutine of its own: the API and the sync loops do not wait
Subscribe(t) ==
  /\ up
  /\ Channel!Open(t)
  /\ UNCHANGED <<routing, pc, handles, row, due, cleanup, process, faults, history>>

StartCleanup ==
  /\ up
  /\ sweeping = "off"
  /\ \A t \in Types : phase[t] = "open"
  /\ sweeping' = "asleep"
  /\ UNCHANGED <<channels, routing, pc, handles, row, due, expired, sweepNow, process,
                 faults, history>>

\* (the deadline of a row that is not pending is of no interest)
Deadline(h) ==
  /\ row[h] = "pending"
  /\ h \notin due
  /\ due' = due \cup {h}
  /\ UNCHANGED <<channels, routing, pc, handles, row, cleanup, process, faults, history>>

\* the process dies: calls and memory are lost, rows are not
Crash ==
  /\ up
  /\ up' = FALSE
  /\ phase' = Closed /\ queue' = Empty /\ handling' = Idle
  /\ targets' = [t \in Types |-> {}] /\ doing' = Free
  /\ live' = {} /\ spawned' = {}
  /\ sweeping' = "off" /\ expired' = {} /\ sweepNow' = {}
  /\ pc' = [h \in Handles |-> IF pc[h] \in Waiting THEN "lost" ELSE pc[h]]
  /\ once' = [h \in Handles |-> IF once[h] = "open" THEN "open" ELSE "done"]
  /\ UNCHANGED <<verdict, result, collected, row, due, boots, faults, history>>

Boot ==
  /\ ~up
  /\ boots < MaxBoots
  /\ up' = TRUE
  /\ boots' = boots + 1
  /\ UNCHANGED <<channels, routing, pc, handles, row, due, cleanup, faults, history>>

Call(h)  == InsertRow(h) \/ Activate(h) \/ WaitReturns(h)
Inside(h) == RemoveHandle(h) \/ Persist(h)

Next ==
  \/ \E a \in Asks : SendDirect(a)
  \/ \E h \in Handles :
       Call(h) \/ Cancel(h) \/ Inside(h) \/ TimerFires(h) \/ ResolveReceive(h) \/ Deadline(h)
  \/ \E e \in Events : PublishInbound(e)
  \/ \E t \in Types : Dispatch(t) \/ Subscribe(t)
  \/ Sweep \/ StartCleanup \/ Crash \/ Boot

Spec == Init /\ [][Next]_vars

\* Every goroutine goes on, handlers included: handleEvent blocks on nothing but
\* the map's lock and the database.  Deadlines pass, tickers tick.  No client has
\* to call or to give up, no event has to come, and nothing makes a process die.
FairSpec ==
  /\ Spec
  /\ \A h \in Handles : /\ WF_vars(Call(h)) /\ WF_vars(Inside(h)) /\ WF_vars(Deadline(h))
                        /\ WF_vars(TimerFires(h)) /\ WF_vars(ResolveReceive(h))
  /\ \A t \in Types : WF_vars(Dispatch(t)) /\ WF_vars(Subscribe(t))
  /\ WF_vars(Sweep) /\ WF_vars(StartCleanup) /\ WF_vars(Boot)

-----------------------------------------------------------------------------
(* Properties.                                                             *)

States == {"pending", "resolved", "expired"}

\* Every variable keeps its type.
TypeOK ==
  /\ phase \in [Types -> {"unmade", "open", "closed"}]
  /\ queue \in [Types -> Seq(Events)] /\ \A t \in Types : Len(queue[t]) <= Capacity
  /\ handling \in [Types -> Events \cup {NoEvent}]
  /\ targets \in [Types -> SUBSET Handles]
  /\ doing \in [Types \cup {Sweeper} -> Handles \cup {NoHandle}]
  /\ pc \in [Handles -> {"new"} \cup Waiting \cup Outcomes]
  /\ live \subseteq Handles /\ due \subseteq Handles /\ spawned \subseteq Receives
  /\ once \in [Handles -> {"open", "given", "removed", "done"}]
  /\ verdict \in [Handles -> {"none", "resolved", "expired"}]
  /\ result \in [Handles -> Seq(Events)]
  /\ collected \in [Receives -> Seq(Events)]
  /\ \A v \in Receives : Limit[v] > 0 => Len(collected[v]) <= Limit[v]
  /\ row \in [Handles -> {"none", "pruned"} \cup States]
  /\ sweeping \in {"off", "asleep", "resolving"}
  /\ expired \subseteq Handles /\ sweepNow \subseteq Handles
  /\ up \in BOOLEAN /\ boots \in 1 .. MaxBoots /\ faults \in 0 .. MaxFaults
  /\ published \subseteq Events /\ log \in [Types -> Seq(Events)]
  /\ since \in [Handles -> [Types -> Nat]]

Wants(h, e)  == <<h, e>> \in Matches /\ (h \in Asks => Echo[h] # e)
InHand(h, e) == handling[TypeOf[e]] = e /\ h \in targets[TypeOf[e]]

\* From the moment a handle is in the map until it is settled, no event its
\* filter wants is lost once the bus took it: it waits in the channel, it is on
\* its way to the handle, or the receive has it or is full.
NothingMissed ==
  \A h \in live : once[h] = "open" =>
    \A t \in Types : \A i \in since[h][t] + 1 .. Len(log[t]) :
      LET e == log[t][i] IN
      Wants(h, e) => \/ Contains(queue[t], e)
                     \/ InHand(h, e)
                     \/ h \in Receives /\ (Contains(collected[h], e) \/ Full(h))

\* An ask is answered by the first event of its type that it wants, among those
\* that were taken from the channel once it was in the map.
FirstMatchWins ==
  \A a \in Asks : result[a] # <<>> =>
    /\ Wants(a, result[a][1])
    /\ LET t == TypeOf[result[a][1]] IN
       \A i \in since[a][t] + 1 .. Len(log[t]) :
         (\E j \in i + 1 .. Len(log[t]) : log[t][j] = result[a][1]) => ~Wants(a, log[t][i])

\* Timer, sweep and events race for a handle, and all that is said of it agrees:
\* what the channel was given, what the client was told, what the row says.
OutcomeAgrees ==
  /\ \A h \in Handles :
       /\ row[h] \in {"resolved", "expired"} => row[h] = verdict[h]
       /\ pc[h] = "answered" => result[h] # <<>>
       /\ pc[h] = "timed_out" => result[h] = <<>> /\ verdict[h] = "expired"
  /\ \A a \in Asks : verdict[a] = "resolved" <=> result[a] # <<>>
  /\ \A v \in Receives : verdict[v] = "resolved" => Len(result[v]) = Limit[v]

\* A receive collects an event once and none past its limit, keeps each type in the
\* order of the bus, and returns what it had collected when its window closed.
CollectedSound ==
  \A v \in Receives :
    /\ Limit[v] > 0 => Len(collected[v]) <= Limit[v]
    /\ IsPrefix(result[v], collected[v])
    /\ \A i, j \in 1 .. Len(collected[v]) :
         LET t == TypeOf[collected[v][j]]
         IN  i < j /\ TypeOf[collected[v][i]] = t =>
               \E k, l \in 1 .. Len(log[t]) :
                 k < l /\ log[t][k] = collected[v][i] /\ log[t][l] = collected[v][j]

\* Whoever waits, waits for a step that nothing blocks.  A client waits for a handle
\* in the map or a result; a handle in the map for its removal or a deadline that is
\* armed, a full receive for its resolver; a goroutine that is inside a once, or waits
\* for it, for one that is not done; and one that is through holds nothing.
NobodyHangs ==
  /\ \A h \in Handles : pc[h] = "waiting" => h \in live \/ once[h] # "open"
  /\ \A h \in live : once[h] = "given" \/ (once[h] = "open" /\ (row[h] = "pending" \/ h \in due))
  /\ \A v \in live \cap Receives : once[v] = "open" /\ Full(v) => v \in spawned
  /\ \A g \in DOMAIN doing : doing[g] # NoHandle => once[doing[g]] \in {"given", "removed"}
  /\ \A t \in Types : handling[t] = NoEvent => targets[t] = {} /\ doing[t] = NoHandle
  /\ sweeping # "resolving" => expired = {} /\ doing[Sweeper] = NoHandle

\* what a client sees of its call
Seen == [h \in Handles |-> IF pc[h] \in Early THEN "coming" ELSE pc[h]]

\* The calls as their clients see them: see Waiting.
Promise == INSTANCE Waiting WITH
  Wanted <- {p \in Handles \X Events : Wants(p[1], p[2])},
  heard <- log,
  from <- since,
  call <- Seen,
  decision <- verdict,
  answer <- result,
  record <- row,
  overdue <- due

\* Whoever settles a handle, and whatever is cancelled, pruned or lost, the manager
\* implements Waiting: what a call is given are the first events it wants.  (A receive
\* comes back at its limit or its deadline, not at its first event.)
ImplementsWaiting == Promise!WaitingSpec

\* A client that stays gets its answer, whatever is or is not received.
CallsReturn == \A h \in Handles : pc[h] \in Waiting ~> pc[h] \notin Waiting

\* A handle leaves the map, also when its client is gone.
HandlesReleased == \A h \in Handles : h \in live ~> h \notin live

\* Once the process stays up, no row stays pending: neither that of a call a
\* crash has ended, nor one whose update failed.
RowsSettle ==
  <>[]up => \A h \in Handles : row[h] = "pending" ~> row[h] # "pending"
=============================================================================
