------------------------------ MODULE EventBus ------------------------------
(***************************************************************************)
(* LocalBus at the grain of its locks: publishers dispatch under the read  *)
(* lock, one channel send after the other; Subscribe and Unsubscribe take  *)
(* the write lock; each subscription has a goroutine that calls its        *)
(* handler.  The lock is Go's sync.RWMutex: one writer at a time announces *)
(* itself, new readers wait from then on, and it enters when the readers   *)
(* that were inside have left.                                             *)
(***************************************************************************)
EXTENDS Naturals, Sequences, FiniteSets

CONSTANTS
  Publishers,    \* goroutines that publish
  Subs,          \* subscriptions, each with an owner that may end it
  Types,         \* event types
  TypeOf,        \* TypeOf[s]: the type s subscribes to
  NoEvent,       \* no envelope
  NoSub,         \* no owner
  Capacity,      \* defaultChannelSize
  MaxPublishes   \* bound: MaxPublishes[p] is how often p calls Publish

ASSUME TypesAssumption == TypeOf \in [Subs -> Types]
ASSUME BusNamesAssumption == NoSub \notin Subs
ASSUME BoundAssumption == MaxPublishes \in [Publishers -> Nat]

\* an envelope: who published it, as its how many-eth, and its type
Events == UNION {{p} \X (1..MaxPublishes[p]) \X Types : p \in Publishers}

VARIABLES
  phase, queue, handling,  \* the channels and their goroutines: see EventChannel
  registered,  \* keys of subs, and of byType under their type
  readers,     \* publishers inside the read lock
  writer,      \* owner that announced itself to, or is inside, the write lock
  inside,      \* whether the writer is inside
  opc,         \* where each owner is: "out", "subscribing", "in", "leaving", "left"
  running,     \* subscriptions whose goroutine was started
  count,       \* Publish calls each publisher has begun
  current,     \* the envelope each publisher is dispatching
  todo,        \* subscriptions it has still to send it to
  log          \* events each handler was called with

channels == <<phase, queue, handling>>
lock     == <<readers, writer, inside>>
owners   == <<registered, opc, running>>
sending  == <<count, current, todo>>
vars     == <<channels, lock, owners, sending, log>>

ASSUME CapacityAssumption == Capacity \in Nat \ {0}
ASSUME NoEventAssumption == NoEvent \notin Events

Channel == INSTANCE EventChannel

TypeOK ==
  /\ phase \in [Subs -> {"unmade", "open", "closed"}]
  /\ queue \in [Subs -> Seq(Events)]
  /\ \A s \in Subs : Len(queue[s]) <= Capacity
  /\ handling \in [Subs -> Events \cup {NoEvent}]
  /\ registered \in SUBSET Subs
  /\ readers \in SUBSET Publishers
  /\ writer \in Subs \cup {NoSub}
  /\ inside \in BOOLEAN
  /\ opc \in [Subs -> {"out", "subscribing", "in", "leaving", "left"}]
  /\ running \in SUBSET Subs
  /\ count \in [Publishers -> Nat]
  /\ current \in [Publishers -> Events \cup {NoEvent}]
  /\ todo \in [Publishers -> SUBSET Subs]
  /\ log \in [Subs -> Seq(Events)]

Init ==
  /\ Channel!ChannelsInit
  /\ registered = {}
  /\ readers = {} /\ writer = NoSub /\ inside = FALSE
  /\ opc = [s \in Subs |-> "out"]
  /\ running = {}
  /\ count = [p \in Publishers |-> 0]
  /\ current = [p \in Publishers |-> NoEvent]
  /\ todo = [p \in Publishers |-> {}]
  /\ log = [s \in Subs |-> <<>>]

-----------------------------------------------------------------------------
(* Publish.                                                                *)

\* RLock; the loop's range is the list of that type, read under the lock
BeginPublish(p) ==
  /\ p \notin readers
  /\ writer = NoSub
  /\ count[p] < MaxPublishes[p]
  /\ readers' = readers \cup {p}
  /\ count' = [count EXCEPT ![p] = @ + 1]
  /\ \E t \in Types :
       /\ current' = [current EXCEPT ![p] = <<p, count[p] + 1, t>>]
       /\ todo' = [todo EXCEPT ![p] = {s \in registered : TypeOf[s] = t}]
  /\ UNCHANGED <<channels, writer, inside, owners, log>>

\* mutant: the send waits for room
SendWaiting(p, s) ==
  /\ s \in todo[p]
  /\ Len(queue[s]) < Capacity
  /\ Channel!Offer(s, current[p])
  /\ todo' = [todo EXCEPT ![p] = @ \ {s}]
  /\ UNCHANGED <<lock, owners, count, current, log>>

\* mutant: the buffer grows
SendUnbounded(p, s) ==
  /\ s \in todo[p]
  /\ queue' = [queue EXCEPT ![s] = Append(@, current[p])]
  /\ todo' = [todo EXCEPT ![p] = @ \ {s}]
  /\ UNCHANGED <<phase, handling, lock, owners, count, current, log>>

\* select with a default: send, or drop when the buffer is full
SendTo(p, s) ==
  /\ s \in todo[p]
  /\ Channel!Offer(s, current[p])
  /\ todo' = [todo EXCEPT ![p] = @ \ {s}]
  /\ UNCHANGED <<lock, owners, count, current, log>>

EndPublish(p) ==
  /\ p \in readers
  /\ todo[p] = {}
  /\ readers' = readers \ {p}
  /\ current' = [current EXCEPT ![p] = NoEvent]
  /\ UNCHANGED <<channels, writer, inside, owners, count, todo, log>>

Publish(p) == EndPublish(p) \/ \E s \in Subs : SendTo(p, s)

-----------------------------------------------------------------------------
(* Subscribe and Unsubscribe.  An owner may call Unsubscribe twice.        *)

RequestLock(s) ==
  /\ writer = NoSub
  /\ opc[s] \in {"out", "in", "left"}
  /\ opc[s] = "in" => s \in running
  /\ opc' = [opc EXCEPT ![s] = IF @ = "out" THEN "subscribing" ELSE "leaving"]
  /\ writer' = s
  /\ UNCHANGED <<channels, readers, inside, registered, running, sending, log>>

\* mutant: the writer does not wait for the readers
EnterAtOnce(s) ==
  /\ writer = s /\ ~inside
  /\ inside' = TRUE
  /\ UNCHANGED <<channels, readers, writer, owners, sending, log>>

EnterLock(s) ==
  /\ writer = s /\ ~inside
  /\ readers = {}
  /\ inside' = TRUE
  /\ UNCHANGED <<channels, readers, writer, owners, sending, log>>

Unlock == inside' = FALSE /\ writer' = NoSub

Subscribe(s) ==
  /\ writer = s /\ inside
  /\ opc[s] = "subscribing"
  /\ Channel!Open(s)
  /\ registered' = registered \cup {s}
  /\ opc' = [opc EXCEPT ![s] = "in"]
  /\ Unlock
  /\ UNCHANGED <<readers, running, sending, log>>

\* go runSubscriber, after the lock was released
StartRunner(s) ==
  /\ opc[s] = "in"
  /\ s \notin running
  /\ running' = running \cup {s}
  /\ UNCHANGED <<channels, lock, registered, opc, sending, log>>

\* a no-op when the id is not known
Unsubscribe(s) ==
  /\ writer = s /\ inside
  /\ opc[s] = "leaving"
  /\ \/ s \in registered /\ Channel!Close(s)
     \/ s \notin registered /\ UNCHANGED channels
  /\ registered' = registered \ {s}
  /\ opc' = [opc EXCEPT ![s] = "left"]
  /\ Unlock
  /\ UNCHANGED <<readers, running, sending, log>>

Own(s) == EnterLock(s) \/ Subscribe(s) \/ StartRunner(s) \/ Unsubscribe(s)

-----------------------------------------------------------------------------
(* runSubscriber.                                                          *)

\* mutant: one goroutine per event
TakeAny(s) ==
  /\ s \in running
  /\ handling[s] = NoEvent
  /\ \E i \in DOMAIN queue[s] :
       /\ handling' = [handling EXCEPT ![s] = queue[s][i]]
       /\ queue' = [queue EXCEPT ![s] =
                      SubSeq(@, 1, i - 1) \o SubSeq(@, i + 1, Len(@))]
       /\ log' = [log EXCEPT ![s] = Append(@, queue[s][i])]
  /\ UNCHANGED <<phase, lock, owners, sending>>

CallHandler(s) ==
  /\ s \in running
  /\ Channel!Take(s)
  /\ log' = [log EXCEPT ![s] = Append(@, Head(queue[s]))]
  /\ UNCHANGED <<lock, owners, sending>>

HandlerReturns(s) ==
  /\ Channel!Return(s)
  /\ UNCHANGED <<lock, owners, sending, log>>

Run(s) == CallHandler(s) \/ HandlerReturns(s)

Next ==
  \/ \E p \in Publishers : BeginPublish(p) \/ Publish(p)
  \/ \E s \in Subs : RequestLock(s) \/ Own(s) \/ Run(s)

Spec == Init /\ [][Next]_vars

\* Goroutines that are inside a call go on.  Handlers are not owed anything:
\* they may hang.  Nobody has to publish, subscribe or unsubscribe.
FairSpec ==
  /\ Spec
  /\ \A p \in Publishers : WF_vars(Publish(p))
  /\ \A s \in Subs : WF_vars(Own(s))

-----------------------------------------------------------------------------
(* Properties.                                                             *)

\* Whatever a publisher has still to send to is open: a channel is never
\* closed under a dispatch, which would be a panic in the publisher.
NoSendOnClosed == \A p \in Publishers : \A s \in todo[p] : phase[s] = "open"

\* the events that reached s, in the order in which its handler gets them
Seen(s) == log[s] \o queue[s]

\* A handler sees what one publisher published in the order of its calls and
\* never twice, with gaps only where the buffer was full; two publishers are
\* not ordered, and two subscribers may see their events in different orders.
PublisherOrder ==
  \A s \in Subs : \A i, j \in 1 .. Len(Seen(s)) :
    i < j /\ Seen(s)[i][1] = Seen(s)[j][1] => Seen(s)[i][2] < Seen(s)[j][2]

\* What makes it so: a publisher that has something to send is a reader, a
\* writer is inside only when there is none, and exactly the registered
\* channels are open.
LockHolds ==
  /\ inside => writer # NoSub /\ readers = {}
  /\ \A s \in Subs : opc[s] \in {"subscribing", "leaving"} <=> writer = s
  /\ \A p \in Publishers :
       /\ p \in readers => current[p] \in Events
       /\ todo[p] # {} => p \in readers
       /\ todo[p] \subseteq registered
  /\ \A s \in Subs :
       /\ phase[s] = "open" <=> s \in registered
       /\ phase[s] = "unmade" <=> opc[s] \in {"out", "subscribing"}

IInv == TypeOK /\ LockHolds

\* Each subscription is a bounded FIFO that outlives its registration: see
\* EventChannel.
ImplementsChannels == Channel!ChannelsSpec

\* A hung handler never blocks the others: a Publish call returns, and so does
\* the owner of any subscription, although no handler ever returns.
CallersReturn ==
  /\ \A p \in Publishers : p \in readers ~> p \notin readers
  /\ \A s \in Subs : writer = s ~> writer # s
=============================================================================
