-------------------------- MODULE CorrelationProofs --------------------------
(***************************************************************************)
(* For any number of asks, receives, events, types, restarts and failing   *)
(* statements: result, answer and row agree whoever wins the once, no      *)
(* event is missed, an ask is answered by its first match, a receive keeps *)
(* the order of each type, and the manager implements Waiting.             *)
(*                                                                         *)
(* OutcomeAgrees is nearly inductive.  The others rest on where the events *)
(* of a type are: the log is what was taken, the event in hand and the     *)
(* channel, in this order, and what was taken has reached its handles.     *)
(* The refinement adds where each call is between its handler, the map and *)
(* its row (PlacedInv), and that whatever a handle holds is what it was to *)
(* be given first (GatherInv).                                             *)
(***************************************************************************)
EXTENDS Correlation, SequenceTheorems, TLAPS

USE DEF Handles

-----------------------------------------------------------------------------
(* Types, part by part.                                                    *)

ChannelTypes ==
  /\ phase \in [Types -> {"unmade", "open", "closed"}]
  /\ queue \in [Types -> Seq(Events)] /\ \A t \in Types : Len(queue[t]) <= Capacity
  /\ handling \in [Types -> Events \cup {NoEvent}]
  /\ published \subseteq Events /\ log \in [Types -> Seq(Events)]

CallTypes ==
  /\ pc \in [Handles -> {"new"} \cup Waiting \cup Outcomes]
  /\ row \in [Handles -> {"none", "pruned"} \cup States]
  /\ since \in [Handles -> [Types -> Nat]]
  /\ up \in BOOLEAN /\ boots \in 1 .. MaxBoots /\ faults \in 0 .. MaxFaults

HandleTypes ==
  /\ live \subseteq Handles /\ due \subseteq Handles /\ spawned \subseteq Receives
  /\ once \in [Handles -> {"open", "given", "removed", "done"}]
  /\ verdict \in [Handles -> {"none", "resolved", "expired"}]
  /\ result \in [Handles -> Seq(Events)]
  /\ collected \in [Receives -> Seq(Events)]
  /\ \A v \in Receives : Limit[v] > 0 => Len(collected[v]) <= Limit[v]

RouteTypes ==
  /\ targets \in [Types -> SUBSET Handles]
  /\ doing \in [Types \cup {Sweeper} -> Handles \cup {NoHandle}]
  /\ sweeping \in {"off", "asleep", "resolving"}
  /\ expired \subseteq Handles /\ sweepNow \subseteq Handles

LEMMA TypeParts == TypeOK <=> ChannelTypes /\ CallTypes /\ HandleTypes /\ RouteTypes
  BY DEF TypeOK, ChannelTypes, CallTypes, HandleTypes, RouteTypes

LEMMA InitTypeOK == Init => TypeOK
<1> SUFFICES ASSUME Init PROVE TypeOK
  OBVIOUS
<1> USE DEF Init, Closed, Empty, Idle, Free
<1>1. <<>> \in Seq(Events) /\ Len(<<>>) = 0
  OBVIOUS
<1>2. ChannelTypes
  <2>1. queue \in [Types -> Seq(Events)] /\ log \in [Types -> Seq(Events)]
    BY <1>1
  <2>2. \A t \in Types : Len(queue[t]) <= Capacity
    BY <1>1, BoundsAssumption
  <2> QED
    BY <2>1, <2>2 DEF ChannelTypes
<1>3. CallTypes
  BY BoundsAssumption DEF CallTypes
<1>4. HandleTypes
  <2>1. result \in [Handles -> Seq(Events)] /\ collected \in [Receives -> Seq(Events)]
    BY <1>1
  <2>2. \A v \in Receives : Len(collected[v]) = 0 /\ Limit[v] \in Nat
    BY <1>1, LimitAssumption
  <2> QED
    BY <2>1, <2>2 DEF HandleTypes
<1>5. RouteTypes
  BY DEF RouteTypes
<1> QED
  BY <1>2, <1>3, <1>4, <1>5, TypeParts

\* the bounded channel of a type
LEMMA OfferGrows ==
  ASSUME ChannelTypes, NEW t \in Types, NEW e \in Events, Channel!Offer(t, e)
  PROVE  /\ queue' = IF Len(queue[t]) < Capacity
                     THEN [queue EXCEPT ![t] = Append(queue[t], e)] ELSE queue
         /\ queue' \in [Types -> Seq(Events)]
         /\ \A s \in Types : Len(queue'[s]) <= Capacity
         /\ UNCHANGED <<phase, handling>>
<1>1. queue[t] \in Seq(Events) /\ Capacity \in Nat
  BY BoundsAssumption DEF ChannelTypes
<1>2. Append(queue[t], e) \in Seq(Events) /\ Len(Append(queue[t], e)) = Len(queue[t]) + 1
  BY <1>1
<1>3. CASE Len(queue[t]) < Capacity
  BY <1>1, <1>2, <1>3 DEF Channel!Offer, ChannelTypes
<1>4. CASE ~(Len(queue[t]) < Capacity)
  BY <1>4 DEF Channel!Offer, ChannelTypes
<1> QED
  BY <1>3, <1>4

LEMMA TakeShrinks ==
  ASSUME ChannelTypes, NEW t \in Types, Channel!Take(t)
  PROVE  /\ queue[t] \in Seq(Events) /\ Len(queue[t]) > 0
         /\ Head(queue[t]) \in Events /\ Head(queue[t]) = queue[t][1]
         /\ queue' = [queue EXCEPT ![t] = Tail(queue[t])]
         /\ Tail(queue[t]) \in Seq(Events) /\ Len(Tail(queue[t])) = Len(queue[t]) - 1
         /\ \A k \in 1 .. Len(Tail(queue[t])) : Tail(queue[t])[k] = queue[t][k + 1]
         /\ handling[t] = NoEvent /\ handling' = [handling EXCEPT ![t] = Head(queue[t])]
         /\ phase' = phase
<1>1. queue[t] \in Seq(Events) /\ queue[t] # <<>>
  BY DEF ChannelTypes, Channel!Take
<1>2. /\ Len(queue[t]) > 0
      /\ Head(queue[t]) \in Events /\ Head(queue[t]) = queue[t][1]
      /\ Tail(queue[t]) \in Seq(Events) /\ Len(Tail(queue[t])) = Len(queue[t]) - 1
      /\ \A k \in 1 .. Len(Tail(queue[t])) : Tail(queue[t])[k] = queue[t][k + 1]
  BY <1>1
<1> QED
  BY <1>1, <1>2 DEF Channel!Take

-----------------------------------------------------------------------------
(* Which steps change what.                                                *)

chan   == <<phase, queue, handling, published, log>>
settle == <<live, once, verdict, result, collected, spawned>>

LEMMA ChannelSteps ==
  ASSUME [Next]_vars
  PROVE  \/ UNCHANGED chan
         \/ \E e \in Events : PublishInbound(e)
         \/ \E t \in Types : HandleEvent(t) \/ EventHandled(t) \/ Subscribe(t)
         \/ Crash
<1> USE DEF chan, channels, history
<1>1. CASE UNCHANGED vars
  BY <1>1 DEF vars
<1>2. ASSUME NEW h \in Handles, SendDirect(h) \/ InsertRow(h) \/ Activate(h) \/ WaitReturns(h) \/ Cancel(h)
      PROVE  UNCHANGED chan
  BY <1>2 DEF SendDirect, InsertRow, Activate, WaitReturns, Cancel
<1>3. ASSUME NEW h \in Handles,
             RemoveHandle(h) \/ Persist(h) \/ TimerFires(h) \/ ResolveReceive(h) \/ Deadline(h)
      PROVE  UNCHANGED chan
  BY <1>3 DEF RemoveHandle, Persist, TimerFires, ResolveReceive, Deadline
<1>4. ASSUME NEW t \in Types, NEW h \in Handles, DeliverToAsk(t, h) \/ CollectForReceive(t, h)
      PROVE  UNCHANGED chan
  BY <1>4 DEF DeliverToAsk, CollectForReceive
<1>5. ASSUME Sweep \/ StartCleanup \/ Boot PROVE UNCHANGED chan
  BY <1>5 DEF Sweep, SweepBegins, SweepExpires, SweepDeletes, StartCleanup, Boot
<1> QED
  BY <1>1, <1>2, <1>3, <1>4, <1>5 DEF Next, Call, Inside, Dispatch

LEMMA HandleSteps ==
  ASSUME [Next]_vars
  PROVE  \/ UNCHANGED settle
         \/ \E h \in Handles : Activate(h) \/ RemoveHandle(h) \/ Persist(h) \/ TimerFires(h)
                               \/ ResolveReceive(h) \/ SweepExpires(h)
         \/ \E t \in Types : \/ \E a \in Asks : DeliverToAsk(t, a)
                             \/ \E v \in Receives : CollectForReceive(t, v)
         \/ Crash
<1> USE DEF settle, handles
<1>1. CASE UNCHANGED vars
  BY <1>1 DEF vars
<1>2. ASSUME NEW h \in Handles, SendDirect(h) \/ InsertRow(h) \/ WaitReturns(h) \/ Cancel(h) \/ Deadline(h)
      PROVE  UNCHANGED settle
  BY <1>2 DEF SendDirect, InsertRow, WaitReturns, Cancel, Deadline
<1>3. ASSUME NEW e \in Events, PublishInbound(e) PROVE UNCHANGED settle
  BY <1>3 DEF PublishInbound
<1>4. ASSUME NEW t \in Types, HandleEvent(t) \/ EventHandled(t) \/ Subscribe(t)
      PROVE  UNCHANGED settle
  BY <1>4 DEF HandleEvent, EventHandled, Subscribe
<1>5. ASSUME SweepBegins \/ SweepDeletes \/ StartCleanup \/ Boot PROVE UNCHANGED settle
  BY <1>5 DEF SweepBegins, SweepDeletes, StartCleanup, Boot
<1> QED
  BY <1>1, <1>2, <1>3, <1>4, <1>5 DEF Next, Call, Inside, Dispatch, Sweep

-----------------------------------------------------------------------------
(* Type correctness.                                                       *)

\* what publishing an event does to the channel of its type and to the log
LEMMA PublishedWhere ==
  ASSUME ChannelTypes, NEW e \in Events, PublishInbound(e)
  PROVE  LET t == TypeOf[e] IN
         /\ t \in Types
         /\ \/ /\ queue' = [queue EXCEPT ![t] = Append(queue[t], e)]
               /\ log' = [log EXCEPT ![t] = Append(log[t], e)]
            \/ queue' = queue /\ log' = log
         /\ queue' \in [Types -> Seq(Events)]
         /\ \A s \in Types : Len(queue'[s]) <= Capacity
         /\ UNCHANGED <<phase, handling>>
         /\ published' = published \cup {e} /\ e \notin published
<1> DEFINE t == TypeOf[e]
<1>1. t \in Types
  BY EventsAssumption
<1>2. queue[t] \in Seq(Events)
  BY <1>1 DEF ChannelTypes
<1>3. /\ published' = published \cup {e} /\ e \notin published
      /\ Channel!Offer(t, e) \/ (phase[t] # "open" /\ UNCHANGED channels)
      /\ log' = IF queue'[t] = queue[t] THEN log ELSE [log EXCEPT ![t] = Append(log[t], e)]
  <2>1. published' = published \cup {e} /\ e \notin published
    BY DEF PublishInbound
  <2>2. Channel!Offer(t, e) \/ (phase[t] # "open" /\ UNCHANGED channels)
    BY DEF PublishInbound
  <2>3. log' = IF queue'[t] = queue[t] THEN log ELSE [log EXCEPT ![t] = Append(log[t], e)]
    BY DEF PublishInbound
  <2> QED
    BY <2>1, <2>2, <2>3
<1> HIDE DEF t
<1>4. CASE UNCHANGED channels
  BY <1>1, <1>3, <1>4 DEF channels, ChannelTypes, t
<1>5. CASE Channel!Offer(t, e)
  <2>1. Append(queue[t], e) # queue[t]
    <3>1. Len(Append(queue[t], e)) = Len(queue[t]) + 1 /\ Len(queue[t]) \in Nat
      BY <1>2
    <3> QED
      BY <3>1
  <2>2. CASE Len(queue[t]) < Capacity
    <3>1. queue' = [queue EXCEPT ![t] = Append(queue[t], e)]
      BY <1>1, <1>5, <2>2, OfferGrows
    <3>2. queue'[t] = Append(queue[t], e)
      BY <1>1, <3>1 DEF ChannelTypes
    <3> QED
      BY <1>1, <1>3, <1>5, <2>1, <3>1, <3>2, OfferGrows DEF t
  <2>3. CASE ~(Len(queue[t]) < Capacity)
    BY <1>1, <1>3, <1>5, <2>3, OfferGrows DEF t
  <2> QED
    BY <2>2, <2>3
<1> QED
  BY <1>3, <1>4, <1>5

LEMMA ChannelTypesStep == ChannelTypes /\ [Next]_vars => ChannelTypes'
<1> SUFFICES ASSUME ChannelTypes, [Next]_vars PROVE ChannelTypes'
  OBVIOUS
<1>1. CASE UNCHANGED chan
  BY <1>1 DEF chan, ChannelTypes
<1>2. ASSUME NEW e \in Events, PublishInbound(e) PROVE ChannelTypes'
  <2>1. log' \in [Types -> Seq(Events)]
    <3>1. TypeOf[e] \in Types /\ Append(log[TypeOf[e]], e) \in Seq(Events)
      BY <1>2, PublishedWhere DEF ChannelTypes
    <3>2. log' = [log EXCEPT ![TypeOf[e]] = Append(log[TypeOf[e]], e)] \/ log' = log
      BY <1>2, PublishedWhere
    <3> QED
      BY <3>1, <3>2 DEF ChannelTypes
  <2> QED
    BY <1>2, <2>1, PublishedWhere DEF ChannelTypes
<1>3. ASSUME NEW t \in Types, HandleEvent(t) PROVE ChannelTypes'
  <2>1. Channel!Take(t) /\ UNCHANGED <<published, log>>
    BY <1>3 DEF HandleEvent, history
  <2>2. /\ queue' = [queue EXCEPT ![t] = Tail(queue[t])]
        /\ handling' = [handling EXCEPT ![t] = Head(queue[t])]
        /\ Head(queue[t]) \in Events /\ Tail(queue[t]) \in Seq(Events) /\ phase' = phase
        /\ Len(Tail(queue[t])) = Len(queue[t]) - 1
    BY <2>1, TakeShrinks
  <2>3. Len(queue[t]) \in Nat /\ Capacity \in Nat
    BY BoundsAssumption DEF ChannelTypes
  <2>4. \A s \in Types : Len(queue'[s]) <= Capacity
    BY <2>2, <2>3 DEF ChannelTypes
  <2> QED
    BY <2>1, <2>2, <2>4 DEF ChannelTypes
<1>4. ASSUME NEW t \in Types, EventHandled(t) PROVE ChannelTypes'
  BY <1>4 DEF EventHandled, Channel!Return, history, ChannelTypes
<1>5. ASSUME NEW t \in Types, Subscribe(t) PROVE ChannelTypes'
  BY <1>5 DEF Subscribe, Channel!Open, history, ChannelTypes
<1>6. CASE Crash
  <2>1. queue' \in [Types -> Seq(Events)] /\ \A t \in Types : Len(queue'[t]) = 0
    BY <1>6 DEF Crash, Empty
  <2>2. \A t \in Types : Len(queue'[t]) <= Capacity
    BY <2>1, BoundsAssumption
  <2> QED
    BY <1>6, <2>1, <2>2 DEF Crash, Closed, Idle, history, ChannelTypes
<1> QED
  BY <1>1, <1>2, <1>3, <1>4, <1>5, <1>6, ChannelSteps

-----------------------------------------------------------------------------
(* Where the events of a type are.                                         *)

\* how many events of the log the manager's goroutine has taken
Taken(t) == Len(log[t]) - Len(queue[t])

\* The log repeats nothing; its end is in the channel and the event before that in
\* hand.
LogOf(t) ==
  /\ Len(queue[t]) <= Len(log[t])
  /\ \A i \in 1 .. Len(log[t]) : log[t][i] \in published /\ TypeOf[log[t][i]] = t
  /\ \A i, j \in 1 .. Len(log[t]) : log[t][i] = log[t][j] => i = j
  /\ \A k \in 1 .. Len(queue[t]) : queue[t][k] = log[t][Taken(t) + k]
  /\ handling[t] # NoEvent => Taken(t) >= 1 /\ handling[t] = log[t][Taken(t)]

LogInv == \A t \in Types : LogOf(t)

LEMMA InitLog == Init => LogInv
<1> SUFFICES ASSUME Init, NEW t \in Types PROVE LogOf(t)
  BY DEF LogInv
<1>1. log[t] = <<>> /\ queue[t] = <<>> /\ handling[t] = NoEvent
  BY DEF Init, Empty, Idle
<1>2. Len(log[t]) = 0 /\ Len(queue[t]) = 0
  BY <1>1
<1> QED
  BY <1>1, <1>2 DEF LogOf

LEMMA LogFrame ==
  ASSUME NEW t \in Types, LogOf(t), log'[t] = log[t], queue'[t] = queue[t],
         handling'[t] = handling[t] \/ handling'[t] = NoEvent, published \subseteq published'
  PROVE  LogOf(t)'
<1>1. Taken(t)' = Taken(t)
  BY DEF Taken
<1> QED
  BY <1>1 DEF LogOf

\* a published event goes to the end of both
LEMMA LogPublished ==
  ASSUME ChannelTypes, LogInv, NEW e \in Events, PublishInbound(e)
  PROVE  LogInv'
<1> DEFINE t == TypeOf[e]
<1>1. /\ t \in Types
      /\ \/ /\ queue' = [queue EXCEPT ![t] = Append(queue[t], e)]
            /\ log' = [log EXCEPT ![t] = Append(log[t], e)]
         \/ queue' = queue /\ log' = log
      /\ handling' = handling /\ published' = published \cup {e} /\ e \notin published
  BY PublishedWhere
<1>2. log \in [Types -> Seq(Events)] /\ queue \in [Types -> Seq(Events)]
  BY DEF ChannelTypes
<1>3. TypeOf[e] = t
  OBVIOUS
<1> HIDE DEF t
<1>4. SUFFICES ASSUME NEW s \in Types PROVE LogOf(s)'
  BY DEF LogInv
<1>5. LogOf(s)
  BY DEF LogInv
<1>6. CASE log'[s] = log[s] /\ queue'[s] = queue[s]
  BY <1>1, <1>5, <1>6, LogFrame
<1>7. CASE s = t /\ queue' = [queue EXCEPT ![t] = Append(queue[t], e)]
                 /\ log' = [log EXCEPT ![t] = Append(log[t], e)]
  <2> DEFINE n == Len(log[t])
             m == Len(queue[t])
  <2>1. /\ n \in Nat /\ m \in Nat /\ m <= n
        /\ log[t] \in Seq(Events) /\ queue[t] \in Seq(Events)
    BY <1>1, <1>2, <1>5, <1>7 DEF LogOf
  <2> HIDE DEF n, m
  <2>2. /\ Len(log'[t]) = n + 1 /\ log'[t][n + 1] = e
        /\ \A i \in 1 .. n : log'[t][i] = log[t][i]
    BY <1>1, <1>2, <1>7, <2>1 DEF n, m
  <2>3. /\ Len(queue'[t]) = m + 1 /\ queue'[t][m + 1] = e
        /\ \A k \in 1 .. m : queue'[t][k] = queue[t][k]
    BY <1>1, <1>2, <1>7, <2>1 DEF n, m
  <2>4. Taken(t) = n - m /\ Taken(t)' = n - m
    BY <2>1, <2>2, <2>3 DEF Taken, n, m
  <2>5. \A i \in 1 .. n : log[t][i] \in published /\ TypeOf[log[t][i]] = t
    BY <1>5, <1>7 DEF LogOf, n
  <2>6. \A i \in 1 .. n + 1 : log'[t][i] \in published' /\ TypeOf[log'[t][i]] = t
    BY <1>1, <1>3, <2>1, <2>2, <2>5
  <2>7. \A i, j \in 1 .. n + 1 : log'[t][i] = log'[t][j] => i = j
    BY <1>1, <1>5, <1>7, <2>1, <2>2, <2>5 DEF LogOf, n
  <2>8. \A k \in 1 .. m + 1 : queue'[t][k] = log'[t][n - m + k]
    <3>1. \A k \in 1 .. m : queue[t][k] = log[t][n - m + k]
      BY <1>5, <1>7, <2>4 DEF LogOf, m
    <3>2. \A k \in 1 .. m : n - m + k \in 1 .. n
      BY <2>1
    <3>3. \A k \in 1 .. m : queue'[t][k] = log'[t][n - m + k]
      BY <2>2, <2>3, <3>1, <3>2
    <3>4. n - m + (m + 1) = n + 1
      BY <2>1
    <3> QED
      BY <2>1, <2>2, <2>3, <3>3, <3>4
  <2>9. handling'[t] # NoEvent => n - m >= 1 /\ handling'[t] = log'[t][n - m]
    <3>1. handling[t] # NoEvent => n - m >= 1 /\ handling[t] = log[t][n - m]
      BY <1>5, <1>7, <2>4 DEF LogOf, m
    <3> QED
      BY <1>1, <2>1, <2>2, <3>1
  <2> QED
    <3>1. n - m \in Int /\ m + 1 <= n + 1
      BY <2>1
    <3>2. /\ \A i \in 1 .. Len(log'[t]) : log'[t][i] \in published' /\ TypeOf[log'[t][i]] = t
          /\ \A i, j \in 1 .. Len(log'[t]) : log'[t][i] = log'[t][j] => i = j
      BY <2>2, <2>6, <2>7
    <3>3. /\ \A k \in 1 .. Len(queue'[t]) : queue'[t][k] = log'[t][Taken(t)' + k]
          /\ handling'[t] # NoEvent => Taken(t)' >= 1 /\ handling'[t] = log'[t][Taken(t)']
      BY <2>3, <2>4, <2>8, <2>9
    <3>4. Len(queue'[t]) <= Len(log'[t])
      BY <2>2, <2>3, <3>1
    <3>5. LogOf(t)'
      BY <3>2, <3>3, <3>4 DEF LogOf
    <3> QED
      BY <1>7, <3>5
<1> QED
  BY <1>1, <1>2, <1>6, <1>7

\* the goroutine takes the event after the last it took
LEMMA LogTaken ==
  ASSUME ChannelTypes, LogInv, NEW t \in Types, HandleEvent(t)
  PROVE  /\ LogInv'
         /\ Taken(t)' = Taken(t) + 1 /\ Taken(t) \in Nat /\ Taken(t)' <= Len(log[t])
         /\ \A s \in Types \ {t} : Taken(s)' = Taken(s)
         /\ Head(queue[t]) = log[t][Taken(t) + 1]
         /\ log' = log
<1>1. /\ queue[t] \in Seq(Events) /\ Len(queue[t]) > 0
      /\ Head(queue[t]) \in Events /\ Head(queue[t]) = queue[t][1]
      /\ queue' = [queue EXCEPT ![t] = Tail(queue[t])]
      /\ Len(Tail(queue[t])) = Len(queue[t]) - 1
      /\ \A k \in 1 .. Len(Tail(queue[t])) : Tail(queue[t])[k] = queue[t][k + 1]
      /\ handling' = [handling EXCEPT ![t] = Head(queue[t])]
      /\ published' = published /\ log' = log
  BY TakeShrinks DEF HandleEvent, history
<1>2. log \in [Types -> Seq(Events)] /\ queue \in [Types -> Seq(Events)]
      /\ handling \in [Types -> Events \cup {NoEvent}]
  BY DEF ChannelTypes
<1> DEFINE n == Len(log[t])
           m == Len(queue[t])
<1>3. n \in Nat /\ m \in Nat /\ m <= n /\ m > 0 /\ LogOf(t)
  BY <1>1, <1>2 DEF LogInv, LogOf
<1> HIDE DEF n, m
<1>4. /\ Len(queue'[t]) = m - 1 /\ \A k \in 1 .. m - 1 : queue'[t][k] = queue[t][k + 1]
      /\ handling'[t] = queue[t][1] /\ log'[t] = log[t]
  BY <1>1, <1>2 DEF n, m
<1>5. Taken(t) = n - m /\ Taken(t)' = n - m + 1
  BY <1>3, <1>4 DEF Taken, n, m
<1>6. \A k \in 1 .. m : queue[t][k] = log[t][n - m + k]
  BY <1>3, <1>5 DEF LogOf, m
<1>7. LogOf(t)'
  <2>1. \A k \in 1 .. m - 1 : queue'[t][k] = log[t][n - m + 1 + k]
    <3> TAKE k \in 1 .. m - 1
    <3>1. k + 1 \in 1 .. m /\ n - m + (k + 1) = n - m + 1 + k
      BY <1>3
    <3> QED
      BY <1>4, <1>6, <3>1
  <2>2. handling'[t] = log[t][n - m + 1]
    <3>1. 1 \in 1 .. m
      BY <1>3
    <3> QED
      BY <1>4, <1>6, <3>1
  <2>3. /\ \A i \in 1 .. n : log[t][i] \in published /\ TypeOf[log[t][i]] = t
        /\ \A i, j \in 1 .. n : log[t][i] = log[t][j] => i = j
    BY <1>3 DEF LogOf, n
  <2>4. n - m + 1 >= 1 /\ m - 1 <= n /\ Len(log[t]) = n
    BY <1>3 DEF n
  <2> QED
    BY <1>1, <1>4, <1>5, <2>1, <2>2, <2>3, <2>4 DEF LogOf
<1>8. ASSUME NEW s \in Types \ {t} PROVE LogOf(s)' /\ Taken(s)' = Taken(s)
  <2>1. log'[s] = log[s] /\ queue'[s] = queue[s] /\ handling'[s] = handling[s]
    BY <1>1, <1>2
  <2> QED
    BY <1>1, <2>1, LogFrame DEF LogInv, Taken
<1>9. Head(queue[t]) = log[t][n - m + 1]
  BY <1>1, <1>3, <1>6
<1> QED
  BY <1>1, <1>3, <1>5, <1>7, <1>8, <1>9 DEF LogInv, n

LEMMA LogStep == ChannelTypes /\ LogInv /\ [Next]_vars => LogInv'
<1> SUFFICES ASSUME ChannelTypes, LogInv, [Next]_vars PROVE LogInv'
  OBVIOUS
<1>1. ASSUME UNCHANGED <<queue, log, published>>,
             \A t \in Types : handling'[t] = handling[t] \/ handling'[t] = NoEvent
      PROVE  LogInv'
  BY <1>1, LogFrame DEF LogInv
<1>2. CASE UNCHANGED chan
  BY <1>1, <1>2 DEF chan
<1>3. ASSUME NEW t \in Types, EventHandled(t) \/ Subscribe(t) PROVE LogInv'
  BY <1>1, <1>3 DEF EventHandled, Subscribe, Channel!Return, Channel!Open, history, ChannelTypes
<1>4. CASE Crash
  <2>1. /\ \A t \in Types : queue'[t] = <<>> /\ handling'[t] = NoEvent
        /\ log' = log /\ published' = published
    BY <1>4 DEF Crash, Empty, Idle, history
  <2>2. ASSUME NEW t \in Types PROVE LogOf(t)'
    <3>1. Len(queue'[t]) = 0 /\ Len(log[t]) \in Nat
      BY <2>1 DEF ChannelTypes
    <3> QED
      BY <2>1, <3>1 DEF LogInv, LogOf
  <2> QED
    BY <2>2 DEF LogInv
<1> QED
  BY <1>2, <1>3, <1>4, LogPublished, LogTaken, ChannelSteps

\* the log only grows
LEMMA LogKeeps ==
  ASSUME ChannelTypes, [Next]_vars, NEW t \in Types
  PROVE  /\ log[t] \in Seq(Events) /\ log'[t] \in Seq(Events)
         /\ Len(log'[t]) >= Len(log[t])
         /\ \A i \in 1 .. Len(log[t]) : log'[t][i] = log[t][i]
<1>1. log[t] \in Seq(Events)
  BY DEF ChannelTypes
<1>2. CASE log' = log
  BY <1>1, <1>2
<1>3. ASSUME NEW e \in Events, log' = [log EXCEPT ![TypeOf[e]] = Append(log[TypeOf[e]], e)]
      PROVE  /\ log'[t] \in Seq(Events)
             /\ Len(log'[t]) >= Len(log[t])
             /\ \A i \in 1 .. Len(log[t]) : log'[t][i] = log[t][i]
  <2>1. log'[t] = log[t] \/ log'[t] = Append(log[t], e)
    BY <1>3 DEF ChannelTypes
  <2>2. /\ Append(log[t], e) \in Seq(Events) /\ Len(log[t]) \in Nat
        /\ Len(Append(log[t], e)) = Len(log[t]) + 1
        /\ \A i \in 1 .. Len(log[t]) : Append(log[t], e)[i] = log[t][i]
    BY <1>1
  <2>3. CASE log'[t] = log[t]
    BY <1>1, <2>2, <2>3
  <2>4. CASE log'[t] = Append(log[t], e)
    BY <2>2, <2>4
  <2> QED
    BY <2>1, <2>3, <2>4
<1>4. ASSUME NEW e \in Events, PublishInbound(e)
      PROVE  log' = log \/ log' = [log EXCEPT ![TypeOf[e]] = Append(log[TypeOf[e]], e)]
  BY <1>4, PublishedWhere
<1>5. log' = log \/ \E e \in Events : PublishInbound(e)
  BY ChannelSteps DEF chan, HandleEvent, EventHandled, Subscribe, Crash, history
<1> QED
  BY <1>1, <1>2, <1>3, <1>4, <1>5

LEMMA TakenType ==
  ASSUME ChannelTypes, LogInv, NEW t \in Types
  PROVE  Taken(t) \in Nat /\ Taken(t) <= Len(log[t]) /\ Len(log[t]) \in Nat
<1> DEFINE n == Len(log[t])
           m == Len(queue[t])
<1>1. n \in Nat /\ m \in Nat /\ m <= n
  BY DEF ChannelTypes, LogInv, LogOf
<1>2. Taken(t) = n - m
  BY DEF Taken
<1> HIDE DEF n, m
<1>3. n - m \in Nat /\ n - m <= n
  BY <1>1
<1> QED
  BY <1>1, <1>2, <1>3 DEF n

LEMMA PublishedTaken ==
  ASSUME ChannelTypes, LogInv, NEW e \in Events, PublishInbound(e), NEW t \in Types
  PROVE  Taken(t)' = Taken(t)
<1>1. /\ log[t] \in Seq(Events) /\ queue[t] \in Seq(Events)
      /\ TypeOf[e] \in Types
      /\ \/ /\ queue' = [queue EXCEPT ![TypeOf[e]] = Append(queue[TypeOf[e]], e)]
            /\ log' = [log EXCEPT ![TypeOf[e]] = Append(log[TypeOf[e]], e)]
         \/ queue' = queue /\ log' = log
  BY PublishedWhere DEF ChannelTypes
<1>2. \/ queue'[t] = Append(queue[t], e) /\ log'[t] = Append(log[t], e)
      \/ queue'[t] = queue[t] /\ log'[t] = log[t]
  <2>1. log \in [Types -> Seq(Events)] /\ queue \in [Types -> Seq(Events)]
    BY DEF ChannelTypes
  <2> QED
    BY <1>1, <2>1
<1>3. /\ Len(Append(queue[t], e)) = Len(queue[t]) + 1 /\ Len(queue[t]) \in Nat
      /\ Len(Append(log[t], e)) = Len(log[t]) + 1 /\ Len(log[t]) \in Nat
  BY <1>1
<1> DEFINE n == Len(log[t])
           m == Len(queue[t])
<1>4. n \in Nat /\ m \in Nat /\ Taken(t) = n - m
  BY <1>3 DEF Taken
<1>5. Taken(t)' = (n + 1) - (m + 1) \/ Taken(t)' = n - m
  BY <1>2, <1>3 DEF Taken
<1> HIDE DEF n, m
<1>6. (n + 1) - (m + 1) = n - m
  BY <1>4
<1> QED
  BY <1>4, <1>5, <1>6

-----------------------------------------------------------------------------
(* The types of the calls, the handles and the routes.                     *)

LEMMA CallTypesStep ==
  CallTypes /\ HandleTypes /\ ChannelTypes /\ LogInv /\ [Next]_vars => CallTypes'
<1> SUFFICES ASSUME CallTypes, HandleTypes, ChannelTypes, LogInv, [Next]_vars PROVE CallTypes'
  OBVIOUS
<1> USE DEF CallTypes, Waiting, Outcomes, States, process, history
<1>1. ASSUME DbFault PROVE faults' \in 0 .. MaxFaults
  BY <1>1, BoundsAssumption DEF DbFault
<1>2. ASSUME UNCHANGED <<pc, row, since, up, boots, faults>> PROVE CallTypes'
  BY <1>2
<1>3. CASE UNCHANGED vars
  BY <1>2, <1>3 DEF vars
<1>4. ASSUME NEW h \in Handles, SendDirect(h) \/ WaitReturns(h) \/ Cancel(h) PROVE CallTypes'
  BY <1>4 DEF SendDirect, WaitReturns, Cancel
<1>5. ASSUME NEW h \in Handles, InsertRow(h) PROVE CallTypes'
  <2>1. UNCHANGED <<since, up, boots>> /\ (faults' = faults \/ DbFault)
    BY <1>5 DEF InsertRow
  <2>2. faults' \in 0 .. MaxFaults
    BY <1>1, <2>1
  <2> QED
    BY <1>5, <2>1, <2>2 DEF InsertRow
<1>6. ASSUME NEW h \in Handles, Activate(h) PROVE CallTypes'
  <2>1. \A t \in Types : Len(log[t]) - Len(queue[t]) \in Nat
    BY TakenType DEF Taken
  <2> QED
    BY <1>6, <2>1 DEF Activate
<1>7. ASSUME NEW h \in Handles, Persist(h) PROVE CallTypes'
  <2>1. UNCHANGED <<pc, since, up, boots>> /\ (faults' = faults \/ DbFault)
    BY <1>7 DEF Persist
  <2>2. faults' \in 0 .. MaxFaults
    BY <1>1, <2>1
  <2>3. verdict[h] \in {"none", "resolved", "expired"} /\ once[h] = "removed"
    BY <1>7 DEF Persist, HandleTypes
  <2>4. row' \in [Handles -> {"none", "pruned"} \cup States]
    BY <1>7, <2>3 DEF Persist
  <2> QED
    BY <2>1, <2>2, <2>4
<1>8. ASSUME NEW h \in Handles,
             RemoveHandle(h) \/ TimerFires(h) \/ ResolveReceive(h) \/ Deadline(h)
      PROVE  CallTypes'
  BY <1>2, <1>8 DEF RemoveHandle, TimerFires, ResolveReceive, Deadline
<1>9. ASSUME NEW e \in Events, PublishInbound(e) PROVE CallTypes'
  BY <1>2, <1>9 DEF PublishInbound
<1>10. ASSUME NEW t \in Types, HandleEvent(t) \/ EventHandled(t) \/ Subscribe(t) PROVE CallTypes'
  BY <1>2, <1>10 DEF HandleEvent, EventHandled, Subscribe
<1>11. ASSUME NEW t \in Types, NEW h \in Handles, DeliverToAsk(t, h) \/ CollectForReceive(t, h)
       PROVE  CallTypes'
  BY <1>2, <1>11 DEF DeliverToAsk, CollectForReceive
<1>12. ASSUME NEW h \in Handles, SweepExpires(h) PROVE CallTypes'
  BY <1>2, <1>12 DEF SweepExpires
<1>13. ASSUME SweepBegins \/ StartCleanup PROVE CallTypes'
  BY <1>2, <1>13 DEF SweepBegins, StartCleanup
<1>14. CASE SweepDeletes
  <2>1. UNCHANGED <<pc, since, up, boots>> /\ (faults' = faults \/ DbFault)
    BY <1>14 DEF SweepDeletes
  <2>2. faults' \in 0 .. MaxFaults
    BY <1>1, <2>1
  <2>3. row' \in [Handles -> {"none", "pruned"} \cup States]
    BY <1>14 DEF SweepDeletes
  <2> QED
    BY <2>1, <2>2, <2>3
<1>15. CASE Crash
  BY <1>15 DEF Crash
<1>16. CASE Boot
  BY <1>16, BoundsAssumption DEF Boot
<1> QED
  BY <1>3, <1>4, <1>5, <1>6, <1>7, <1>8, <1>9, <1>10, <1>11, <1>12, <1>13, <1>14, <1>15, <1>16
     DEF Next, Call, Inside, Dispatch, Sweep

\* an event on its way to a handle is one the handle wants
TargetsWanted ==
  \A t \in Types : \A h \in targets[t] : handling[t] \in Events /\ Wants(h, handling[t])

LEMMA SettleTypes ==
  ASSUME HandleTypes, NEW h \in Handles, NEW v \in {"resolved", "expired"},
         NEW events \in Seq(Events), Settle(h, v, events)
  PROVE  /\ once' \in [Handles -> {"open", "given", "removed", "done"}]
         /\ verdict' \in [Handles -> {"none", "resolved", "expired"}]
         /\ result' \in [Handles -> Seq(Events)]
  BY DEF Settle, HandleTypes

LEMMA GatheredType ==
  ASSUME HandleTypes, NEW h \in Handles PROVE Gathered(h) \in Seq(Events)
<1>1. <<>> \in Seq(Events)
  OBVIOUS
<1> QED
  BY <1>1 DEF Gathered, HandleTypes

\* what collecting an event does to a receive
LEMMA Collecting ==
  ASSUME TypeOK, TargetsWanted, NEW t \in Types, NEW v \in Receives, CollectForReceive(t, v)
  PROVE  /\ handling[t] \in Events /\ Wants(v, handling[t])
         /\ collected[v] \in Seq(Events) /\ Limit[v] \in Nat
         /\ \/ Full(v) /\ collected' = collected
            \/ /\ ~Full(v)
               /\ collected' = [collected EXCEPT ![v] = Append(collected[v], handling[t])]
         /\ collected' \in [Receives -> Seq(Events)]
         /\ \A w \in Receives : Limit[w] > 0 => Len(collected'[w]) <= Limit[w]
<1>1. v \in targets[t] /\ handling[t] \in Events /\ Wants(v, handling[t])
  BY DEF CollectForReceive, TargetsWanted
<1>2. /\ collected \in [Receives -> Seq(Events)] /\ Limit[v] \in Nat
      /\ \A w \in Receives : Limit[w] > 0 => Len(collected[w]) <= Limit[w]
  BY LimitAssumption DEF TypeOK
<1>3. collected' = [collected EXCEPT ![v] = IF Full(v) THEN collected[v]
                                            ELSE Append(collected[v], handling[t])]
  BY DEF CollectForReceive
<1>4. CASE Full(v)
  <2>1. collected' = collected
    BY <1>2, <1>3, <1>4
  <2> QED
    BY <1>1, <1>2, <1>4, <2>1
<1>5. CASE ~Full(v)
  <2>1. /\ Append(collected[v], handling[t]) \in Seq(Events)
        /\ Len(Append(collected[v], handling[t])) = Len(collected[v]) + 1
        /\ Len(collected[v]) \in Nat
    BY <1>1, <1>2
  <2>2. Limit[v] > 0 => Len(collected[v]) + 1 <= Limit[v]
    BY <1>2, <1>5, <2>1 DEF Full
  <2>3. collected' = [collected EXCEPT ![v] = Append(collected[v], handling[t])]
    BY <1>3, <1>5
  <2>4. \A w \in Receives : Limit[w] > 0 => Len(collected'[w]) <= Limit[w]
    BY <1>2, <2>1, <2>2, <2>3
  <2>5. collected' \in [Receives -> Seq(Events)]
    BY <1>2, <2>1, <2>3
  <2> QED
    BY <1>1, <1>2, <1>5, <2>3, <2>4, <2>5
<1> QED
  BY <1>4, <1>5

LEMMA HandleTypesStep == TypeOK /\ TargetsWanted /\ [Next]_vars => HandleTypes'
<1> SUFFICES ASSUME TypeOK, TargetsWanted, [Next]_vars PROVE HandleTypes'
  OBVIOUS
<1>a. HandleTypes /\ RouteTypes /\ ChannelTypes
  BY TypeParts
<1>d. due' \subseteq Handles
  <2>1. UNCHANGED due \/ \E h \in Handles : Deadline(h)
    <3> USE DEF SendDirect, InsertRow, Activate, WaitReturns, Cancel, RemoveHandle, Persist,
                TimerFires, ResolveReceive, PublishInbound
    <3> QED
      BY DEF Next, vars, Call, Inside, Dispatch, HandleEvent, EventHandled, DeliverToAsk,
             CollectForReceive, Subscribe, Sweep, SweepBegins, SweepExpires, SweepDeletes,
             StartCleanup, Crash, Boot
  <2> QED
    BY <1>a, <2>1 DEF HandleTypes, Deadline
<1>1. CASE UNCHANGED settle
  BY <1>a, <1>d, <1>1 DEF settle, HandleTypes
<1>2. ASSUME NEW h \in Handles, Activate(h) \/ RemoveHandle(h) \/ Persist(h) PROVE HandleTypes'
  BY <1>a, <1>d, <1>2 DEF Activate, RemoveHandle, Persist, HandleTypes
<1>3. ASSUME NEW h \in Handles, TimerFires(h) \/ SweepExpires(h) PROVE HandleTypes'
  <2>1. Settle(h, "expired", Gathered(h)) /\ UNCHANGED <<live, collected, spawned>>
    BY <1>3 DEF TimerFires, SweepExpires
  <2> QED
    BY <1>a, <1>d, <2>1, SettleTypes, GatheredType DEF HandleTypes
<1>4. ASSUME NEW h \in Handles, ResolveReceive(h) PROVE HandleTypes'
  <2>1. /\ Settle(h, "resolved", collected[h]) /\ h \in spawned
        /\ UNCHANGED <<live, collected>> /\ spawned' = spawned \ {h}
    BY <1>4 DEF ResolveReceive
  <2>2. collected[h] \in Seq(Events)
    BY <1>a, <2>1 DEF HandleTypes
  <2> QED
    BY <1>a, <1>d, <2>1, <2>2, SettleTypes DEF HandleTypes
<1>5. ASSUME NEW t \in Types, NEW a \in Asks, DeliverToAsk(t, a) PROVE HandleTypes'
  <2>1. /\ Settle(a, "resolved", <<handling[t]>>) /\ a \in targets[t]
        /\ UNCHANGED <<live, collected, spawned>>
    BY <1>5 DEF DeliverToAsk
  <2>2. <<handling[t]>> \in Seq(Events)
    BY <2>1 DEF TargetsWanted
  <2> QED
    BY <1>a, <1>d, <2>1, <2>2, SettleTypes DEF HandleTypes
<1>6. ASSUME NEW t \in Types, NEW v \in Receives, CollectForReceive(t, v) PROVE HandleTypes'
  <2>1. UNCHANGED <<live, once, verdict, result>> /\ spawned' \subseteq spawned \cup {v}
    BY <1>6 DEF CollectForReceive
  <2> QED
    BY <1>a, <1>d, <1>6, <2>1, Collecting DEF HandleTypes
<1>7. CASE Crash
  BY <1>a, <1>d, <1>7 DEF Crash, HandleTypes
<1> QED
  BY <1>1, <1>2, <1>3, <1>4, <1>5, <1>6, <1>7, HandleSteps

LEMMA RouteSteps ==
  ASSUME [Next]_vars
  PROVE  \/ UNCHANGED <<targets, doing, sweeping, expired, sweepNow>>
         \/ \E h \in Handles : Persist(h) \/ SweepExpires(h)
         \/ \E t \in Types : \/ HandleEvent(t)
                             \/ \E a \in Asks : DeliverToAsk(t, a)
                             \/ \E v \in Receives : CollectForReceive(t, v)
         \/ SweepBegins \/ SweepDeletes \/ StartCleanup \/ Crash
<1> USE DEF routing, cleanup
<1>1. CASE UNCHANGED vars
  BY <1>1 DEF vars
<1>2. ASSUME NEW h \in Handles,
             \/ SendDirect(h) \/ InsertRow(h) \/ Activate(h) \/ WaitReturns(h) \/ Cancel(h)
             \/ RemoveHandle(h) \/ TimerFires(h) \/ ResolveReceive(h) \/ Deadline(h)
      PROVE  UNCHANGED <<targets, doing, sweeping, expired, sweepNow>>
  BY <1>2 DEF SendDirect, InsertRow, Activate, WaitReturns, Cancel, RemoveHandle, TimerFires,
              ResolveReceive, Deadline
<1>3. ASSUME NEW e \in Events, PublishInbound(e)
      PROVE  UNCHANGED <<targets, doing, sweeping, expired, sweepNow>>
  BY <1>3 DEF PublishInbound
<1>4. ASSUME NEW t \in Types, EventHandled(t) \/ Subscribe(t)
      PROVE  UNCHANGED <<targets, doing, sweeping, expired, sweepNow>>
  BY <1>4 DEF EventHandled, Subscribe
<1>5. ASSUME Boot PROVE UNCHANGED <<targets, doing, sweeping, expired, sweepNow>>
  BY <1>5 DEF Boot
<1> QED
  BY <1>1, <1>2, <1>3, <1>4, <1>5 DEF Next, Call, Inside, Dispatch, Sweep

LEMMA RouteTypesStep == TypeOK /\ [Next]_vars => RouteTypes'
<1> SUFFICES ASSUME TypeOK, [Next]_vars PROVE RouteTypes'
  OBVIOUS
<1>a. HandleTypes /\ RouteTypes
  BY TypeParts
<1> USE DEF RouteTypes
<1>1. CASE UNCHANGED <<targets, doing, sweeping, expired, sweepNow>>
  BY <1>a, <1>1
<1>2. ASSUME NEW h \in Handles, Persist(h) PROVE RouteTypes'
  BY <1>a, <1>2 DEF Persist, cleanup
<1>3. ASSUME NEW h \in Handles, SweepExpires(h) PROVE RouteTypes'
  BY <1>a, <1>3 DEF SweepExpires, EnterOnce
<1>4. ASSUME NEW t \in Types, HandleEvent(t) PROVE RouteTypes'
  BY <1>a, <1>4 DEF HandleEvent, Matched, cleanup, HandleTypes
<1>5. ASSUME NEW t \in Types, NEW a \in Asks, DeliverToAsk(t, a) PROVE RouteTypes'
  <2>1. /\ targets' = [targets EXCEPT ![t] = targets[t] \ {a}]
        /\ doing' = doing \/ doing' = [doing EXCEPT ![t] = a]
        /\ UNCHANGED <<sweeping, expired, sweepNow>>
    BY <1>5 DEF DeliverToAsk, EnterOnce, cleanup
  <2> QED
    BY <1>a, <2>1
<1>6. ASSUME NEW t \in Types, NEW v \in Receives, CollectForReceive(t, v) PROVE RouteTypes'
  BY <1>a, <1>6 DEF CollectForReceive, cleanup
<1>7. ASSUME SweepBegins \/ SweepDeletes \/ StartCleanup PROVE RouteTypes'
  BY <1>a, <1>7 DEF SweepBegins, SweepDeletes, StartCleanup, routing, HandleTypes
<1>8. CASE Crash
  BY <1>8 DEF Crash, Free
<1> QED
  BY <1>1, <1>2, <1>3, <1>4, <1>5, <1>6, <1>7, <1>8, RouteSteps

LEMMA TargetsWantedStep == TypeOK /\ TargetsWanted /\ [Next]_vars => TargetsWanted'
<1> SUFFICES ASSUME TypeOK, TargetsWanted, [Next]_vars PROVE TargetsWanted'
  OBVIOUS
<1>a. ChannelTypes /\ RouteTypes
  BY TypeParts
<1>1. ASSUME NEW t \in Types, HandleEvent(t) PROVE TargetsWanted'
  <2>1. /\ Head(queue[t]) \in Events /\ handling' = [handling EXCEPT ![t] = Head(queue[t])]
    BY <1>a, <1>1, TakeShrinks DEF HandleEvent
  <2>2. targets' = [targets EXCEPT ![t] = Matched(Head(queue[t]))]
    BY <1>1 DEF HandleEvent
  <2>3. handling'[t] = Head(queue[t]) /\ targets'[t] = Matched(Head(queue[t]))
    BY <1>a, <2>1, <2>2 DEF ChannelTypes, RouteTypes
  <2>4. \A s \in Types \ {t} : handling'[s] = handling[s] /\ targets'[s] = targets[s]
    BY <1>a, <2>1, <2>2 DEF ChannelTypes, RouteTypes
  <2> QED
    BY <2>1, <2>3, <2>4 DEF TargetsWanted, Matched, Wants
<1>2. ASSUME NEW t \in Types, NEW h \in Handles, DeliverToAsk(t, h) \/ CollectForReceive(t, h)
      PROVE  TargetsWanted'
  <2>1. targets' = [targets EXCEPT ![t] = targets[t] \ {h}] /\ handling' = handling
    BY <1>2 DEF DeliverToAsk, CollectForReceive, channels
  <2> QED
    BY <1>a, <2>1 DEF TargetsWanted, Wants, RouteTypes
<1>3. CASE Crash
  BY <1>3 DEF Crash, TargetsWanted
<1>4. ASSUME NEW t \in Types, EventHandled(t) PROVE TargetsWanted'
  <2>1. /\ targets[t] = {} /\ targets' = targets
        /\ handling' = [handling EXCEPT ![t] = NoEvent]
    BY <1>4 DEF EventHandled, Channel!Return, routing
  <2> QED
    BY <1>a, <2>1 DEF TargetsWanted, Wants, ChannelTypes
<1>5. ASSUME UNCHANGED <<targets, handling>> PROVE TargetsWanted'
  BY <1>5 DEF TargetsWanted, Wants
<1>6. ASSUME NEW h \in Handles, Persist(h) \/ SweepExpires(h) PROVE TargetsWanted'
  BY <1>5, <1>6 DEF Persist, SweepExpires, channels
<1>7. ASSUME SweepBegins \/ SweepDeletes \/ StartCleanup PROVE TargetsWanted'
  BY <1>5, <1>7 DEF SweepBegins, SweepDeletes, StartCleanup, channels, routing
<1>8. CASE UNCHANGED targets
  <2>1. ASSUME NEW e \in Events, PublishInbound(e) PROVE TargetsWanted'
    BY <1>a, <1>5, <1>8, <2>1, PublishedWhere
  <2>2. ASSUME NEW t \in Types, Subscribe(t) PROVE TargetsWanted'
    BY <1>5, <1>8, <2>2 DEF Subscribe, Channel!Open
  <2>3. CASE UNCHANGED chan
    BY <1>5, <1>8, <2>3 DEF chan
  <2> QED
    BY <1>1, <1>3, <1>4, <2>1, <2>2, <2>3, ChannelSteps
<1> QED
  BY <1>1, <1>2, <1>3, <1>6, <1>7, <1>8, RouteSteps

\* Every variable keeps its type, and a receive never collects past its limit.
THEOREM TypeCorrect == Spec => [](TypeOK /\ TargetsWanted /\ LogInv)
<1>1. Init => TypeOK /\ TargetsWanted /\ LogInv
  BY InitTypeOK, InitLog DEF Init, TargetsWanted
<1>2. TypeOK /\ TargetsWanted /\ LogInv /\ [Next]_vars => (TypeOK /\ TargetsWanted /\ LogInv)'
  <2> SUFFICES ASSUME TypeOK, TargetsWanted, LogInv, [Next]_vars
               PROVE  TypeOK' /\ TargetsWanted' /\ LogInv'
    OBVIOUS
  <2>1. ChannelTypes' /\ CallTypes' /\ HandleTypes' /\ RouteTypes'
    BY TypeParts, ChannelTypesStep, CallTypesStep, HandleTypesStep, RouteTypesStep
  <2>2. TypeOK'
    BY <2>1 DEF TypeOK, ChannelTypes, CallTypes, HandleTypes, RouteTypes
  <2> QED
    BY <2>2, TargetsWantedStep, TypeParts, LogStep
<1> QED
  BY <1>1, <1>2, PTL DEF Spec

-----------------------------------------------------------------------------
(* Whoever wins the once: what the channel, the client and the row say.    *)

\* All that is said of one handle.  Its once is open until it has a verdict; the
\* row follows the verdict when the once is done, the client's answer the result.
Agrees(h) ==
  /\ once[h] = "open" <=> verdict[h] = "none"
  /\ once[h] = "open" => result[h] = <<>>
  /\ row[h] \in {"resolved", "expired"} => once[h] = "done" /\ row[h] = verdict[h]
  /\ pc[h] = "answered" => result[h] # <<>>
  /\ pc[h] = "timed_out" => result[h] = <<>> /\ verdict[h] = "expired"
  /\ h \in Asks => (verdict[h] = "resolved" <=> result[h] # <<>>)
  /\ h \in Receives /\ verdict[h] = "resolved" => Limit[h] > 0 /\ Len(result[h]) = Limit[h]

\* a receive that is being resolved has its limit
Filled == \A v \in spawned : Limit[v] > 0 /\ Len(collected[v]) = Limit[v]

OutcomeInv == (\A h \in Handles : Agrees(h)) /\ Filled

LEMMA OutcomeImplies == OutcomeInv => OutcomeAgrees
  BY DEF OutcomeInv, Agrees, OutcomeAgrees

LEMMA InitOutcome == Init => OutcomeInv
<1> SUFFICES ASSUME Init PROVE OutcomeInv
  OBVIOUS
<1>1. ASSUME NEW h \in Handles PROVE Agrees(h)
  BY DEF Init, Agrees
<1> QED
  BY <1>1 DEF OutcomeInv, Filled, Init

LEMMA SettleAgrees ==
  ASSUME TypeOK, \A k \in Handles : Agrees(k),
         NEW h \in Handles, NEW v \in {"resolved", "expired"}, NEW events, Settle(h, v, events),
         h \in Asks => (v = "resolved" <=> events # <<>>),
         h \in Receives /\ v = "resolved" => Limit[h] > 0 /\ Len(events) = Limit[h],
         UNCHANGED <<pc, row>>
  PROVE  \A k \in Handles : Agrees(k)'
<1>1. CASE once[h] # "open"
  BY <1>1 DEF Settle, Agrees
<1>2. CASE once[h] = "open"
  <2> USE <1>2 DEF TypeOK
  <2>1. /\ once'[h] = "given" /\ verdict'[h] = v /\ result'[h] = events
        /\ \A k \in Handles \ {h} : /\ once'[k] = once[k] /\ verdict'[k] = verdict[k]
                                    /\ result'[k] = result[k]
    BY DEF Settle
  <2>2. Agrees(h)
    OBVIOUS
  <2>3. row[h] \notin {"resolved", "expired"} /\ pc[h] \notin {"answered", "timed_out"}
    BY <2>2 DEF Agrees
  <2>4. Agrees(h)'
    BY <2>1, <2>3 DEF Agrees
  <2>5. ASSUME NEW k \in Handles \ {h} PROVE Agrees(k)'
    BY <2>1 DEF Agrees
  <2> QED
    BY <2>4, <2>5
<1> QED
  BY <1>1, <1>2

LEMMA FilledStep == TypeOK /\ TargetsWanted /\ Filled /\ [Next]_vars => Filled'
<1> SUFFICES ASSUME TypeOK, TargetsWanted, Filled, [Next]_vars PROVE Filled'
  OBVIOUS
<1>1. ASSUME NEW t \in Types, NEW v \in Receives, CollectForReceive(t, v) PROVE Filled'
  <2>1. /\ spawned' = IF ~Full(v) /\ Full(v)' THEN spawned \cup {v} ELSE spawned
        /\ collected \in [Receives -> Seq(Events)] /\ spawned \subseteq Receives
    BY <1>1, LimitAssumption DEF CollectForReceive, TypeOK
  <2>2. CASE Full(v)
    BY <1>1, <2>1, <2>2, Collecting DEF Filled
  <2>3. CASE ~Full(v)
    <3>1. collected' = [collected EXCEPT ![v] = Append(collected[v], handling[t])]
      BY <1>1, <2>3, Collecting
    <3>2. /\ Len(collected'[v]) = Len(collected[v]) + 1 /\ Len(collected[v]) \in Nat
          /\ Limit[v] \in Nat /\ (Limit[v] > 0 => Len(collected'[v]) <= Limit[v])
      BY <1>1, <2>1, <3>1, Collecting
    <3>3. v \notin spawned
      BY <2>3, <3>2 DEF Filled, Full
    <3>4. \A w \in spawned : collected'[w] = collected[w]
      BY <2>1, <3>1, <3>3
    <3>5. Full(v)' => Limit[v] > 0 /\ Len(collected'[v]) = Limit[v]
      BY <3>2 DEF Full
    <3> QED
      BY <2>1, <3>4, <3>5 DEF Filled
  <2> QED
    BY <2>2, <2>3
<1>2. ASSUME spawned' \subseteq spawned, UNCHANGED collected PROVE Filled'
  BY <1>2 DEF Filled
<1>3. CASE UNCHANGED settle
  BY <1>2, <1>3 DEF settle
<1>4. ASSUME NEW h \in Handles,
             \/ Activate(h) \/ RemoveHandle(h) \/ Persist(h) \/ TimerFires(h)
             \/ ResolveReceive(h) \/ SweepExpires(h)
      PROVE  Filled'
  BY <1>2, <1>4 DEF Activate, RemoveHandle, Persist, TimerFires, ResolveReceive, SweepExpires
<1>5. ASSUME NEW t \in Types, NEW a \in Asks, DeliverToAsk(t, a) PROVE Filled'
  BY <1>2, <1>5 DEF DeliverToAsk
<1>6. CASE Crash
  BY <1>6 DEF Crash, Filled
<1> QED
  BY <1>1, <1>3, <1>4, <1>5, <1>6, HandleSteps

LEMMA AgreesStep ==
  TypeOK /\ TargetsWanted /\ OutcomeInv /\ [Next]_vars => \A h \in Handles : Agrees(h)'
<1> SUFFICES ASSUME TypeOK, TargetsWanted, OutcomeInv, [Next]_vars
             PROVE  \A h \in Handles : Agrees(h)'
  OBVIOUS
<1>a. (\A h \in Handles : Agrees(h)) /\ Filled
  BY DEF OutcomeInv
<1>b. /\ pc \in [Handles -> {"new"} \cup Waiting \cup Outcomes]
      /\ once \in [Handles -> {"open", "given", "removed", "done"}]
      /\ verdict \in [Handles -> {"none", "resolved", "expired"}]
      /\ result \in [Handles -> Seq(Events)]
      /\ row \in [Handles -> {"none", "pruned"} \cup States]
      /\ spawned \subseteq Receives /\ collected \in [Receives -> Seq(Events)]
  BY DEF TypeOK
<1>0. ASSUME UNCHANGED <<pc, once, verdict, result, row>> PROVE \A h \in Handles : Agrees(h)'
  BY <1>a, <1>0 DEF Agrees
<1>1. CASE UNCHANGED vars
  BY <1>0, <1>1 DEF vars, handles
<1>2. ASSUME NEW h \in Handles, SendDirect(h) \/ Cancel(h) PROVE \A k \in Handles : Agrees(k)'
  <2>1. /\ UNCHANGED <<once, verdict, result, row>>
        /\ \A k \in Handles : pc'[k] = pc[k] \/ pc'[k] \in {"sent", "failed", "cancelled"}
    BY <1>b, <1>2 DEF SendDirect, Cancel, handles
  <2> QED
    BY <1>a, <2>1 DEF Agrees
<1>3. ASSUME NEW h \in Handles, InsertRow(h) PROVE \A k \in Handles : Agrees(k)'
  <2>1. /\ UNCHANGED <<once, verdict, result>>
        /\ \A k \in Handles : pc'[k] = pc[k] \/ pc'[k] \in {"inserted", "failed"}
        /\ \A k \in Handles : row'[k] = row[k] \/ row'[k] = "pending"
    BY <1>b, <1>3 DEF InsertRow, handles
  <2> QED
    BY <1>a, <2>1 DEF Agrees
<1>4. ASSUME NEW h \in Handles, Activate(h) PROVE \A k \in Handles : Agrees(k)'
  <2>1. /\ UNCHANGED <<once, verdict, result, row>>
        /\ \A k \in Handles : pc'[k] = pc[k] \/ pc'[k] = "waiting"
    BY <1>b, <1>4 DEF Activate
  <2> QED
    BY <1>a, <2>1 DEF Agrees
<1>5. ASSUME NEW h \in Handles, WaitReturns(h) PROVE \A k \in Handles : Agrees(k)'
  <2>1. /\ UNCHANGED <<once, verdict, result, row>>
        /\ \A k \in Handles \ {h} : pc'[k] = pc[k]
        /\ pc'[h] = IF result[h] = <<>> THEN "timed_out" ELSE "answered"
        /\ once[h] # "open"
    BY <1>b, <1>5 DEF WaitReturns, handles
  <2>2. result[h] = <<>> => verdict[h] = "expired"
    <3> SUFFICES ASSUME verdict[h] = "resolved", result[h] = <<>> PROVE FALSE
      BY <1>a, <1>b, <2>1 DEF Agrees
    <3>1. CASE h \in Asks
      BY <1>a, <3>1 DEF Agrees
    <3>2. CASE h \in Receives
      <4>1. Len(result[h]) = 0 /\ Limit[h] > 0 /\ Len(result[h]) = Limit[h]
        BY <1>a, <3>2 DEF Agrees
      <4> QED
        BY <4>1
    <3> QED
      BY <3>1, <3>2
  <2>3. Agrees(h)'
    BY <1>a, <2>1, <2>2 DEF Agrees
  <2>4. ASSUME NEW k \in Handles \ {h} PROVE Agrees(k)'
    BY <1>a, <2>1 DEF Agrees
  <2> QED
    BY <2>3, <2>4
<1>6. ASSUME NEW h \in Handles, RemoveHandle(h) PROVE \A k \in Handles : Agrees(k)'
  <2>1. /\ UNCHANGED <<pc, verdict, result, row>> /\ once[h] = "given"
        /\ once'[h] = "removed" /\ \A k \in Handles \ {h} : once'[k] = once[k]
    BY <1>b, <1>6 DEF RemoveHandle
  <2> QED
    BY <1>a, <2>1 DEF Agrees
<1>7. ASSUME NEW h \in Handles, Persist(h) PROVE \A k \in Handles : Agrees(k)'
  <2>1. /\ UNCHANGED <<pc, verdict, result>> /\ once[h] = "removed"
        /\ once'[h] = "done" /\ \A k \in Handles \ {h} : once'[k] = once[k]
        /\ \A k \in Handles \ {h} : row'[k] = row[k]
        /\ row'[h] \in {row[h], verdict[h]}
    BY <1>b, <1>7 DEF Persist
  <2>2. row[h] \notin {"resolved", "expired"} /\ verdict[h] # "none"
    BY <1>a, <2>1 DEF Agrees
  <2>3. Agrees(h)'
    BY <1>a, <2>1, <2>2 DEF Agrees
  <2>4. ASSUME NEW k \in Handles \ {h} PROVE Agrees(k)'
    BY <1>a, <2>1 DEF Agrees
  <2> QED
    BY <2>3, <2>4
<1>8. ASSUME NEW h \in Handles, TimerFires(h) \/ SweepExpires(h) PROVE \A k \in Handles : Agrees(k)'
  <2>1. Settle(h, "expired", Gathered(h)) /\ UNCHANGED <<pc, row>>
    BY <1>8 DEF TimerFires, SweepExpires
  <2>2. h \in Asks => Gathered(h) = <<>>
    BY DEF Gathered
  <2> QED
    BY <1>a, <2>1, <2>2, SettleAgrees
<1>9. ASSUME NEW h \in Handles, ResolveReceive(h) PROVE \A k \in Handles : Agrees(k)'
  <2>1. Settle(h, "resolved", collected[h]) /\ h \in spawned /\ UNCHANGED <<pc, row>>
    BY <1>9 DEF ResolveReceive
  <2>2. h \in Receives /\ h \notin Asks /\ Limit[h] > 0 /\ Len(collected[h]) = Limit[h]
    BY <1>a, <1>b, <2>1, HandlesAssumption DEF Filled
  <2> QED
    BY <1>a, <2>1, <2>2, SettleAgrees
<1>10. ASSUME NEW t \in Types, NEW a \in Asks, DeliverToAsk(t, a) PROVE \A k \in Handles : Agrees(k)'
  <2>1. Settle(a, "resolved", <<handling[t]>>) /\ UNCHANGED <<pc, row>>
    BY <1>10 DEF DeliverToAsk
  <2>2. <<handling[t]>> # <<>> /\ a \notin Receives
    BY HandlesAssumption
  <2> QED
    BY <1>a, <2>1, <2>2, SettleAgrees
<1>11. CASE SweepDeletes
  <2>1. /\ UNCHANGED <<pc, once, verdict, result>>
        /\ \A k \in Handles : row'[k] = row[k] \/ row'[k] = "pruned"
    BY <1>b, <1>11 DEF SweepDeletes, handles
  <2> QED
    BY <1>a, <2>1 DEF Agrees
<1>12. CASE Crash
  <2>1. /\ UNCHANGED <<verdict, result, row>>
        /\ \A k \in Handles : pc'[k] = pc[k] \/ pc'[k] = "lost"
        /\ \A k \in Handles : once'[k] = IF once[k] = "open" THEN "open" ELSE "done"
    BY <1>12 DEF Crash
  <2> QED
    BY <1>a, <2>1 DEF Agrees
<1>13. ASSUME NEW h \in Handles, Deadline(h) PROVE \A k \in Handles : Agrees(k)'
  BY <1>0, <1>13 DEF Deadline, handles
<1>14. ASSUME NEW e \in Events, PublishInbound(e) PROVE \A k \in Handles : Agrees(k)'
  BY <1>0, <1>14 DEF PublishInbound, handles
<1>15. ASSUME NEW t \in Types, HandleEvent(t) \/ EventHandled(t) \/ Subscribe(t)
       PROVE  \A k \in Handles : Agrees(k)'
  BY <1>0, <1>15 DEF HandleEvent, EventHandled, Subscribe, handles
<1>16. ASSUME NEW t \in Types, NEW v \in Receives, CollectForReceive(t, v)
       PROVE  \A k \in Handles : Agrees(k)'
  BY <1>0, <1>16 DEF CollectForReceive
<1>17. ASSUME SweepBegins \/ StartCleanup \/ Boot PROVE \A k \in Handles : Agrees(k)'
  BY <1>0, <1>17 DEF SweepBegins, StartCleanup, Boot, handles
<1> QED
  BY <1>1, <1>2, <1>3, <1>4, <1>5, <1>6, <1>7, <1>8, <1>9, <1>10, <1>11, <1>12, <1>13, <1>14,
     <1>15, <1>16, <1>17 DEF Next, Call, Inside, Dispatch, Sweep

LEMMA OutcomeInvariant == Spec => []OutcomeInv
<1>1. Init => OutcomeInv
  BY InitOutcome
<1>2. TypeOK /\ TargetsWanted /\ OutcomeInv /\ [Next]_vars => OutcomeInv'
  <2> SUFFICES ASSUME TypeOK, TargetsWanted, OutcomeInv, [Next]_vars PROVE OutcomeInv'
    OBVIOUS
  <2>1. Filled'
    BY FilledStep DEF OutcomeInv
  <2>2. \A h \in Handles : Agrees(h)'
    BY AgreesStep
  <2> QED
    BY <2>1, <2>2 DEF OutcomeInv
<1> QED
  BY <1>1, <1>2, TypeCorrect, PTL DEF Spec

\* Timer, sweep and events race for a handle, and the result, the client's answer
\* and the row agree on who won.
THEOREM OutcomesAgree == Spec => []OutcomeAgrees
  BY OutcomeInvariant, OutcomeImplies, PTL

-----------------------------------------------------------------------------
(* A handle is known to no goroutine before it is in the map, and leaves   *)
(* the map only when it is settled.                                        *)

Unknown(h) ==
  /\ once[h] = "open"
  /\ h \notin live /\ h \notin spawned /\ h \notin expired
  /\ \A t \in Types : h \notin targets[t]

MapInv ==
  /\ \A h \in Handles : pc[h] \in Early => Unknown(h)
  /\ \A t \in Types : \A h \in targets[t] : once[h] = "open" => h \in live

LEMMA InitMap == Init => MapInv
  BY DEF Init, MapInv, Unknown

LEMMA SettleOthers ==
  ASSUME TypeOK, NEW h \in Handles, NEW k \in Handles, NEW v, NEW events, Settle(h, v, events)
  PROVE  /\ k # h => once'[k] = once[k] /\ result'[k] = result[k]
         /\ once'[h] # "open"
         /\ once[h] # "open" => UNCHANGED <<once, result>>
         /\ once[h] = "open" => result'[h] = events
  BY DEF Settle, TypeOK

\* a once does not open again, and an open handle leaves the map only with the process
LEMMA OpenStays ==
  ASSUME TypeOK, TargetsWanted, [Next]_vars, NEW h \in Handles, once'[h] = "open"
  PROVE  /\ once[h] = "open"
         /\ h \in live => h \in live' \/ Crash
<1>1. CASE UNCHANGED settle
  BY <1>1 DEF settle
<1>2. ASSUME NEW k \in Handles, Activate(k) PROVE once[h] = "open" /\ live \subseteq live'
  BY <1>2 DEF Activate
<1>3. ASSUME NEW k \in Handles, RemoveHandle(k) \/ Persist(k)
      PROVE  once[h] = "open" /\ (h \in live => h \in live')
  <2>1. /\ once'[k] # "open" /\ (h # k => once'[h] = once[h])
        /\ live' = live \/ live' = live \ {k}
    BY <1>3 DEF RemoveHandle, Persist, TypeOK
  <2> QED
    BY <2>1
<1>4. ASSUME NEW k \in Handles, NEW v, NEW events, Settle(k, v, events), UNCHANGED live
      PROVE  once[h] = "open" /\ (h \in live => h \in live')
  BY <1>4, SettleOthers
<1>5. ASSUME NEW k \in Handles, TimerFires(k) \/ ResolveReceive(k) \/ SweepExpires(k)
      PROVE  once[h] = "open" /\ (h \in live => h \in live')
  BY <1>4, <1>5 DEF TimerFires, ResolveReceive, SweepExpires
<1>6. ASSUME NEW t \in Types, NEW a \in Asks, DeliverToAsk(t, a)
      PROVE  once[h] = "open" /\ (h \in live => h \in live')
  BY <1>4, <1>6 DEF DeliverToAsk
<1>7. ASSUME NEW t \in Types, NEW v \in Receives, CollectForReceive(t, v)
      PROVE  once[h] = "open" /\ (h \in live => h \in live')
  BY <1>7 DEF CollectForReceive
<1>8. CASE Crash
  BY <1>8 DEF Crash, TypeOK
<1> QED
  BY <1>1, <1>2, <1>3, <1>5, <1>6, <1>7, <1>8, HandleSteps

\* the calls: only Activate enters the map, only before that is a call early
LEMMA EarlyBefore ==
  ASSUME TypeOK, [Next]_vars, NEW h \in Handles
  PROVE  /\ pc'[h] \in Early => pc[h] \in Early /\ ~Activate(h)
         /\ since'[h] = since[h] \/ Activate(h)
<1> USE DEF Early, Waiting
<1>0. pc \in [Handles -> {"new"} \cup Waiting \cup Outcomes] /\ DOMAIN since = Handles
  BY DEF TypeOK
<1>1. ASSUME UNCHANGED <<pc, since>>
      PROVE  pc'[h] = pc[h] /\ since'[h] = since[h]
  BY <1>1
<1>a. Activate(h) => pc'[h] \notin Early
  BY <1>0 DEF Activate
<1>2. CASE UNCHANGED vars
  BY <1>a, <1>2 DEF vars, history
<1>3. ASSUME NEW k \in Handles, SendDirect(k) \/ InsertRow(k)
      PROVE  (pc'[h] \in Early => pc[h] \in Early) /\ since'[h] = since[h]
  BY <1>0, <1>3 DEF SendDirect, InsertRow, history
<1>4. ASSUME NEW k \in Handles, Activate(k)
      PROVE  (pc'[h] \in Early => pc[h] \in Early) /\ (since'[h] = since[h] \/ k = h)
  BY <1>0, <1>4 DEF Activate, TypeOK
<1>5. ASSUME NEW k \in Handles, WaitReturns(k) \/ Cancel(k)
      PROVE  (pc'[h] \in Early => pc[h] \in Early) /\ since'[h] = since[h]
  BY <1>0, <1>5 DEF WaitReturns, Cancel, history
<1>6. ASSUME NEW k \in Handles,
             RemoveHandle(k) \/ Persist(k) \/ TimerFires(k) \/ ResolveReceive(k) \/ Deadline(k)
      PROVE  UNCHANGED <<pc, since>>
  BY <1>6 DEF RemoveHandle, Persist, TimerFires, ResolveReceive, Deadline, history
<1>7. ASSUME NEW e \in Events, PublishInbound(e) PROVE UNCHANGED <<pc, since>>
  BY <1>7 DEF PublishInbound
<1>8. ASSUME NEW t \in Types, NEW k \in Handles,
             \/ HandleEvent(t) \/ EventHandled(t) \/ Subscribe(t)
             \/ DeliverToAsk(t, k) \/ CollectForReceive(t, k)
      PROVE  UNCHANGED <<pc, since>>
  BY <1>8 DEF HandleEvent, EventHandled, Subscribe, DeliverToAsk, CollectForReceive, history
<1>9. ASSUME Sweep \/ StartCleanup \/ Boot PROVE UNCHANGED <<pc, since>>
  BY <1>9 DEF Sweep, SweepBegins, SweepExpires, SweepDeletes, StartCleanup, Boot, history
<1>10. CASE Crash
  BY <1>0, <1>a, <1>10 DEF Crash, history
<1> QED
  BY <1>a, <1>2, <1>3, <1>4, <1>5, <1>6, <1>7, <1>8, <1>9, <1>10
     DEF Next, Call, Inside, Dispatch

LEMMA MapStep == TypeOK /\ TargetsWanted /\ MapInv /\ [Next]_vars => MapInv'
<1> SUFFICES ASSUME TypeOK, TargetsWanted, MapInv, [Next]_vars PROVE MapInv'
  OBVIOUS
<1>a. ASSUME NEW t \in Types PROVE DOMAIN targets = Types /\ targets[t] \subseteq Handles
  BY DEF TypeOK
<1>1. ASSUME NEW h \in Handles, Unknown(h), ~Activate(h)
      PROVE  once'[h] = "open" /\ h \notin live' /\ h \notin spawned'
  <2> USE <1>1 DEF Unknown
  <2>1. CASE UNCHANGED settle
    BY <2>1 DEF settle
  <2>2. ASSUME NEW k \in Handles, Activate(k) \/ RemoveHandle(k) \/ Persist(k)
        PROVE  once'[h] = "open" /\ h \notin live' /\ h \notin spawned'
    <3>1. k # h
      BY <2>2 DEF RemoveHandle, Persist
    <3> QED
      BY <2>2, <3>1 DEF Activate, RemoveHandle, Persist, TypeOK
  <2>3. ASSUME NEW k \in Handles, NEW v, NEW events, Settle(k, v, events), k # h
        PROVE  once'[h] = "open"
    BY <2>3, SettleOthers
  <2>4. ASSUME NEW k \in Handles, TimerFires(k) \/ ResolveReceive(k) \/ SweepExpires(k)
        PROVE  once'[h] = "open" /\ h \notin live' /\ h \notin spawned'
    <3>1. k # h /\ live' = live /\ spawned' \subseteq spawned
      BY <2>4 DEF TimerFires, ResolveReceive, SweepExpires
    <3> QED
      BY <2>3, <2>4, <3>1 DEF TimerFires, ResolveReceive, SweepExpires
  <2>5. ASSUME NEW t \in Types, NEW a \in Asks, DeliverToAsk(t, a)
        PROVE  once'[h] = "open" /\ h \notin live' /\ h \notin spawned'
    <3>1. a # h /\ UNCHANGED <<live, spawned>> /\ Settle(a, "resolved", <<handling[t]>>)
      BY <2>5 DEF DeliverToAsk
    <3> QED
      BY <2>3, <3>1
  <2>6. ASSUME NEW t \in Types, NEW v \in Receives, CollectForReceive(t, v)
        PROVE  once'[h] = "open" /\ h \notin live' /\ h \notin spawned'
    <3>1. v # h /\ UNCHANGED <<live, once>> /\ spawned' \subseteq spawned \cup {v}
      BY <2>6 DEF CollectForReceive
    <3> QED
      BY <3>1
  <2>7. CASE Crash
    BY <2>7 DEF Crash
  <2> QED
    BY <2>1, <2>2, <2>4, <2>5, <2>6, <2>7, HandleSteps
<1>2. /\ expired' \subseteq expired \cup live
      /\ \A t \in Types : targets'[t] \subseteq targets[t] \/ targets'[t] \subseteq live
  <2>1. ASSUME NEW h \in Handles, Persist(h) \/ SweepExpires(h)
        PROVE  expired' \subseteq expired /\ targets' = targets
    BY <2>1 DEF Persist, SweepExpires, cleanup
  <2>2. ASSUME NEW t \in Types, HandleEvent(t)
        PROVE  /\ expired' = expired
               /\ \A s \in Types : targets'[s] = targets[s] \/ targets'[s] \subseteq live
    BY <1>a, <2>2 DEF HandleEvent, Matched, cleanup
  <2>3. ASSUME NEW t \in Types, NEW h \in Handles, DeliverToAsk(t, h) \/ CollectForReceive(t, h)
        PROVE  expired' = expired /\ \A s \in Types : targets'[s] \subseteq targets[s]
    BY <1>a, <2>3 DEF DeliverToAsk, CollectForReceive, cleanup
  <2>4. ASSUME SweepBegins \/ SweepDeletes \/ StartCleanup
        PROVE  expired' \subseteq expired \cup live /\ targets' = targets
    BY <2>4 DEF SweepBegins, SweepDeletes, StartCleanup, routing
  <2>5. ASSUME Crash PROVE expired' = {} /\ \A s \in Types : targets'[s] = {}
    BY <2>5 DEF Crash
  <2> QED
    BY <2>1, <2>2, <2>3, <2>4, <2>5, RouteSteps
<1>3. ASSUME NEW h \in Handles, pc'[h] \in Early PROVE Unknown(h)'
  <2>1. Unknown(h) /\ ~Activate(h)
    BY <1>3, EarlyBefore DEF MapInv
  <2> QED
    BY <1>1, <1>2, <2>1 DEF Unknown
<1>4. ASSUME NEW t \in Types, NEW h \in targets'[t], once'[h] = "open" PROVE h \in live'
  <2>1. h \in Handles /\ ~Crash
    BY <1>a, <1>2, <1>4 DEF Crash, TypeOK
  <2>2. once[h] = "open"
    BY <1>4, <2>1, OpenStays
  <2>3. h \in live
    BY <1>2, <1>4, <2>2 DEF MapInv
  <2> QED
    BY <1>4, <2>1, <2>3, OpenStays
<1> QED
  BY <1>3, <1>4 DEF MapInv

-----------------------------------------------------------------------------
(* No event is missed.                                                     *)

\* Of the events of type t taken since h is in the map, h has had those it wants;
\* the last may still be in hand.
ReachedOf(h, t) ==
  \A i \in since[h][t] + 1 .. Taken(t) :
    Wants(h, log[t][i]) =>
      \/ i = Taken(t) /\ handling[t] # NoEvent /\ h \in targets[t]
      \/ h \in Receives /\ (Contains(collected[h], log[t][i]) \/ Full(h))

ReachedInv == \A h \in live : once[h] = "open" => \A t \in Types : ReachedOf(h, t)

LEMMA InitReached == Init => ReachedInv
  BY DEF Init, ReachedInv

\* A step that takes no event of the type, and nothing from the handle's targets or
\* its collection.
LEMMA ReachedFrame ==
  ASSUME TypeOK, LogInv, NEW h \in Handles, NEW t \in Types, ReachedOf(h, t),
         Taken(t)' = Taken(t), since'[h] = since[h],
         \A i \in 1 .. Len(log[t]) : log'[t][i] = log[t][i],
         handling[t] # NoEvent /\ h \in targets[t] => handling'[t] # NoEvent /\ h \in targets'[t],
         h \in Receives => /\ \A e : Contains(collected[h], e) => Contains(collected'[h], e)
                           /\ Full(h) => Full(h)'
  PROVE  ReachedOf(h, t)'
<1>1. /\ Taken(t) \in Nat /\ Taken(t) <= Len(log[t]) /\ Len(log[t]) \in Nat
      /\ since[h][t] \in Nat
  BY TakenType, TypeParts DEF TypeOK
<1>2. SUFFICES ASSUME NEW i \in since[h][t] + 1 .. Taken(t), Wants(h, log[t][i])
      PROVE  \/ i = Taken(t) /\ handling'[t] # NoEvent /\ h \in targets'[t]
             \/ h \in Receives /\ (Contains(collected'[h], log[t][i]) \/ Full(h)')
  <2>1. \A i \in since[h][t] + 1 .. Taken(t) : log'[t][i] = log[t][i]
    BY <1>1
  <2> QED
    BY <2>1 DEF ReachedOf, Wants
<1> QED
  BY <1>2 DEF ReachedOf

\* which steps move events
LEMMA RoutingSteps ==
  ASSUME [Next]_vars
  PROVE  \/ UNCHANGED <<queue, handling, log, targets, collected>>
         \/ \E e \in Events : PublishInbound(e)
         \/ \E t \in Types : \/ HandleEvent(t) \/ EventHandled(t)
                             \/ \E a \in Asks : DeliverToAsk(t, a)
                             \/ \E v \in Receives : CollectForReceive(t, v)
         \/ Crash
<1> USE DEF channels, routing, handles, history
<1>1. CASE UNCHANGED vars
  BY <1>1 DEF vars
<1>2. ASSUME NEW h \in Handles,
             \/ SendDirect(h) \/ InsertRow(h) \/ Activate(h) \/ WaitReturns(h) \/ Cancel(h)
             \/ RemoveHandle(h) \/ Persist(h) \/ TimerFires(h) \/ ResolveReceive(h) \/ Deadline(h)
      PROVE  UNCHANGED <<queue, handling, log, targets, collected>>
  BY <1>2 DEF SendDirect, InsertRow, Activate, WaitReturns, Cancel, RemoveHandle, Persist,
              TimerFires, ResolveReceive, Deadline
<1>3. ASSUME Sweep \/ StartCleanup \/ Boot
      PROVE  UNCHANGED <<queue, handling, log, targets, collected>>
  BY <1>3 DEF Sweep, SweepBegins, SweepExpires, SweepDeletes, StartCleanup, Boot
<1>4. ASSUME NEW t \in Types, Subscribe(t)
      PROVE  UNCHANGED <<queue, handling, log, targets, collected>>
  BY <1>4 DEF Subscribe, Channel!Open
<1> QED
  BY <1>1, <1>2, <1>3, <1>4 DEF Next, Call, Inside, Dispatch

\* what one event collected does to the receive
LEMMA CollectedGrows ==
  ASSUME TypeOK, TargetsWanted, NEW t \in Types, NEW v \in Receives, CollectForReceive(t, v)
  PROVE  /\ \A w \in Receives : /\ \A e : Contains(collected[w], e) => Contains(collected'[w], e)
                                /\ Full(w) => Full(w)'
         /\ Contains(collected'[v], handling[t]) \/ Full(v)'
<1>1. /\ collected \in [Receives -> Seq(Events)] /\ Limit[v] \in Nat
      /\ \/ Full(v) /\ collected' = collected
         \/ ~Full(v) /\ collected' = [collected EXCEPT ![v] = Append(collected[v], handling[t])]
  BY Collecting DEF TypeOK
<1>2. CASE collected' = collected
  BY <1>1, <1>2 DEF Full
<1>3. CASE ~Full(v) /\ collected' = [collected EXCEPT ![v] = Append(collected[v], handling[t])]
  <2>1. collected[v] \in Seq(Events) /\ handling[t] \in Events /\ Len(collected[v]) \in Nat
    BY <1>1, Collecting
  <2>2. /\ Len(Append(collected[v], handling[t])) = Len(collected[v]) + 1
        /\ \A i \in 1 .. Len(collected[v]) : Append(collected[v], handling[t])[i] = collected[v][i]
        /\ Append(collected[v], handling[t])[Len(collected[v]) + 1] = handling[t]
    BY <2>1
  <2>3. /\ collected'[v] = Append(collected[v], handling[t])
        /\ \A w \in Receives \ {v} : collected'[w] = collected[w]
    BY <1>1, <1>3
  <2>4. /\ \A e : Contains(collected[v], e) => Contains(collected'[v], e)
        /\ Contains(collected'[v], handling[t])
    BY <2>1, <2>2, <2>3 DEF Contains
  <2>5. ASSUME NEW w \in Receives
        PROVE  /\ \A e : Contains(collected[w], e) => Contains(collected'[w], e)
               /\ Full(w) => Full(w)'
    <3>1. CASE w = v
      BY <1>3, <2>4, <3>1
    <3>2. CASE w # v
      BY <2>3, <3>2 DEF Full
    <3> QED
      BY <3>1, <3>2
  <2> QED
    BY <2>4, <2>5
<1> QED
  BY <1>1, <1>2, <1>3

LEMMA ReachedStep ==
  TypeOK /\ TargetsWanted /\ LogInv /\ MapInv /\ ReachedInv /\ [Next]_vars => ReachedInv'
<1> SUFFICES ASSUME TypeOK, TargetsWanted, LogInv, MapInv, ReachedInv, [Next]_vars,
                    NEW h \in live', once'[h] = "open", NEW t \in Types
             PROVE  ReachedOf(h, t)'
  BY DEF ReachedInv
<1>a. ChannelTypes /\ HandleTypes /\ RouteTypes /\ since \in [Handles -> [Types -> Nat]]
  BY TypeParts DEF CallTypes
<1>b. h \in Handles /\ ~Crash /\ once[h] = "open"
  <2>1. h \in Handles
    BY <1>a, HandleTypesStep DEF HandleTypes
  <2> QED
    BY <2>1, OpenStays DEF Crash
<1>1. CASE Activate(h)
  <2>1. /\ since'[h][t] = Taken(t) /\ UNCHANGED <<log, queue>>
    BY <1>a, <1>b, <1>1 DEF Activate, channels, Taken
  <2>2. Taken(t)' = Taken(t) /\ Taken(t) \in Nat /\ Taken(t) <= Len(log[t]) /\ Len(log[t]) \in Nat
    BY <1>a, <2>1, TakenType DEF Taken
  <2> QED
    BY <2>1, <2>2 DEF ReachedOf
<1>2. CASE ~Activate(h)
  <2>1. since'[h] = since[h]
    BY <1>2, <1>b, EarlyBefore
  <2>2. h \in live
    <3> USE <1>2
    <3>1. CASE UNCHANGED settle
      BY <3>1 DEF settle
    <3>2. ASSUME NEW k \in Handles,
                 \/ Activate(k) \/ RemoveHandle(k) \/ Persist(k) \/ TimerFires(k)
                 \/ ResolveReceive(k) \/ SweepExpires(k)
          PROVE  h \in live
      BY <1>2, <3>2 DEF Activate, RemoveHandle, Persist, TimerFires, ResolveReceive, SweepExpires
    <3>3. ASSUME NEW s \in Types, NEW k \in Handles, DeliverToAsk(s, k) \/ CollectForReceive(s, k)
          PROVE  h \in live
      BY <3>3 DEF DeliverToAsk, CollectForReceive
    <3> QED
      BY <1>b, <3>1, <3>2, <3>3, HandleSteps
  <2>3. ReachedOf(h, t)
    BY <1>b, <2>2 DEF ReachedInv
  <2>4. \A i \in 1 .. Len(log[t]) : log'[t][i] = log[t][i]
    BY <1>a, LogKeeps
  <2>5. ASSUME UNCHANGED <<handling, targets, collected>>, Taken(t)' = Taken(t)
        PROVE  ReachedOf(h, t)'
    <3>1. \A v \in Receives : Full(v)' = Full(v)
      BY <2>5 DEF Full
    <3> QED
      BY <1>b, <2>1, <2>3, <2>4, <2>5, <3>1, ReachedFrame
  <2>6. CASE UNCHANGED <<queue, handling, log, targets, collected>>
    BY <2>5, <2>6 DEF Taken
  <2>7. ASSUME NEW e \in Events, PublishInbound(e) PROVE ReachedOf(h, t)'
    <3>1. UNCHANGED <<handling, targets, collected>>
      BY <1>a, <2>7, PublishedWhere DEF PublishInbound, routing, handles
    <3>2. Taken(t)' = Taken(t)
      BY <1>a, <2>7, PublishedTaken
    <3> QED
      BY <2>5, <3>1, <3>2
  <2>8. ASSUME NEW s \in Types, HandleEvent(s) PROVE ReachedOf(h, t)'
    <3>1. /\ targets' = [targets EXCEPT ![s] = Matched(Head(queue[s]))]
          /\ handling' = [handling EXCEPT ![s] = Head(queue[s])] /\ handling[s] = NoEvent
          /\ Head(queue[s]) \in Events /\ UNCHANGED <<collected, log>>
      BY <1>a, <2>8, TakeShrinks DEF HandleEvent, handles, history
    <3>2. /\ Taken(s)' = Taken(s) + 1 /\ Taken(s) \in Nat
          /\ \A u \in Types \ {s} : Taken(u)' = Taken(u)
          /\ Head(queue[s]) = log[s][Taken(s) + 1]
      BY <1>a, <2>8, LogTaken
    <3>f. \A v \in Receives : Full(v)' = Full(v)
      BY <3>1 DEF Full
    <3>3. CASE s # t
      <4>1. handling'[t] = handling[t] /\ targets'[t] = targets[t] /\ Taken(t)' = Taken(t)
        BY <1>a, <3>1, <3>2, <3>3 DEF ChannelTypes, RouteTypes
      <4> QED
        BY <1>b, <2>1, <2>3, <2>4, <3>1, <3>f, <4>1, ReachedFrame
    <3>4. CASE s = t
      <4>1. /\ targets'[t] = Matched(Head(queue[t])) /\ handling'[t] = Head(queue[t])
            /\ handling'[t] # NoEvent
        BY <1>a, <3>1, <3>4, EventsAssumption DEF ChannelTypes, RouteTypes
      <4>2. SUFFICES ASSUME NEW i \in since[h][t] + 1 .. Taken(t) + 1, Wants(h, log[t][i])
            PROVE  \/ i = Taken(t) + 1 /\ h \in targets'[t]
                   \/ h \in Receives /\ (Contains(collected[h], log[t][i]) \/ Full(h))
        BY <2>1, <3>1, <3>2, <3>4, <3>f, <4>1 DEF ReachedOf, Wants
      <4>3. CASE i = Taken(t) + 1
        BY <2>2, <3>2, <3>4, <4>1, <4>2, <4>3 DEF Matched, Wants
      <4>4. CASE i # Taken(t) + 1
        <5>1. i \in since[h][t] + 1 .. Taken(t)
          BY <1>a, <1>b, <3>2, <3>4, <4>4
        <5> QED
          BY <2>3, <3>1, <3>4, <4>2, <5>1 DEF ReachedOf
      <4> QED
        BY <4>3, <4>4
    <3> QED
      BY <3>3, <3>4
  <2>9. ASSUME NEW s \in Types, EventHandled(s) PROVE ReachedOf(h, t)'
    <3>1. /\ targets[s] = {} /\ handling' = [handling EXCEPT ![s] = NoEvent]
          /\ UNCHANGED <<queue, log, targets, collected>>
      BY <2>9 DEF EventHandled, Channel!Return, routing, handles, history
    <3>2. h \in targets[t] => handling'[t] = handling[t]
      BY <1>a, <3>1 DEF ChannelTypes
    <3>3. Taken(t)' = Taken(t) /\ \A v \in Receives : Full(v)' = Full(v)
      BY <3>1 DEF Taken, Full
    <3> QED
      BY <1>b, <2>1, <2>3, <2>4, <3>1, <3>2, <3>3, ReachedFrame
  <2>10. ASSUME NEW s \in Types, NEW a \in Asks, DeliverToAsk(s, a) PROVE ReachedOf(h, t)'
    <3>1. /\ Settle(a, "resolved", <<handling[s]>>)
          /\ targets' = [targets EXCEPT ![s] = targets[s] \ {a}]
          /\ UNCHANGED <<queue, handling, log, collected>>
      BY <2>10 DEF DeliverToAsk, channels, history
    <3>2. a # h
      BY <1>b, <3>1, SettleOthers
    <3>3. h \in targets[t] => h \in targets'[t]
      BY <1>a, <3>1, <3>2 DEF RouteTypes
    <3>4. Taken(t)' = Taken(t) /\ \A v \in Receives : Full(v)' = Full(v)
      BY <3>1 DEF Taken, Full
    <3> QED
      BY <1>b, <2>1, <2>3, <2>4, <3>1, <3>3, <3>4, ReachedFrame
  <2>11. ASSUME NEW s \in Types, NEW v \in Receives, CollectForReceive(s, v)
         PROVE  ReachedOf(h, t)'
    <3>1. /\ targets' = [targets EXCEPT ![s] = targets[s] \ {v}]
          /\ UNCHANGED <<queue, handling, log>>
      BY <2>11 DEF CollectForReceive, channels, history
    <3>2. Taken(t)' = Taken(t)
      BY <3>1 DEF Taken
    <3>3. CASE h # v \/ s # t
      <4>1. h \in targets[t] => h \in targets'[t]
        BY <1>a, <3>1, <3>3 DEF RouteTypes
      <4> QED
        BY <1>b, <2>1, <2>3, <2>4, <2>11, <3>1, <3>2, <4>1, CollectedGrows, ReachedFrame
    <3>4. CASE h = v /\ s = t
      <4>1. handling[t] # NoEvent
        BY <2>11, <3>4, EventsAssumption DEF CollectForReceive, TargetsWanted
      <4>2. handling[t] = log[t][Taken(t)]
        BY <4>1 DEF LogInv, LogOf
      <4>3. SUFFICES ASSUME NEW i \in since[h][t] + 1 .. Taken(t), Wants(h, log[t][i])
            PROVE  Contains(collected'[h], log[t][i]) \/ Full(h)'
        BY <2>1, <3>1, <3>2, <3>4 DEF ReachedOf, Wants
      <4>4. CASE i = Taken(t)
        BY <2>11, <3>4, <4>2, <4>4, CollectedGrows
      <4>5. CASE i # Taken(t)
        <5>1. Contains(collected[h], log[t][i]) \/ Full(h)
          BY <2>3, <4>3, <4>5 DEF ReachedOf
        <5> QED
          BY <2>11, <3>4, <5>1, CollectedGrows
      <4> QED
        BY <4>4, <4>5
    <3> QED
      BY <3>3, <3>4
  <2> QED
    BY <1>b, <2>6, <2>7, <2>8, <2>9, <2>10, <2>11, RoutingSteps
<1> QED
  BY <1>1, <1>2

LEMMA ReachedImplies == TypeOK /\ LogInv /\ ReachedInv => NothingMissed
<1> SUFFICES ASSUME TypeOK, LogInv, ReachedInv, NEW h \in live, once[h] = "open",
                    NEW t \in Types, NEW i \in since[h][t] + 1 .. Len(log[t]),
                    Wants(h, log[t][i])
             PROVE  \/ Contains(queue[t], log[t][i])
                    \/ InHand(h, log[t][i])
                    \/ h \in Receives /\ (Contains(collected[h], log[t][i]) \/ Full(h))
  BY DEF NothingMissed
<1>1. /\ Taken(t) \in Nat /\ Taken(t) <= Len(log[t]) /\ Len(log[t]) \in Nat
      /\ since[h][t] \in Nat /\ LogOf(t) /\ Len(queue[t]) \in Nat
  BY TakenType, TypeParts DEF TypeOK, LogInv
<1>2. i \in 1 .. Len(log[t]) /\ TypeOf[log[t][i]] = t
  BY <1>1 DEF LogOf
<1>3. CASE i \in since[h][t] + 1 .. Taken(t)
  <2>1. ReachedOf(h, t)
    BY DEF ReachedInv
  <2>2. CASE i = Taken(t) /\ handling[t] # NoEvent /\ h \in targets[t]
    BY <1>1, <1>2, <2>2 DEF LogOf, InHand
  <2> QED
    BY <1>3, <2>1, <2>2 DEF ReachedOf
<1>4. CASE i > Taken(t)
  <2> DEFINE n == Len(log[t])
             m == Len(queue[t])
             k == i - (n - m)
  <2>1. Taken(t) = n - m /\ n \in Nat /\ m \in Nat /\ i \in 1 .. n /\ i > n - m
    BY <1>1, <1>2, <1>4 DEF Taken
  <2> HIDE DEF n, m
  <2>2. k \in 1 .. m /\ (n - m) + k = i
    BY <2>1
  <2>3. queue[t][k] = log[t][i]
    <3>1. \A j \in 1 .. m : queue[t][j] = log[t][(n - m) + j]
      BY <1>1, <2>1 DEF LogOf, m
    <3> QED
      BY <2>2, <3>1
  <2> HIDE DEF k
  <2> QED
    BY <2>2, <2>3 DEF Contains, m
<1> QED
  BY <1>1, <1>2, <1>3, <1>4

-----------------------------------------------------------------------------
(* An ask gets its first match.                                            *)

\* a's result is the n-th event of type t, and a wants none before that since it is
\* in the map
AnsweredBy(a, t, n) ==
  /\ n \in 1 .. Len(log[t])
  /\ result[a][1] = log[t][n] /\ Wants(a, log[t][n])
  /\ \A i \in since[a][t] + 1 .. n - 1 : ~Wants(a, log[t][i])

FirstInv ==
  \A a \in Asks : result[a] # <<>> => \E t \in Types : \E n \in Nat : AnsweredBy(a, t, n)

LEMMA InitFirst == Init => FirstInv
  BY DEF Init, FirstInv

\* the result of an ask comes from an event that goes to it, and from nowhere else
LEMMA ResultSteps ==
  ASSUME TypeOK, [Next]_vars, NEW a \in Asks
  PROVE  \/ result'[a] = result[a] \/ result'[a] = <<>>
         \/ \E t \in Types : DeliverToAsk(t, a) /\ once[a] = "open"
<1>a. a \in Handles /\ a \notin Receives /\ spawned \subseteq Receives
  BY HandlesAssumption DEF TypeOK
<1>1. CASE UNCHANGED settle
  BY <1>1 DEF settle
<1>2. ASSUME NEW h \in Handles, Activate(h) \/ RemoveHandle(h) \/ Persist(h)
      PROVE  result' = result
  BY <1>2 DEF Activate, RemoveHandle, Persist
<1>3. ASSUME NEW h \in Handles, TimerFires(h) \/ SweepExpires(h)
      PROVE  result'[a] = result[a] \/ result'[a] = <<>>
  <2>1. Settle(h, "expired", Gathered(h)) /\ (h = a => Gathered(h) = <<>>)
    BY <1>3 DEF TimerFires, SweepExpires, Gathered
  <2> QED
    BY <1>a, <2>1, SettleOthers
<1>4. ASSUME NEW h \in Handles, ResolveReceive(h) PROVE result'[a] = result[a]
  <2>1. Settle(h, "resolved", collected[h]) /\ h # a
    BY <1>a, <1>4 DEF ResolveReceive
  <2> QED
    BY <1>a, <2>1, SettleOthers
<1>5. ASSUME NEW t \in Types, NEW b \in Asks, DeliverToAsk(t, b)
      PROVE  result'[a] = result[a] \/ (b = a /\ once[a] = "open")
  <2>1. Settle(b, "resolved", <<handling[t]>>)
    BY <1>5 DEF DeliverToAsk
  <2> QED
    BY <1>a, <2>1, SettleOthers
<1>6. ASSUME NEW t \in Types, NEW v \in Receives, CollectForReceive(t, v) PROVE result' = result
  BY <1>6 DEF CollectForReceive
<1>7. CASE Crash
  BY <1>7 DEF Crash
<1> QED
  BY <1>1, <1>2, <1>3, <1>4, <1>5, <1>6, <1>7, HandleSteps

LEMMA FirstStep ==
  /\ TypeOK /\ TargetsWanted /\ OutcomeInv /\ LogInv /\ MapInv /\ ReachedInv /\ FirstInv
  /\ [Next]_vars
  => FirstInv'
<1> SUFFICES ASSUME TypeOK, TargetsWanted, OutcomeInv, LogInv, MapInv, ReachedInv, FirstInv,
                    [Next]_vars, NEW a \in Asks, result'[a] # <<>>
             PROVE  \E t \in Types : \E n \in Nat : AnsweredBy(a, t, n)'
  BY DEF FirstInv
<1>a. ChannelTypes /\ RouteTypes /\ a \in Handles
      /\ since \in [Handles -> [Types -> Nat]] /\ result \in [Handles -> Seq(Events)]
  BY TypeParts DEF CallTypes, HandleTypes
<1>1. CASE result'[a] = result[a]
  <2>1. PICK t \in Types : \E n \in Nat : AnsweredBy(a, t, n)
    BY <1>1 DEF FirstInv
  <2>2. PICK n \in Nat : AnsweredBy(a, t, n)
    BY <2>1
  <2>3. pc[a] \notin Early
    BY <1>a, <1>1 DEF OutcomeInv, Agrees, MapInv, Unknown
  <2>4. since'[a] = since[a]
    <3>1. ~Activate(a)
      BY <2>3 DEF Activate, Early
    <3> QED
      BY <1>a, <3>1, EarlyBefore
  <2>5. /\ Len(log'[t]) >= Len(log[t]) /\ Len(log[t]) \in Nat /\ Len(log'[t]) \in Nat
        /\ \A i \in 1 .. Len(log[t]) : log'[t][i] = log[t][i]
    <3>1. log[t] \in Seq(Events) /\ log'[t] \in Seq(Events)
      BY <1>a, LogKeeps
    <3>2. Len(log[t]) \in Nat /\ Len(log'[t]) \in Nat
      BY <3>1
    <3> QED
      BY <1>a, <3>2, LogKeeps
  <2>6. n \in 1 .. Len(log[t]) /\ since[a][t] \in Nat
    BY <1>a, <2>2 DEF AnsweredBy
  <2>7. \A i \in since[a][t] + 1 .. n - 1 : i \in 1 .. Len(log[t])
    BY <2>5, <2>6
  <2>8. n \in 1 .. Len(log'[t])
    BY <2>5, <2>6
  <2>9. AnsweredBy(a, t, n)'
    BY <1>1, <2>2, <2>4, <2>5, <2>6, <2>7, <2>8 DEF AnsweredBy, Wants
  <2> QED
    BY <2>9
<1>2. ASSUME NEW t \in Types, DeliverToAsk(t, a), once[a] = "open"
      PROVE  \E s \in Types : \E n \in Nat : AnsweredBy(a, s, n)'
  <2>1. /\ a \in targets[t] /\ Settle(a, "resolved", <<handling[t]>>)
        /\ UNCHANGED <<log, since>>
    BY <1>2 DEF DeliverToAsk, history
  <2>2. a \in live /\ a \notin Receives
    BY <1>2, <2>1, HandlesAssumption DEF MapInv
  <2>3. handling[t] \in Events /\ handling[t] # NoEvent /\ Wants(a, handling[t])
    BY <2>1, EventsAssumption DEF TargetsWanted
  <2>4. /\ Taken(t) \in Nat /\ Taken(t) >= 1 /\ Taken(t) <= Len(log[t]) /\ Len(log[t]) \in Nat
        /\ handling[t] = log[t][Taken(t)]
    BY <1>a, <2>3, TakenType DEF LogInv, LogOf
  <2>5. result'[a] = <<handling[t]>>
    BY <1>2, <1>a, <2>1, SettleOthers
  <2>6. ASSUME NEW i \in since[a][t] + 1 .. Taken(t) - 1 PROVE ~Wants(a, log[t][i])
    <3>1. i \in since[a][t] + 1 .. Taken(t) /\ i # Taken(t)
      BY <1>a, <2>4
    <3>2. ReachedOf(a, t)
      BY <1>2, <2>2 DEF ReachedInv
    <3> QED
      BY <2>2, <3>1, <3>2 DEF ReachedOf
  <2>7. Taken(t) \in 1 .. Len(log[t])
    BY <2>4
  <2> DEFINE n == Taken(t)
  <2>8. n \in Nat /\ n \in 1 .. Len(log[t]) /\ handling[t] = log[t][n]
        /\ \A i \in since[a][t] + 1 .. n - 1 : ~Wants(a, log[t][i])
    BY <2>4, <2>6, <2>7
  <2>9. PICK m \in Nat : m = n
    BY <2>4
  <2>10. result'[a][1] = handling[t]
    BY <2>5
  <2>11. AnsweredBy(a, t, m)'
    <3>1. /\ m \in 1 .. Len(log[t]) /\ handling[t] = log[t][m]
          /\ \A i \in since[a][t] + 1 .. m - 1 : ~Wants(a, log[t][i])
      BY <2>8, <2>9
    <3> HIDE DEF n
    <3> QED
      BY <2>1, <2>3, <2>10, <3>1 DEF AnsweredBy, Wants
  <2> QED
    BY <2>11
<1> QED
  BY <1>1, <1>2, ResultSteps

LEMMA FirstImplies == TypeOK /\ LogInv /\ FirstInv => FirstMatchWins
<1> SUFFICES ASSUME TypeOK, LogInv, FirstInv, NEW a \in Asks, result[a] # <<>>
             PROVE  /\ Wants(a, result[a][1])
                    /\ LET t == TypeOf[result[a][1]] IN
                       \A i \in since[a][t] + 1 .. Len(log[t]) :
                         (\E j \in i + 1 .. Len(log[t]) : log[t][j] = result[a][1])
                         => ~Wants(a, log[t][i])
  BY DEF FirstMatchWins
<1>1. PICK t \in Types : \E n \in Nat : AnsweredBy(a, t, n)
  BY DEF FirstInv
<1>2. PICK n \in Nat : AnsweredBy(a, t, n)
  BY <1>1
<1>3. /\ since[a][t] \in Nat /\ Len(log[t]) \in Nat /\ LogOf(t)
      /\ n \in 1 .. Len(log[t]) /\ result[a][1] = log[t][n]
  BY <1>2, TypeParts DEF TypeOK, LogInv, AnsweredBy, ChannelTypes
<1>4. TypeOf[result[a][1]] = t
  BY <1>3 DEF LogOf
<1>5. ASSUME NEW i \in since[a][t] + 1 .. Len(log[t]), NEW j \in i + 1 .. Len(log[t]),
             log[t][j] = result[a][1]
      PROVE  ~Wants(a, log[t][i])
  <2>1. j \in 1 .. Len(log[t])
    BY <1>3
  <2>2. j = n
    BY <1>3, <1>5, <2>1 DEF LogOf
  <2>3. i \in since[a][t] + 1 .. n - 1
    BY <1>3, <2>2
  <2> QED
    BY <1>2, <2>3 DEF AnsweredBy
<1> QED
  BY <1>2, <1>3, <1>4, <1>5 DEF AnsweredBy

-----------------------------------------------------------------------------
(* A receive collects each type in the order of the bus.                   *)

\* e was taken, and before the event of its type that is still to go to v
CameTo(v, e) ==
  \E k \in 1 .. Taken(TypeOf[e]) :
    log[TypeOf[e]][k] = e /\ (v \in targets[TypeOf[e]] => k < Taken(TypeOf[e]))

Precedes(e, f) ==
  \E k, l \in 1 .. Len(log[TypeOf[f]]) :
    k < l /\ log[TypeOf[f]][k] = e /\ log[TypeOf[f]][l] = f

CameFrom(v) == \A i \in 1 .. Len(collected[v]) : CameTo(v, collected[v][i])

InOrder(v) ==
  \A i, j \in 1 .. Len(collected[v]) :
    i < j /\ TypeOf[collected[v][i]] = TypeOf[collected[v][j]]
    => Precedes(collected[v][i], collected[v][j])

CollectInv ==
  \A v \in Receives : IsPrefix(result[v], collected[v]) /\ CameFrom(v) /\ InOrder(v)

LEMMA PrefixByIndex ==
  ASSUME NEW S, NEW r \in Seq(S), NEW s \in Seq(S)
  PROVE  IsPrefix(r, s) <=> Len(r) <= Len(s) /\ \A i \in 1 .. Len(r) : r[i] = s[i]
<1>1. Len(r) \in Nat /\ Len(s) \in Nat
  OBVIOUS
<1>2. CASE Len(r) <= Len(s)
  <2> DEFINE rr == SubSeq(r, 1, Len(r))
             ss == SubSeq(s, 1, Len(r))
  <2>1. /\ rr \in Seq(S) /\ ss \in Seq(S) /\ Len(rr) = Len(r) /\ Len(ss) = Len(r)
        /\ \A i \in 1 .. Len(r) : rr[i] = r[i] /\ ss[i] = s[i]
    BY <1>1, <1>2
  <2>2. rr = ss <=> \A i \in 1 .. Len(r) : rr[i] = ss[i]
    <3> HIDE DEF rr, ss
    <3> QED
      BY <2>1, SeqEqual
  <2>3. IsPrefix(r, s) <=> rr = ss
    BY <1>2 DEF IsPrefix
  <2> HIDE DEF rr, ss
  <2> QED
    BY <1>2, <2>1, <2>2, <2>3
<1>3. CASE ~(Len(r) <= Len(s))
  BY <1>3 DEF IsPrefix
<1> QED
  BY <1>2, <1>3

LEMMA InitCollect == Init => CollectInv
<1> SUFFICES ASSUME Init, NEW v \in Receives
             PROVE  IsPrefix(result[v], collected[v]) /\ CameFrom(v) /\ InOrder(v)
  BY DEF CollectInv
<1>1. result[v] = <<>> /\ collected[v] = <<>> /\ <<>> \in Seq(Events) /\ Len(<<>>) = 0
  BY DEF Init
<1>2. IsPrefix(<<>>, <<>>)
  BY <1>1 DEF IsPrefix
<1> QED
  BY <1>1, <1>2 DEF CameFrom, InOrder

\* what a step can do to the events taken and those still to go somewhere
LEMMA TakenGrows ==
  ASSUME TypeOK, LogInv, [Next]_vars, NEW t \in Types
  PROVE  /\ Taken(t) \in Nat /\ Taken(t)' \in Nat /\ Taken(t) <= Taken(t)'
         /\ targets'[t] \subseteq targets[t] \/ Taken(t) < Taken(t)'
<1>a. ChannelTypes /\ RouteTypes /\ ChannelTypes' /\ LogInv'
  BY TypeParts, ChannelTypesStep, LogStep
<1>b. Taken(t) \in Nat /\ Taken(t)' \in Nat
  <2>1. Taken(t)' \in Nat
    <3> DEFINE n == Len(log'[t])
               m == Len(queue'[t])
    <3>1. n \in Nat /\ m \in Nat /\ m <= n
      BY <1>a DEF ChannelTypes, LogInv, LogOf
    <3>2. Taken(t)' = n - m
      BY DEF Taken
    <3> HIDE DEF n, m
    <3> QED
      BY <3>1, <3>2
  <2> QED
    BY <1>a, <2>1, TakenType
<1>1. ASSUME Taken(t)' = Taken(t), targets'[t] \subseteq targets[t]
      PROVE  Taken(t) <= Taken(t)' /\ (targets'[t] \subseteq targets[t] \/ Taken(t) < Taken(t)')
  BY <1>b, <1>1
<1>2. CASE UNCHANGED <<queue, handling, log, targets, collected>>
  BY <1>b, <1>1, <1>2 DEF Taken
<1>3. ASSUME NEW e \in Events, PublishInbound(e)
      PROVE  Taken(t)' = Taken(t) /\ targets' = targets
  BY <1>a, <1>3, PublishedTaken DEF PublishInbound, routing
<1>4. ASSUME NEW s \in Types, HandleEvent(s)
      PROVE  Taken(t) <= Taken(t)' /\ (targets'[t] \subseteq targets[t] \/ Taken(t) < Taken(t)')
  <2>1. targets' = [targets EXCEPT ![s] = Matched(Head(queue[s]))]
    BY <1>4 DEF HandleEvent
  <2>2. CASE s = t
    BY <1>a, <1>b, <1>4, <2>2, LogTaken
  <2>3. CASE s # t
    BY <1>a, <1>b, <1>4, <2>1, <2>3, LogTaken DEF RouteTypes
  <2> QED
    BY <2>2, <2>3
<1>5. ASSUME NEW s \in Types, EventHandled(s)
      PROVE  Taken(t)' = Taken(t) /\ targets' = targets
  BY <1>5 DEF EventHandled, Channel!Return, routing, history, Taken
<1>6. ASSUME NEW s \in Types, NEW h \in Handles, DeliverToAsk(s, h) \/ CollectForReceive(s, h)
      PROVE  Taken(t)' = Taken(t) /\ targets'[t] \subseteq targets[t]
  <2>1. UNCHANGED <<queue, log>> /\ targets' = [targets EXCEPT ![s] = targets[s] \ {h}]
    BY <1>6 DEF DeliverToAsk, CollectForReceive, channels, history
  <2> QED
    BY <1>a, <2>1 DEF Taken, RouteTypes
<1>7. CASE Crash
  <2> DEFINE n == Len(log[t])
             m == Len(queue[t])
  <2>1. n \in Nat /\ m \in Nat /\ Taken(t) = n - m
    BY <1>a DEF ChannelTypes, Taken
  <2>2. Len(log'[t]) = n /\ Len(queue'[t]) = 0 /\ targets'[t] = {}
    BY <1>7 DEF Crash, Empty, history
  <2>3. Taken(t)' = n
    BY <2>1, <2>2 DEF Taken
  <2> HIDE DEF n, m
  <2>4. n - m <= n
    BY <2>1
  <2> QED
    BY <1>b, <2>1, <2>2, <2>3, <2>4
<1> QED
  BY <1>b, <1>1, <1>2, <1>3, <1>4, <1>5, <1>6, <1>7, RoutingSteps

\* what came to a receive, and in which order, no later step takes back
LEMMA CameToStays ==
  ASSUME TypeOK, LogInv, [Next]_vars, NEW v \in Receives, NEW e \in Events, CameTo(v, e)
  PROVE  CameTo(v, e)'
<1> DEFINE t == TypeOf[e]
<1>1. t \in Types
  BY EventsAssumption
<1>2. PICK k \in 1 .. Taken(t) : log[t][k] = e /\ (v \in targets[t] => k < Taken(t))
  BY DEF CameTo
<1>3. /\ Taken(t) \in Nat /\ Taken(t)' \in Nat /\ Taken(t) <= Taken(t)'
      /\ targets'[t] \subseteq targets[t] \/ Taken(t) < Taken(t)'
  BY <1>1, TakenGrows
<1>4. log'[t][k] = e
  <2>1. Taken(t) <= Len(log[t]) /\ Len(log[t]) \in Nat
    BY <1>1, TakenType, TypeParts
  <2>2. k \in 1 .. Len(log[t])
    BY <1>3, <2>1
  <2> QED
    BY <1>1, <1>2, <2>2, LogKeeps, TypeParts
<1>5. k \in 1 .. Taken(t)' /\ (v \in targets'[t] => k < Taken(t)')
  BY <1>2, <1>3
<1> QED
  BY <1>4, <1>5 DEF CameTo

LEMMA PrecedesStays ==
  ASSUME TypeOK, LogInv, [Next]_vars, NEW e \in Events, NEW f \in Events, Precedes(e, f)
  PROVE  Precedes(e, f)'
<1> DEFINE t == TypeOf[f]
<1>1. t \in Types
  BY EventsAssumption
<1>2. PICK k \in 1 .. Len(log[t]), l \in 1 .. Len(log[t]) :
        k < l /\ log[t][k] = e /\ log[t][l] = f
  BY DEF Precedes
<1>3. log[t] \in Seq(Events) /\ log'[t] \in Seq(Events)
  BY <1>1, LogKeeps, TypeParts
<1>4. /\ Len(log[t]) \in Nat /\ Len(log'[t]) \in Nat /\ Len(log[t]) <= Len(log'[t])
      /\ \A i \in 1 .. Len(log[t]) : log'[t][i] = log[t][i]
  <2>1. Len(log[t]) \in Nat /\ Len(log'[t]) \in Nat
    BY <1>3
  <2> QED
    BY <1>1, <2>1, LogKeeps, TypeParts
<1>5. k \in 1 .. Len(log'[t]) /\ l \in 1 .. Len(log'[t])
  BY <1>4
<1>6. log'[t][k] = e /\ log'[t][l] = f
  BY <1>2, <1>4
<1> QED
  BY <1>2, <1>5, <1>6 DEF Precedes

\* a receive that collects nothing in this step
LEMMA CollectFrame ==
  ASSUME TypeOK, LogInv, [Next]_vars, NEW v \in Receives, collected'[v] = collected[v],
         CameFrom(v), InOrder(v)
  PROVE  CameFrom(v)' /\ InOrder(v)'
<1>1. \A i \in 1 .. Len(collected[v]) : collected[v][i] \in Events
  BY DEF TypeOK
<1>2. \A i \in 1 .. Len(collected[v]) : CameTo(v, collected[v][i])'
  <2> TAKE i \in 1 .. Len(collected[v])
  <2>1. PICK e \in Events : e = collected[v][i]
    BY <1>1
  <2>2. CameTo(v, e)'
    BY <2>1, CameToStays DEF CameFrom
  <2> QED
    BY <2>1, <2>2 DEF CameTo
<1>3. ASSUME NEW i \in 1 .. Len(collected[v]), NEW j \in 1 .. Len(collected[v]), i < j,
             TypeOf[collected[v][i]] = TypeOf[collected[v][j]]
      PROVE  Precedes(collected[v][i], collected[v][j])'
  <2>1. PICK e \in Events, f \in Events : e = collected[v][i] /\ f = collected[v][j]
    BY <1>1
  <2>2. Precedes(e, f)'
    BY <1>3, <2>1, PrecedesStays DEF InOrder
  <2> QED
    BY <2>1, <2>2 DEF Precedes
<1> QED
  BY <1>2, <1>3 DEF CameFrom, InOrder

\* the event in hand follows all that the receive has of its type
LEMMA CollectMore ==
  ASSUME TypeOK, TargetsWanted, LogInv, [Next]_vars, NEW s \in Types, NEW v \in Receives,
         CollectForReceive(s, v), ~Full(v), CameFrom(v), InOrder(v)
  PROVE  CameFrom(v)' /\ InOrder(v)'
<1>a. ChannelTypes /\ RouteTypes /\ collected \in [Receives -> Seq(Events)]
  BY TypeParts DEF HandleTypes
<1>1. /\ v \in targets[s] /\ handling[s] \in Events /\ UNCHANGED <<queue, log>>
      /\ targets' = [targets EXCEPT ![s] = targets[s] \ {v}]
      /\ collected' = [collected EXCEPT ![v] = Append(collected[v], handling[s])]
  BY Collecting DEF CollectForReceive, channels, history
<1>2. PICK e \in Events, n \in Nat : e = handling[s] /\ n = Len(collected[v])
  BY <1>a, <1>1
<1>3. /\ e = log[s][Taken(s)] /\ Taken(s) \in 1 .. Len(log[s]) /\ TypeOf[e] = s
      /\ Taken(s) \in Nat /\ Len(log[s]) \in Nat
  <2>1. LogOf(s) /\ Taken(s) \in Nat /\ Taken(s) <= Len(log[s]) /\ Len(log[s]) \in Nat
    BY <1>a, TakenType DEF LogInv
  <2>2. Taken(s) >= 1 /\ e = log[s][Taken(s)]
    BY <1>2, <2>1, EventsAssumption DEF LogOf
  <2>3. Taken(s) \in 1 .. Len(log[s])
    BY <2>1, <2>2
  <2> QED
    BY <2>1, <2>2, <2>3 DEF LogOf
<1>4. /\ Len(collected'[v]) = n + 1 /\ collected'[v][n + 1] = e
      /\ \A i \in 1 .. n : collected'[v][i] = collected[v][i] /\ collected[v][i] \in Events
  BY <1>a, <1>1, <1>2
<1>5. \A i \in 1 .. n + 1 : i \in 1 .. n \/ i = n + 1
  OBVIOUS
<1>6. CameTo(v, e)'
  <2>1. Taken(s)' = Taken(s) /\ v \notin targets'[s] /\ log' = log
    BY <1>a, <1>1 DEF Taken, RouteTypes
  <2>2. Taken(s) \in 1 .. Taken(s)
    BY <1>3
  <2> QED
    BY <1>3, <2>1, <2>2 DEF CameTo
<1>7. ASSUME NEW f \in Events, CameTo(v, f), TypeOf[f] = s PROVE Precedes(f, e)'
  <2>1. PICK k \in 1 .. Taken(s) : log[s][k] = f /\ k < Taken(s)
    BY <1>1, <1>7 DEF CameTo
  <2>2. k \in 1 .. Len(log[s]) /\ log' = log
    BY <1>1, <1>3
  <2> QED
    BY <1>3, <2>1, <2>2 DEF Precedes
<1>8. \A i \in 1 .. n + 1 : CameTo(v, collected[v][i])'
  <2> TAKE i \in 1 .. n + 1
  <2>1. CASE i \in 1 .. n
    <3>1. PICK f \in Events : f = collected[v][i] /\ f = collected'[v][i]
      BY <1>4, <2>1
    <3>2. CameTo(v, f)'
      BY <1>2, <2>1, <3>1, CameToStays DEF CameFrom
    <3> QED
      BY <3>1, <3>2 DEF CameTo
  <2>2. CASE i = n + 1
    BY <1>4, <1>6, <2>2 DEF CameTo
  <2> QED
    BY <1>5, <2>1, <2>2
<1>9. ASSUME NEW i \in 1 .. n + 1, NEW j \in 1 .. n + 1, i < j,
             TypeOf[collected'[v][i]] = TypeOf[collected'[v][j]]
      PROVE  Precedes(collected[v][i], collected[v][j])'
  <2>1. i \in 1 .. n
    BY <1>9
  <2>2. PICK f \in Events : f = collected[v][i] /\ f = collected'[v][i]
    BY <1>4, <2>1
  <2>3. CASE j \in 1 .. n
    <3>1. PICK g \in Events : g = collected[v][j] /\ g = collected'[v][j]
      BY <1>4, <2>3
    <3>2. Precedes(f, g)
      BY <1>2, <1>9, <2>1, <2>2, <2>3, <3>1 DEF InOrder
    <3>3. Precedes(f, g)'
      BY <3>2, PrecedesStays
    <3> QED
      BY <2>2, <3>1, <3>3 DEF Precedes
  <2>4. CASE j = n + 1
    <3>1. collected'[v][j] = e /\ TypeOf[f] = s
      BY <1>3, <1>4, <1>9, <2>2, <2>4
    <3>2. Precedes(f, e)'
      BY <1>2, <1>7, <2>1, <2>2, <3>1 DEF CameFrom
    <3> QED
      BY <2>2, <3>1, <3>2 DEF Precedes
  <2> QED
    BY <1>5, <2>3, <2>4
<1> QED
  BY <1>4, <1>8, <1>9 DEF CameFrom, InOrder

LEMMA PrefixStep ==
  ASSUME TypeOK, TargetsWanted, [Next]_vars, NEW v \in Receives, IsPrefix(result[v], collected[v])
  PROVE  IsPrefix(result[v], collected[v])'
<1>a. /\ result[v] \in Seq(Events) /\ collected[v] \in Seq(Events) /\ v \in Handles /\ v \notin Asks
      /\ HandleTypes /\ spawned \subseteq Receives
  BY TypeParts, HandlesAssumption DEF HandleTypes
<1>b. IsPrefix(collected[v], collected[v])
  <2>1. Len(collected[v]) \in Nat
    BY <1>a
  <2> QED
    BY <1>a, <2>1, PrefixByIndex
<1>1. ASSUME UNCHANGED collected, result'[v] = result[v] \/ result'[v] = collected[v]
      PROVE  IsPrefix(result[v], collected[v])'
  BY <1>b, <1>1
<1>2. CASE UNCHANGED settle
  BY <1>1, <1>2 DEF settle
<1>3. ASSUME NEW h \in Handles, Activate(h) \/ RemoveHandle(h) \/ Persist(h)
      PROVE  IsPrefix(result[v], collected[v])'
  BY <1>1, <1>3 DEF Activate, RemoveHandle, Persist
<1>4. ASSUME NEW h \in Handles, TimerFires(h) \/ SweepExpires(h) \/ ResolveReceive(h)
      PROVE  IsPrefix(result[v], collected[v])'
  <2>1. /\ UNCHANGED collected
        /\ Settle(h, "expired", Gathered(h)) \/ Settle(h, "resolved", collected[h])
    BY <1>4 DEF TimerFires, SweepExpires, ResolveReceive
  <2>2. h = v => Gathered(h) = collected[v]
    BY <1>a DEF Gathered
  <2>3. result'[v] = result[v] \/ result'[v] = collected[v]
    BY <1>a, <2>1, <2>2, SettleOthers
  <2> QED
    BY <1>1, <2>1, <2>3
<1>5. ASSUME NEW t \in Types, NEW b \in Asks, DeliverToAsk(t, b)
      PROVE  IsPrefix(result[v], collected[v])'
  <2>1. Settle(b, "resolved", <<handling[t]>>) /\ UNCHANGED collected /\ b # v
    BY <1>a, <1>5 DEF DeliverToAsk
  <2>2. result'[v] = result[v]
    BY <1>a, <2>1, SettleOthers
  <2> QED
    BY <1>1, <2>1, <2>2
<1>6. ASSUME NEW t \in Types, NEW w \in Receives, CollectForReceive(t, w)
      PROVE  IsPrefix(result[v], collected[v])'
  <2>1. /\ result' = result /\ handling[t] \in Events /\ collected \in [Receives -> Seq(Events)]
        /\ \/ collected' = collected
           \/ collected' = [collected EXCEPT ![w] = Append(collected[w], handling[t])]
    BY <1>a, <1>6, Collecting DEF CollectForReceive, HandleTypes
  <2>2. CASE collected'[v] = collected[v]
    BY <2>1, <2>2
  <2>3. CASE collected'[v] = Append(collected[v], handling[t])
    <3>1. PICK r \in Seq(Events), c \in Seq(Events), x \in Events :
            r = result[v] /\ c = collected[v] /\ x = handling[t]
      BY <1>a, <2>1
    <3>2. /\ Append(c, x) \in Seq(Events) /\ Len(Append(c, x)) = Len(c) + 1
          /\ \A i \in 1 .. Len(c) : Append(c, x)[i] = c[i]
          /\ Len(r) \in Nat /\ Len(c) \in Nat
      OBVIOUS
    <3>3. Len(r) <= Len(c) /\ \A i \in 1 .. Len(r) : r[i] = c[i]
      BY <3>1, PrefixByIndex
    <3>4. Len(r) <= Len(Append(c, x)) /\ \A i \in 1 .. Len(r) : r[i] = Append(c, x)[i]
      BY <3>2, <3>3
    <3>5. IsPrefix(r, Append(c, x))
      BY <3>2, <3>4, PrefixByIndex
    <3> QED
      BY <2>1, <2>3, <3>1, <3>5
  <2>4. collected'[v] = collected[v] \/ collected'[v] = Append(collected[v], handling[t])
    BY <2>1
  <2> QED
    BY <2>2, <2>3, <2>4
<1>7. CASE Crash
  BY <1>1, <1>7 DEF Crash
<1> QED
  BY <1>2, <1>3, <1>4, <1>5, <1>6, <1>7, HandleSteps

\* only an event that goes to a receive changes what it has collected
LEMMA CollectedBy ==
  ASSUME TypeOK, TargetsWanted, [Next]_vars, NEW v \in Receives
  PROVE  \/ collected'[v] = collected[v]
         \/ \E t \in Types : CollectForReceive(t, v) /\ ~Full(v)
<1>1. ASSUME NEW t \in Types, NEW w \in Receives, CollectForReceive(t, w)
      PROVE  collected'[v] = collected[v] \/ (w = v /\ ~Full(v))
  <2>1. /\ collected \in [Receives -> Seq(Events)]
        /\ \/ collected' = collected
           \/ ~Full(w) /\ collected' = [collected EXCEPT ![w] = Append(collected[w], handling[t])]
    BY <1>1, Collecting DEF TypeOK
  <2> QED
    BY <2>1
<1>2. ASSUME NEW t \in Types, EventHandled(t) \/ HandleEvent(t) PROVE collected' = collected
  BY <1>2 DEF EventHandled, HandleEvent, handles
<1>3. ASSUME NEW t \in Types, NEW a \in Asks, DeliverToAsk(t, a) PROVE collected' = collected
  BY <1>3 DEF DeliverToAsk
<1>4. ASSUME NEW e \in Events, PublishInbound(e) PROVE collected' = collected
  BY <1>4 DEF PublishInbound, handles
<1>5. ASSUME Crash PROVE collected' = collected
  BY <1>5 DEF Crash
<1> QED
  BY <1>1, <1>2, <1>3, <1>4, <1>5, RoutingSteps

LEMMA CollectStep == TypeOK /\ TargetsWanted /\ LogInv /\ CollectInv /\ [Next]_vars => CollectInv'
<1> SUFFICES ASSUME TypeOK, TargetsWanted, LogInv, CollectInv, [Next]_vars, NEW v \in Receives
             PROVE  (IsPrefix(result[v], collected[v]) /\ CameFrom(v) /\ InOrder(v))'
  BY DEF CollectInv
<1>1. IsPrefix(result[v], collected[v]) /\ CameFrom(v) /\ InOrder(v)
  BY DEF CollectInv
<1>2. CASE collected'[v] = collected[v]
  BY <1>1, <1>2, CollectFrame, PrefixStep
<1>3. ASSUME NEW t \in Types, CollectForReceive(t, v), ~Full(v)
      PROVE  CameFrom(v)' /\ InOrder(v)'
  BY <1>1, <1>3, CollectMore
<1>4. \/ collected'[v] = collected[v]
      \/ \E t \in Types : CollectForReceive(t, v) /\ ~Full(v)
  BY CollectedBy
<1> QED
  BY <1>1, <1>2, <1>3, <1>4, PrefixStep

-----------------------------------------------------------------------------
(* The theorems.                                                           *)

RoutingInv == MapInv /\ ReachedInv /\ FirstInv /\ CollectInv

LEMMA RoutingInvariant == Spec => [](TypeOK /\ LogInv /\ RoutingInv)
<1>1. Init => RoutingInv
  BY InitMap, InitReached, InitFirst, InitCollect DEF RoutingInv
<1>2. TypeOK /\ TargetsWanted /\ LogInv /\ OutcomeInv /\ RoutingInv /\ [Next]_vars => RoutingInv'
  BY MapStep, ReachedStep, FirstStep, CollectStep DEF RoutingInv
<1> QED
  BY <1>1, <1>2, TypeCorrect, OutcomeInvariant, PTL DEF Spec

\* From the moment a handle is in the map until it is settled, no event its filter
\* wants is lost once the bus took it.
THEOREM NoEventMissed == Spec => []NothingMissed
<1>1. TypeOK /\ LogInv /\ RoutingInv => NothingMissed
  BY ReachedImplies DEF RoutingInv
<1> QED
  BY <1>1, RoutingInvariant, PTL

\* An ask is answered by the first event it wants of those the bus took after the
\* ask was in the map.
THEOREM FirstMatchAnswers == Spec => []FirstMatchWins
<1>1. TypeOK /\ LogInv /\ RoutingInv => FirstMatchWins
  BY FirstImplies DEF RoutingInv
<1> QED
  BY <1>1, RoutingInvariant, PTL

\* A receive collects an event once and none past its limit, keeps each type in the
\* order of the bus, and returns what it had collected when its window closed.
THEOREM CollectedInOrder == Spec => []CollectedSound
<1>1. TypeOK /\ LogInv /\ RoutingInv => CollectedSound
  BY DEF RoutingInv, CollectInv, InOrder, Precedes, CollectedSound, TypeOK
<1> QED
  BY <1>1, RoutingInvariant, PTL

-----------------------------------------------------------------------------
(* The calls as their clients see them.                                    *)

\* A call with its row and its place in the map: the row is written before the
\* handle is in the map, and whoever knows an open handle finds it there.
PlacedOf(h) ==
  /\ pc[h] \in {"new", "sent"} => row[h] = "none"
  /\ pc[h] = "inserted" \/ h \in live \/ once[h] # "open" => row[h] # "none"
  /\ h \in live => pc[h] \in {"waiting", "cancelled", "answered", "timed_out"}
  /\ h \in spawned \cup expired /\ once[h] = "open" => h \in live

Overdue == expired \subseteq due /\ sweepNow \subseteq due

PlacedInv == (\A h \in Handles : PlacedOf(h)) /\ Overdue

LEMMA InitPlaced == Init => PlacedInv
  BY DEF Init, PlacedInv, PlacedOf, Overdue

LEMMA CallSteps ==
  ASSUME [Next]_vars
  PROVE  \/ UNCHANGED <<pc, row, since, due>>
         \/ \E h \in Handles : \/ (h \in Asks /\ SendDirect(h)) \/ InsertRow(h) \/ Activate(h)
                               \/ WaitReturns(h) \/ Cancel(h) \/ Persist(h) \/ Deadline(h)
         \/ SweepDeletes \/ Crash
<1> USE DEF history
<1>1. CASE UNCHANGED vars
  BY <1>1 DEF vars
<1>2. ASSUME NEW h \in Handles, RemoveHandle(h) \/ TimerFires(h) \/ ResolveReceive(h) \/ SweepExpires(h)
      PROVE  UNCHANGED <<pc, row, since, due>>
  BY <1>2 DEF RemoveHandle, TimerFires, ResolveReceive, SweepExpires
<1>3. ASSUME NEW e \in Events, PublishInbound(e) PROVE UNCHANGED <<pc, row, since, due>>
  BY <1>3 DEF PublishInbound
<1>4. ASSUME NEW t \in Types, NEW h \in Handles,
             \/ HandleEvent(t) \/ EventHandled(t) \/ Subscribe(t)
             \/ DeliverToAsk(t, h) \/ CollectForReceive(t, h)
      PROVE  UNCHANGED <<pc, row, since, due>>
  BY <1>4 DEF HandleEvent, EventHandled, Subscribe, DeliverToAsk, CollectForReceive
<1>5. ASSUME SweepBegins \/ StartCleanup \/ Boot PROVE UNCHANGED <<pc, row, since, due>>
  BY <1>5 DEF SweepBegins, StartCleanup, Boot
<1>6. ASSUME NEW t \in Types, HandleEvent(t) \/ EventHandled(t) \/ Subscribe(t)
      PROVE  UNCHANGED <<pc, row, since, due>>
  BY <1>6 DEF HandleEvent, EventHandled, Subscribe
<1> QED
  BY <1>1, <1>2, <1>3, <1>4, <1>5, <1>6 DEF Next, Call, Inside, Dispatch, Sweep

\* what a step does to a call and its row
LEMMA RowSteps ==
  ASSUME TypeOK, \A k \in Handles : Agrees(k) /\ PlacedOf(k), [Next]_vars, NEW h \in Handles
  PROVE  /\ row[h] # "none" => row'[h] # "none"
         /\ pc'[h] \in {"new", "sent"} => row'[h] = "none"
         /\ pc'[h] = "inserted" => row'[h] # "none"
         /\ pc'[h] \in {"waiting", "cancelled", "answered", "timed_out"} \/ pc'[h] = pc[h]
            \/ pc[h] \in Early \/ Crash
<1> USE DEF Early, PlacedOf, history
<1>b. /\ pc \in [Handles -> {"new"} \cup Waiting \cup Outcomes]
      /\ once \in [Handles -> {"open", "given", "removed", "done"}]
      /\ verdict \in [Handles -> {"none", "resolved", "expired"}]
      /\ row \in [Handles -> {"none", "pruned"} \cup States]
  BY DEF TypeOK
<1>1. CASE UNCHANGED <<pc, row, since, due>>
  BY <1>1
<1>2. ASSUME NEW k \in Asks, SendDirect(k)
      PROVE  /\ row' = row
             /\ pc'[h] = pc[h] \/ (pc[h] = "new" /\ pc'[h] \in {"sent", "failed"})
  BY <1>b, <1>2 DEF SendDirect
<1>3. ASSUME NEW k \in Handles, InsertRow(k)
      PROVE  \/ pc'[h] = pc[h] /\ row'[h] = row[h]
             \/ /\ pc[h] \in {"new", "sent"}
                /\ \/ pc'[h] = "inserted" /\ row'[h] = "pending"
                   \/ pc'[h] = "failed" /\ row'[h] = row[h]
  BY <1>b, <1>3 DEF InsertRow
<1>4. ASSUME NEW k \in Handles, Activate(k)
      PROVE  /\ row' = row
             /\ pc'[h] = pc[h] \/ (pc[h] = "inserted" /\ pc'[h] = "waiting")
  BY <1>b, <1>4 DEF Activate
<1>5. ASSUME NEW k \in Handles, WaitReturns(k) \/ Cancel(k)
      PROVE  /\ row' = row
             /\ pc'[h] = pc[h] \/ (pc[h] = "waiting" /\ pc'[h] \in {"cancelled", "answered", "timed_out"})
  BY <1>b, <1>5 DEF WaitReturns, Cancel
<1>6. ASSUME NEW k \in Handles, Persist(k)
      PROVE  /\ pc' = pc
             /\ row'[h] = row[h] \/ (row[h] # "none" /\ row'[h] # "none")
  <2>1. /\ once[k] = "removed" /\ verdict[k] # "none" /\ row[k] # "none" /\ pc' = pc
        /\ row' = row \/ row' = [row EXCEPT ![k] = IF row[k] = "pruned" THEN row[k] ELSE verdict[k]]
    BY <1>6, <1>b DEF Persist, Agrees
  <2> QED
    BY <1>b, <2>1
<1>7. ASSUME NEW k \in Handles, Deadline(k) PROVE UNCHANGED <<pc, row>>
  BY <1>7 DEF Deadline
<1>8. CASE SweepDeletes
  <2>1. pc' = pc /\ (row'[h] = row[h] \/ (row[h] = "pending" /\ row'[h] = "pruned"))
    BY <1>8 DEF SweepDeletes, Deletes
  <2> QED
    BY <2>1
<1>9. CASE Crash
  <2>1. row' = row /\ (pc'[h] = pc[h] \/ pc'[h] = "lost")
    BY <1>9 DEF Crash
  <2> QED
    BY <1>9, <2>1
<1> QED
  BY <1>1, <1>2, <1>3, <1>4, <1>5, <1>6, <1>7, <1>8, <1>9, CallSteps

\* a handle is settled while it is in the map
LEMMA SettledLive ==
  ASSUME TypeOK, TargetsWanted, MapInv, PlacedInv, [Next]_vars, NEW h \in Handles,
         once[h] = "open", once'[h] # "open"
  PROVE  h \in live
<1>1. CASE UNCHANGED settle
  BY <1>1 DEF settle
<1>2. ASSUME NEW k \in Handles, Activate(k) \/ RemoveHandle(k) \/ Persist(k) PROVE FALSE
  <2>1. once'[h] = once[h] \/ once[h] \in {"given", "removed"}
    BY <1>2 DEF Activate, RemoveHandle, Persist, TypeOK
  <2> QED
    BY <2>1
<1>3. ASSUME NEW k \in Handles, TimerFires(k) \/ ResolveReceive(k) \/ SweepExpires(k)
      PROVE  h \in live
  <2>1. /\ k \in live \cup spawned \cup expired
        /\ \E v, events : Settle(k, v, events)
    BY <1>3 DEF TimerFires, ResolveReceive, SweepExpires
  <2>2. k = h
    BY <2>1, SettleOthers
  <2> QED
    BY <2>1, <2>2 DEF PlacedInv, PlacedOf
<1>4. ASSUME NEW t \in Types, NEW a \in Asks, DeliverToAsk(t, a) PROVE h \in live
  <2>1. a \in targets[t] /\ Settle(a, "resolved", <<handling[t]>>)
    BY <1>4 DEF DeliverToAsk
  <2>2. a = h
    BY <2>1, SettleOthers
  <2> QED
    BY <2>1, <2>2 DEF MapInv
<1>5. ASSUME NEW t \in Types, NEW v \in Receives, CollectForReceive(t, v) PROVE FALSE
  BY <1>5 DEF CollectForReceive
<1>6. CASE Crash
  BY <1>6 DEF Crash
<1> QED
  BY <1>1, <1>2, <1>3, <1>4, <1>5, <1>6, HandleSteps

\* the sweep takes its handles from the map, when they are due
LEMMA SweptFrom ==
  ASSUME [Next]_vars
  PROVE  /\ due \subseteq due'
         /\ expired' \subseteq expired \cup (live \cap due)
         /\ sweepNow' \subseteq sweepNow \cup due
<1>1. due \subseteq due'
  BY CallSteps DEF SendDirect, InsertRow, Activate, WaitReturns, Cancel, Persist, Deadline, SweepDeletes, Crash
<1>2. expired' \subseteq expired \cup (live \cap due) /\ sweepNow' \subseteq sweepNow \cup due
  <2>1. ASSUME NEW k \in Handles, Persist(k) \/ SweepExpires(k)
        PROVE  expired' \subseteq expired /\ sweepNow' = sweepNow
    BY <2>1 DEF Persist, SweepExpires, cleanup
  <2>2. ASSUME NEW t \in Types, NEW k \in Handles,
               HandleEvent(t) \/ DeliverToAsk(t, k) \/ CollectForReceive(t, k)
        PROVE  UNCHANGED <<expired, sweepNow>>
    BY <2>2 DEF HandleEvent, DeliverToAsk, CollectForReceive, cleanup
  <2>3. ASSUME NEW t \in Types, HandleEvent(t) PROVE UNCHANGED <<expired, sweepNow>>
    BY <2>3 DEF HandleEvent, cleanup
  <2>4. ASSUME SweepBegins \/ SweepDeletes \/ StartCleanup \/ Crash
        PROVE  /\ expired' \subseteq expired \cup (live \cap due)
               /\ sweepNow' \subseteq sweepNow \cup due
    BY <2>4 DEF SweepBegins, SweepDeletes, StartCleanup, Crash
  <2> QED
    BY <2>1, <2>2, <2>3, <2>4, RouteSteps
<1> QED
  BY <1>1, <1>2

\* who comes to know of a handle, and where the map, the sweep's list and the resolvers
\* get theirs
LEMMA KnownFrom ==
  ASSUME TypeOK, TargetsWanted, MapInv, [Next]_vars, NEW h \in Handles
  PROVE  /\ h \in live' => h \in live \/ Activate(h)
         /\ h \in spawned' /\ once[h] = "open" => h \in spawned \cup live
         /\ h \in expired' => h \in expired \cup live
<1>1. (h \in live' => h \in live \/ Activate(h)) /\ (h \in spawned' /\ once[h] = "open" => h \in spawned \cup live)
  <2>1. CASE UNCHANGED settle
    BY <2>1 DEF settle
  <2>2. ASSUME NEW k \in Handles, Activate(k)
        PROVE  live' = live \cup {k} /\ spawned' = spawned
    BY <2>2 DEF Activate
  <2>3. ASSUME NEW k \in Handles,
               \/ RemoveHandle(k) \/ Persist(k) \/ TimerFires(k) \/ ResolveReceive(k) \/ SweepExpires(k)
        PROVE  live' \subseteq live /\ spawned' \subseteq spawned
    BY <2>3 DEF RemoveHandle, Persist, TimerFires, ResolveReceive, SweepExpires
  <2>4. ASSUME NEW t \in Types, NEW a \in Asks, DeliverToAsk(t, a)
        PROVE  UNCHANGED <<live, spawned>>
    BY <2>4 DEF DeliverToAsk
  <2>5. ASSUME NEW t \in Types, NEW v \in Receives, CollectForReceive(t, v)
        PROVE  live' = live /\ spawned' \subseteq spawned \cup {v} /\ v \in targets[t]
    BY <2>5 DEF CollectForReceive
  <2>6. CASE Crash
    BY <2>6 DEF Crash
  <2> QED
    BY <2>1, <2>2, <2>3, <2>4, <2>5, <2>6, HandleSteps DEF MapInv
<1>2. h \in expired' => h \in expired \cup live
  BY SweptFrom
<1> QED
  BY <1>1, <1>2

LEMMA PlacedStep ==
  TypeOK /\ TargetsWanted /\ OutcomeInv /\ MapInv /\ PlacedInv /\ [Next]_vars => PlacedInv'
<1> SUFFICES ASSUME TypeOK, TargetsWanted, OutcomeInv, MapInv, PlacedInv, [Next]_vars
             PROVE  PlacedInv'
  OBVIOUS
<1>1. Overdue'
  BY SweptFrom DEF PlacedInv, Overdue
<1>2. ASSUME NEW h \in Handles PROVE PlacedOf(h)'
  <2>a. (\A k \in Handles : Agrees(k) /\ PlacedOf(k)) /\ PlacedOf(h)
    BY DEF OutcomeInv, PlacedInv
  <2>1. pc'[h] \in {"new", "sent"} => row'[h] = "none"
    BY <2>a, RowSteps
  <2>2. pc'[h] = "inserted" \/ h \in live' \/ once'[h] # "open" => row'[h] # "none"
    <3>1. h \in live' => h \in live \/ (pc[h] = "inserted" /\ row[h] # "none")
      BY <2>a, KnownFrom DEF Activate, PlacedOf
    <3>2. once'[h] # "open" => once[h] # "open" \/ h \in live
      BY SettledLive
    <3> QED
      BY <2>a, <3>1, <3>2, RowSteps DEF PlacedOf
  <2>3. h \in live' => pc'[h] \in {"waiting", "cancelled", "answered", "timed_out"}
    <3> SUFFICES ASSUME h \in live' PROVE pc'[h] \in {"waiting", "cancelled", "answered", "timed_out"}
      OBVIOUS
    <3>1. CASE Activate(h)
      BY <3>1 DEF Activate, TypeOK
    <3>2. CASE ~Activate(h)
      <4>1. h \in live /\ ~Crash
        BY <3>2, KnownFrom DEF Crash
      <4>2. pc[h] \in {"waiting", "cancelled", "answered", "timed_out"} /\ pc[h] \notin Early
        BY <2>a, <4>1 DEF PlacedOf, Early
      <4> QED
        BY <2>a, <4>1, <4>2, RowSteps
    <3> QED
      BY <3>1, <3>2
  <2>4. h \in spawned' \cup expired' /\ once'[h] = "open" => h \in live'
    <3> SUFFICES ASSUME h \in spawned' \cup expired', once'[h] = "open" PROVE h \in live'
      OBVIOUS
    <3>1. once[h] = "open" /\ (h \in live => h \in live' \/ Crash)
      BY OpenStays
    <3>2. h \in live
      BY <2>a, <3>1, KnownFrom DEF PlacedOf
    <3>3. ~Crash
      BY DEF Crash
    <3> QED
      BY <3>1, <3>2, <3>3
  <2> QED
    BY <2>1, <2>2, <2>3, <2>4 DEF PlacedOf
<1> QED
  BY <1>1, <1>2 DEF PlacedInv

\* h's start in the log of t: what it came too late for was taken, and an event that
\* is to go to h was taken later
BeganOf(h, t) ==
  since[h][t] <= Taken(t) /\ (h \in targets[t] => since[h][t] < Taken(t))

\* given[i] is the k-th event of its type, h was in time for it, and what h wants of
\* those it was in time for and that came before, comes before it
AtPlace(h, given, i, k) ==
  LET t == TypeOf[given[i]] IN
  /\ k \in since[h][t] + 1 .. Len(log[t])
  /\ log[t][k] = given[i]
  /\ Wants(h, given[i])
  /\ \A m \in since[h][t] + 1 .. k - 1 :
       Wants(h, log[t][m]) => \E j \in 1 .. i - 1 : given[j] = log[t][m]

FirstOf(h, given) == \A i \in 1 .. Len(given) : \E k \in Nat : AtPlace(h, given, i, k)

GatherOf(v) ==
  /\ pc[v] \in Early => collected[v] = <<>>
  /\ v \in live /\ once[v] = "open" =>
       \E given \in Seq(Events) : given = collected[v] /\ FirstOf(v, given)

GatherInv ==
  /\ \A h \in Handles, t \in Types : BeganOf(h, t)
  /\ \A v \in Receives : GatherOf(v)

LEMMA FirstOfNone ==
  ASSUME NEW h, NEW given, given = <<>> PROVE FirstOf(h, given) /\ FirstOf(h, given)'
<1>1. Len(given) = 0
  OBVIOUS
<1> QED
  BY <1>1 DEF FirstOf

LEMMA InitGather == Init => GatherInv
<1> SUFFICES ASSUME Init PROVE GatherInv
  OBVIOUS
<1>1. ASSUME NEW t \in Types PROVE Taken(t) = 0
  <2>1. log[t] = <<>> /\ queue[t] = <<>>
    BY DEF Init, Empty
  <2>2. Len(log[t]) = 0 /\ Len(queue[t]) = 0
    BY <2>1
  <2> QED
    BY <2>2 DEF Taken
<1> QED
  BY <1>1 DEF Init, GatherInv, GatherOf, BeganOf

LEMMA BeganStep ==
  ASSUME TypeOK, LogInv, MapInv, [Next]_vars, NEW h \in Handles, NEW t \in Types, BeganOf(h, t)
  PROVE  BeganOf(h, t)'
<1>1. /\ Taken(t) \in Nat /\ Taken(t)' \in Nat /\ Taken(t) <= Taken(t)'
      /\ targets'[t] \subseteq targets[t] \/ Taken(t) < Taken(t)'
      /\ since[h][t] \in Nat
  BY TakenGrows DEF TypeOK
<1>2. CASE since'[h] = since[h]
  BY <1>1, <1>2 DEF BeganOf
<1>3. CASE Activate(h)
  <2>1. since'[h][t] = Taken(t) /\ Taken(t)' = Taken(t) /\ targets' = targets
    BY <1>3 DEF Activate, TypeOK, Taken, channels, routing
  <2>2. h \notin targets[t]
    BY <1>3 DEF Activate, MapInv, Unknown, Early
  <2> QED
    BY <1>1, <2>1, <2>2 DEF BeganOf
<1> QED
  BY <1>2, <1>3, EarlyBefore

\* what was given stays at its place
LEMMA PlaceStays ==
  ASSUME TypeOK, [Next]_vars, NEW h \in Handles, NEW given \in Seq(Events), since'[h] = since[h],
         FirstOf(h, given)
  PROVE  FirstOf(h, given)'
<1> SUFFICES ASSUME NEW i \in 1 .. Len(given) PROVE \E k \in Nat : AtPlace(h, given, i, k)'
  BY DEF FirstOf
<1>1. PICK k \in Nat : AtPlace(h, given, i, k)
  BY DEF FirstOf
<1> DEFINE t == TypeOf[given[i]]
<1>2. t \in Types /\ since[h][t] \in Nat
  <2>1. given[i] \in Events
    OBVIOUS
  <2> QED
    BY <2>1, EventsAssumption DEF TypeOK
<1>3. /\ log[t] \in Seq(Events) /\ log'[t] \in Seq(Events)
      /\ Len(log'[t]) >= Len(log[t])
      /\ \A m \in 1 .. Len(log[t]) : log'[t][m] = log[t][m]
  BY <1>2, LogKeeps, TypeParts
<1>4. Len(log[t]) \in Nat /\ Len(log'[t]) \in Nat
  BY <1>3
<1>5. /\ k \in since[h][t] + 1 .. Len(log[t]) /\ log[t][k] = given[i] /\ Wants(h, given[i])
      /\ \A m \in since[h][t] + 1 .. k - 1 :
           Wants(h, log[t][m]) => \E j \in 1 .. i - 1 : given[j] = log[t][m]
  BY <1>1 DEF AtPlace
<1> HIDE DEF t
<1>6. k \in 1 .. Len(log[t]) /\ k \in since[h][t] + 1 .. Len(log'[t])
  BY <1>2, <1>3, <1>4, <1>5
<1>7. \A m \in since[h][t] + 1 .. k - 1 : log'[t][m] = log[t][m]
  BY <1>2, <1>3, <1>4, <1>6
<1>8. \A m \in since[h][t] + 1 .. k - 1 :
        Wants(h, log'[t][m]) => \E j \in 1 .. i - 1 : given[j] = log'[t][m]
  BY <1>5, <1>7
<1>9. log'[t][k] = given[i]
  BY <1>3, <1>5, <1>6
<1>10. AtPlace(h, given, i, k)'
  BY <1>5, <1>6, <1>8, <1>9 DEF AtPlace, Wants, t
<1> QED
  BY <1>10

\* the event in hand is the next after all that its handle was given of the type
LEMMA InHandNext ==
  ASSUME TypeOK, TargetsWanted, LogInv, MapInv, ReachedInv, GatherInv,
         NEW t \in Types, NEW h \in targets[t], once[h] = "open",
         NEW given \in Seq(Events), FirstOf(h, given),
         h \in Receives => given = collected[h] /\ ~Full(h)
  PROVE  FirstOf(h, Append(given, handling[t]))
<1>1. h \in Handles /\ h \in live /\ handling[t] \in Events /\ Wants(h, handling[t])
  BY DEF TypeOK, MapInv, TargetsWanted
<1>2. PICK e \in Events : e = handling[t]
  BY <1>1
<1>3. PICK n \in Nat : n = Len(given)
  OBVIOUS
<1>4. PICK k \in Nat : k = Taken(t)
  BY TakenType, TypeParts
<1>5. /\ since[h][t] \in Nat /\ Len(log[t]) \in Nat
      /\ since[h][t] < k /\ k <= Len(log[t]) /\ log[t][k] = e /\ TypeOf[e] = t
  <2>1. Taken(t) \in Nat /\ Taken(t) <= Len(log[t]) /\ Len(log[t]) \in Nat
    BY TakenType, TypeParts
  <2>2. since[h][t] < Taken(t) /\ since[h][t] \in Nat
    BY <1>1 DEF GatherInv, BeganOf, TypeOK
  <2>3. Taken(t) >= 1 /\ e = log[t][Taken(t)]
    BY <1>1, <1>2, EventsAssumption DEF LogInv, LogOf
  <2>4. Taken(t) \in 1 .. Len(log[t])
    BY <2>1, <2>3
  <2> QED
    BY <1>4, <2>1, <2>2, <2>3, <2>4 DEF LogInv, LogOf
<1>6. /\ Len(Append(given, e)) = n + 1 /\ Append(given, e)[n + 1] = e
      /\ \A i \in 1 .. n : Append(given, e)[i] = given[i]
  BY <1>3
<1> DEFINE g == Append(given, e)
<1> HIDE DEF g
<1>7. ASSUME NEW i \in 1 .. n PROVE \E m \in Nat : AtPlace(h, g, i, m)
  <2>1. PICK m \in Nat : AtPlace(h, given, i, m)
    BY <1>3 DEF FirstOf
  <2>2. g[i] = given[i] /\ \A j \in 1 .. i - 1 : g[j] = given[j]
    BY <1>6 DEF g
  <2>3. AtPlace(h, g, i, m)
    BY <2>1, <2>2 DEF AtPlace
  <2> QED
    BY <2>3
<1>8. AtPlace(h, g, n + 1, k)
  <2>1. ASSUME NEW m \in since[h][t] + 1 .. k - 1, Wants(h, log[t][m])
        PROVE  \E j \in 1 .. n : g[j] = log[t][m]
    <3>1. m \in since[h][t] + 1 .. Taken(t) /\ m # Taken(t)
      BY <1>4, <1>5
    <3>2. h \in Receives /\ Contains(collected[h], log[t][m])
      BY <1>1, <2>1, <3>1 DEF ReachedInv, ReachedOf
    <3>3. PICK j \in 1 .. n : given[j] = log[t][m]
      BY <1>3, <3>2 DEF Contains
    <3> QED
      BY <1>6, <3>3 DEF g
  <2>2. g[n + 1] = e /\ (n + 1) - 1 = n
    BY <1>6 DEF g
  <2>3. k \in since[h][t] + 1 .. Len(log[t])
    BY <1>5
  <2> QED
    BY <1>1, <1>2, <1>5, <2>1, <2>2, <2>3 DEF AtPlace
<1>9. \A i \in 1 .. n + 1 : i \in 1 .. n \/ i = n + 1
  OBVIOUS
<1>10. FirstOf(h, g)
  BY <1>6, <1>7, <1>8, <1>9 DEF FirstOf, g
<1> QED
  BY <1>2, <1>10 DEF g

LEMMA GatherStep ==
  /\ TypeOK /\ TargetsWanted /\ LogInv /\ MapInv /\ ReachedInv /\ GatherInv /\ [Next]_vars
  => GatherInv'
<1> SUFFICES ASSUME TypeOK, TargetsWanted, LogInv, MapInv, ReachedInv, GatherInv, [Next]_vars
             PROVE  GatherInv'
  OBVIOUS
<1>1. ASSUME NEW h \in Handles, NEW t \in Types PROVE BeganOf(h, t)'
  BY BeganStep DEF GatherInv
<1>2. ASSUME NEW v \in Receives PROVE GatherOf(v)'
  <2>a. /\ v \in Handles /\ v \notin Asks /\ GatherOf(v) /\ collected \in [Receives -> Seq(Events)]
    BY HandlesAssumption DEF GatherInv, TypeOK
  <2>1. /\ pc'[v] \in Early => pc[v] \in Early /\ ~Activate(v)
        /\ since'[v] = since[v] \/ Activate(v)
    BY <2>a, EarlyBefore
  <2>2. v \in live' /\ once'[v] = "open" => once[v] = "open" /\ (v \in live \/ Activate(v))
    BY <2>a, KnownFrom, OpenStays
  <2>3. CASE collected'[v] = collected[v]
    <3>1. pc'[v] \in Early => collected'[v] = <<>>
      BY <2>a, <2>1, <2>3 DEF GatherOf
    <3>2. ASSUME v \in live', once'[v] = "open"
          PROVE \E given \in Seq(Events) : given = collected'[v] /\ FirstOf(v, given)'
      <4>1. CASE Activate(v)
        <5>1. collected'[v] = <<>>
          BY <2>a, <2>3, <4>1 DEF GatherOf, Activate, Early
        <5>e. <<>> \in Seq(Events)
          OBVIOUS
        <5>2. PICK c \in Seq(Events) : c = <<>>
          BY <5>e
        <5>3. FirstOf(v, c)'
          BY <5>2, FirstOfNone
        <5> QED
          BY <5>1, <5>2, <5>3
      <4>2. CASE ~Activate(v)
        <5>1. PICK c \in Seq(Events) : c = collected[v]
          BY <2>a
        <5>2. FirstOf(v, c)'
          BY <2>a, <2>1, <2>2, <3>2, <4>2, <5>1, PlaceStays DEF GatherOf
        <5> QED
          BY <2>3, <5>1, <5>2
      <4> QED
        BY <4>1, <4>2
    <3> QED
      BY <3>1, <3>2 DEF GatherOf
  <2>4. ASSUME NEW t \in Types, CollectForReceive(t, v), ~Full(v) PROVE GatherOf(v)'
    <3>1. /\ v \in targets[t] /\ UNCHANGED <<pc, live, once, since>>
          /\ handling[t] \in Events
          /\ collected' = [collected EXCEPT ![v] = Append(collected[v], handling[t])]
      BY <2>4, Collecting DEF CollectForReceive, history
    <3>2. pc[v] \notin Early
      BY <2>a, <3>1 DEF MapInv, Unknown
    <3>3. ASSUME v \in live, once[v] = "open"
          PROVE \E given \in Seq(Events) : given = collected'[v] /\ FirstOf(v, given)'
      <4>a. PICK c \in Seq(Events) : c = collected[v]
        BY <2>a
      <4>b. Append(c, handling[t]) \in Seq(Events)
        BY <3>1
      <4>c. PICK d \in Seq(Events) : d = Append(c, handling[t])
        BY <4>b
      <4>1. c = collected[v] /\ d = Append(c, handling[t])
        BY <4>a, <4>c
      <4>2. FirstOf(v, d)
        BY <2>a, <2>4, <3>1, <3>3, <4>1, InHandNext DEF GatherOf
      <4>3. FirstOf(v, d)'
        BY <2>a, <3>1, <4>2, PlaceStays
      <4>4. collected'[v] = d
        BY <2>a, <3>1, <4>1
      <4> QED
        BY <4>3, <4>4
    <3> QED
      BY <3>1, <3>2, <3>3 DEF GatherOf
  <2> QED
    BY <2>3, <2>4, CollectedBy
<1> QED
  BY <1>1, <1>2 DEF GatherInv

\* what is given first, in the words of Waiting
LEMMA GivenFirst ==
  ASSUME TypeOK, LogInv, NEW h \in Handles, NEW given \in Seq(Events), FirstOf(h, given),
         \A i, j \in 1 .. Len(given) : given[i] = given[j] => i = j
  PROVE  Promise!FirstOnes(h, given)
<1> SUFFICES ASSUME NEW i \in 1 .. Len(given)
             PROVE  LET t == TypeOf[given[i]] IN
                    /\ <<h, given[i]>> \in {p \in Handles \X Events : Wants(p[1], p[2])}
                    /\ \E k \in since[h][t] + 1 .. Len(log[t]) :
                         /\ log[t][k] = given[i]
                         /\ Promise!Before(h, t, k) \subseteq {given[j] : j \in 1 .. i - 1}
  BY DEF Promise!FirstOnes
<1> DEFINE t == TypeOf[given[i]]
<1>1. PICK k \in Nat : AtPlace(h, given, i, k)
  BY DEF FirstOf
<1>2. t \in Types /\ given[i] \in Events
  BY EventsAssumption
<1>3. /\ k \in since[h][t] + 1 .. Len(log[t]) /\ log[t][k] = given[i] /\ Wants(h, given[i])
      /\ \A m \in since[h][t] + 1 .. k - 1 :
           Wants(h, log[t][m]) => \E j \in 1 .. i - 1 : given[j] = log[t][m]
  BY <1>1 DEF AtPlace
<1>4. Promise!Before(h, t, k) \subseteq {given[j] : j \in 1 .. i - 1}
  <2> SUFFICES ASSUME NEW m \in since[h][t] + 1 .. k - 1,
                      <<h, log[t][m]>> \in {p \in Handles \X Events : Wants(p[1], p[2])}
               PROVE  log[t][m] \in {given[j] : j \in 1 .. i - 1}
    BY DEF Promise!Before
  <2>1. Wants(h, log[t][m])
    OBVIOUS
  <2> QED
    BY <1>3, <2>1
<1> QED
  BY <1>2, <1>3, <1>4

\* a receive has no event twice: it would be twice in the log
LEMMA NoTwice ==
  ASSUME TypeOK, LogInv, NEW v \in Receives, InOrder(v)
  PROVE  \A i, j \in 1 .. Len(collected[v]) : collected[v][i] = collected[v][j] => i = j
<1> SUFFICES ASSUME NEW i \in 1 .. Len(collected[v]), NEW j \in 1 .. Len(collected[v]),
                    collected[v][i] = collected[v][j], i < j
             PROVE  FALSE
  <2>1. Len(collected[v]) \in Nat
    BY DEF TypeOK
  <2> QED
    BY <2>1
<1>1. PICK e \in Events : e = collected[v][i] /\ e = collected[v][j]
  BY DEF TypeOK
<1>2. Precedes(e, e)
  BY <1>1 DEF InOrder
<1>3. TypeOf[e] \in Types
  BY EventsAssumption
<1> QED
  BY <1>2, <1>3 DEF Precedes, LogInv, LogOf

\* who settles an open handle decides the call
LEMMA SettleDecides ==
  ASSUME TypeOK, NEW h \in live, Agrees(h), PlacedOf(h), once[h] = "open",
         NEW v, NEW given, Settle(h, v, given), Promise!FirstOnes(h, given),
         UNCHANGED <<pc, row, due, log, since>>
  PROVE  Promise!Decide(h, v, given) /\ result'[h] = given
<1>1. h \in Handles /\ pc[h] \in {"waiting", "cancelled"} /\ verdict[h] = "none"
  BY DEF TypeOK, Agrees, PlacedOf
<1>2. Seen[h] \in {"waiting", "cancelled"} /\ Seen' = Seen
  BY <1>1 DEF Seen, Early
<1>3. /\ verdict' = [verdict EXCEPT ![h] = v] /\ result' = [result EXCEPT ![h] = given]
      /\ result'[h] = given
  BY <1>1 DEF Settle, TypeOK
<1> QED
  BY <1>1, <1>2, <1>3 DEF Promise!Decide

WaitingStep == [Promise!WaitingNext]_(Promise!waiting)

LEMMA DecisionSteps ==
  ASSUME TypeOK, TargetsWanted, LogInv, OutcomeInv, RoutingInv, PlacedInv, GatherInv, [Next]_vars
  PROVE  /\ \A h \in Handles :
              TimerFires(h) \/ SweepExpires(h) \/ ResolveReceive(h) => WaitingStep
         /\ \A t \in Types, a \in Asks : DeliverToAsk(t, a) => WaitingStep
<1>a. /\ \A h \in Handles : Agrees(h) /\ PlacedOf(h)
      /\ Filled /\ Overdue /\ MapInv /\ ReachedInv /\ CollectInv
  BY DEF OutcomeInv, PlacedInv, RoutingInv
<1>b. /\ once \in [Handles -> {"open", "given", "removed", "done"}]
      /\ collected \in [Receives -> Seq(Events)] /\ spawned \subseteq Receives
      /\ \A v \in Receives : Limit[v] \in Nat /\ (Limit[v] > 0 => Len(collected[v]) <= Limit[v])
  BY LimitAssumption DEF TypeOK
<1>1. ASSUME UNCHANGED <<pc, row, due, log, since, verdict, result>> PROVE WaitingStep
  BY <1>1 DEF WaitingStep, Promise!waiting, Seen
<1>2. ASSUME NEW h \in Handles, NEW v, NEW given, Settle(h, v, given), once[h] # "open",
             UNCHANGED <<pc, row, due, log, since>>
      PROVE  WaitingStep
  BY <1>1, <1>2 DEF Settle
\* what a receive has is what it was to be given first
<1>3. ASSUME NEW v \in Receives, v \in live, once[v] = "open"
      PROVE  Promise!FirstOnes(v, collected[v])
  <2>1. PICK given \in Seq(Events) : given = collected[v] /\ FirstOf(v, given)
    BY <1>3 DEF GatherInv, GatherOf
  <2>2. \A i, j \in 1 .. Len(given) : given[i] = given[j] => i = j
    BY <1>a, <2>1, NoTwice DEF CollectInv
  <2>3. Promise!FirstOnes(v, given)
    BY <2>1, <2>2, GivenFirst
  <2> QED
    BY <2>1, <2>3
<1>4. ASSUME NEW h \in Handles, h \in live, once[h] = "open"
      PROVE  Promise!FirstOnes(h, Gathered(h))
  <2>1. CASE h \in Asks
    <3>1. PICK given \in Seq(Events) : given = <<>>
      <4>1. <<>> \in Seq(Events)
        OBVIOUS
      <4> QED
        BY <4>1
    <3>2. FirstOf(h, given) /\ Len(given) = 0
      BY <3>1, FirstOfNone
    <3>3. \A i, j \in 1 .. Len(given) : given[i] = given[j] => i = j
      BY <3>2
    <3>4. Promise!FirstOnes(h, given)
      BY <3>2, <3>3, GivenFirst
    <3> QED
      BY <2>1, <3>1, <3>4 DEF Gathered
  <2>2. CASE h \notin Asks
    BY <1>3, <1>4, <2>2 DEF Gathered
  <2> QED
    BY <2>1, <2>2
<1>5. ASSUME NEW h \in Handles, TimerFires(h) \/ SweepExpires(h) PROVE WaitingStep
  <2>1. /\ Settle(h, "expired", Gathered(h)) /\ UNCHANGED <<pc, row, due, log, since>>
        /\ h \in due /\ (once[h] = "open" => h \in live)
    BY <1>a, <1>5 DEF TimerFires, SweepExpires, history, Overdue, PlacedOf
  <2>2. CASE once[h] = "open"
    <3>1. Promise!Decide(h, "expired", Gathered(h)) /\ result'[h] = Gathered(h)
      BY <1>a, <1>4, <2>1, <2>2, SettleDecides
    <3>2. IF h \in Asks THEN Gathered(h) = <<>> ELSE Limit[h] > 0 => Len(Gathered(h)) <= Limit[h]
      BY <1>b DEF Gathered
    <3>3. Promise!Expire(h, result'[h])
      BY <2>1, <3>1, <3>2 DEF Promise!Expire
    <3> QED
      BY <3>3 DEF WaitingStep, Promise!WaitingNext, Promise!CallStep, Promise!Calls
  <2>3. CASE once[h] # "open"
    BY <1>2, <2>1, <2>3
  <2> QED
    BY <2>2, <2>3
<1>6. ASSUME NEW v \in Handles, ResolveReceive(v) PROVE WaitingStep
  <2>1. /\ Settle(v, "resolved", collected[v]) /\ UNCHANGED <<pc, row, due, log, since>>
        /\ v \in spawned /\ (once[v] = "open" => v \in live)
    BY <1>a, <1>6 DEF ResolveReceive, history, PlacedOf
  <2>2. CASE once[v] = "open"
    <3>1. v \in Receives /\ v \notin Asks /\ Limit[v] > 0 /\ Len(collected[v]) = Limit[v]
      BY <1>a, <1>b, <2>1, HandlesAssumption DEF Filled
    <3>2. Promise!Decide(v, "resolved", collected[v]) /\ result'[v] = collected[v]
      BY <1>a, <1>3, <2>1, <2>2, <3>1, SettleDecides
    <3>3. Promise!Resolve(v, result'[v])
      BY <3>1, <3>2 DEF Promise!Resolve, Promise!Size
    <3> QED
      BY <3>3 DEF WaitingStep, Promise!WaitingNext, Promise!CallStep, Promise!Calls
  <2>3. CASE once[v] # "open"
    BY <1>2, <2>1, <2>3
  <2> QED
    BY <2>2, <2>3
<1>7. ASSUME NEW t \in Types, NEW a \in Asks, DeliverToAsk(t, a) PROVE WaitingStep
  <2>1. /\ a \in targets[t] /\ Settle(a, "resolved", <<handling[t]>>)
        /\ UNCHANGED <<pc, row, due, log, since>> /\ a \notin Receives
    BY <1>7, HandlesAssumption DEF DeliverToAsk, history
  <2>2. CASE once[a] = "open"
    <3>1. a \in live /\ handling[t] \in Events
      BY <1>a, <2>1, <2>2 DEF MapInv, TargetsWanted
    <3>2. PICK none \in Seq(Events) : none = <<>>
      <4>1. <<>> \in Seq(Events)
        OBVIOUS
      <4> QED
        BY <4>1
    <3>3. FirstOf(a, Append(none, handling[t]))
      BY <1>a, <2>1, <2>2, <3>2, FirstOfNone, InHandNext
    <3>4. /\ Append(none, handling[t]) = <<handling[t]>>
          /\ <<handling[t]>> \in Seq(Events) /\ Len(<<handling[t]>>) = 1
      BY <3>1, <3>2
    <3>5. PICK given \in Seq(Events) : given = <<handling[t]>>
      BY <3>4
    <3>6. Promise!FirstOnes(a, given)
      <4>1. a \in Handles /\ FirstOf(a, given) /\ Len(given) = 1
        BY <3>3, <3>4, <3>5
      <4>2. \A i, j \in 1 .. Len(given) : given[i] = given[j] => i = j
        BY <4>1
      <4> QED
        BY <4>1, <4>2, GivenFirst
    <3>7. Promise!Decide(a, "resolved", given) /\ result'[a] = given
      BY <1>a, <2>1, <2>2, <3>1, <3>5, <3>6, SettleDecides
    <3>8. Promise!Resolve(a, result'[a])
      BY <3>4, <3>5, <3>7 DEF Promise!Resolve, Promise!Size
    <3> QED
      BY <3>8 DEF WaitingStep, Promise!WaitingNext, Promise!CallStep, Promise!Calls
  <2>3. CASE once[a] # "open"
    BY <1>2, <2>1, <2>3
  <2> QED
    BY <2>2, <2>3
<1> QED
  BY <1>5, <1>6, <1>7

LEMMA ImplementsStep ==
  ASSUME TypeOK, TargetsWanted, LogInv, OutcomeInv, RoutingInv, PlacedInv, GatherInv, [Next]_vars
  PROVE  WaitingStep
<1>a. \A h \in Handles : Agrees(h) /\ PlacedOf(h)
  BY DEF OutcomeInv, PlacedInv
<1>b. /\ pc \in [Handles -> {"new"} \cup Waiting \cup Outcomes]
      /\ row \in [Handles -> {"none", "pruned"} \cup States]
      /\ verdict \in [Handles -> {"none", "resolved", "expired"}]
      /\ DOMAIN since = Handles /\ sweepNow \subseteq due
  BY DEF TypeOK, PlacedInv, Overdue
<1> USE DEF Early, handles, history
<1>0. ASSUME UNCHANGED <<pc, row, due, log, since, verdict, result>> PROVE WaitingStep
  BY <1>0 DEF WaitingStep, Promise!waiting, Seen
<1>c. ASSUME NEW h \in Handles, Promise!CallStep(h) PROVE WaitingStep
  BY <1>c DEF WaitingStep, Promise!WaitingNext, Promise!Calls
<1>1. CASE UNCHANGED vars
  BY <1>0, <1>1 DEF vars
<1>2. ASSUME NEW a \in Asks, SendDirect(a) PROVE WaitingStep
  <2>1. /\ UNCHANGED <<row, due, log, since, verdict, result>> /\ pc[a] = "new" /\ row[a] = "none"
        /\ pc' = [pc EXCEPT ![a] = "sent"] \/ pc' = [pc EXCEPT ![a] = "failed"]
    BY <1>a, <1>2 DEF SendDirect, PlacedOf
  <2>2. CASE pc' = [pc EXCEPT ![a] = "sent"]
    <3>1. Seen' = Seen
      BY <1>b, <2>1, <2>2 DEF Seen
    <3> QED
      BY <2>1, <3>1 DEF WaitingStep, Promise!waiting
  <2>3. CASE pc' = [pc EXCEPT ![a] = "failed"]
    <3>1. Seen' = [Seen EXCEPT ![a] = "failed"] /\ Seen[a] = "coming"
      BY <1>b, <2>1, <2>3 DEF Seen
    <3>2. Promise!Fail(a)
      BY <2>1, <3>1 DEF Promise!Fail
    <3> QED
      BY <1>c, <3>2 DEF Promise!CallStep
  <2> QED
    BY <2>1, <2>2, <2>3
<1>3. ASSUME NEW h \in Handles, InsertRow(h) PROVE WaitingStep
  <2>1. /\ UNCHANGED <<due, log, since, verdict, result>> /\ pc[h] \in {"new", "sent"} /\ row[h] = "none"
        /\ \/ pc' = [pc EXCEPT ![h] = "inserted"] /\ row' = [row EXCEPT ![h] = "pending"]
           \/ pc' = [pc EXCEPT ![h] = "failed"] /\ row' = row
    BY <1>a, <1>3 DEF InsertRow, PlacedOf
  <2>2. CASE pc' = [pc EXCEPT ![h] = "inserted"] /\ row' = [row EXCEPT ![h] = "pending"]
    <3>1. Seen' = Seen /\ Seen[h] = "coming"
      BY <1>b, <2>1, <2>2 DEF Seen
    <3>2. Promise!Write(h)
      BY <2>1, <2>2, <3>1 DEF Promise!Write
    <3> QED
      BY <1>c, <3>2 DEF Promise!CallStep
  <2>3. CASE pc' = [pc EXCEPT ![h] = "failed"] /\ row' = row
    <3>1. Seen' = [Seen EXCEPT ![h] = "failed"] /\ Seen[h] = "coming"
      BY <1>b, <2>1, <2>3 DEF Seen
    <3>2. Promise!Fail(h)
      BY <2>1, <2>3, <3>1 DEF Promise!Fail
    <3> QED
      BY <1>c, <3>2 DEF Promise!CallStep
  <2> QED
    BY <2>1, <2>2, <2>3
<1>4. ASSUME NEW h \in Handles, Activate(h) PROVE WaitingStep
  <2>1. /\ UNCHANGED <<row, due, log, verdict, result>> /\ pc[h] = "inserted" /\ row[h] # "none"
        /\ pc' = [pc EXCEPT ![h] = "waiting"]
        /\ since' = [since EXCEPT ![h] = [t \in Types |-> Taken(t)]]
    BY <1>a, <1>4 DEF Activate, PlacedOf, Taken
  <2>2. Seen' = [Seen EXCEPT ![h] = "waiting"] /\ Seen[h] = "coming"
    BY <1>b, <2>1 DEF Seen
  <2>3. since' = [since EXCEPT ![h] = since'[h]]
    BY <1>b, <2>1
  <2>4. ASSUME NEW t \in Types PROVE since'[h][t] <= Len(log[t]) /\ Len(log[t]) <= since'[h][t] + Capacity
    <3> DEFINE n == Len(log[t])
               m == Len(queue[t])
    <3>1. n \in Nat /\ m \in Nat /\ m <= Capacity /\ Capacity \in Nat
      BY BoundsAssumption DEF TypeOK
    <3>2. since'[h][t] = n - m
      BY <1>b, <2>1 DEF Taken
    <3> HIDE DEF n, m
    <3>3. n - m <= n /\ n <= (n - m) + Capacity
      BY <3>1
    <3> QED
      BY <3>2, <3>3 DEF n
  <2>5. Promise!Listen(h)
    BY <2>1, <2>2, <2>3, <2>4 DEF Promise!Listen
  <2> QED
    BY <1>c, <2>5 DEF Promise!CallStep
<1>5. ASSUME NEW h \in Handles, WaitReturns(h) PROVE WaitingStep
  <2>1. /\ UNCHANGED <<row, due, log, since, verdict, result>> /\ pc[h] = "waiting" /\ verdict[h] # "none"
        /\ pc' = [pc EXCEPT ![h] = IF result[h] = <<>> THEN "timed_out" ELSE "answered"]
    BY <1>a, <1>5 DEF WaitReturns, Agrees
  <2>2. /\ Seen' = [Seen EXCEPT ![h] = IF result[h] = <<>> THEN "timed_out" ELSE "answered"]
        /\ Seen[h] = "waiting"
    BY <1>b, <2>1 DEF Seen
  <2>3. Promise!Return(h)
    BY <2>1, <2>2 DEF Promise!Return
  <2> QED
    BY <1>c, <2>3 DEF Promise!CallStep
<1>6. ASSUME NEW h \in Handles, Cancel(h) PROVE WaitingStep
  <2>1. /\ UNCHANGED <<row, due, log, since, verdict, result>> /\ pc[h] = "waiting"
        /\ pc' = [pc EXCEPT ![h] = "cancelled"]
    BY <1>6 DEF Cancel
  <2>2. Seen' = [Seen EXCEPT ![h] = "cancelled"] /\ Seen[h] = "waiting"
    BY <1>b, <2>1 DEF Seen
  <2>3. Promise!Leave(h)
    BY <2>1, <2>2 DEF Promise!Leave
  <2> QED
    BY <1>c, <2>3 DEF Promise!CallStep
<1>7. ASSUME NEW h \in Handles, Persist(h) PROVE WaitingStep
  <2>1. /\ UNCHANGED <<pc, due, log, since, verdict, result>> /\ once[h] = "removed"
        /\ row' = row \/ row' = [row EXCEPT ![h] = IF row[h] = "pruned" THEN row[h] ELSE verdict[h]]
    BY <1>7 DEF Persist
  <2>2. verdict[h] # "none" /\ row[h] \in {"pending", "pruned"}
    BY <1>a, <1>b, <2>1 DEF Agrees, PlacedOf, States
  <2>3. CASE row' = row
    BY <1>0, <2>1, <2>3
  <2>4. CASE row' = [row EXCEPT ![h] = verdict[h]] /\ row[h] = "pending"
    <3>1. Promise!Update(h)
      BY <2>1, <2>2, <2>4 DEF Promise!Update, Seen
    <3> QED
      BY <1>c, <3>1 DEF Promise!CallStep
  <2> QED
    BY <1>b, <2>1, <2>2, <2>3, <2>4
<1>8. ASSUME NEW h \in Handles, Deadline(h) PROVE WaitingStep
  <2>1. Promise!Pass(h)
    BY <1>8 DEF Deadline, Promise!Pass, Seen
  <2> QED
    BY <1>c, <2>1 DEF Promise!CallStep
<1>9. ASSUME NEW e \in Events, PublishInbound(e) PROVE WaitingStep
  <2>1. /\ UNCHANGED <<pc, row, due, since, verdict, result>> /\ TypeOf[e] \in Types
        /\ log' = log \/ log' = [log EXCEPT ![TypeOf[e]] = Append(log[TypeOf[e]], e)]
    BY <1>9, PublishedWhere, TypeParts DEF PublishInbound
  <2>2. CASE log' = [log EXCEPT ![TypeOf[e]] = Append(log[TypeOf[e]], e)]
    <3>1. Promise!Hear(TypeOf[e], e)
      BY <2>1, <2>2 DEF Promise!Hear, Seen
    <3> QED
      BY <2>1, <3>1 DEF WaitingStep, Promise!WaitingNext
  <2> QED
    BY <1>0, <2>1, <2>2
<1>10. CASE SweepDeletes
  <2>1. /\ UNCHANGED <<pc, due, log, since, verdict, result>>
        /\ row' = row \/ row' = [h \in Handles |-> IF Deletes(h) THEN "pruned" ELSE row[h]]
    BY <1>10 DEF SweepDeletes
  <2>2. CASE row' = [h \in Handles |-> IF Deletes(h) THEN "pruned" ELSE row[h]]
    <3> DEFINE gone == {h \in Handles : Deletes(h)}
    <3>1. gone \in SUBSET {h \in due : row[h] = "pending"}
      BY <1>b DEF Deletes
    <3>2. row' = [h \in Handles |-> IF h \in gone THEN "pruned" ELSE row[h]]
      BY <2>2
    <3> HIDE DEF gone
    <3>3. Promise!Prune
      BY <2>1, <3>1, <3>2 DEF Promise!Prune, Promise!Calls, Seen
    <3> QED
      BY <3>3 DEF WaitingStep, Promise!WaitingNext
  <2> QED
    BY <1>0, <2>1, <2>2
<1>11. CASE Crash
  <2> DEFINE gone == {h \in Handles : pc[h] \in {"sent", "inserted"}}
  <2>1. /\ UNCHANGED <<row, due, log, since, verdict, result>>
        /\ pc' = [h \in Handles |-> IF pc[h] \in Waiting THEN "lost" ELSE pc[h]]
    BY <1>11 DEF Crash
  <2>2. gone \in SUBSET {h \in Handles : Seen[h] = "coming"}
    BY DEF Seen
  <2>3. Seen' = [h \in Handles |-> IF Seen[h] = "waiting" \/ h \in gone THEN "lost" ELSE Seen[h]]
    <3>1. ASSUME NEW h \in Handles
          PROVE  Seen'[h] = IF Seen[h] = "waiting" \/ h \in gone THEN "lost" ELSE Seen[h]
      BY <1>b, <2>1 DEF Seen, Waiting
    <3> QED
      BY <3>1 DEF Seen
  <2> HIDE DEF gone
  <2>4. Promise!Die
    BY <2>1, <2>2, <2>3 DEF Promise!Die, Promise!Calls
  <2> QED
    BY <2>4 DEF WaitingStep, Promise!WaitingNext
<1>12. ASSUME NEW h \in Handles, RemoveHandle(h) PROVE WaitingStep
  BY <1>0, <1>12 DEF RemoveHandle
<1>13. ASSUME NEW t \in Types, HandleEvent(t) \/ EventHandled(t) \/ Subscribe(t) PROVE WaitingStep
  BY <1>0, <1>13 DEF HandleEvent, EventHandled, Subscribe
<1>14. ASSUME NEW t \in Types, NEW v \in Receives, CollectForReceive(t, v) PROVE WaitingStep
  BY <1>0, <1>14 DEF CollectForReceive
<1>15. ASSUME SweepBegins \/ StartCleanup \/ Boot PROVE WaitingStep
  BY <1>0, <1>15 DEF SweepBegins, StartCleanup, Boot
<1> QED
  BY <1>1, <1>2, <1>3, <1>4, <1>5, <1>6, <1>7, <1>8, <1>9, <1>10, <1>11, <1>12, <1>13, <1>14,
     <1>15, DecisionSteps DEF Next, Call, Inside, Dispatch, Sweep

\* Whoever settles a handle, and whatever is cancelled, pruned or lost, the manager
\* implements Waiting: a call is decided once, expired only past its deadline, and
\* given the first events it wants.
THEOREM ImplementsWaitingCorrect == Spec => ImplementsWaiting
<1>1. Init => Promise!WaitingInit
  <2> SUFFICES ASSUME Init PROVE Promise!WaitingInit
    OBVIOUS
  <2>1. Seen = [h \in Handles |-> "coming"]
    BY DEF Init, Seen, Early
  <2> QED
    BY <2>1 DEF Init, Empty, Promise!WaitingInit, Promise!Calls
<1>2. Init => PlacedInv /\ GatherInv
  BY InitPlaced, InitGather
<1>3. /\ TypeOK /\ TargetsWanted /\ LogInv /\ OutcomeInv /\ RoutingInv /\ PlacedInv /\ GatherInv
      /\ [Next]_vars
      => (PlacedInv /\ GatherInv)' /\ WaitingStep
  BY PlacedStep, GatherStep, ImplementsStep DEF RoutingInv
<1>4. Spec => [](TypeOK /\ TargetsWanted /\ LogInv /\ OutcomeInv /\ RoutingInv)
  BY TypeCorrect, OutcomeInvariant, RoutingInvariant, PTL
<1> QED
  BY <1>1, <1>2, <1>3, <1>4, PTL DEF Spec, ImplementsWaiting, Promise!WaitingSpec, WaitingStep

-----------------------------------------------------------------------------
(* Whoever waits is waited upon.                                           *)

\* A client that waits has its handle or its result; a handle stays in the map until
\* the winner of its once takes it out; a row is pruned past its deadline only.
KeptOf(h) ==
  /\ pc[h] = "waiting" => h \in live \/ once[h] # "open"
  /\ h \in live => once[h] \in {"open", "given"}
  /\ row[h] = "pruned" => h \in due

\* the event that fills a receive starts its resolver, which settles it
FilledGoes == \A v \in live \cap Receives : once[v] = "open" /\ Full(v) => v \in spawned

\* a goroutine is inside a once that is not done, and one that is through is free
Hands ==
  /\ \A g \in Types \cup {Sweeper} : doing[g] # NoHandle => once[doing[g]] \in {"given", "removed"}
  /\ \A t \in Types : handling[t] = NoEvent => targets[t] = {} /\ doing[t] = NoHandle
  /\ sweeping # "resolving" => expired = {} /\ doing[Sweeper] = NoHandle

HangInv == (\A h \in Handles : KeptOf(h)) /\ FilledGoes /\ Hands

LEMMA InitHang == Init => HangInv
<1> SUFFICES ASSUME Init PROVE HangInv
  OBVIOUS
<1>1. \A h \in Handles : KeptOf(h)
  BY DEF Init, KeptOf
<1>2. FilledGoes
  BY DEF Init, FilledGoes
<1>3. Hands
  BY DEF Init, Hands, Free
<1> QED
  BY <1>1, <1>2, <1>3 DEF HangInv

LEMMA KeptStep ==
  ASSUME TypeOK, TargetsWanted, MapInv, PlacedInv, [Next]_vars, NEW h \in Handles, KeptOf(h)
  PROVE  KeptOf(h)'
<1>b. /\ pc \in [Handles -> {"new"} \cup Waiting \cup Outcomes]
      /\ once \in [Handles -> {"open", "given", "removed", "done"}]
      /\ row \in [Handles -> {"none", "pruned"} \cup States]
      /\ verdict \in [Handles -> {"none", "resolved", "expired"}]
      /\ sweepNow \subseteq due
  BY DEF TypeOK, PlacedInv, Overdue
<1> USE DEF history
<1>1. pc'[h] = "waiting" => h \in live' \/ once'[h] # "open"
  <2> SUFFICES ASSUME pc'[h] = "waiting", once'[h] = "open" PROVE h \in live'
    OBVIOUS
  <2>1. pc[h] = "waiting" \/ Activate(h)
    <3>1. ASSUME NEW k \in Handles,
                 \/ (k \in Asks /\ SendDirect(k)) \/ InsertRow(k) \/ WaitReturns(k) \/ Cancel(k)
                 \/ Persist(k) \/ Deadline(k)
          PROVE  pc[h] = "waiting"
      BY <1>b, <3>1 DEF SendDirect, InsertRow, WaitReturns, Cancel, Persist, Deadline
    <3>2. ASSUME NEW k \in Handles, Activate(k) PROVE pc[h] = "waiting" \/ Activate(h)
      BY <1>b, <3>2 DEF Activate
    <3>3. CASE SweepDeletes \/ Crash
      BY <1>b, <3>3 DEF SweepDeletes, Crash
    <3> QED
      BY <3>1, <3>2, <3>3, CallSteps
  <2>2. ~Crash
    BY <1>b DEF Crash, Waiting
  <2>3. CASE Activate(h)
    BY <2>3 DEF Activate
  <2> QED
    BY <2>1, <2>2, <2>3, OpenStays DEF KeptOf
<1>2. h \in live' => once'[h] \in {"open", "given"}
  <2> SUFFICES ASSUME h \in live' PROVE once'[h] \in {"open", "given"}
    OBVIOUS
  <2>1. once[h] \in {"open", "given"}
    <3>1. CASE h \in live
      BY <3>1 DEF KeptOf
    <3>2. CASE Activate(h)
      BY <3>2 DEF Activate, MapInv, Unknown, Early
    <3> QED
      BY <3>1, <3>2, KnownFrom
  <2>2. ASSUME NEW k \in Handles, NEW v, NEW events, Settle(k, v, events)
        PROVE  once'[h] \in {"open", "given"}
    BY <1>b, <2>1, <2>2 DEF Settle
  <2>3. ASSUME NEW k \in Handles, Activate(k) \/ RemoveHandle(k) \/ Persist(k)
        PROVE  once'[h] = once[h]
    BY <1>b, <2>1, <2>3 DEF Activate, RemoveHandle, Persist
  <2>4. ASSUME NEW k \in Handles, TimerFires(k) \/ ResolveReceive(k) \/ SweepExpires(k)
        PROVE  \E v, events : Settle(k, v, events)
    BY <2>4 DEF TimerFires, ResolveReceive, SweepExpires
  <2>5. ASSUME NEW t \in Types, NEW a \in Asks, DeliverToAsk(t, a)
        PROVE  Settle(a, "resolved", <<handling[t]>>)
    BY <2>5 DEF DeliverToAsk
  <2>6. ASSUME NEW t \in Types, NEW v \in Receives, CollectForReceive(t, v) PROVE once' = once
    BY <2>6 DEF CollectForReceive
  <2>7. ~Crash
    BY DEF Crash
  <2> QED
    BY <2>1, <2>2, <2>3, <2>4, <2>5, <2>6, <2>7, HandleSteps DEF settle
<1>3. row'[h] = "pruned" => h \in due'
  <2> SUFFICES ASSUME row'[h] = "pruned" PROVE h \in due'
    OBVIOUS
  <2>1. row[h] = "pruned" \/ h \in sweepNow
    <3>1. ASSUME NEW k \in Handles, InsertRow(k) \/ Persist(k) PROVE row[h] = "pruned"
      BY <1>b, <3>1 DEF InsertRow, Persist
    <3>2. CASE SweepDeletes
      BY <3>2 DEF SweepDeletes, Deletes
    <3>3. ASSUME NEW k \in Handles,
                 (k \in Asks /\ SendDirect(k)) \/ Activate(k) \/ WaitReturns(k) \/ Cancel(k) \/ Deadline(k)
          PROVE  row[h] = "pruned"
      BY <3>3 DEF SendDirect, Activate, WaitReturns, Cancel, Deadline
    <3>4. CASE Crash
      BY <3>4 DEF Crash
    <3> QED
      BY <3>1, <3>2, <3>3, <3>4, CallSteps
  <2> QED
    BY <1>b, <2>1, SweptFrom DEF KeptOf
<1> QED
  BY <1>1, <1>2, <1>3 DEF KeptOf

LEMMA FilledGoesStep ==
  ASSUME TypeOK, TargetsWanted, MapInv, GatherInv, FilledGoes, [Next]_vars
  PROVE  FilledGoes'
<1> SUFFICES ASSUME NEW v \in Receives, v \in live', once'[v] = "open", Full(v)'
             PROVE  v \in spawned'
  BY DEF FilledGoes
<1>b. /\ collected \in [Receives -> Seq(Events)] /\ Limit[v] \in Nat
      /\ once \in [Handles -> {"open", "given", "removed", "done"}]
      /\ v \in Handles /\ once[v] = "open" /\ ~Crash
  BY LimitAssumption, OpenStays DEF TypeOK, Crash
<1>1. CASE UNCHANGED settle
  BY <1>1 DEF settle, FilledGoes, Full
<1>2. ASSUME NEW h \in Handles, Activate(h) PROVE v \in spawned'
  <2>1. v \in live
    <3>1. h = v => collected[v] = <<>>
      BY <1>2 DEF Activate, GatherInv, GatherOf, Early
    <3>2. h # v
      <4>1. Len(<<>>) = 0 /\ collected' = collected
        BY <1>2 DEF Activate
      <4> QED
        BY <1>b, <3>1, <4>1 DEF Full
    <3> QED
      BY <1>2, <3>2 DEF Activate
  <2> QED
    BY <1>b, <1>2, <2>1 DEF Activate, FilledGoes, Full
<1>3. ASSUME NEW h \in Handles, RemoveHandle(h) \/ Persist(h) \/ TimerFires(h) \/ SweepExpires(h)
      PROVE  v \in spawned'
  BY <1>b, <1>3 DEF RemoveHandle, Persist, TimerFires, SweepExpires, FilledGoes, Full
<1>4. ASSUME NEW h \in Handles, ResolveReceive(h) PROVE v \in spawned'
  <2>1. h # v
    BY <1>b, <1>4 DEF ResolveReceive, Settle
  <2> QED
    BY <1>b, <1>4, <2>1 DEF ResolveReceive, FilledGoes, Full
<1>5. ASSUME NEW t \in Types, NEW a \in Asks, DeliverToAsk(t, a) PROVE v \in spawned'
  BY <1>b, <1>5 DEF DeliverToAsk, FilledGoes, Full
<1>6. ASSUME NEW t \in Types, NEW u \in Receives, CollectForReceive(t, u) PROVE v \in spawned'
  <2>1. /\ live' = live /\ v \in live
        /\ collected' = [collected EXCEPT ![u] = IF Full(u) THEN collected[u] ELSE Append(collected[u], handling[t])]
        /\ spawned' = IF ~Full(u) /\ Full(u)' THEN spawned \cup {u} ELSE spawned
    BY <1>6 DEF CollectForReceive
  <2>2. Full(v) \/ u = v
    BY <1>b, <2>1 DEF Full
  <2>3. CASE Full(v)
    BY <1>b, <2>1, <2>3 DEF FilledGoes
  <2>4. CASE ~Full(v)
    BY <2>1, <2>2, <2>4
  <2> QED
    BY <2>3, <2>4
<1> QED
  BY <1>b, <1>1, <1>2, <1>3, <1>4, <1>5, <1>6, HandleSteps

\* a once that was won stays so until its winner has persisted the outcome
LEMMA InsideStays ==
  ASSUME TypeOK, [Next]_vars, NEW h \in Handles, once[h] \in {"given", "removed"}
  PROVE  once'[h] \in {"given", "removed"} \/ Persist(h) \/ Crash
<1>b. once \in [Handles -> {"open", "given", "removed", "done"}]
  BY DEF TypeOK
<1>1. CASE UNCHANGED settle
  BY <1>1 DEF settle
<1>2. ASSUME NEW k \in Handles, Activate(k) \/ RemoveHandle(k) \/ Persist(k)
      PROVE  once'[h] \in {"given", "removed"} \/ Persist(h)
  BY <1>b, <1>2 DEF Activate, RemoveHandle, Persist
<1>3. ASSUME NEW k \in Handles, TimerFires(k) \/ ResolveReceive(k) \/ SweepExpires(k)
      PROVE  once'[h] = once[h]
  <2>1. \E v, events : Settle(k, v, events)
    BY <1>3 DEF TimerFires, ResolveReceive, SweepExpires
  <2> QED
    BY <1>b, <2>1 DEF Settle
<1>4. ASSUME NEW t \in Types, NEW a \in Asks, DeliverToAsk(t, a) PROVE once'[h] = once[h]
  BY <1>b, <1>4 DEF DeliverToAsk, Settle
<1>5. ASSUME NEW t \in Types, NEW v \in Receives, CollectForReceive(t, v) PROVE once'[h] = once[h]
  BY <1>5 DEF CollectForReceive
<1> QED
  BY <1>1, <1>2, <1>3, <1>4, <1>5, HandleSteps

\* who goes inside a once, and who comes out
LEMMA DoingSteps ==
  ASSUME TypeOK, [Next]_vars, NEW g \in Types \cup {Sweeper}
  PROVE  \/ doing'[g] = NoHandle /\ (doing[g] = NoHandle \/ (\E h \in Handles : Persist(h)) \/ Crash)
         \/ doing'[g] = doing[g] /\ doing[g] \in Handles /\ ~Persist(doing[g]) /\ ~Crash
         \/ /\ doing'[g] \in Handles /\ once'[doing'[g]] \in {"given", "removed"}
            /\ \/ g \in Types /\ targets[g] # {} /\ handling'[g] = handling[g]
               \/ g = Sweeper /\ sweeping = "resolving" /\ sweeping' = "resolving"
<1>b. /\ once \in [Handles -> {"open", "given", "removed", "done"}]
      /\ doing \in [Types \cup {Sweeper} -> Handles \cup {NoHandle}]
  BY DEF TypeOK
<1> USE DEF channels
<1>1. CASE UNCHANGED <<targets, doing, sweeping, expired, sweepNow>>
  <2>1. CASE doing[g] = NoHandle
    BY <1>1, <2>1
  <2>2. CASE doing[g] # NoHandle
    BY <1>b, <1>1, <2>2, HandlesAssumption DEF Persist, Crash, Free
  <2> QED
    BY <2>1, <2>2
<1>2. ASSUME NEW h \in Handles, Persist(h)
      PROVE  \/ doing'[g] = NoHandle
             \/ doing'[g] = doing[g] /\ doing[g] \in Handles /\ ~Persist(doing[g]) /\ ~Crash
  <2>1. doing'[g] = IF doing[g] = h THEN NoHandle ELSE doing[g]
    BY <1>b, <1>2 DEF Persist
  <2>2. ASSUME doing'[g] # NoHandle PROVE ~Persist(doing[g]) /\ ~Crash
    BY <1>b, <2>1, <2>2, HandlesAssumption DEF Persist, Crash, Free
  <2> QED
    BY <1>b, <2>1, <2>2
<1>3. ASSUME NEW i \in Types \cup {Sweeper}, NEW h \in Handles, EnterOnce(i, h), doing[i] = NoHandle,
             NEW v, NEW events, Settle(h, v, events)
      PROVE  \/ doing'[g] = doing[g]
             \/ g = i /\ doing'[g] = h /\ once'[h] \in {"given", "removed"}
  BY <1>b, <1>3 DEF EnterOnce, Settle
<1>4. ASSUME doing'[g] = doing[g]
      PROVE  \/ doing'[g] = NoHandle /\ doing[g] = NoHandle
             \/ doing'[g] = doing[g] /\ doing[g] \in Handles /\ ~Persist(doing[g]) /\ ~Crash
  BY <1>b, <1>4, HandlesAssumption DEF Persist, Crash, Free
<1>5. ASSUME NEW h \in Handles, SweepExpires(h)
      PROVE  \/ doing'[g] = doing[g]
             \/ /\ doing'[g] \in Handles /\ once'[doing'[g]] \in {"given", "removed"}
                /\ g = Sweeper /\ sweeping = "resolving" /\ sweeping' = "resolving"
  BY <1>3, <1>5 DEF SweepExpires
<1>6. ASSUME NEW t \in Types, NEW a \in Asks, DeliverToAsk(t, a)
      PROVE  \/ doing'[g] = doing[g]
             \/ /\ doing'[g] \in Handles /\ once'[doing'[g]] \in {"given", "removed"}
                /\ g \in Types /\ targets[g] # {} /\ handling'[g] = handling[g]
  <2>1. /\ a \in targets[t] /\ handling' = handling /\ doing[t] = NoHandle
        /\ EnterOnce(t, a) /\ Settle(a, "resolved", <<handling[t]>>)
    BY <1>6 DEF DeliverToAsk
  <2> QED
    BY <1>3, <2>1
<1>7. ASSUME NEW t \in Types, HandleEvent(t) PROVE doing' = doing
  BY <1>7 DEF HandleEvent
<1>8. ASSUME NEW t \in Types, NEW v \in Receives, CollectForReceive(t, v) PROVE doing' = doing
  BY <1>8 DEF CollectForReceive
<1>9. ASSUME SweepBegins \/ SweepDeletes \/ StartCleanup PROVE doing' = doing
  BY <1>9 DEF SweepBegins, SweepDeletes, StartCleanup, routing
<1>10. CASE Crash
  BY <1>10 DEF Crash, Free
<1> QED
  BY <1>1, <1>2, <1>4, <1>5, <1>6, <1>7, <1>8, <1>9, <1>10, RouteSteps

LEMMA HandsStep ==
  ASSUME TypeOK, TypeOK', TargetsWanted, TargetsWanted', Hands, [Next]_vars
  PROVE  Hands'
<1>b. /\ doing \in [Types \cup {Sweeper} -> Handles \cup {NoHandle}]
      /\ handling \in [Types -> Events \cup {NoEvent}]
  BY DEF TypeOK
<1>1. ASSUME NEW g \in Types \cup {Sweeper}, doing'[g] # NoHandle
      PROVE  once'[doing'[g]] \in {"given", "removed"}
  BY <1>1, DoingSteps, InsideStays DEF Hands
<1>2. ASSUME NEW t \in Types, handling'[t] = NoEvent
      PROVE  targets'[t] = {} /\ doing'[t] = NoHandle
  <2>1. targets'[t] = {}
    BY <1>2, EventsAssumption DEF TypeOK, TargetsWanted
  <2>2. handling[t] = NoEvent \/ EventHandled(t) \/ Crash
    <3>1. CASE UNCHANGED chan
      BY <1>2, <3>1 DEF chan
    <3>2. ASSUME NEW e \in Events, PublishInbound(e) PROVE handling' = handling
      BY <3>2 DEF PublishInbound, Channel!Offer, channels
    <3>3. ASSUME NEW s \in Types, HandleEvent(s) PROVE handling[t] = NoEvent
      BY <1>b, <1>2, <3>3 DEF HandleEvent, Channel!Take
    <3>4. ASSUME NEW s \in Types, EventHandled(s) PROVE handling[t] = NoEvent \/ EventHandled(t)
      BY <1>b, <1>2, <3>4 DEF EventHandled, Channel!Return
    <3>5. ASSUME NEW s \in Types, Subscribe(s) PROVE handling' = handling
      BY <3>5 DEF Subscribe, Channel!Open
    <3> QED
      BY <1>2, <3>1, <3>2, <3>3, <3>4, <3>5, ChannelSteps
  <2>3. CASE handling[t] = NoEvent
    <3>1. targets[t] = {} /\ doing[t] = NoHandle
      BY <2>3 DEF Hands
    <3> QED
      BY <2>1, <3>1, DoingSteps, HandlesAssumption, TypesAssumption
  <2>4. CASE EventHandled(t)
    BY <2>1, <2>4 DEF EventHandled, routing
  <2>5. CASE Crash
    BY <2>1, <2>5 DEF Crash, Free
  <2> QED
    BY <2>2, <2>3, <2>4, <2>5
<1>3. ASSUME sweeping' # "resolving" PROVE expired' = {} /\ doing'[Sweeper] = NoHandle
  <2>1. CASE SweepDeletes
    BY <2>1 DEF SweepDeletes, routing
  <2>2. CASE Crash
    BY <2>2 DEF Crash, Free
  <2>3. CASE ~SweepDeletes /\ ~Crash
    <3>1. sweeping # "resolving" /\ expired' = expired
      <4>1. CASE UNCHANGED <<targets, doing, sweeping, expired, sweepNow>>
        BY <1>3, <4>1
      <4>2. ASSUME NEW h \in Handles, Persist(h) PROVE UNCHANGED <<sweeping, expired>>
        BY <4>2 DEF Persist, cleanup
      <4>3. ASSUME NEW h \in Handles, SweepExpires(h) PROVE FALSE
        BY <1>3, <4>3 DEF SweepExpires
      <4>4. ASSUME NEW t \in Types, HandleEvent(t) PROVE UNCHANGED <<sweeping, expired>>
        BY <4>4 DEF HandleEvent, cleanup
      <4>5. ASSUME NEW t \in Types, NEW h \in Handles, DeliverToAsk(t, h) \/ CollectForReceive(t, h)
            PROVE  UNCHANGED <<sweeping, expired>>
        BY <4>5 DEF DeliverToAsk, CollectForReceive, cleanup
      <4>6. ASSUME SweepBegins PROVE FALSE
        BY <1>3, <4>6 DEF SweepBegins
      <4>7. ASSUME StartCleanup PROVE sweeping # "resolving" /\ expired' = expired
        BY <4>7 DEF StartCleanup
      <4> QED
        BY <1>3, <2>3, <4>1, <4>2, <4>3, <4>4, <4>5, <4>6, <4>7, RouteSteps
    <3>2. expired = {} /\ doing[Sweeper] = NoHandle
      BY <3>1 DEF Hands
    <3> QED
      BY <3>1, <3>2, DoingSteps, HandlesAssumption, TypesAssumption
  <2> QED
    BY <2>1, <2>2, <2>3
<1> QED
  BY <1>1, <1>2, <1>3 DEF Hands

\* Whoever waits, waits for a step that nothing blocks: what CallsReturn and
\* HandlesReleased need besides the scheduler, for any number of handles.
THEOREM NobodyHangsCorrect == Spec => []NobodyHangs
<1>1. Init => PlacedInv /\ GatherInv /\ HangInv
  BY InitPlaced, InitGather, InitHang
<1>2. /\ TypeOK /\ TargetsWanted /\ LogInv /\ OutcomeInv /\ RoutingInv
      /\ PlacedInv /\ GatherInv /\ HangInv /\ [Next]_vars /\ TypeOK' /\ TargetsWanted'
      => (PlacedInv /\ GatherInv /\ HangInv)'
  <2> SUFFICES ASSUME TypeOK, TargetsWanted, LogInv, OutcomeInv, RoutingInv, PlacedInv, GatherInv,
                      HangInv, [Next]_vars, TypeOK', TargetsWanted'
               PROVE  (PlacedInv /\ GatherInv /\ HangInv)'
    OBVIOUS
  <2>1. PlacedInv' /\ GatherInv'
    BY PlacedStep, GatherStep DEF RoutingInv
  <2>2. \A h \in Handles : KeptOf(h)'
    BY KeptStep DEF HangInv, RoutingInv
  <2>3. FilledGoes' /\ Hands'
    BY FilledGoesStep, HandsStep DEF HangInv, RoutingInv
  <2> QED
    BY <2>1, <2>2, <2>3 DEF HangInv
<1>3. ASSUME TypeOK, OutcomeInv, PlacedInv, HangInv PROVE NobodyHangs
  <2>1. ASSUME NEW h \in live
        PROVE  once[h] = "given" \/ (once[h] = "open" /\ (row[h] = "pending" \/ h \in due))
    <3>1. h \in Handles /\ Agrees(h) /\ PlacedOf(h) /\ KeptOf(h)
      BY <1>3, <2>1 DEF TypeOK, OutcomeInv, PlacedInv, HangInv
    <3>2. row[h] \in {"none", "pruned"} \cup States
      BY <1>3, <3>1 DEF TypeOK
    <3> QED
      BY <2>1, <3>1, <3>2 DEF Agrees, PlacedOf, KeptOf, States
  <2>2. DOMAIN doing = Types \cup {Sweeper}
    BY <1>3 DEF TypeOK
  <2> QED
    BY <1>3, <2>1, <2>2 DEF HangInv, KeptOf, FilledGoes, Hands, NobodyHangs
<1>4. Spec => [](TypeOK /\ TargetsWanted /\ LogInv /\ OutcomeInv /\ RoutingInv)
  BY TypeCorrect, OutcomeInvariant, RoutingInvariant, PTL
<1> QED
  BY <1>1, <1>2, <1>3, <1>4, PTL DEF Spec
=============================================================================
