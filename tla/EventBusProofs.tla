--------------------------- MODULE EventBusProofs ---------------------------
(***************************************************************************)
(* For any number of publishers, subscriptions and calls: no publisher     *)
(* sends on a closed channel, each subscription behaves as EventChannel    *)
(* says, and a handler gets the events of one publisher in their order.    *)
(* All follow from LockHolds, which is inductive with the type invariant;  *)
(* the order needs OrderInv besides.                                       *)
(***************************************************************************)
EXTENDS EventBus, SequenceTheorems, TLAPS

USE DEF channels, lock, owners, sending

LEMMA InitIInv == Init => IInv
<1> SUFFICES ASSUME Init PROVE IInv
  OBVIOUS
<1>1. <<>> \in Seq(Events) /\ Len(<<>>) = 0
  OBVIOUS
<1>2. TypeOK
  <2>1. /\ queue \in [Subs -> Seq(Events)] /\ log \in [Subs -> Seq(Events)]
        /\ \A s \in Subs : Len(queue[s]) <= Capacity
    BY <1>1, CapacityAssumption DEF Init, Channel!ChannelsInit
  <2> QED
    BY <2>1 DEF Init, Channel!ChannelsInit, TypeOK
<1>3. LockHolds
  BY BusNamesAssumption DEF Init, Channel!ChannelsInit, LockHolds
<1> QED
  BY <1>2, <1>3 DEF IInv

\* what one dispatching step does to a channel stays within its bounds
LEMMA OfferType ==
  ASSUME NEW s \in Subs, NEW e \in Events, TypeOK, Channel!Offer(s, e)
  PROVE  /\ queue' \in [Subs -> Seq(Events)]
         /\ \A r \in Subs : Len(queue'[r]) <= Capacity
<1>1. queue[s] \in Seq(Events)
  BY DEF TypeOK
<1>2. CASE Len(queue[s]) < Capacity
  <2>1. queue' = [queue EXCEPT ![s] = Append(queue[s], e)]
    BY <1>2 DEF Channel!Offer
  <2>2. Append(queue[s], e) \in Seq(Events) /\ Len(Append(queue[s], e)) = Len(queue[s]) + 1
    BY <1>1
  <2> QED
    BY <1>2, <2>1, <2>2, <1>1, CapacityAssumption DEF TypeOK
<1>3. CASE ~(Len(queue[s]) < Capacity)
  <2>1. queue' = queue
    BY <1>3 DEF Channel!Offer, TypeOK
  <2> QED
    BY <2>1 DEF TypeOK
<1> QED
  BY <1>2, <1>3

LEMMA TakeType ==
  ASSUME NEW s \in Subs, TypeOK, Channel!Take(s)
  PROVE  /\ queue' \in [Subs -> Seq(Events)]
         /\ \A r \in Subs : Len(queue'[r]) <= Capacity
         /\ Head(queue[s]) \in Events
<1>1. queue[s] \in Seq(Events) /\ queue[s] # <<>>
  BY DEF TypeOK, Channel!Take
<1>2. /\ Head(queue[s]) \in Events
      /\ Tail(queue[s]) \in Seq(Events)
      /\ Len(Tail(queue[s])) = Len(queue[s]) - 1
  BY <1>1
<1> QED
  BY <1>1, <1>2, CapacityAssumption DEF Channel!Take, TypeOK

LEMMA PublisherStep ==
  ASSUME IInv, NEW p \in Publishers, BeginPublish(p) \/ Publish(p)
  PROVE  IInv'
<1>1. CASE BeginPublish(p)
  <2>1. PICK t \in Types :
          /\ current' = [current EXCEPT ![p] = <<p, count[p] + 1, t>>]
          /\ todo' = [todo EXCEPT ![p] = {s \in registered : TypeOf[s] = t}]
    BY <1>1 DEF BeginPublish
  <2>2. <<p, count[p] + 1, t>> \in Events
    <3>1. count[p] + 1 \in 1..MaxPublishes[p]
      <4>1. count[p] \in Nat /\ MaxPublishes[p] \in Nat
        BY BoundAssumption DEF IInv, TypeOK
      <4> QED
        BY <1>1, <4>1 DEF BeginPublish
    <3>2. <<p, count[p] + 1, t>> \in {p} \X (1..MaxPublishes[p]) \X Types
      BY <3>1
    <3> QED
      BY <3>2 DEF Events
  <2>3. TypeOK'
    <3>1. /\ readers' \in SUBSET Publishers
          /\ count' \in [Publishers -> Nat]
      BY <1>1 DEF BeginPublish, IInv, TypeOK
    <3>2. current' \in [Publishers -> Events \cup {NoEvent}]
      BY <2>1, <2>2 DEF IInv, TypeOK
    <3>3. todo' \in [Publishers -> SUBSET Subs]
      BY <2>1 DEF IInv, TypeOK
    <3>4. UNCHANGED <<phase, queue, handling, registered, writer, inside, opc, running, log>>
      BY <1>1 DEF BeginPublish, owners
    <3> QED
      BY <3>1, <3>2, <3>3, <3>4 DEF IInv, TypeOK
  <2>4. LockHolds'
    <3>1. /\ UNCHANGED <<phase, writer, inside, registered, opc>>
          /\ readers' = readers \cup {p} /\ ~inside /\ todo'[p] \subseteq registered
          /\ current'[p] \in Events
          /\ \A q \in Publishers \ {p} : current'[q] = current[q] /\ todo'[q] = todo[q]
      BY <1>1, <2>1, <2>2 DEF BeginPublish, owners, IInv, TypeOK, LockHolds
    <3> QED
      BY <3>1 DEF IInv, LockHolds
  <2> QED
    BY <2>3, <2>4 DEF IInv
<1>2. CASE EndPublish(p)
  <2>1. TypeOK'
    BY <1>2 DEF EndPublish, IInv, TypeOK
  <2>2. LockHolds'
    BY <1>2 DEF EndPublish, IInv, TypeOK, LockHolds
  <2> QED
    BY <2>1, <2>2 DEF IInv
<1>3. ASSUME NEW s \in Subs, SendTo(p, s)
      PROVE  IInv'
  <2>1. current[p] \in Events
    BY <1>3 DEF SendTo, IInv, LockHolds
  <2>2. TypeOK'
    BY <1>3, <2>1, OfferType DEF SendTo, Channel!Offer, IInv, TypeOK
  <2>3. LockHolds'
    BY <1>3 DEF SendTo, Channel!Offer, IInv, TypeOK, LockHolds
  <2> QED
    BY <2>2, <2>3 DEF IInv
<1> QED
  BY <1>1, <1>2, <1>3 DEF Publish

LEMMA OwnerStep ==
  ASSUME IInv, NEW s \in Subs, RequestLock(s) \/ Own(s)
  PROVE  IInv'
<1>1. CASE RequestLock(s)
  <2>1. TypeOK'
    BY <1>1 DEF RequestLock, IInv, TypeOK
  <2>2. LockHolds'
    BY <1>1, BusNamesAssumption DEF RequestLock, IInv, TypeOK, LockHolds
  <2> QED
    BY <2>1, <2>2 DEF IInv
<1>2. CASE EnterLock(s) \/ StartRunner(s)
  <2>1. TypeOK'
    BY <1>2 DEF EnterLock, StartRunner, IInv, TypeOK
  <2>2. LockHolds'
    BY <1>2, BusNamesAssumption DEF EnterLock, StartRunner, IInv, TypeOK, LockHolds
  <2> QED
    BY <2>1, <2>2 DEF IInv
<1>3. CASE Subscribe(s)
  <2>1. TypeOK'
    BY <1>3 DEF Subscribe, Unlock, Channel!Open, IInv, TypeOK
  <2>2. LockHolds'
    BY <1>3, BusNamesAssumption DEF Subscribe, Unlock, Channel!Open, IInv, TypeOK, LockHolds
  <2> QED
    BY <2>1, <2>2 DEF IInv
<1>4. CASE Unsubscribe(s)
  <2>1. TypeOK'
    BY <1>4 DEF Unsubscribe, Unlock, Channel!Close, IInv, TypeOK
  <2>2. \A p \in Publishers : todo[p] = {}
    BY <1>4 DEF Unsubscribe, IInv, LockHolds
  <2>3. LockHolds'
    BY <1>4, <2>2, BusNamesAssumption
    DEF Unsubscribe, Unlock, Channel!Close, IInv, TypeOK, LockHolds
  <2> QED
    BY <2>1, <2>3 DEF IInv
<1> QED
  BY <1>1, <1>2, <1>3, <1>4 DEF Own

LEMMA RunnerStep ==
  ASSUME IInv, NEW s \in Subs, Run(s)
  PROVE  IInv'
<1>1. CASE CallHandler(s)
  <2>1. log' \in [Subs -> Seq(Events)]
    <3>1. Head(queue[s]) \in Events /\ log[s] \in Seq(Events)
      BY <1>1, TakeType DEF CallHandler, IInv, TypeOK
    <3>2. Append(log[s], Head(queue[s])) \in Seq(Events)
      BY <3>1
    <3> QED
      BY <1>1, <3>2 DEF CallHandler, IInv, TypeOK
  <2>2. TypeOK'
    BY <1>1, <2>1, TakeType DEF CallHandler, Channel!Take, IInv, TypeOK
  <2> QED
    BY <1>1, <2>2 DEF CallHandler, Channel!Take, IInv, LockHolds
<1>2. CASE HandlerReturns(s)
  BY <1>2 DEF HandlerReturns, Channel!Return, IInv, TypeOK, LockHolds
<1> QED
  BY <1>1, <1>2 DEF Run

LEMMA Invariance == IInv /\ [Next]_vars => IInv'
<1> SUFFICES ASSUME IInv, [Next]_vars PROVE IInv'
  OBVIOUS
<1>1. CASE UNCHANGED vars
  BY <1>1 DEF vars, IInv, TypeOK, LockHolds
<1> QED
  BY <1>1, PublisherStep, OwnerStep, RunnerStep DEF Next

\* LockHolds and the types hold in every reachable state.
THEOREM LockCorrect == Spec => []IInv
BY InitIInv, Invariance, PTL DEF Spec

\* Every buffer stays within defaultChannelSize and holds envelopes only.
THEOREM BusTypeCorrect == Spec => []TypeOK
<1>1. IInv => TypeOK
  BY DEF IInv
<1> QED
  BY <1>1, LockCorrect, PTL

\* No dispatch reaches a channel that Unsubscribe has closed.
THEOREM NoSendOnClosedCorrect == Spec => []NoSendOnClosed
<1>1. IInv => NoSendOnClosed
  BY DEF IInv, TypeOK, LockHolds, NoSendOnClosed
<1> QED
  BY <1>1, LockCorrect, PTL

LEMMA ChannelsStep ==
  ASSUME IInv, [Next]_vars
  PROVE  [\E s \in Subs : Channel!ChannelStep(s)]_(Channel!channels)
<1> USE DEF Channel!channels
<1>1. CASE UNCHANGED vars
  BY <1>1 DEF vars
<1>2. ASSUME NEW p \in Publishers, BeginPublish(p) \/ Publish(p)
      PROVE  [\E s \in Subs : Channel!ChannelStep(s)]_(Channel!channels)
  <2>1. CASE BeginPublish(p) \/ EndPublish(p)
    BY <2>1 DEF BeginPublish, EndPublish
  <2>2. ASSUME NEW s \in Subs, SendTo(p, s)
        PROVE  Channel!ChannelStep(s)
    <3>1. PICK e \in Events : e = current[p]
      BY <2>2 DEF SendTo, IInv, LockHolds
    <3>2. Channel!Offer(s, e)
      BY <2>2, <3>1 DEF SendTo, Channel!Offer
    <3> QED
      BY <3>2 DEF Channel!ChannelStep
  <2> QED
    BY <1>2, <2>1, <2>2 DEF Publish
<1>3. ASSUME NEW s \in Subs, RequestLock(s) \/ Own(s) \/ Run(s)
      PROVE  [\E r \in Subs : Channel!ChannelStep(r)]_(Channel!channels)
  BY <1>3 DEF RequestLock, Own, EnterLock, Subscribe, StartRunner, Unsubscribe, Run, CallHandler,
     HandlerReturns, Channel!ChannelStep
<1> QED
  BY <1>1, <1>2, <1>3 DEF Next

\* Behind its locks the bus is a family of bounded FIFOs.
THEOREM ImplementsChannelsCorrect == Spec => ImplementsChannels
<1>1. Init => Channel!ChannelsInit
  BY DEF Init
<1> QED
  BY <1>1, ChannelsStep, LockCorrect, PTL
  DEF Spec, ImplementsChannels, Channel!ChannelsSpec

-----------------------------------------------------------------------------
(* Order: what a publisher has still to send is newer than all that has    *)
(* reached the subscription from it.                                       *)

LEMMA MoveHead ==
  ASSUME NEW S, NEW s \in Seq(S), NEW t \in Seq(S), t # <<>>
  PROVE  Append(s, Head(t)) \o Tail(t) = s \o t
<1>1. Head(t) \in S /\ Head(t) = t[1] /\ Tail(t) \in Seq(S) /\ <<Head(t)>> \in Seq(S)
  BY HeadTailProperties
<1>2. <<Head(t)>> \o Tail(t) = t
  BY <1>1
<1>3. Append(s, Head(t)) = s \o <<Head(t)>>
  BY <1>1, AppendIsConcat
<1>4. (s \o <<Head(t)>>) \o Tail(t) = s \o (<<Head(t)>> \o Tail(t))
  BY <1>1, ConcatAssociative
<1> QED
  BY <1>2, <1>3, <1>4

LEMMA AppendToSecond ==
  ASSUME NEW S, NEW s \in Seq(S), NEW t \in Seq(S), NEW e \in S
  PROVE  s \o Append(t, e) = Append(s \o t, e)
<1>1. <<e>> \in Seq(S) /\ s \o t \in Seq(S)
  BY ConcatProperties
<1>2. Append(t, e) = t \o <<e>> /\ Append(s \o t, e) = (s \o t) \o <<e>>
  BY <1>1, AppendIsConcat
<1>3. (s \o t) \o <<e>> = s \o (t \o <<e>>)
  BY <1>1, ConcatAssociative
<1> QED
  BY <1>2, <1>3

LEMMA EventFields ==
  ASSUME NEW e \in Events
  PROVE  e[1] \in Publishers /\ e[2] \in Nat
<1>1. PICK p \in Publishers : e \in {p} \X (1..MaxPublishes[p]) \X Types
  BY DEF Events
<1> QED
  BY <1>1, BoundAssumption

LEMMA SeenType ==
  ASSUME TypeOK, NEW s \in Subs
  PROVE  /\ Seen(s) \in Seq(Events) /\ Len(Seen(s)) \in Nat
         /\ \A i \in 1 .. Len(Seen(s)) : /\ Seen(s)[i] \in Events
                                         /\ Seen(s)[i][1] \in Publishers /\ Seen(s)[i][2] \in Nat
<1>1. Seen(s) \in Seq(Events)
  BY DEF Seen, TypeOK
<1>2. Len(Seen(s)) \in Nat /\ \A i \in 1 .. Len(Seen(s)) : Seen(s)[i] \in Events
  BY <1>1
<1> QED
  BY <1>1, <1>2, EventFields

OrderInv ==
  /\ \A p \in readers : current[p][1] = p /\ current[p][2] = count[p]
  /\ \A s \in Subs : \A i \in 1 .. Len(Seen(s)) : Seen(s)[i][2] <= count[Seen(s)[i][1]]
  /\ \A p \in Publishers : \A s \in todo[p] : \A i \in 1 .. Len(Seen(s)) :
       Seen(s)[i][1] = p => Seen(s)[i][2] < count[p]
  /\ PublisherOrder

LEMMA InitOrder == Init => OrderInv
<1> SUFFICES ASSUME Init PROVE OrderInv
  OBVIOUS
<1>1. \A s \in Subs : Len(Seen(s)) = 0
  BY DEF Init, Channel!ChannelsInit, Seen
<1> QED
  BY <1>1 DEF Init, OrderInv, PublisherOrder

\* a step that adds nothing to what was seen, and no subscription to a dispatch
LEMMA OrderFrame ==
  ASSUME OrderInv, readers' \subseteq readers, UNCHANGED count,
         \A p \in readers' : current'[p] = current[p],
         \A p \in Publishers : todo'[p] \subseteq todo[p],
         \A p \in Publishers : todo[p] \subseteq Subs,
         \A s \in Subs : /\ Len(Seen(s)') = Len(Seen(s))
                         /\ \A i \in 1 .. Len(Seen(s)) : Seen(s)'[i] = Seen(s)[i]
  PROVE  OrderInv'
<1>1. \A p \in readers' : current'[p][1] = p /\ current'[p][2] = count'[p]
  BY DEF OrderInv
<1>2. \A s \in Subs : \A i \in 1 .. Len(Seen(s)') : Seen(s)'[i][2] <= count'[Seen(s)'[i][1]]
  BY DEF OrderInv
<1>3. \A p \in Publishers : \A s \in todo'[p] : \A i \in 1 .. Len(Seen(s)') :
        Seen(s)'[i][1] = p => Seen(s)'[i][2] < count'[p]
  BY DEF OrderInv
<1>4. PublisherOrder'
  BY DEF OrderInv, PublisherOrder
<1> QED
  BY <1>1, <1>2, <1>3, <1>4 DEF OrderInv

\* what was in the channel is seen, also when it has gone to the handler
LEMMA SeenTaken ==
  ASSUME TypeOK, NEW s \in Subs, CallHandler(s), NEW r \in Subs
  PROVE  /\ Len(Seen(r)') = Len(Seen(r))
         /\ \A i \in 1 .. Len(Seen(r)) : Seen(r)'[i] = Seen(r)[i]
<1>1. /\ log[r] \in Seq(Events) /\ queue[r] \in Seq(Events)
      /\ log[s] \in Seq(Events) /\ queue[s] \in Seq(Events) /\ queue[s] # <<>>
      /\ log' = [log EXCEPT ![s] = Append(log[s], Head(queue[s]))]
      /\ queue' = [queue EXCEPT ![s] = Tail(queue[s])]
  BY DEF CallHandler, Channel!Take, TypeOK
<1>2. CASE r # s
  <2>1. log'[r] = log[r] /\ queue'[r] = queue[r]
    BY <1>1, <1>2 DEF TypeOK
  <2> QED
    BY <2>1 DEF Seen
<1>3. CASE r = s
  <2>1. log'[s] = Append(log[s], Head(queue[s])) /\ queue'[s] = Tail(queue[s])
    BY <1>1 DEF TypeOK
  <2>2. Append(log[s], Head(queue[s])) \o Tail(queue[s]) = log[s] \o queue[s]
    BY <1>1, MoveHead
  <2> QED
    BY <1>3, <2>1, <2>2 DEF Seen
<1> QED
  BY <1>2, <1>3

LEMMA SeenSent ==
  ASSUME TypeOK, NEW s \in Subs, NEW e \in Events, Channel!Offer(s, e), UNCHANGED log
  PROVE  /\ \A r \in Subs \ {s} : Seen(r)' = Seen(r)
         /\ \/ Seen(s)' = Seen(s)
            \/ /\ Len(Seen(s)') = Len(Seen(s)) + 1
               /\ \A i \in 1 .. Len(Seen(s)) : Seen(s)'[i] = Seen(s)[i]
               /\ Seen(s)'[Len(Seen(s)) + 1] = e
<1>1. /\ log[s] \in Seq(Events) /\ queue[s] \in Seq(Events)
      /\ queue'[s] = queue[s] \/ queue'[s] = Append(queue[s], e)
      /\ \A r \in Subs \ {s} : queue'[r] = queue[r]
  BY DEF Channel!Offer, TypeOK
<1>2. \A r \in Subs \ {s} : Seen(r)' = Seen(r)
  BY <1>1 DEF Seen
<1>3. CASE queue'[s] = queue[s]
  BY <1>2, <1>3 DEF Seen
<1>4. CASE queue'[s] = Append(queue[s], e)
  <2>1. PICK a \in Seq(Events), b \in Seq(Events) : a = log[s] /\ b = queue[s]
    BY <1>1
  <2>2. a \o b \in Seq(Events) /\ a \o Append(b, e) = Append(a \o b, e)
    BY ConcatProperties, AppendToSecond
  <2>3. /\ Len(a \o b) \in Nat /\ Len(Append(a \o b, e)) = Len(a \o b) + 1
        /\ \A i \in 1 .. Len(a \o b) : Append(a \o b, e)[i] = (a \o b)[i]
        /\ Append(a \o b, e)[Len(a \o b) + 1] = e
    BY <2>2, AppendProperties
  <2>4. Seen(s) = a \o b /\ Seen(s)' = Append(a \o b, e)
    BY <1>4, <2>1, <2>2 DEF Seen
  <2> QED
    BY <1>2, <2>3, <2>4
<1> QED
  BY <1>1, <1>2, <1>3, <1>4

LEMMA OrderSent ==
  ASSUME IInv, OrderInv, NEW p \in Publishers, NEW s \in Subs, SendTo(p, s)
  PROVE  OrderInv'
<1>1. /\ s \in todo[p] /\ p \in readers /\ current[p] \in Events
      /\ current[p][1] = p /\ current[p][2] = count[p] /\ count[p] \in Nat
  BY DEF SendTo, IInv, TypeOK, LockHolds, OrderInv
<1>2. /\ UNCHANGED <<readers, count, current, log>> /\ Channel!Offer(s, current[p])
      /\ todo' = [todo EXCEPT ![p] = todo[p] \ {s}]
      /\ todo \in [Publishers -> SUBSET Subs]
  BY DEF SendTo, IInv, TypeOK
<1>3. /\ s \notin todo'[p]
      /\ \A q \in Publishers : todo'[q] \subseteq todo[q] /\ todo[q] \subseteq Subs
  BY <1>2
<1>4. /\ \A r \in Subs \ {s} : Seen(r)' = Seen(r)
      /\ \/ Seen(s)' = Seen(s)
         \/ /\ Len(Seen(s)') = Len(Seen(s)) + 1
            /\ \A i \in 1 .. Len(Seen(s)) : Seen(s)'[i] = Seen(s)[i]
            /\ Seen(s)'[Len(Seen(s)) + 1] = current[p]
  BY <1>1, <1>2, SeenSent DEF IInv
<1>5. CASE Seen(s)' = Seen(s)
  <2>1. \A r \in Subs : Seen(r)' = Seen(r)
    BY <1>4, <1>5
  <2> QED
    BY <1>2, <1>3, <2>1, OrderFrame
<1>6. CASE /\ Len(Seen(s)') = Len(Seen(s)) + 1
           /\ \A i \in 1 .. Len(Seen(s)) : Seen(s)'[i] = Seen(s)[i]
           /\ Seen(s)'[Len(Seen(s)) + 1] = current[p]
  <2> DEFINE n == Len(Seen(s))
  <2>1. /\ n \in Nat /\ Len(Seen(s)') = n + 1
        /\ \A i \in 1 .. n : Seen(s)'[i] = Seen(s)[i]
        /\ Seen(s)'[n + 1] = current[p]
        /\ \A i \in 1 .. n : Seen(s)[i][1] \in Publishers /\ Seen(s)[i][2] \in Nat
    BY <1>6, SeenType DEF IInv
  <2>2. /\ \A i \in 1 .. n : Seen(s)[i][2] <= count[Seen(s)[i][1]]
        /\ \A i \in 1 .. n : Seen(s)[i][1] = p => Seen(s)[i][2] < count[p]
        /\ \A i, j \in 1 .. n :
             i < j /\ Seen(s)[i][1] = Seen(s)[j][1] => Seen(s)[i][2] < Seen(s)[j][2]
        /\ \A q \in Publishers : s \in todo[q] =>
             \A i \in 1 .. n : Seen(s)[i][1] = q => Seen(s)[i][2] < count[q]
    BY <1>1 DEF OrderInv, PublisherOrder
  <2> HIDE DEF n
  <2>3. \A i \in 1 .. n + 1 : i \in 1 .. n \/ i = n + 1
    BY <2>1
  <2>4. \A i \in 1 .. n + 1 : Seen(s)'[i][2] <= count[Seen(s)'[i][1]]
    BY <1>1, <2>1, <2>2, <2>3
  <2>5. ASSUME NEW q \in Publishers, s \in todo'[q], NEW i \in 1 .. n + 1, Seen(s)'[i][1] = q
        PROVE  Seen(s)'[i][2] < count[q]
    <3>1. q # p /\ s \in todo[q]
      BY <1>3, <2>5
    <3>2. i \in 1 .. n
      BY <1>1, <2>1, <2>3, <2>5, <3>1
    <3> QED
      BY <2>1, <2>2, <2>5, <3>1, <3>2
  <2>6. ASSUME NEW i \in 1 .. n + 1, NEW j \in 1 .. n + 1, i < j,
               Seen(s)'[i][1] = Seen(s)'[j][1]
        PROVE  Seen(s)'[i][2] < Seen(s)'[j][2]
    <3>1. i \in 1 .. n
      BY <2>1, <2>6
    <3>2. CASE j = n + 1
      BY <1>1, <2>1, <2>2, <2>6, <3>1, <3>2
    <3>3. CASE j \in 1 .. n
      BY <2>1, <2>2, <2>6, <3>1, <3>3
    <3> QED
      BY <2>3, <3>2, <3>3
  <2>7. \A r \in readers' : current'[r][1] = r /\ current'[r][2] = count'[r]
    BY <1>2 DEF OrderInv
  <2>8. \A r \in Subs : \A i \in 1 .. Len(Seen(r)') : Seen(r)'[i][2] <= count'[Seen(r)'[i][1]]
    BY <1>2, <1>4, <2>1, <2>4 DEF OrderInv
  <2>9. \A q \in Publishers : \A r \in todo'[q] : \A i \in 1 .. Len(Seen(r)') :
          Seen(r)'[i][1] = q => Seen(r)'[i][2] < count'[q]
    BY <1>2, <1>3, <1>4, <2>1, <2>5 DEF OrderInv
  <2>10. PublisherOrder'
    BY <1>4, <2>1, <2>6 DEF OrderInv, PublisherOrder
  <2> QED
    BY <2>7, <2>8, <2>9, <2>10 DEF OrderInv
<1> QED
  BY <1>4, <1>5, <1>6

LEMMA OrderBegun ==
  ASSUME IInv, OrderInv, NEW p \in Publishers, BeginPublish(p)
  PROVE  OrderInv'
<1>1. /\ p \notin readers /\ readers' = readers \cup {p}
      /\ count' = [count EXCEPT ![p] = count[p] + 1]
      /\ count \in [Publishers -> Nat] /\ todo \in [Publishers -> SUBSET Subs]
      /\ UNCHANGED <<queue, log>>
  BY DEF BeginPublish, IInv, TypeOK
<1>2. PICK t \in Types :
        /\ current' = [current EXCEPT ![p] = <<p, count[p] + 1, t>>]
        /\ todo' = [todo EXCEPT ![p] = {s \in registered : TypeOf[s] = t}]
  BY DEF BeginPublish
<1>3. \A s \in Subs : Seen(s)' = Seen(s)
  BY <1>1 DEF Seen
<1>4. /\ count'[p] = count[p] + 1 /\ \A q \in Publishers \ {p} : count'[q] = count[q]
      /\ \A q \in Publishers \ {p} : todo'[q] = todo[q]
      /\ todo'[p] \subseteq Subs /\ \A q \in Publishers : todo[q] \subseteq Subs
  BY <1>1, <1>2 DEF IInv, TypeOK
<1>5. \A q \in readers' : current'[q][1] = q /\ current'[q][2] = count'[q]
  BY <1>1, <1>2, <1>4 DEF OrderInv, IInv, TypeOK
<1>6. ASSUME NEW s \in Subs, NEW i \in 1 .. Len(Seen(s))
      PROVE  /\ Seen(s)[i][2] <= count'[Seen(s)[i][1]]
             /\ Seen(s)[i][1] = p => Seen(s)[i][2] < count'[p]
  <2>1. /\ Seen(s)[i][1] \in Publishers /\ Seen(s)[i][2] \in Nat
        /\ Seen(s)[i][2] <= count[Seen(s)[i][1]]
    BY SeenType DEF IInv, OrderInv
  <2>2. count[p] \in Nat
    BY <1>1
  <2> QED
    BY <1>4, <2>1, <2>2
<1>7. \A q \in Publishers : \A s \in todo'[q] : \A i \in 1 .. Len(Seen(s)) :
        Seen(s)[i][1] = q => Seen(s)[i][2] < count'[q]
  BY <1>4, <1>6 DEF OrderInv
<1>8. PublisherOrder'
  BY <1>3 DEF OrderInv, PublisherOrder
<1>9. \A q \in Publishers : todo'[q] \subseteq Subs
  BY <1>4
<1> QED
  BY <1>3, <1>5, <1>6, <1>7, <1>8, <1>9 DEF OrderInv

LEMMA OrderStep == IInv /\ OrderInv /\ [Next]_vars => OrderInv'
<1> SUFFICES ASSUME IInv, OrderInv, [Next]_vars PROVE OrderInv'
  OBVIOUS
<1>a. \A p \in Publishers : todo[p] \subseteq Subs
  BY DEF IInv, TypeOK
<1>1. ASSUME UNCHANGED <<queue, log, readers, count, current, todo>> PROVE OrderInv'
  <2>1. \A s \in Subs : Seen(s)' = Seen(s)
    BY <1>1 DEF Seen
  <2> QED
    BY <1>1, <1>a, <2>1, OrderFrame
<1>2. CASE UNCHANGED vars
  BY <1>1, <1>2 DEF vars
<1>3. ASSUME NEW p \in Publishers, EndPublish(p) PROVE OrderInv'
  <2>1. /\ UNCHANGED <<queue, log, count, todo>> /\ readers' = readers \ {p}
        /\ \A q \in readers' : current'[q] = current[q]
    BY <1>3 DEF EndPublish, IInv, TypeOK
  <2>2. \A s \in Subs : Seen(s)' = Seen(s)
    BY <2>1 DEF Seen
  <2> QED
    BY <1>a, <2>1, <2>2, OrderFrame
<1>4. ASSUME NEW s \in Subs, RequestLock(s) \/ Own(s) PROVE OrderInv'
  BY <1>1, <1>4 DEF RequestLock, Own, EnterLock, Subscribe, StartRunner, Unsubscribe,
                    Channel!Open, Channel!Close
<1>5. ASSUME NEW s \in Subs, CallHandler(s) PROVE OrderInv'
  <2>1. UNCHANGED <<readers, count, current, todo>>
    BY <1>5 DEF CallHandler
  <2> QED
    BY <1>5, <1>a, <2>1, SeenTaken, OrderFrame DEF IInv
<1>6. ASSUME NEW s \in Subs, HandlerReturns(s) PROVE OrderInv'
  BY <1>1, <1>6 DEF HandlerReturns, Channel!Return
<1> QED
  BY <1>2, <1>3, <1>4, <1>5, <1>6, OrderSent, OrderBegun DEF Next, Publish, Run

\* A handler gets the events of one publisher in the order of its calls, and none
\* of them twice.
THEOREM PublisherOrderCorrect == Spec => []PublisherOrder
<1>1. Init => OrderInv
  BY InitOrder
<1>2. IInv /\ OrderInv /\ [Next]_vars => OrderInv'
  BY OrderStep
<1>3. OrderInv => PublisherOrder
  BY DEF OrderInv
<1> QED
  BY <1>1, <1>2, <1>3, LockCorrect, PTL DEF Spec
=============================================================================
