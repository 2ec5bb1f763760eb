--------------------------- MODULE SyncLoopProofs ---------------------------
(***************************************************************************)
(* For any stream, any rooms and kinds, any size of a response, and any    *)
(* number of restarts and failures: the loop's token never passes an event *)
(* that was not published or left out by the homeserver, every duplicate   *)
(* has a reason, a process keeps the order of each room, receipts apart,   *)
(* and so the loop implements Feed.  IInv is inductive; its parts are stated beside the    *)
(* properties in SyncLoop.                                                 *)
(***************************************************************************)
EXTENDS SyncLoop, TLAPS

USE DEF rows, tokens, batch, process, history

(***************************************************************************)
(* What a single statement and a single event do.                          *)
(***************************************************************************)

LEMMA FaultsBounded ==
  ASSUME TypeOK, Executes \/ Fails
  PROVE  faults' \in 0 .. MaxFaults
BY BoundsAssumption DEF TypeOK, Executes, Fails

LEMMA RunGrows ==
  ASSUME NEW e \in Events, run \in Seq(Events), run' = Append(run, e)
  PROVE  /\ run' \in Seq(Events)
         /\ DOMAIN run' = DOMAIN run \cup {Len(run) + 1}
         /\ DOMAIN run = 1 .. Len(run) /\ Len(run) \in Nat
         /\ run'[Len(run) + 1] = e
         /\ \A i \in DOMAIN run : run'[i] = run[i] /\ run[i] \in Events
<1>1. /\ run' \in Seq(Events)
      /\ DOMAIN run = 1 .. Len(run) /\ Len(run) \in Nat
      /\ Len(run') = Len(run) + 1
  OBVIOUS
<1>2. DOMAIN run' = 1 .. Len(run) + 1
  BY <1>1
<1>3. \A i \in 1 .. Len(run) + 1 :
        run'[i] = IF i = Len(run) + 1 THEN e ELSE run[i]
  BY <1>1
<1>4. \A i \in 1 .. Len(run) : run[i] \in Events
  BY <1>1
<1> QED
  BY <1>1, <1>2, <1>3, <1>4

\* a message that is looked up is afterwards published
LEMMA DispatchMessageEffect ==
  ASSUME TypeOK, NEW e \in Events, unmarked = NoEvent, DispatchMessage(e)
  PROVE  /\ published' \in [Events -> Nat] /\ unsafe' \in [Events -> Nat]
         /\ run' \in Seq(Events) /\ unmarked' \in Events \cup {NoEvent}
         /\ faults' \in 0 .. MaxFaults
         /\ \A d \in Events \ {e} : published'[d] = published[d] /\ unsafe'[d] = unsafe[d]
         /\ \/ /\ e \in cache
               /\ UNCHANGED <<published, run, unmarked, unsafe>>
            \/ /\ e \notin cache
               /\ published'[e] = published[e] + 1 /\ unsafe'[e] = unsafe[e]
               /\ unmarked' = e /\ run' = Append(run, e)
            \/ /\ published'[e] = published[e] + 1 /\ unsafe'[e] = unsafe[e] + 1
               /\ unmarked' = e /\ run' = Append(run, e)
<1>1. faults' \in 0 .. MaxFaults
  BY FaultsBounded DEF DispatchMessage
<1>2. CASE Executes /\ e \in cache /\ UNCHANGED <<published, run, unmarked, unsafe>>
  BY <1>1, <1>2 DEF TypeOK
<1>3. CASE Executes /\ e \notin cache /\ Publish(e) /\ unmarked' = e /\ UNCHANGED unsafe
  BY <1>1, <1>3, RunGrows DEF TypeOK, Publish
<1>4. CASE Fails /\ Publish(e) /\ unmarked' = e /\ unsafe' = [unsafe EXCEPT ![e] = @ + 1]
  <2>1. unsafe' \in [Events -> Nat] /\ published' \in [Events -> Nat]
    BY <1>4 DEF TypeOK, Publish
  <2> QED
    BY <1>1, <1>4, <2>1, RunGrows DEF TypeOK, Publish
<1> QED
  BY <1>2, <1>3, <1>4 DEF DispatchMessage

(***************************************************************************)
(* The type invariant and the phases of the loop.                          *)
(***************************************************************************)

LEMMA InitIInv == Init => IInv
<1> SUFFICES ASSUME Init PROVE IInv
  OBVIOUS
<1>1. <<>> \in Seq(Events) /\ DOMAIN <<>> = {}
  OBVIOUS
<1>2. TypeOK
  <2>1. /\ arrived \in 0 .. Count /\ boots \in 1 .. MaxBoots /\ faults \in 0 .. MaxFaults
        /\ stored \in 0 .. arrived /\ since \in 0 .. arrived /\ next \in 0 .. arrived
    BY EventsAssumption, BoundsAssumption DEF Init
  <2>2. published \in [Events -> Nat] /\ failures \in [Events -> Nat] /\ unsafe \in [Events -> Nat]
    BY DEF Init, Never
  <2>3. run \in Seq(Events)
    BY <1>1 DEF Init
  <2> QED
    BY <2>1, <2>2, <2>3 DEF Init, TypeOK
<1>3. Phases /\ TokenHonest /\ CacheHonest /\ DuplicatesExplained
  <2>1. Phases /\ TokenHonest
    BY DEF Init, Phases, TokenHonest
  <2>2. \A e \in Events : published[e] = 0 /\ unsafe[e] = 0 /\ unmarked # e /\ e \notin cache
    BY DEF Init, Never, Events, NoEvent
  <2> QED
    BY <2>1, <2>2 DEF CacheHonest, DuplicatesExplained, LookedUp
<1>4. RunBehind /\ RoomOrder
  BY <1>1 DEF Init, RunBehind, RoomOrder
<1> QED
  BY <1>2, <1>3, <1>4 DEF IInv

LEMMA NewTokens ==
  ASSUME TypeOK, Respond
  PROVE  /\ left' \subseteq (since + 1 .. arrived) \cap Events
         /\ next' = arrived
         /\ skipped' = skipped \cup ((since + 1 .. arrived) \ left')
<1>1. /\ left' = UNION {Said(In(r, (since + 1 .. arrived) \cap Events)) : r \in Rooms}
      /\ next' = arrived /\ skipped' = skipped \cup ((since + 1 .. arrived) \ left')
  BY DEF Respond, New
<1>2. ASSUME NEW r \in Rooms, NEW e \in Said(In(r, (since + 1 .. arrived) \cap Events))
      PROVE  e \in (since + 1 .. arrived) \cap Events
  <2> DEFINE S == In(r, (since + 1 .. arrived) \cap Events)
  <2>1. S \subseteq (since + 1 .. arrived) \cap Events
    BY DEF In
  <2>2. e \in S
    <3> HIDE DEF S
    <3> QED
      BY <1>2 DEF Said, Newest, S
  <2> QED
    BY <2>1, <2>2
<1> QED
  BY <1>1, <1>2

LEMMA NextTypeOK ==
  ASSUME TypeOK, Phases, Next
  PROVE  TypeOK'
<1> USE DEF TypeOK
<1>1. CASE GetNextBatch
  <2>1. since' \in 0 .. arrived /\ faults' \in 0 .. MaxFaults
    BY <1>1, FaultsBounded DEF GetNextBatch
  <2>2. left' = {}
    BY <1>1 DEF GetNextBatch, Phases
  <2> QED
    BY <1>1, <2>1, <2>2 DEF GetNextBatch
<1>2. CASE Sync
  <2>1. Respond
    BY <1>2 DEF Sync
  <2>2. since' = since /\ arrived' = arrived /\ next' = arrived
    BY <1>2, <2>1, NewTokens DEF Sync
  <2>3. left' \subseteq (since' + 1 .. next') \cap Events
    BY <2>1, <2>2, NewTokens
  <2>4. skipped' \subseteq Events
    <3>1. (since + 1 .. arrived) \subseteq Events
      BY EventsAssumption DEF Events
    <3> QED
      BY <2>1, <3>1, NewTokens
  <2>5. next' \in 0 .. arrived'
    BY <2>2, EventsAssumption
  <2> QED
    BY <1>2, <2>2, <2>3, <2>4, <2>5 DEF Sync
<1>3. CASE FinishBatch
  BY <1>3 DEF FinishBatch
<1>4. CASE SetNextBatch
  BY <1>4, FaultsBounded DEF SetNextBatch
<1>5. CASE Return
  BY <1>5 DEF Return
<1>6. ASSUME NEW r \in Rooms, EnterRoom(r) PROVE TypeOK'
  BY <1>6 DEF EnterRoom
<1>7. ASSUME NEW e \in Events, DispatchEvent(e) PROVE TypeOK'
  <2>1. left' \subseteq (since + 1 .. next) \cap Events /\ room' \in Rooms \cup {NoRoom}
    BY <1>7 DEF DispatchEvent
  <2>2. CASE DispatchMessage(e) /\ UNCHANGED failures
    BY <1>7, <2>1, <2>2, DispatchMessageEffect DEF DispatchEvent
  <2>3. CASE DecryptFails(e)
    <3>1. failures' \in [Events -> Nat]
      BY <2>3 DEF DecryptFails
    <3> QED
      BY <1>7, <2>1, <2>3, <3>1 DEF DispatchEvent, DecryptFails
  <2>4. CASE Publish(e) /\ UNCHANGED <<failures, unmarked, unsafe, faults>>
    <3>1. run' \in Seq(Events) /\ published' \in [Events -> Nat]
      BY <2>4, RunGrows DEF Publish
    <3> QED
      BY <1>7, <2>1, <2>4, <3>1 DEF DispatchEvent
  <2>5. CASE unmarked' = e /\ UNCHANGED <<published, run, failures, unsafe, faults>>
    BY <1>7, <2>1, <2>5 DEF DispatchEvent
  <2> QED
    BY <1>7, <2>2, <2>3, <2>4, <2>5 DEF DispatchEvent
<1>8. CASE MarkSeen
  <2>1. faults' \in 0 .. MaxFaults
    BY <1>8, FaultsBounded DEF MarkSeen
  <2>2. cache' \subseteq Events /\ unsafe' \in [Events -> Nat]
    BY <1>8 DEF MarkSeen
  <2> QED
    BY <1>8, <2>1, <2>2 DEF MarkSeen
<1>9. ASSUME NEW e \in Events, Arrives(e) PROVE TypeOK'
  <2>1. arrived' \in 0 .. Count /\ arrived <= arrived'
    BY <1>9, EventsAssumption DEF Arrives, Events
  <2>2. /\ stored' \in 0 .. arrived' /\ since' \in 0 .. arrived' /\ next' \in 0 .. arrived'
        /\ left' \subseteq (since' + 1 .. next') \cap Events
    BY <1>9, <2>1 DEF Arrives
  <2> QED
    BY <1>9, <2>1, <2>2 DEF Arrives
<1>10. CASE Stop
  BY <1>10 DEF Stop
<1>11. CASE Exit
  <2>1. run' \in Seq(Events) /\ unsafe' \in [Events -> Nat]
    BY <1>11 DEF Exit
  <2>2. since' \in 0 .. arrived' /\ next' \in 0 .. arrived' /\ left' = {}
    BY <1>11, EventsAssumption DEF Exit
  <2> QED
    BY <1>11, <2>1, <2>2 DEF Exit
<1>12. CASE Start
  <2>1. boots' \in 1 .. MaxBoots
    BY <1>12, BoundsAssumption DEF Start
  <2> QED
    BY <1>12, <2>1 DEF Start
<1> QED
  BY <1>1, <1>2, <1>3, <1>4, <1>5, <1>6, <1>7, <1>8, <1>9, <1>10, <1>11, <1>12 DEF Next, Loop

LEMMA NextPhases ==
  ASSUME TypeOK, Phases, Next
  PROVE  Phases'
<1> USE DEF TypeOK, Phases
<1>1. CASE GetNextBatch \/ SetNextBatch \/ Return \/ Stop
  BY <1>1 DEF GetNextBatch, SetNextBatch, Return, Stop
<1>2. CASE Sync
  <2>1. since' <= next' /\ loop' = "dispatching"
    BY <1>2, NewTokens DEF Sync
  <2>2. up' /\ up' = up
    BY <1>2 DEF Sync, Respond
  <2> QED
    BY <2>1, <2>2
<1>3. CASE FinishBatch
  BY <1>3 DEF FinishBatch
<1>4. ASSUME NEW r \in Rooms, EnterRoom(r) PROVE Phases'
  BY <1>4 DEF EnterRoom
<1>5. ASSUME NEW e \in Events, DispatchEvent(e) PROVE Phases'
  <2>1. loop = "dispatching" /\ up
    BY <1>5 DEF DispatchEvent
  <2> QED
    BY <1>5, <2>1 DEF DispatchEvent
<1>9. CASE MarkSeen
  BY <1>9 DEF MarkSeen
<1>6. ASSUME NEW e \in Events, Arrives(e) PROVE Phases'
  BY <1>6 DEF Arrives
<1>7. CASE Exit
  BY <1>7 DEF Exit
<1>8. CASE Start
  <2>1. since' = 0 /\ next' = 0 /\ left' = {} /\ up' /\ room' = NoRoom /\ unmarked' = NoEvent
    BY <1>8 DEF Start
  <2> QED
    BY <2>1
<1> QED
  BY <1>1, <1>2, <1>3, <1>4, <1>5, <1>6, <1>7, <1>8, <1>9 DEF Next, Loop

(***************************************************************************)
(* The token.                                                              *)
(***************************************************************************)

\* what is accounted for stays so
LEMMA StaysAccounted ==
  ASSUME TypeOK, TypeOK', Next, NEW e \in Events, Accounted(e)
  PROVE  Accounted(e)'
<1>1. /\ published[e] \in Nat /\ published'[e] \in Nat
      /\ failures[e] \in Nat /\ failures'[e] \in Nat
  BY DEF TypeOK
<1>2. published'[e] >= published[e] /\ failures'[e] >= failures[e] /\ skipped \subseteq skipped'
  <2>1. CASE Sync
    BY <1>1, <2>1 DEF Sync, Respond
  <2>2. ASSUME NEW d \in Events, DispatchEvent(d) PROVE <1>2
    <3>1. CASE DispatchMessage(d) /\ UNCHANGED failures
      <4>1. unmarked = NoEvent /\ UNCHANGED skipped
        BY <2>2 DEF DispatchEvent
      <4>2. published'[e] = published[e] \/ published'[e] = published[e] + 1
        <5>1. CASE d = e
          BY <3>1, <4>1, <5>1, DispatchMessageEffect
        <5>2. CASE d # e
          BY <3>1, <4>1, <5>2, DispatchMessageEffect
        <5> QED
          BY <5>1, <5>2
      <4> QED
        BY <1>1, <3>1, <4>1, <4>2
    <3>2. CASE DecryptFails(d)
      BY <1>1, <2>2, <3>2 DEF DispatchEvent, DecryptFails, TypeOK
    <3>3. CASE Publish(d) /\ UNCHANGED <<failures, unmarked, unsafe, faults>>
      BY <1>1, <2>2, <3>3 DEF DispatchEvent, Publish, TypeOK
    <3>4. CASE UNCHANGED <<published, run, failures, unsafe, faults>>
      BY <1>1, <2>2, <3>4 DEF DispatchEvent
    <3> QED
      BY <2>2, <3>1, <3>2, <3>3, <3>4 DEF DispatchEvent
  <2>3. CASE \/ GetNextBatch \/ FinishBatch \/ SetNextBatch \/ Return \/ MarkSeen
             \/ \E r \in Rooms : EnterRoom(r)
    BY <1>1, <2>3 DEF GetNextBatch, FinishBatch, SetNextBatch, Return, MarkSeen, EnterRoom
  <2>4. CASE Stop \/ Exit \/ Start \/ \E d \in Events : Arrives(d)
    BY <1>1, <2>4 DEF Stop, Exit, Start, Arrives
  <2> QED
    BY <2>1, <2>2, <2>3, <2>4 DEF Next, Loop
<1> QED
  BY <1>1, <1>2 DEF Accounted, Dispatched

\* an event that is dispatched is accounted for
LEMMA DispatchAccounts ==
  ASSUME TypeOK, TypeOK', CacheHonest, NEW e \in Events, DispatchEvent(e)
  PROVE  Accounted(e)'
<1>1. /\ published \in [Events -> Nat] /\ failures \in [Events -> Nat]
      /\ published[e] \in Nat /\ failures[e] \in Nat
  BY DEF TypeOK
<1>2. ASSUME Kind[e] \in {"message", "membership", "encrypted"}, DispatchMessage(e)
      PROVE  published'[e] > 0
  <2>1. e \in cache => published[e] > 0
    BY <1>2 DEF CacheHonest, LookedUp
  <2> QED
    BY <1>1, <1>2, <2>1, DispatchMessageEffect DEF DispatchEvent
<1>3. DecryptFails(e) => failures'[e] > 0
  BY <1>1 DEF DecryptFails
<1>4. Publish(e) => published'[e] > 0
  BY <1>1 DEF Publish
<1>5. CASE Kind[e] = "own"
  BY <1>5 DEF Accounted, Wanted
<1> QED
  BY <1>2, <1>3, <1>4, <1>5 DEF DispatchEvent, Accounted, Dispatched

LEMMA NextTokenHonest ==
  ASSUME IInv, TypeOK', Next
  PROVE  TokenHonest'
<1> USE DEF IInv, TokenHonest
<1>0. \A e \in Events : Accounted(e) => Accounted(e)'
  BY StaysAccounted
<1>1. /\ stored \in 0 .. arrived /\ since \in 0 .. arrived /\ next \in 0 .. arrived
      /\ arrived \in 0 .. Count /\ Count \in Nat /\ Events = 1 .. Count
  BY EventsAssumption DEF TypeOK, Events
<1>2. CASE GetNextBatch
  BY <1>0, <1>1, <1>2 DEF GetNextBatch
<1>3. CASE Sync
  <2>1. ASSUME NEW e \in (1 .. arrived) \ left' PROVE Accounted(e)'
    <3>1. CASE e <= since
      BY <1>0, <1>1, <1>3, <2>1, <3>1 DEF Sync, Respond
    <3>2. CASE e > since
      BY <1>1, <1>3, <2>1, <3>2, NewTokens DEF Sync, Accounted
    <3> QED
      BY <1>1, <2>1, <3>1, <3>2
  <2>2. \A e \in 1 .. since : Accounted(e)'
    BY <1>0, <1>1, <1>3 DEF Sync, Respond
  <2> QED
    BY <1>0, <1>1, <1>3, <2>1, <2>2, NewTokens DEF Sync
<1>4. CASE FinishBatch
  BY <1>0, <1>1, <1>4 DEF FinishBatch
<1>5. CASE SetNextBatch
  BY <1>0, <1>1, <1>5 DEF SetNextBatch
<1>6. CASE MarkSeen \/ \E r \in Rooms : EnterRoom(r)
  BY <1>0, <1>1, <1>6 DEF MarkSeen, EnterRoom
<1>7. ASSUME NEW e \in Events, DispatchEvent(e) PROVE TokenHonest'
  <2>1. Accounted(e)'
    BY <1>7, DispatchAccounts
  <2> QED
    BY <1>0, <1>1, <1>7, <2>1 DEF DispatchEvent
<1>8. CASE Return \/ Stop \/ Exit \/ Start \/ \E e \in Events : Arrives(e)
  BY <1>0, <1>1, <1>8 DEF Return, Stop, Exit, Start, Arrives
<1> QED
  BY <1>2, <1>3, <1>4, <1>5, <1>6, <1>7, <1>8 DEF Next, Loop

(***************************************************************************)
(* Duplicates.                                                             *)
(***************************************************************************)

Counted(e) == published[e] \in Nat /\ unsafe[e] \in Nat

LEMMA NextCacheHonest ==
  ASSUME IInv, TypeOK', Next
  PROVE  CacheHonest' /\ DuplicatesExplained'
<1>0. /\ \A e \in Events : e # NoEvent
      /\ published \in [Events -> Nat] /\ unsafe \in [Events -> Nat]
      /\ \A e \in Events : Counted(e)
      /\ LookedUp \subseteq Events /\ unmarked \in Events \cup {NoEvent}
      /\ \A e \in Events : e \in LookedUp <=> Kind[e] \in {"message", "membership", "encrypted"}
  <2>1. \A e \in Events : e # NoEvent
    BY DEF Events, NoEvent
  <2>2. /\ published \in [Events -> Nat] /\ unsafe \in [Events -> Nat]
        /\ unmarked \in Events \cup {NoEvent}
    BY DEF IInv, TypeOK
  <2>3. \A e \in Events : Counted(e)
    BY <2>2 DEF Counted
  <2> QED
    BY <2>1, <2>2, <2>3 DEF LookedUp
<1>1. \A e \in LookedUp :
        /\ e \in cache \/ unmarked = e => published[e] > 0
        /\ e \notin cache /\ unmarked # e => published[e] <= unsafe[e]
        /\ published[e] <= 1 + unsafe[e]
  BY DEF IInv, CacheHonest, DuplicatesExplained, LookedUp
<1> SUFFICES ASSUME NEW e \in LookedUp
             PROVE  /\ e \in cache' \/ unmarked' = e => published'[e] > 0
                    /\ e \notin cache' /\ unmarked' # e => published'[e] <= unsafe'[e]
                    /\ published'[e] <= 1 + unsafe'[e]
  BY DEF CacheHonest, DuplicatesExplained, LookedUp
<1>2. e \in Events /\ e # NoEvent /\ Counted(e)
  BY <1>0
<1> DEFINE Goal == /\ e \in cache' \/ unmarked' = e => published'[e] > 0
                   /\ e \notin cache' /\ unmarked' # e => published'[e] <= unsafe'[e]
                   /\ published'[e] <= 1 + unsafe'[e]
<1>3. ASSUME NEW d \in Events, DispatchEvent(d) PROVE Goal
  <2>1. unmarked = NoEvent /\ cache' = cache
    BY <1>3 DEF DispatchEvent
  <2>2. CASE DispatchMessage(d)
    <3>1. CASE d = e
      <4>1. \/ e \in cache /\ UNCHANGED <<published, run, unmarked, unsafe>>
            \/ /\ e \notin cache /\ unmarked' = e
               /\ published'[e] = published[e] + 1 /\ unsafe'[e] = unsafe[e]
            \/ /\ published'[e] = published[e] + 1 /\ unsafe'[e] = unsafe[e] + 1
               /\ unmarked' = e
        BY <2>1, <2>2, <3>1, DispatchMessageEffect DEF IInv
      <4>2. published[e] \in Nat /\ unsafe[e] \in Nat /\ unmarked # e
        BY <1>2, <2>1 DEF Counted
      <4> QED
        BY <1>1, <2>1, <4>1, <4>2
    <3>2. CASE d # e
      <4>1. published'[e] = published[e] /\ unsafe'[e] = unsafe[e] /\ unmarked' # e
        BY <1>2, <2>1, <2>2, <3>2, DispatchMessageEffect DEF IInv
      <4> QED
        BY <1>1, <1>2, <2>1, <4>1
    <3> QED
      BY <3>1, <3>2
  <2>3. CASE DecryptFails(d)
    BY <1>1, <2>1, <2>3 DEF DecryptFails
  <2>4. CASE Kind[d] = "receipt" /\ Publish(d) /\ UNCHANGED <<failures, unmarked, unsafe, faults>>
    <3>1. d # e
      BY <1>0, <2>4
    <3> QED
      BY <1>0, <1>1, <1>2, <2>1, <2>4, <3>1 DEF Publish
  <2>5. CASE Kind[d] = "own" /\ unmarked' = d /\ UNCHANGED <<published, unsafe>>
    <3>1. d # e
      BY <1>0, <2>5
    <3> QED
      BY <1>1, <1>2, <2>1, <2>5, <3>1
  <2> QED
    BY <1>3, <2>2, <2>3, <2>4, <2>5 DEF DispatchEvent
<1>4. CASE MarkSeen
  <2>1. CASE cache' = cache \cup {unmarked} /\ UNCHANGED unsafe
    BY <1>1, <1>2, <1>4, <2>1 DEF MarkSeen
  <2>2. CASE unsafe' = [unsafe EXCEPT ![unmarked] = @ + 1] /\ UNCHANGED cache
    <3>1. CASE unmarked = e
      BY <1>0, <1>1, <1>2, <1>4, <2>2, <3>1 DEF MarkSeen, Counted
    <3>2. CASE unmarked # e
      BY <1>0, <1>1, <1>2, <1>4, <2>2, <3>2 DEF MarkSeen
    <3> QED
      BY <3>1, <3>2
  <2> QED
    BY <1>4, <2>1, <2>2 DEF MarkSeen
<1>5. CASE Exit
  <2>1. unmarked' = NoEvent /\ published' = published /\ cache' = cache
    BY <1>5 DEF Exit
  <2>2. CASE unmarked = e
    <3>1. unsafe'[e] = unsafe[e] + 1
      BY <1>0, <1>2, <1>5, <2>2 DEF Exit
    <3> QED
      BY <1>1, <1>2, <2>1, <2>2, <3>1 DEF Counted
  <2>3. CASE unmarked # e
    <3>1. unsafe'[e] = unsafe[e]
      BY <1>0, <1>2, <1>5, <2>3 DEF Exit
    <3> QED
      BY <1>1, <1>2, <2>1, <2>3, <3>1
  <2> QED
    BY <2>2, <2>3
<1>6. CASE UNCHANGED <<cache, unmarked, published, unsafe>>
  BY <1>1, <1>6
<1>7. GetNextBatch \/ Sync \/ FinishBatch \/ SetNextBatch \/ Return \/ (\E r \in Rooms : EnterRoom(r))
      => UNCHANGED <<cache, unmarked, published, unsafe>>
  BY DEF GetNextBatch, Sync, FinishBatch, SetNextBatch, Return, EnterRoom
<1>8. Stop \/ Start \/ (\E d \in Events : Arrives(d))
      => UNCHANGED <<cache, unmarked, published, unsafe>>
  BY DEF Stop, Start, Arrives
<1> QED
  BY <1>3, <1>4, <1>5, <1>6, <1>7, <1>8 DEF Next, Loop

(***************************************************************************)
(* The order of a room.                                                    *)
(***************************************************************************)

\* an event that is dispatched is published at most once, as the last so far
LEMMA DispatchRun ==
  ASSUME TypeOK, NEW e \in Events, DispatchEvent(e)
  PROVE  run' = run \/ run' = Append(run, e)
<1>1. DispatchMessage(e) => run' = run \/ run' = Append(run, e)
  BY DEF DispatchMessage, Publish
<1>2. DecryptFails(e) => run' = run
  BY DEF DecryptFails
<1>3. Publish(e) => run' = Append(run, e)
  BY DEF Publish
<1> QED
  BY <1>1, <1>2, <1>3 DEF DispatchEvent

LEMMA NextRunOrder ==
  ASSUME IInv, TypeOK', Next
  PROVE  RunBehind' /\ RoomOrder'
<1>0. /\ stored \in Nat /\ since \in 0 .. arrived /\ next \in 0 .. arrived /\ arrived \in Nat
      /\ left \subseteq (since + 1 .. next) \cap Events /\ run \in Seq(Events)
      /\ Events = 1 .. Count /\ Count \in Nat
  BY EventsAssumption DEF IInv, TypeOK, Events
<1>1. /\ DOMAIN run = 1 .. Len(run) /\ Len(run) \in Nat
      /\ \A i \in DOMAIN run : run[i] \in Events /\ run[i] \in Nat
  BY <1>0
<1>2. RunBehind /\ RoomOrder /\ Phases
  BY DEF IInv
<1>3. CASE Sync
  <2>1. /\ loop = "polling" /\ loop' = "dispatching" /\ run' = run /\ next' = arrived
        /\ left' \subseteq (since + 1 .. arrived) \cap Events
    BY <1>3, NewTokens DEF IInv, Sync, Respond
  <2>2. RunBehind'
    BY <1>0, <1>1, <1>2, <2>1 DEF RunBehind
  <2> QED
    BY <1>2, <2>1, <2>2 DEF RoomOrder
<1>4. ASSUME NEW e \in Events, DispatchEvent(e) PROVE RunBehind' /\ RoomOrder'
  <2>1. /\ loop = "dispatching" /\ loop' = loop /\ next' = next /\ left' = left \ {e}
    BY <1>2, <1>4 DEF DispatchEvent, Phases
  <2>2. /\ e \in left /\ e <= next
        /\ \A f \in left' \ Receipts : RoomOf[e] = RoomOf[f] => e < f
    <3>1. e \in Foremost(In(room, left))
      BY <1>4 DEF DispatchEvent
    <3>2. e \in left /\ e <= next /\ RoomOf[e] = room
      BY <1>0, <3>1 DEF Foremost, Oldest, In
    <3>3. ASSUME NEW f \in left' \ Receipts, RoomOf[e] = RoomOf[f] PROVE e < f
      <4>1. f \in In(room, left) \ Receipts /\ f # e
        BY <2>1, <3>2, <3>3 DEF In
      <4>2. e <= f
        BY <3>1, <4>1 DEF Foremost, Oldest
      <4> QED
        BY <1>0, <3>2, <4>1, <4>2 DEF In
    <3> QED
      BY <3>2, <3>3
  <2>3. /\ \A i \in DOMAIN run : run[i] <= next /\ run[i] \notin left
        /\ \A i \in DOMAIN run : \A f \in left \ Receipts :
             RoomOf[run[i]] = RoomOf[f] => run[i] < f
    BY <1>2, <2>1 DEF RunBehind
  <2>4. CASE run' = run
    BY <1>2, <2>1, <2>3, <2>4 DEF RunBehind, RoomOrder
  <2>5. CASE run' = Append(run, e)
    <3>1. /\ DOMAIN run' = DOMAIN run \cup {Len(run) + 1}
          /\ run'[Len(run) + 1] = e
          /\ \A i \in DOMAIN run : run'[i] = run[i]
      BY <1>0, <2>5, RunGrows
    <3>2. RunBehind'
      <4> SUFFICES ASSUME NEW i \in DOMAIN run'
                   PROVE  /\ run'[i] <= next /\ run'[i] \notin left'
                          /\ \A f \in left' \ Receipts :
                               RoomOf[run'[i]] = RoomOf[f] => run'[i] < f
        BY <2>1 DEF RunBehind
      <4>1. CASE i \in DOMAIN run
        BY <2>1, <2>3, <3>1, <4>1
      <4>2. CASE i = Len(run) + 1
        BY <2>1, <2>2, <3>1, <4>2
      <4> QED
        BY <3>1, <4>1, <4>2
    <3>3. RoomOrder'
      <4> SUFFICES ASSUME NEW i \in DOMAIN run', NEW j \in DOMAIN run',
                          i < j
                   PROVE  /\ run'[i] # run'[j]
                          /\ /\ RoomOf[run'[i]] = RoomOf[run'[j]]
                             /\ run'[j] \notin Receipts
                             => run'[i] < run'[j]
        BY DEF RoomOrder
      <4>1. i \in DOMAIN run
        BY <1>1, <3>1
      <4>2. CASE j \in DOMAIN run
        BY <1>2, <3>1, <4>1, <4>2 DEF RoomOrder
      <4>3. CASE j = Len(run) + 1
        BY <2>2, <2>3, <3>1, <4>1, <4>3
      <4> QED
        BY <3>1, <4>2, <4>3
    <3> QED
      BY <3>2, <3>3
  <2> QED
    BY <1>4, <2>4, <2>5, DispatchRun DEF IInv
<1>5. CASE GetNextBatch
  <2>1. DOMAIN run = {}
    BY <1>2, <1>5 DEF GetNextBatch, RunBehind
  <2> QED
    BY <1>5, <2>1 DEF GetNextBatch, RunBehind, RoomOrder
<1>6. CASE FinishBatch \/ SetNextBatch \/ Return
  <2>1. RoomOrder'
    BY <1>2, <1>6 DEF FinishBatch, SetNextBatch, Return, RoomOrder
  <2> QED
    BY <1>2, <1>6, <2>1 DEF FinishBatch, SetNextBatch, Return, RunBehind
<1>7. CASE MarkSeen \/ Stop \/ (\E r \in Rooms : EnterRoom(r)) \/ (\E e \in Events : Arrives(e))
  <2>1. UNCHANGED <<run, loop, since, next, left>>
    BY <1>7 DEF MarkSeen, Stop, EnterRoom, Arrives
  <2> QED
    BY <1>2, <2>1 DEF RunBehind, RoomOrder
<1>8. CASE Exit \/ Start
  <2>1. run' = <<>>
    BY <1>2, <1>8 DEF Exit, Start, Phases
  <2>2. DOMAIN run' = {}
    BY <2>1
  <2> QED
    BY <2>2 DEF RunBehind, RoomOrder
<1> QED
  BY <1>3, <1>4, <1>5, <1>6, <1>7, <1>8 DEF Next, Loop

(***************************************************************************)
(* The inductive invariant and what follows from it.                       *)
(***************************************************************************)

LEMMA NextIInv == IInv /\ [Next]_vars => IInv'
<1> SUFFICES ASSUME IInv, [Next]_vars PROVE IInv'
  OBVIOUS
<1>1. CASE Next
  <2>1. TypeOK' /\ Phases'
    BY <1>1, NextTypeOK, NextPhases DEF IInv
  <2> QED
    BY <1>1, <2>1, NextTokenHonest, NextCacheHonest, NextRunOrder DEF IInv
<1>2. CASE UNCHANGED vars
  <2>1. TypeOK' /\ Phases'
    BY <1>2 DEF IInv, vars, TypeOK, Phases
  <2>2. TokenHonest'
    BY <1>2 DEF IInv, vars, TokenHonest, Accounted, Dispatched
  <2>3. CacheHonest' /\ DuplicatesExplained'
    BY <1>2 DEF IInv, vars, CacheHonest, DuplicatesExplained
  <2>4. RunBehind' /\ RoomOrder'
    BY <1>2 DEF IInv, vars, RunBehind, RoomOrder
  <2> QED
    BY <2>1, <2>2, <2>3, <2>4 DEF IInv
<1> QED
  BY <1>1, <1>2

\* All parts of the invariant hold in every reachable state of the loop.
THEOREM SyncInvariant == Spec => []IInv
<1> QED
  BY InitIInv, NextIInv, PTL DEF Spec

\* The types of the loop's state, and that a response in hand holds only what
\* comes after the token (sync/loop.go).
THEOREM SyncTypeCorrect == Spec => []TypeOK
<1>1. IInv => TypeOK
  BY DEF IInv
<1> QED
  BY <1>1, SyncInvariant, PTL

\* The replay guarantee: no crash, cancellation or database error lets a stored
\* token pass an event that was not published (SetNextBatch comes last).
THEOREM NoneLostCorrect == Spec => []NoneLost
<1>1. IInv => NoneLost
  <2> SUFFICES ASSUME IInv, NEW e \in Wanted,
                      e <= stored \/ (loop \in {"saving", "polling"} /\ e <= since)
               PROVE  Dispatched(e) \/ e \in skipped
    BY DEF NoneLost
  <2>1. e \in Events /\ e \in Nat /\ e >= 1 /\ stored \in Nat /\ since \in Nat
    BY EventsAssumption DEF IInv, TypeOK, Wanted, Events
  <2>2. e \in 1 .. stored \/ (loop \in {"saving", "polling"} /\ e \in 1 .. since)
    BY <2>1
  <2>3. Accounted(e)
    BY <2>2 DEF IInv, TokenHonest
  <2> QED
    BY <2>3 DEF Accounted
<1> QED
  BY <1>1, SyncInvariant, PTL

\* Every duplicate has a reason: a mark that was lost or a lookup that failed
\* (dispatchMessage and markSeen).
THEOREM DuplicatesExplainedCorrect == Spec => []DuplicatesExplained
<1>1. IInv => DuplicatesExplained
  BY DEF IInv
<1> QED
  BY <1>1, SyncInvariant, PTL

\* A process publishes no event twice, and an event of a time line only after
\* older ones of its room (sync/loop.go: receipts come last).
THEOREM RoomOrderCorrect == Spec => []RoomOrder
<1>1. IInv => RoomOrder
  BY DEF IInv
<1> QED
  BY <1>1, SyncInvariant, PTL

(***************************************************************************)
(* The loop implements Feed.  The one thing IInv does not say is that a    *)
(* token in hand is not older than the stored one.                         *)
(***************************************************************************)

TokenForward ==
  /\ loop = "dispatching" => stored <= next
  /\ loop = "saving" => stored <= since

LEMMA NextTokenForward == IInv /\ TokenForward /\ [Next]_vars => TokenForward'
<1> SUFFICES ASSUME IInv, TokenForward, [Next]_vars PROVE TokenForward'
  OBVIOUS
<1> USE DEF TokenForward
<1>1. CASE Sync
  BY <1>1 DEF Sync, Respond, IInv, TypeOK
<1>2. CASE FinishBatch
  BY <1>2 DEF FinishBatch
<1>3. CASE GetNextBatch \/ SetNextBatch \/ Return \/ Exit \/ Start
  BY <1>3 DEF GetNextBatch, SetNextBatch, Return, Exit, Start
<1>4. CASE (\E r \in Rooms : EnterRoom(r)) \/ MarkSeen \/ (\E e \in Events : Arrives(e)) \/ Stop
  BY <1>4 DEF EnterRoom, MarkSeen, Arrives, Stop
<1>5. CASE \E e \in Events : DispatchEvent(e)
  BY <1>5 DEF DispatchEvent
<1>6. CASE UNCHANGED vars
  BY <1>6 DEF vars
<1> QED
  BY <1>1, <1>2, <1>3, <1>4, <1>5, <1>6 DEF Next, Loop

Handed  == {e \in Events : published[e] > 0}
GivenUp == skipped \cup {e \in Events : failures[e] > 0}

LEMMA InitFeed == Init => Stream!FeedInit
  BY DEF Init, Never, Stream!FeedInit

\* what is published is handed out, in the order of its room or late
LEMMA PublishHandsOut ==
  ASSUME IInv, NEW e \in left, loop = "dispatching", Publish(e),
         UNCHANGED <<stored, skipped, failures>>
  PROVE  Stream!HandOut(e)
<1>1. e \in Events /\ published \in [Events -> Nat] /\ run \in Seq(Events)
  BY DEF IInv, TypeOK
<1>2. Stream!Follows(e)
  BY <1>1 DEF Stream!Follows, IInv, RunBehind
<1>3. {f \in Events : published'[f] > 0} = Handed \cup {e}
  BY <1>1 DEF Publish, Handed
<1> QED
  BY <1>2, <1>3 DEF Stream!HandOut, Publish, Handed

LEMMA DispatchFeeds ==
  ASSUME IInv, NEW e \in Events, DispatchEvent(e)
  PROVE  Stream!FeedNext \/ UNCHANGED <<stored, published, skipped, failures, run>>
<1>1. e \in left /\ loop = "dispatching" /\ UNCHANGED <<stored, skipped>>
  BY DEF DispatchEvent, Foremost, Oldest, In, IInv, Phases
<1>2. CASE Publish(e) /\ UNCHANGED failures
  BY <1>1, <1>2, PublishHandsOut DEF Stream!FeedNext, Events
<1>3. CASE DecryptFails(e)
  <2>1. {f \in Events : failures'[f] > 0} = {f \in Events : failures[f] > 0} \cup {e}
    BY <1>3 DEF DecryptFails, IInv, TypeOK
  <2>2. Stream!GiveUp({e})
    BY <1>1, <1>3, <2>1 DEF Stream!GiveUp, DecryptFails
  <2> QED
    BY <2>2 DEF Stream!FeedNext, Events
<1>4. CASE UNCHANGED <<published, run, failures>>
  BY <1>1, <1>4
<1> QED
  BY <1>2, <1>3, <1>4 DEF DispatchEvent, DispatchMessage

LEMMA StoreMoves ==
  ASSUME IInv, TokenForward, SetNextBatch
  PROVE  Stream!MoveTo(since) \/ UNCHANGED <<stored, published, skipped, failures, run>>
<1>1. since \in Nat /\ Events \subseteq Nat \ {0}
  BY EventsAssumption DEF IInv, TypeOK, Events
<1>2. ASSUME NEW e \in Wanted, e <= since PROVE e \in Handed \cup GivenUp
  <2>1. e \in Events /\ e \in 1 .. since
    BY <1>1, <1>2 DEF Wanted, Events
  <2>2. Accounted(e)
    BY <2>1 DEF SetNextBatch, IInv, TokenHonest
  <2> QED
    BY <2>1, <2>2 DEF Accounted, Dispatched, Handed, GivenUp
<1>3. CASE stored' = since
  BY <1>2, <1>3 DEF SetNextBatch, TokenForward, Stream!MoveTo, Stream!Settled, Handed, GivenUp
<1> QED
  BY <1>3 DEF SetNextBatch

LEMMA NextFeed == IInv /\ TokenForward /\ [Next]_vars => [Stream!FeedNext]_(Stream!feed)
<1> SUFFICES ASSUME IInv, TokenForward, [Next]_vars
             PROVE  Stream!FeedNext \/ UNCHANGED Stream!feed
  OBVIOUS
<1>0. UNCHANGED <<stored, published, skipped, failures, run>> => UNCHANGED Stream!feed
  BY DEF Stream!feed
<1>1. CASE Sync
  <2> DEFINE out == skipped' \ skipped
  <2>1. out \subseteq 1 .. Count
    BY NextIInv DEF IInv, TypeOK, Events
  <2>2. skipped' = skipped \cup out
    BY <1>1 DEF Sync, Respond
  <2> HIDE DEF out
  <2>3. PICK items \in SUBSET (1 .. Count) : items = out
    BY <2>1
  <2>4. Stream!GiveUp(items)
    <3>1. UNCHANGED <<stored, published, failures, run>>
      BY <1>1 DEF Sync
    <3>2. /\ {e \in Events : published'[e] > 0} = Handed
          /\ {e \in Events : failures'[e] > 0} = {e \in Events : failures[e] > 0}
      BY <3>1 DEF Handed
    <3>3. skipped' \cup {e \in Events : failures'[e] > 0}
            = (skipped \cup {e \in Events : failures[e] > 0}) \cup out
      BY <2>2, <3>2
    <3> QED
      BY <2>3, <3>1, <3>2, <3>3 DEF Stream!GiveUp, Handed
  <2> QED
    BY <2>4 DEF Stream!FeedNext
<1>2. CASE SetNextBatch
  <2>1. since \in 0 .. Count
    BY EventsAssumption DEF IInv, TypeOK
  <2> QED
    BY <1>0, <1>2, <2>1, StoreMoves DEF Stream!FeedNext
<1>3. CASE \E e \in Events : DispatchEvent(e)
  BY <1>0, <1>3, DispatchFeeds
<1>4. CASE Exit
  BY <1>4 DEF Exit, Stream!FeedNext, Stream!NewSession
<1>5. CASE GetNextBatch \/ FinishBatch \/ Return \/ (\E r \in Rooms : EnterRoom(r)) \/ MarkSeen
  BY <1>0, <1>5 DEF GetNextBatch, FinishBatch, Return, EnterRoom, MarkSeen
<1>6. CASE (\E e \in Events : Arrives(e)) \/ Stop \/ Start \/ UNCHANGED vars
  BY <1>0, <1>6 DEF Arrives, Stop, Start, vars
<1> QED
  BY <1>1, <1>2, <1>3, <1>4, <1>5, <1>6 DEF Next, Loop

\* Whatever the loop, the process and the database do, listeners see the abstract
\* feed: items at least once, rooms in order but for receipts, a stored token that only goes forward.
THEOREM ImplementsFeedCorrect == Spec => ImplementsFeed
<1>1. Init => TokenForward
  BY DEF Init, TokenForward
<1> QED
  BY <1>1, NextTokenForward, NextFeed, InitFeed, SyncInvariant, PTL
     DEF Spec, ImplementsFeed, Stream!FeedSpec
=============================================================================
