------------------------------ MODULE SyncLoop ------------------------------
(***************************************************************************)
(* SyncManager of one account: it polls the homeserver's /sync with a      *)
(* token, publishes the events of each response on the bus, remembers      *)
(* every published event in event_cache, and stores the next token only    *)
(* when a response is done.  Stop and shutdown only cancel the context:    *)
(* the loop looks at it between rooms, and with a cancelled context every  *)
(* statement fails.                                                        *)
(***************************************************************************)
EXTENDS Integers, Sequences, FiniteSets

CONSTANTS
  Count,      \* events of the account's stream; an event is its position there
  Rooms,
  NoRoom,
  RoomOf,     \* RoomOf[e]: the room of e
  Kind,       \* Kind[e]: see Kinds
  Window,     \* events of a room's time line in one response at most
  MaxBoots,   \* bound: process starts
  MaxFaults   \* bound: database errors over a behaviour

Events  == 1 .. Count
NoEvent == 0

\* "message": whatever is looked up, published and marked (messages, edits,
\* reactions, redactions of others); "membership": the same, and part of the state
\* of the room; "own": sent by the account; "encrypted": one of others' that has to
\* be decrypted; "receipt": without an ID, and not in the time line.
\* (events of other types and edits without content are passed over)
Kinds    == {"message", "membership", "own", "encrypted", "receipt"}
Wanted   == {e \in Events : Kind[e] # "own"}
Receipts == {e \in Events : Kind[e] = "receipt"}
LookedUp == {e \in Events : Kind[e] \in {"message", "membership", "encrypted"}}

ASSUME EventsAssumption ==
  /\ Count \in Nat /\ NoRoom \notin Rooms
  /\ RoomOf \in [Events -> Rooms] /\ Kind \in [Events -> Kinds]
ASSUME BoundsAssumption ==
  Window \in Nat \ {0} /\ MaxBoots \in Nat \ {0} /\ MaxFaults \in Nat

VARIABLES
  arrived,    \* the events the homeserver has; a token is such a number too
  stored,     \* sync_state.next_batch, 0 for none
  cache,      \* event_cache
  loop,       \* "off", "loading", "polling", "dispatching" or "saving"
  since,      \* the token of the next request
  next,       \* the token that came with the response in hand
  left,       \* events of the response not yet dispatched
  room,       \* the room being dispatched, or NoRoom
  unmarked,   \* the event that was published and not yet marked, or NoEvent
  cancelled, up, boots, faults,
  published,  \* how often each event was published
  failures,   \* EncryptionFailure events about each event
  unsafe,     \* how often an event was published unmarked or looked up in vain
  skipped,    \* events a response left out
  run         \* events published since the process started, in order

rows    == <<stored, cache>>
tokens  == <<since, next>>
batch   == <<left, room, unmarked>>
process == <<cancelled, up, boots>>
history == <<published, failures, unsafe, skipped, run>>
vars    == <<arrived, rows, loop, tokens, batch, process, faults, history>>

Never    == [e \in Events |-> 0]

Init ==
  /\ arrived = 0
  /\ stored = 0 /\ cache = {}
  /\ loop = "loading" /\ since = 0 /\ next = 0
  /\ left = {} /\ room = NoRoom /\ unmarked = NoEvent
  /\ cancelled = FALSE /\ up = TRUE /\ boots = 1 /\ faults = 0
  /\ published = Never /\ failures = Never /\ unsafe = Never
  /\ skipped = {} /\ run = <<>>

\* A statement fails when its context is cancelled, or by a database error.
Executes == ~cancelled /\ UNCHANGED faults
Fails    == \/ cancelled /\ UNCHANGED faults
            \/ faults < MaxFaults /\ faults' = faults + 1

-----------------------------------------------------------------------------
(* Polling.                                                                *)

GetNextBatch ==
  /\ loop = "loading"
  /\ loop' = "polling"
  /\ \/ Executes /\ since' = stored
     \/ Fails /\ since' = 0
  /\ UNCHANGED <<arrived, rows, next, batch, process, history>>

In(r, events)  == {e \in events : RoomOf[e] = r}
Newest(events) == {e \in events : Cardinality({f \in events : f > e}) < Window}

\* what a response says of a room: the newest of its time line, as state the
\* memberships from before, and its receipts
Said(events) ==
  Newest(events \ Receipts) \cup {e \in events : Kind[e] \in {"membership", "receipt"}}

\* mutant: one event too far back
NewFrom(token) == token .. arrived

New(token) == token + 1 .. arrived

\* the response to a request with the token since
Respond ==
  /\ loop = "polling"
  /\ ~cancelled
  /\ New(since) # {}
  /\ left' = UNION {Said(In(r, New(since) \cap Events)) : r \in Rooms}
  /\ next' = arrived
  /\ skipped' = skipped \cup (New(since) \ left')

\* mutant: the token is stored before the events are published
SyncEarlyToken ==
  /\ Respond
  /\ loop' = "dispatching"
  /\ stored' = next'
  /\ UNCHANGED <<arrived, cache, since, room, unmarked, process, faults, published,
                 failures, unsafe, run>>

\* (a request that fails is repeated; a response without events changes nothing)
Sync ==
  /\ Respond
  /\ loop' = "dispatching"
  /\ UNCHANGED <<arrived, rows, since, room, unmarked, process, faults, published,
                 failures, unsafe, run>>

\* after processResponse: no token when the context is cancelled
FinishBatch ==
  /\ loop = "dispatching" /\ room = NoRoom /\ unmarked = NoEvent
  /\ IF cancelled
     THEN loop' = "off" /\ UNCHANGED since
     ELSE left = {} /\ loop' = "saving" /\ since' = next
  /\ UNCHANGED <<arrived, rows, next, batch, process, faults, history>>

\* the loop goes on from since, stored or not
SetNextBatch ==
  /\ loop = "saving"
  /\ loop' = "polling"
  /\ \/ Executes /\ stored' = since
     \/ Fails /\ UNCHANGED stored
  /\ UNCHANGED <<arrived, cache, tokens, batch, process, history>>

Return ==
  /\ loop = "polling"
  /\ cancelled
  /\ loop' = "off"
  /\ UNCHANGED <<arrived, rows, tokens, batch, process, faults, history>>

-----------------------------------------------------------------------------
(* Dispatching a response.                                                 *)

\* the rooms come in any order, the context is looked at before each
EnterRoom(r) ==
  /\ loop = "dispatching"
  /\ room = NoRoom /\ unmarked = NoEvent
  /\ ~cancelled
  /\ In(r, left) # {}
  /\ room' = r
  /\ UNCHANGED <<arrived, rows, loop, tokens, left, unmarked, process, faults, history>>

Publish(e) ==
  /\ published' = [published EXCEPT ![e] = @ + 1]
  /\ run' = Append(run, e)

\* mutant: an event whose lookup fails is left out
DispatchKnown(e) ==
  \/ /\ Executes
     /\ IF e \in cache THEN UNCHANGED <<published, run, unmarked>>
                       ELSE Publish(e) /\ unmarked' = e
     /\ UNCHANGED unsafe
  \/ Fails /\ UNCHANGED <<published, run, unmarked, unsafe>>

\* isSeen, and what follows: an event is published when it is not in the cache
\* or the lookup fails
DispatchMessage(e) ==
  \/ /\ Executes
     /\ IF e \in cache THEN UNCHANGED <<published, run, unmarked>>
                       ELSE Publish(e) /\ unmarked' = e
     /\ UNCHANGED unsafe
  \/ /\ Fails
     /\ Publish(e) /\ unmarked' = e
     /\ unsafe' = [unsafe EXCEPT ![e] = @ + 1]

\* the decrypter and the sync manager both publish the failure, to which nobody
\* subscribes; the event is given up, and not marked
DecryptFails(e) ==
  /\ failures' = [failures EXCEPT ![e] = @ + 2]
  /\ UNCHANGED <<published, run, unmarked, unsafe, faults>>

Oldest(events) == {e \in events : \A f \in events : e <= f}

\* mutant: the receipts come before the rest
ReceiptsFirst(events) ==
  IF events \cap Receipts = {} THEN Oldest(events) ELSE events \cap Receipts

\* State comes before the time line, and is older; then come the receipts, in the
\* order in which Go visits a map.
Foremost(events) ==
  IF events \subseteq Receipts THEN events ELSE Oldest(events \ Receipts)

DispatchEvent(e) ==
  /\ room # NoRoom
  /\ unmarked = NoEvent
  /\ e \in Foremost(In(room, left))
  /\ left' = left \ {e}
  /\ room' = IF In(room, left') = {} THEN NoRoom ELSE room
  /\ \/ Kind[e] \in {"message", "membership"} /\ DispatchMessage(e) /\ UNCHANGED failures
     \/ /\ Kind[e] = "encrypted"
        /\ DecryptFails(e) \/ (DispatchMessage(e) /\ UNCHANGED failures)
     \/ Kind[e] = "receipt" /\ Publish(e) /\ UNCHANGED <<failures, unmarked, unsafe, faults>>
     \/ Kind[e] = "own" /\ unmarked' = e
        /\ UNCHANGED <<published, run, failures, unsafe, faults>>
  /\ UNCHANGED <<arrived, rows, loop, tokens, process, skipped>>

\* mutant: nothing is remembered
MarkNothing ==
  /\ unmarked # NoEvent
  /\ unmarked' = NoEvent
  /\ UNCHANGED <<arrived, rows, loop, tokens, left, room, process, faults, history>>

\* markSeen; its error is only logged
MarkSeen ==
  /\ unmarked # NoEvent
  /\ unmarked' = NoEvent
  /\ \/ Executes /\ cache' = cache \cup {unmarked} /\ UNCHANGED unsafe
     \/ Fails /\ unsafe' = [unsafe EXCEPT ![unmarked] = @ + 1] /\ UNCHANGED cache
  /\ UNCHANGED <<arrived, stored, loop, tokens, left, room, process, published, failures,
                 skipped, run>>

-----------------------------------------------------------------------------
(* The homeserver and the process.                                         *)

Arrives(e) ==
  /\ e = arrived + 1
  /\ arrived' = e
  /\ UNCHANGED <<rows, loop, tokens, batch, process, faults, history>>

\* shutdown, or Stop of the account: nobody waits for the loop
Stop ==
  /\ up
  /\ ~cancelled
  /\ cancelled' = TRUE
  /\ UNCHANGED <<arrived, rows, loop, tokens, batch, up, boots, faults, history>>

\* the process ends, after a shutdown or without one
Exit ==
  /\ up
  /\ up' = FALSE /\ cancelled' = FALSE
  /\ loop' = "off" /\ since' = 0 /\ next' = 0
  /\ left' = {} /\ room' = NoRoom /\ unmarked' = NoEvent
  /\ unsafe' = IF unmarked = NoEvent THEN unsafe ELSE [unsafe EXCEPT ![unmarked] = @ + 1]
  /\ run' = <<>>
  /\ UNCHANGED <<arrived, rows, boots, faults, published, failures, skipped>>

Start ==
  /\ ~up
  /\ boots < MaxBoots
  /\ up' = TRUE
  /\ boots' = boots + 1
  /\ loop' = "loading"
  /\ UNCHANGED <<arrived, rows, tokens, batch, cancelled, faults, history>>

Loop ==
  \/ GetNextBatch \/ Sync \/ FinishBatch \/ SetNextBatch \/ Return
  \/ \E r \in Rooms : EnterRoom(r)
  \/ (\E e \in Events : DispatchEvent(e)) \/ MarkSeen

Next == Loop \/ (\E e \in Events : Arrives(e)) \/ Stop \/ Exit \/ Start

Spec == Init /\ [][Next]_vars

\* The loop's goroutine goes on and the homeserver answers it sooner or later;
\* nothing has to happen to the process.
FairSpec == Spec /\ WF_vars(Loop)

-----------------------------------------------------------------------------
(* Properties.                                                             *)

\* Every variable keeps its type; a response holds only what comes after the token.
TypeOK ==
  /\ arrived \in 0 .. Count
  /\ stored \in 0 .. arrived /\ since \in 0 .. arrived /\ next \in 0 .. arrived
  /\ cache \subseteq Events /\ skipped \subseteq Events
  /\ loop \in {"off", "loading", "polling", "dispatching", "saving"}
  /\ left \subseteq (since + 1 .. next) \cap Events
  /\ room \in Rooms \cup {NoRoom} /\ unmarked \in Events \cup {NoEvent}
  /\ cancelled \in BOOLEAN /\ up \in BOOLEAN
  /\ boots \in 1 .. MaxBoots /\ faults \in 0 .. MaxFaults
  /\ published \in [Events -> Nat] /\ failures \in [Events -> Nat] /\ unsafe \in [Events -> Nat]
  /\ run \in Seq(Events)

\* e was published, or it could not be decrypted
Dispatched(e) == published[e] > 0 \/ failures[e] > 0

\* The replay guarantee: what lies before the stored token, and before the one
\* the loop goes on from, has been dispatched, in spite of crashes, cancelled
\* batches and failed statements.  Missing is only what a response left out, and
\* for listeners what could not be decrypted.
NoneLost ==
  \A e \in Wanted :
    e <= stored \/ (loop \in {"saving", "polling"} /\ e <= since)
      => Dispatched(e) \/ e \in skipped

\* An event is published again only for a reason: its mark was lost (a crash, a
\* cancelled context, a failed statement) or the lookup failed.
DuplicatesExplained == \A e \in LookedUp : published[e] <= 1 + unsafe[e]

\* As long as a process runs, whatever fails, no event is published twice, and all
\* of its room that was published before an event of the time line is older: a
\* room keeps its order, except that receipts come late.
RoomOrder ==
  \A i, j \in DOMAIN run : i < j =>
    /\ run[i] # run[j]
    /\ RoomOf[run[i]] = RoomOf[run[j]] /\ run[j] \notin Receipts => run[i] < run[j]

\* Why these hold: what the loop is past is accounted for, what is in the cache
\* or about to be was published, and a room's published events are behind the
\* loop and older than those left, receipts apart.
Accounted(e) == e \in Wanted => Dispatched(e) \/ e \in skipped

TokenHonest ==
  /\ loop \in {"saving", "polling", "dispatching"} => \A e \in 1 .. since : Accounted(e)
  /\ loop = "dispatching" => \A e \in (1 .. next) \ left : Accounted(e)
  /\ \A e \in 1 .. stored : Accounted(e)

CacheHonest ==
  \A e \in LookedUp :
    /\ e \in cache \/ unmarked = e => published[e] > 0
    /\ e \notin cache /\ unmarked # e => published[e] <= unsafe[e]

RunBehind ==
  \A i \in DOMAIN run :
    /\ loop # "loading"
    /\ loop \in {"polling", "saving"} => run[i] <= since
    /\ loop = "dispatching" => run[i] <= next /\ run[i] \notin left
    /\ \A e \in left \ Receipts : RoomOf[run[i]] = RoomOf[e] => run[i] < e

Phases ==
  /\ since <= next \/ loop \in {"off", "polling"}
  /\ loop # "dispatching" => room = NoRoom /\ unmarked = NoEvent
  /\ loop \notin {"dispatching", "off"} => left = {}
  /\ ~up => loop = "off" /\ since = 0 /\ next = 0 /\ left = {} /\ run = <<>>

IInv ==
  /\ TypeOK /\ Phases
  /\ TokenHonest /\ CacheHonest /\ DuplicatesExplained
  /\ RunBehind /\ RoomOrder

\* The loop as those see it who listen on the bus: see Feed.
Stream == INSTANCE Feed WITH
  Late <- Receipts,
  position <- stored,
  handed <- {e \in Events : published[e] > 0},
  givenUp <- skipped \cup {e \in Events : failures[e] > 0},
  session <- run

\* Whatever is cancelled, fails or dies, the loop implements Feed: the stored
\* token, too, is never taken back.
ImplementsFeed == Stream!FeedSpec

\* Nothing is stuck: once the process stays up, what is in the stream comes to be
\* published, unless a response left it out or, for others' encrypted events, it
\* could not be decrypted, which ends it: listeners never see such an event.
EventsDispatched ==
  <>[](up /\ ~cancelled) =>
    \A e \in Wanted :
      e <= arrived ~> \/ published[e] > 0 \/ e \in skipped
                      \/ Kind[e] = "encrypted" /\ failures[e] > 0
=============================================================================
