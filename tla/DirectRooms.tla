---------------------------- MODULE DirectRooms ----------------------------
(***************************************************************************)
(* The rooms that engine.Client takes for direct messages.  A message for  *)
(* "@user" goes to the first room that the account data event m.direct     *)
(* lists for the user; if there is none, one is created and m.direct is    *)
(* read again and written back with the room at the end of the user's list.*)
(* No lock and no precondition of the homeserver holds the two together.   *)
(*                                                                         *)
(* The calls are those of one account, from requests to send and to ask,   *)
(* before or after a restart alike.                                        *)
(***************************************************************************)
EXTENDS Naturals, Sequences

CONSTANTS
  Calls,     \* calls of ResolveRoom with a user as destination
  Users,
  For,       \* For[c] is the user that call c is about
  NoRoom,
  MaxFaults  \* bound: calls to the homeserver that fail

ASSUME CallsAssumption == For \in [Calls -> Users] /\ NoRoom \notin Calls
ASSUME BoundAssumption == MaxFaults \in Nat

VARIABLES
  pc,        \* where each call is
  looked,    \* the version of m.direct that findDMRoom saw
  base,      \* the version that createDMRoom read; 0 if there was none, or none readable
  answer,    \* the room that the call returned
  rooms,     \* rooms created, each named after its call
  history,   \* the versions of m.direct: who wrote it, what it builds on, what it says
  inFlight,  \* calls whose write may still reach the homeserver
  faults

vars == <<pc, looked, base, answer, rooms, history, inFlight, faults>>

\* m.direct, as a list of rooms for each user; version 0 is that of an account
\* without the event
Version(n) == IF n = 0 THEN [u \in Users |-> <<>>] ELSE history[n].value

Latest == Len(history)

Init ==
  /\ pc = [c \in Calls |-> "find"]
  /\ looked = [c \in Calls |-> 0]
  /\ base = [c \in Calls |-> 0]
  /\ answer = [c \in Calls |-> NoRoom]
  /\ rooms = {} /\ history = <<>> /\ inFlight = {}
  /\ faults = 0

Goto(c, place) == pc' = [pc EXCEPT ![c] = place]

Fault == faults < MaxFaults /\ faults' = faults + 1

-----------------------------------------------------------------------------

\* mutant: the newest room
LastRoom(list) == list[Len(list)]

Chosen(list) == list[1]

Find(c) ==
  /\ pc[c] = "find"
  /\ LET list == Version(Latest)[For[c]]
     IN  \/ /\ list # <<>>
            /\ answer' = [answer EXCEPT ![c] = Chosen(list)]
            /\ Goto(c, "done")
         \/ /\ list = <<>>
            /\ Goto(c, "create")
            /\ UNCHANGED answer
  /\ looked' = [looked EXCEPT ![c] = Latest]
  /\ UNCHANGED <<base, rooms, history, inFlight, faults>>

\* the call returns the error
FindFails(c) ==
  /\ pc[c] = "find"
  /\ Fault
  /\ Goto(c, "failed")
  /\ UNCHANGED <<looked, base, answer, rooms, history, inFlight>>

Create(c) ==
  /\ pc[c] = "create"
  /\ rooms' = rooms \cup {c}
  /\ Goto(c, "reread")
  /\ UNCHANGED <<looked, base, answer, history, inFlight, faults>>

\* an answer that got lost leaves a room that nobody knows of
CreateFails(c) ==
  /\ pc[c] = "create"
  /\ Fault
  /\ rooms' \in {rooms, rooms \cup {c}}
  /\ Goto(c, "failed")
  /\ UNCHANGED <<looked, base, answer, history, inFlight>>

Reread(c) ==
  /\ pc[c] = "reread"
  /\ base' = [base EXCEPT ![c] = Latest]
  /\ Goto(c, "write")
  /\ UNCHANGED <<looked, answer, rooms, history, inFlight, faults>>

\* only logged: the write goes on from an empty map
RereadFails(c) ==
  /\ pc[c] = "reread"
  /\ Fault
  /\ Goto(c, "write")
  /\ UNCHANGED <<looked, base, answer, rooms, history, inFlight>>

\* mutant: the user's list is replaced
Replaced(c) == [Version(base[c]) EXCEPT ![For[c]] = <<c>>]

\* mutant: the room is listed for whoever is there already
Misfiled(c) == [u \in Users |-> IF Version(base[c])[u] # <<>> \/ u = For[c]
                                THEN Append(Version(base[c])[u], c)
                                ELSE <<>>]

Updated(c) == [Version(base[c]) EXCEPT ![For[c]] = Append(@, c)]

Put(c) == history' = Append(history, [by |-> c, base |-> base[c], value |-> Updated(c)])

Write(c) ==
  /\ pc[c] = "write"
  /\ Put(c)
  /\ answer' = [answer EXCEPT ![c] = c]
  /\ Goto(c, "done")
  /\ UNCHANGED <<looked, base, rooms, inFlight, faults>>

\* only logged; a request without an answer may be carried out later
WriteFails(c) ==
  /\ pc[c] = "write"
  /\ Fault
  /\ inFlight' \in {inFlight, inFlight \cup {c}}
  /\ answer' = [answer EXCEPT ![c] = c]
  /\ Goto(c, "done")
  /\ UNCHANGED <<looked, base, rooms, history>>

\* the client leaves or the process dies, maybe with a request under way
Abandon(c) ==
  /\ pc[c] \in {"find", "create", "reread", "write"}
  /\ Goto(c, "gone")
  /\ rooms' \in IF pc[c] = "create" THEN {rooms, rooms \cup {c}} ELSE {rooms}
  /\ inFlight' \in IF pc[c] = "write" THEN {inFlight, inFlight \cup {c}} ELSE {inFlight}
  /\ UNCHANGED <<looked, base, answer, history, faults>>

Land(c) ==
  /\ c \in inFlight
  /\ inFlight' = inFlight \ {c}
  /\ Put(c)
  /\ UNCHANGED <<pc, looked, base, answer, rooms, faults>>

Resolve(c) ==
  \/ Find(c) \/ FindFails(c)
  \/ Create(c) \/ CreateFails(c)
  \/ Reread(c) \/ RereadFails(c)
  \/ Write(c) \/ WriteFails(c)

Next == \E c \in Calls : Resolve(c) \/ Abandon(c) \/ Land(c)

Spec == Init /\ [][Next]_vars

-----------------------------------------------------------------------------

MDirect == [Users -> Seq(Calls)]

TypeOK ==
  /\ pc \in [Calls -> {"find", "create", "reread", "write", "done", "failed", "gone"}]
  /\ looked \in [Calls -> 0 .. Latest] /\ base \in [Calls -> 0 .. Latest]
  /\ answer \in [Calls -> Calls \cup {NoRoom}]
  /\ rooms \subseteq Calls /\ inFlight \subseteq Calls
  /\ history \in Seq([by : Calls, base : Nat, value : MDirect])
  /\ faults \in 0 .. MaxFaults

\* Whatever a call returns or m.direct lists exists, and was created for the user
\* it is returned or listed for.
RoomsOfUser ==
  /\ \A c \in Calls : answer[c] # NoRoom =>
       answer[c] \in rooms /\ For[answer[c]] = For[c]
  /\ \A n \in DOMAIN history, u \in Users : \A k \in DOMAIN history[n].value[u] :
       LET r == history[n].value[u][k] IN r \in rooms /\ For[r] = u

\* no write from version i to version j knew less than version i
Unbroken(i, j) == \A k \in DOMAIN history : i < k /\ k <= j => i <= history[k].base

Begins(s, t) == \A k \in DOMAIN s : k \in DOMAIN t /\ t[k] = s[k]

\* A room that was recorded is lost, or loses its place, only to a write that was
\* built on an older version, or on nothing because the read had failed.
LossExplained ==
  \A i, j \in DOMAIN history : i <= j /\ Unbroken(i, j) =>
    \A u \in Users : Begins(history[i].value[u], history[j].value[u])

\* Once a room with a user is recorded, every call for the user that looks later
\* returns the first one and creates none, unless such a write came in between.
FirstRoomStays ==
  \A c \in Calls : \A i \in DOMAIN history :
    LET list == history[i].value[For[c]]
    IN  /\ pc[c] \notin {"find", "failed", "gone"}
        /\ i <= looked[c] /\ Unbroken(i, looked[c])
        /\ list # <<>>
        => pc[c] = "done" /\ answer[c] = list[1]
=============================================================================
