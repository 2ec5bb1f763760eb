------------------------------ MODULE Gateway ------------------------------
(***************************************************************************)
(* The way into the relay: the key table, which the operators change over  *)
(* the admin socket while requests are looked up in it, the token bucket   *)
(* of each key, the checks of a handler, and what the request does then:   *)
(* submit a message, register a receive, or send a message and register an *)
(* ask.  A key is a row of the table; its plaintext is its number.         *)
(***************************************************************************)
EXTENDS Filter

CONSTANTS
  Operators,   \* connections to the admin socket
  Clients,     \* connections to the API, one request at a time each
  Calls,       \* the requests: [route, account, rooms, filter]
  NoCall,
  Permissions, \* [routes, accounts, rooms, rps], {} and 0 when not given
  Users,
  Bot,         \* Bot[a]: the user of account a
  DefaultRPS,
  Inbound,     \* events
  MaxKeys      \* bound: rows of the key table

Routes == {"send", "receive", "ask"}
Keys   == 1 .. MaxKeys
NoKey  == 0

ASSUME CallsAssumption ==
  /\ NoCall \notin Calls
  /\ \A c \in Calls : c.route \in Routes
  /\ \A p \in Permissions : p.rps \in Nat
SenderSets == [include : SUBSET Users, exclude : SUBSET Users]

ASSUME FiltersAssumption ==
  /\ Unset \notin SenderSets
  /\ \A c \in Calls :
       /\ Bot[c.account] \in Users
       /\ WellFormed(c.filter) /\ Unset \notin DOMAIN c.filter
       /\ c.filter[1].senderID \in SenderSets \cup {Unset}
ASSUME InboundAssumption == \A e \in Inbound : e.type \in DOMAIN Compared
ASSUME LimitsAssumption ==
  DefaultRPS \in Nat \ {0} /\ MaxKeys \in Nat

VARIABLES
  keys,       \* the table: sequence of [permissions, revoked, replaces]
  step,       \* step[o]: "idle", or where the rotation of o is
  target,     \* target[o]: the key it rotates
  refused,    \* keys whose revocation or rotation was answered with success
  ended,      \* keys that a DELETE revoked, or whose rotation broke off between its writes
  pc,         \* pc[c]: "none", "arrived", "authenticated", "allowed", "sent" or an answer
  key,        \* key[c]: the key in the header
  call,       \* call[c]: the request
  late,       \* late[c]: its key had been refused when it came
  effects,    \* effects[c]: what it did: "created", "sent", "queued", "registered"
  handle,     \* handle[c]: the filter it registered
  bucket,     \* the limiters by key, as far as they exist
  load        \* load[k]: requests of k let through, less what its rate allowed since

table   == <<keys, refused, ended>>
admin   == <<step, target>>
request == <<pc, key, call, late, effects, handle>>
limits  == <<bucket, load>>
vars    == <<table, admin, request, limits>>

NoFilter == [i \in {} |-> i]

Init ==
  /\ keys = <<>> /\ refused = {} /\ ended = {}
  /\ step = [o \in Operators |-> "idle"] /\ target = [o \in Operators |-> NoKey]
  /\ pc = [c \in Clients |-> "none"] /\ key = [c \in Clients |-> NoKey]
  /\ call = [c \in Clients |-> NoCall] /\ late = [c \in Clients |-> FALSE]
  /\ effects = [c \in Clients |-> {}] /\ handle = [c \in Clients |-> NoFilter]
  /\ bucket = [k \in {} |-> 0] /\ load = [k \in Keys |-> 0]

-----------------------------------------------------------------------------
(* The admin socket.  Every statement may fail, by itself or because its   *)
(* operator hung up.                                                       *)

Row(p, k) == [permissions |-> p, revoked |-> FALSE, replaces |-> k]

\* POST /keys (a failed INSERT changes nothing)
Create(o, p) ==
  /\ step[o] = "idle"
  /\ Len(keys) < MaxKeys
  /\ keys' = Append(keys, Row(p, NoKey))
  /\ UNCHANGED <<refused, ended, admin, request, limits>>

\* DELETE /keys/{id}
Revoke(o, k) ==
  /\ step[o] = "idle"
  /\ k \in DOMAIN keys
  /\ keys' = [keys EXCEPT ![k].revoked = TRUE]
  /\ refused' = refused \cup {k} /\ ended' = ended \cup {k}
  /\ UNCHANGED <<admin, request, limits>>

\* POST /keys/{id}/rotate: GetByID, (an unknown key or a failure ends it)
RotateLookUp(o, k) ==
  /\ step[o] = "idle"
  /\ k \in DOMAIN keys
  /\ step' = [step EXCEPT ![o] = "found"]
  /\ target' = [target EXCEPT ![o] = k]
  /\ UNCHANGED <<table, request, limits>>

\* SetRevoked,
RotateRevoke(o) ==
  /\ step[o] = "found"
  /\ \/ /\ keys' = [keys EXCEPT ![target[o]].revoked = TRUE]
        /\ step' = [step EXCEPT ![o] = "revoked"]
        /\ UNCHANGED target
     \/ /\ step' = [step EXCEPT ![o] = "idle"]
        /\ target' = [target EXCEPT ![o] = NoKey]
        /\ UNCHANGED keys
  /\ UNCHANGED <<refused, ended, request, limits>>

RotateEnds(o) ==
  /\ step' = [step EXCEPT ![o] = "idle"]
  /\ target' = [target EXCEPT ![o] = NoKey]
  /\ UNCHANGED <<request, limits>>

\* mutant: the replacement is announced whether it was stored or not
RotateInsertUnchecked(o) ==
  /\ step[o] = "revoked"
  /\ \/ /\ Len(keys) < MaxKeys
        /\ keys' = Append(keys, Row(keys[target[o]].permissions, target[o]))
     \/ UNCHANGED keys
  /\ refused' = refused \cup {target[o]}
  /\ UNCHANGED ended
  /\ RotateEnds(o)

\* Insert of the replacement.
RotateInsert(o) ==
  /\ step[o] = "revoked"
  /\ \/ /\ Len(keys) < MaxKeys
        /\ keys' = Append(keys, Row(keys[target[o]].permissions, target[o]))
        /\ refused' = refused \cup {target[o]}
        /\ UNCHANGED ended
     \/ /\ ended' = ended \cup {target[o]}
        /\ UNCHANGED <<keys, refused>>
  /\ RotateEnds(o)

-----------------------------------------------------------------------------
(* A request.                                                              *)

Answers == {"202", "400", "401", "403", "429", "500"}

Arrive(c, k, q) ==
  /\ pc[c] = "none"
  /\ k \in DOMAIN keys
  /\ pc' = [pc EXCEPT ![c] = "arrived"]
  /\ key' = [key EXCEPT ![c] = k]
  /\ call' = [call EXCEPT ![c] = q]
  /\ late' = [late EXCEPT ![c] = k \in refused]
  /\ UNCHANGED <<table, admin, effects, handle, limits>>

Goes(c, to) == pc' = [pc EXCEPT ![c] = to]

\* mutant: any row of the table is good
AuthenticateAnyRow(c) ==
  /\ pc[c] = "arrived"
  /\ Goes(c, "authenticated") \/ Goes(c, "500")
  /\ UNCHANGED <<table, admin, key, call, late, effects, handle, limits>>

\* APIKeyMiddleware
Authenticate(c) ==
  /\ pc[c] = "arrived"
  /\ \/ Goes(c, IF keys[key[c]].revoked THEN "401" ELSE "authenticated")
     \/ Goes(c, "500")
  /\ UNCHANGED <<table, admin, key, call, late, effects, handle, limits>>

PermissionsOf(c) == keys[key[c]].permissions

\* mutant: a rate of 0 is not replaced by the default before it is compared
ConfiguredRate(k) == keys[k].permissions.rps

Rate(k) ==
  IF keys[k].permissions.rps <= 0 THEN DefaultRPS ELSE keys[k].permissions.rps

Burst(k) == 2 * Rate(k)

\* mutant: the limiter is replaced when the configured rate is not the one it
\* was made with, which is the default
LimiterByConfig(k) ==
  IF k \in DOMAIN bucket /\ ConfiguredRate(k) = Rate(k) THEN bucket[k] ELSE Burst(k)

\* rateLimiter.allow takes the limiter of the key or makes a full one; the rate of
\* a row never changes, and so no limiter is ever replaced
Limiter(k) == IF k \in DOMAIN bucket THEN bucket[k] ELSE Burst(k)

Stored(k, tokens) ==
  bucket' = [l \in DOMAIN bucket \cup {k} |-> IF l = k THEN tokens ELSE bucket[l]]

Allow(c) == LET k == key[c] IN
  /\ pc[c] = "authenticated"
  /\ \/ /\ Limiter(k) > 0
        /\ Stored(k, Limiter(k) - 1)
        /\ load' = [load EXCEPT ![k] = @ + 1]
        /\ Goes(c, "allowed")
     \/ /\ Limiter(k) = 0
        /\ Stored(k, 0)
        /\ UNCHANGED load
        /\ Goes(c, "429")
  /\ UNCHANGED <<table, admin, key, call, late, effects, handle>>

Among(v, list) == list = {} \/ v \in list

\* RequireRoute, CheckAccount, and CheckRoom for each room the root includes
Allowed(p, q) ==
  /\ Among(q.route, p.routes)
  /\ Among(q.account, p.accounts)
  /\ q.route # "send" => \A r \in q.rooms : Among(r, p.rooms)

\* The handlers.
Forbid(c) ==
  /\ ~Allowed(PermissionsOf(c), call[c])
  /\ Goes(c, "403")
  /\ UNCHANGED <<effects, handle>>

\* Submit and SendDirect resolve the destination first, which may create a direct
\* room and write it to m.direct, and are told of that when they fail as well
Resolved == SUBSET {"created"}

\* Submit: a message that was accepted before is not queued again; a failed
\* resolution and a failed INSERT are the same 400 as a request that is invalid
Send(c) ==
  /\ call[c].route = "send"
  /\ \E done \in Resolved :
       \/ Goes(c, "400") /\ effects' = [effects EXCEPT ![c] = done]
       \/ /\ Goes(c, "202")
          /\ \E job \in SUBSET {"queued"} : effects' = [effects EXCEPT ![c] = done \cup job]
  /\ UNCHANGED handle

\* RegisterReceive and RegisterAsk: the filter is validated, the row inserted
Registers(c, filter, failure, success) ==
  \/ Goes(c, failure) /\ UNCHANGED <<effects, handle>>
  \/ /\ Valid(filter)
     /\ Goes(c, success)
     /\ effects' = [effects EXCEPT ![c] = @ \cup {"registered"}]
     /\ handle' = [handle EXCEPT ![c] = filter]

Receive(c) ==
  /\ call[c].route = "receive"
  /\ Registers(c, Requested(call[c].filter), "400", "waiting")

\* SendDirect: a send that failed may have reached the homeserver
AskSends(c) ==
  /\ call[c].route = "ask"
  /\ \E done \in Resolved :
       \/ Goes(c, "400") /\ effects' = [effects EXCEPT ![c] = done]
       \/ /\ Goes(c, "sent") \/ Goes(c, "400")
          /\ effects' = [effects EXCEPT ![c] = done \cup {"sent"}]
  /\ UNCHANGED handle

\* mutant: the message of an ask is sent before the room is looked at
HandleAskFirst(c) ==
  /\ pc[c] = "allowed"
  /\ \/ Allowed(PermissionsOf(c), call[c]) /\ (Send(c) \/ Receive(c) \/ AskSends(c))
     \/ /\ ~Allowed(PermissionsOf(c), call[c])
        /\ Goes(c, "403")
        /\ effects' = [effects EXCEPT ![c] = IF call[c].route = "ask" THEN {"sent"} ELSE {}]
        /\ UNCHANGED handle
  /\ UNCHANGED <<table, admin, key, call, late, limits>>

Handle(c) ==
  /\ pc[c] = "allowed"
  /\ \/ Forbid(c)
     \/ Allowed(PermissionsOf(c), call[c]) /\ (Send(c) \/ Receive(c) \/ AskSends(c))
  /\ UNCHANGED <<table, admin, key, call, late, limits>>

AskRegisters(c) ==
  /\ pc[c] = "sent"
  /\ Registers(c, WithoutEcho(Requested(call[c].filter), Bot[call[c].account]), "500", "waiting")
  /\ UNCHANGED <<table, admin, key, call, late, limits>>

\* the client has its answer: Wait returned, with events or a timeout, or the
\* request was over before; or it left
Finish(c) ==
  /\ pc[c] \in Answers \cup {"waiting"}
  /\ Goes(c, "none")
  /\ key' = [key EXCEPT ![c] = NoKey] /\ call' = [call EXCEPT ![c] = NoCall]
  /\ late' = [late EXCEPT ![c] = FALSE]
  /\ effects' = [effects EXCEPT ![c] = {}] /\ handle' = [handle EXCEPT ![c] = NoFilter]
  /\ UNCHANGED <<table, admin, limits>>

-----------------------------------------------------------------------------
(* Time and the process.                                                   *)

Second ==
  /\ bucket' = [k \in DOMAIN bucket |->
                  IF bucket[k] + Rate(k) < Burst(k) THEN bucket[k] + Rate(k) ELSE Burst(k)]
  /\ load' = [k \in Keys |->
                IF k \in DOMAIN keys /\ load[k] > Rate(k) THEN load[k] - Rate(k) ELSE 0]
  /\ UNCHANGED <<table, admin, request>>

\* the process dies and starts again: the limiters, the requests and the
\* rotations of the last one are gone
Restart ==
  /\ ended' = ended \cup {target[o] : o \in {x \in Operators : step[x] = "revoked"}}
  /\ step' = [o \in Operators |-> "idle"] /\ target' = [o \in Operators |-> NoKey]
  /\ pc' = [c \in Clients |-> "none"] /\ key' = [c \in Clients |-> NoKey]
  /\ call' = [c \in Clients |-> NoCall] /\ late' = [c \in Clients |-> FALSE]
  /\ effects' = [c \in Clients |-> {}] /\ handle' = [c \in Clients |-> NoFilter]
  /\ bucket' = [k \in {} |-> 0] /\ load' = [k \in Keys |-> 0]
  /\ UNCHANGED <<keys, refused>>

Next ==
  \/ \E o \in Operators :
       \/ \E p \in Permissions : Create(o, p)
       \/ \E k \in Keys : Revoke(o, k) \/ RotateLookUp(o, k)
       \/ RotateRevoke(o) \/ RotateInsert(o)
  \/ \E c \in Clients :
       \/ \E k \in Keys, q \in Calls : Arrive(c, k, q)
       \/ Authenticate(c) \/ Allow(c) \/ Handle(c) \/ AskRegisters(c) \/ Finish(c)
  \/ Second \/ Restart

Spec == Init /\ [][Next]_vars

-----------------------------------------------------------------------------
(* Properties.                                                             *)

Places == Answers \cup {"none", "arrived", "authenticated", "allowed", "sent", "waiting"}

KeyRows == [permissions : Permissions, revoked : BOOLEAN, replaces : 0 .. MaxKeys]

TableType ==
  /\ keys \in Seq(KeyRows) /\ Len(keys) <= MaxKeys
  /\ refused \cup ended \subseteq DOMAIN keys
  /\ step \in [Operators -> {"idle", "found", "revoked"}]
  /\ target \in [Operators -> 0 .. MaxKeys]
  /\ \A o \in Operators : IF step[o] = "idle" THEN target[o] = NoKey ELSE target[o] \in DOMAIN keys

RequestType ==
  /\ pc \in [Clients -> Places] /\ late \in [Clients -> BOOLEAN]
  /\ key \in [Clients -> 0 .. MaxKeys] /\ call \in [Clients -> Calls \cup {NoCall}]
  /\ \A c \in Clients : pc[c] = "none" \/ (key[c] \in DOMAIN keys /\ call[c] \in Calls)
  /\ effects \in [Clients -> SUBSET {"created", "sent", "queued", "registered"}]
  /\ handle = [c \in Clients |-> handle[c]]

LimitsType ==
  /\ DOMAIN bucket \subseteq DOMAIN keys
  /\ \A k \in DOMAIN bucket : bucket[k] \in 0 .. Burst(k)
  /\ load \in [Keys -> Nat]

\* Every variable keeps its type: operators and requests hold keys of the table,
\* and no limiter holds more than its burst or less than nothing.
TypeOK == TableType /\ RequestType /\ LimitsType

\* Once a revocation or a rotation has been answered, no request that comes
\* with the key gets past the lookup, whatever is under way.
RevokedRefused ==
  \A c \in Clients : late[c] => pc[c] \in {"arrived", "401", "500"} /\ effects[c] = {}

\* No key is lost without a trace: one that does not work any more was deleted by
\* an operator, has a replacement, is just being rotated, or its rotation broke off
\* between its two writes.
KeysAccounted ==
  \A k \in DOMAIN keys : keys[k].revoked =>
    \/ k \in ended
    \/ \E l \in DOMAIN keys : keys[l].replaces = k
    \/ \E o \in Operators : step[o] = "revoked" /\ target[o] = k

\* Over any span of time of a process, a key gets no more requests through than a
\* burst and what its rate allows in that span.
RateBounded == \A k \in DOMAIN keys : load[k] <= Burst(k)

\* what a request that is let through and then fails may leave behind
LeftBehind == [send |-> {"created"}, receive |-> {}, ask |-> {"created", "sent"}]

\* A request that was refused for its key, its rate or its permissions has done
\* nothing.  One that is told 400 or 500 has left no job in the queue and no handle
\* in the map: a send at most the room for its message, a receive nothing, and an
\* ask its room and its message.
RefusedUntouched ==
  \A c \in Clients :
    /\ pc[c] \in {"401", "403", "429"} => effects[c] = {}
    /\ pc[c] \in {"400", "500"} => effects[c] \subseteq LeftBehind[call[c].route]

Registered == {c \in Clients : "registered" \in effects[c]}

\* A handle gets exactly the events that the user's guide says its filter selects,
\* of the account that was asked for.
DeliveredAsDocumented ==
  \A c \in Registered, e \in Inbound :
    Matches(handle[c], call[c].account, e) <=>
      /\ e.account = call[c].account
      /\ Selected(call[c].filter, e)
      /\ call[c].route = "ask" => e.sender # Bot[e.account]

\* An ask is never answered by an event of the account itself, whatever its
\* filter says.
EchoNeverAnswers ==
  \A c \in Registered, e \in Inbound :
    call[c].route = "ask" /\ Matches(handle[c], call[c].account, e)
      => e.sender # Bot[call[c].account]

-----------------------------------------------------------------------------
(* The inductive invariant (proved in GatewayProofs).                      *)

\* what was answered is in the table, and a rotation under way has revoked its key
AnsweredIsStored ==
  /\ \A k \in refused : keys[k].revoked
  /\ \A o \in Operators : step[o] = "revoked" => keys[target[o]].revoked

\* what a key has used and what it still has is at most its burst
Balanced ==
  \A k \in Keys :
    IF k \in DOMAIN keys THEN load[k] + Limiter(k) <= Burst(k) ELSE load[k] = 0

\* what a request has done at each place
Progress ==
  \A c \in Clients :
    /\ late[c] => key[c] \in refused
    /\ pc[c] \in {"none", "arrived", "authenticated", "allowed"} => effects[c] = {}
    /\ pc[c] = "sent" => call[c].route = "ask" /\ effects[c] \subseteq LeftBehind["ask"]
    /\ "registered" \in effects[c] => pc[c] = "waiting"
    /\ pc[c] = "waiting" => handle[c] =
         IF call[c].route = "ask"
         THEN WithoutEcho(Requested(call[c].filter), Bot[call[c].account])
         ELSE Requested(call[c].filter)

IInv ==
  /\ TypeOK /\ RevokedRefused /\ KeysAccounted /\ RefusedUntouched
  /\ AnsweredIsStored /\ Balanced /\ Progress
=============================================================================
