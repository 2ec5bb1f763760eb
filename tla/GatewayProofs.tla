---------------------------- MODULE GatewayProofs ----------------------------
(***************************************************************************)
(* For any number of operators, clients and keys: the table keeps every    *)
(* row, a revoked key stays revoked, and from there IInv is inductive.     *)
(* The steps of the operators, of a request and of time each leave most of *)
(* the other two parts alone, and are treated apart.                       *)
(***************************************************************************)
EXTENDS Gateway, FilterProofs, SequenceTheorems, TLAPS

USE DEF Keys, NoKey

\* The table grows at its end, and of a row nothing changes but that it is revoked.
RowsStay ==
  \A k \in DOMAIN keys :
    /\ k \in DOMAIN keys'
    /\ keys'[k].permissions = keys[k].permissions
    /\ keys'[k].replaces = keys[k].replaces
    /\ keys[k].revoked => keys'[k].revoked

LEMMA Indices ==
  ASSUME TableType
  PROVE  /\ keys \in Seq(KeyRows)
         /\ DOMAIN keys = 1 .. Len(keys)
         /\ DOMAIN keys \subseteq Keys
         /\ \A k \in DOMAIN keys : keys[k] \in KeyRows
<1>1. keys \in Seq(KeyRows) /\ Len(keys) \in Nat /\ Len(keys) <= MaxKeys
  BY DEF TableType, KeyRows
<1> QED
  BY <1>1, LimitsAssumption

\* a key that works has a positive rate and twice that as its burst
LEMMA Rates ==
  ASSUME TableType, NEW k \in DOMAIN keys
  PROVE  Rate(k) \in Nat \ {0} /\ Burst(k) = 2 * Rate(k) /\ Burst(k) \in Nat
<1>1. keys[k].permissions \in Permissions
  BY Indices DEF KeyRows
<1>2. keys[k].permissions.rps \in Nat
  BY <1>1, CallsAssumption
<1> QED
  BY <1>2, LimitsAssumption DEF Rate, Burst

LEMMA RatesStay ==
  ASSUME NEW k \in DOMAIN keys, RowsStay
  PROVE  Rate(k)' = Rate(k) /\ Burst(k)' = Burst(k)
BY DEF RowsStay, Rate, Burst

LEMMA Limiters ==
  ASSUME TypeOK, NEW k \in DOMAIN keys
  PROVE  Limiter(k) \in 0 .. Burst(k)
BY Rates DEF Limiter, TypeOK, LimitsType

LEMMA Appended ==
  ASSUME TableType, NEW row \in KeyRows, Len(keys) < MaxKeys, keys' = Append(keys, row)
  PROVE  /\ keys' \in Seq(KeyRows)
         /\ Len(keys') = Len(keys) + 1 /\ Len(keys') <= MaxKeys
         /\ DOMAIN keys' = DOMAIN keys \cup {Len(keys) + 1}
         /\ Len(keys) + 1 \notin DOMAIN keys
         /\ keys'[Len(keys) + 1] = row
         /\ \A k \in DOMAIN keys : keys'[k] = keys[k]
         /\ RowsStay
<1>1. keys \in Seq(KeyRows) /\ Len(keys) \in Nat /\ DOMAIN keys = 1 .. Len(keys)
  BY Indices
<1>2. /\ Append(keys, row) \in Seq(KeyRows)
      /\ Len(Append(keys, row)) = Len(keys) + 1
      /\ DOMAIN Append(keys, row) = 1 .. (Len(keys) + 1)
      /\ Append(keys, row)[Len(keys) + 1] = row
      /\ \A k \in 1 .. Len(keys) : Append(keys, row)[k] = keys[k]
  BY <1>1
<1>3. \A k \in DOMAIN keys : k \in DOMAIN keys' /\ keys'[k] = keys[k]
  BY <1>1, <1>2
<1>4. RowsStay
  BY <1>3 DEF RowsStay
<1> QED
  BY <1>1, <1>2, <1>3, <1>4, LimitsAssumption

LEMMA Marked ==
  ASSUME TableType, NEW k \in DOMAIN keys, keys' = [keys EXCEPT ![k].revoked = TRUE]
  PROVE  /\ keys' \in Seq(KeyRows)
         /\ Len(keys') = Len(keys)
         /\ DOMAIN keys' = DOMAIN keys
         /\ keys'[k].revoked
         /\ \A l \in DOMAIN keys : l # k => keys'[l] = keys[l]
         /\ RowsStay
<1>1. keys \in Seq(KeyRows) /\ DOMAIN keys = 1 .. Len(keys) /\ keys[k] \in KeyRows
  BY Indices
<1> DEFINE row == [keys[k] EXCEPT !.revoked = TRUE]
<1>2. row \in KeyRows /\ row.revoked /\ row.permissions = keys[k].permissions
        /\ row.replaces = keys[k].replaces
  BY <1>1 DEF KeyRows
<1>3. keys' = [keys EXCEPT ![k] = row]
  OBVIOUS
<1> HIDE DEF row
<1>4. keys' \in Seq(KeyRows) /\ Len(keys') = Len(keys) /\ DOMAIN keys' = DOMAIN keys
  <2>1. k \in 1 .. Len(keys)
    BY <1>1
  <2>2. keys' \in Seq(KeyRows) /\ Len(keys') = Len(keys)
    <3>1. row \in KeyRows /\ keys \in Seq(KeyRows)
      BY <1>1, <1>2
    <3>2. [keys EXCEPT ![k] = row] \in Seq(KeyRows) /\ Len([keys EXCEPT ![k] = row]) = Len(keys)
      BY <3>1, <2>1, ExceptSeq, ZenonT(30)
    <3> QED
      BY <3>2, <1>3
  <2> QED
    BY <1>3, <2>2
<1>5. keys'[k] = row /\ \A l \in DOMAIN keys : l # k => keys'[l] = keys[l]
  BY <1>1, <1>3
<1>6. RowsStay
  BY <1>2, <1>4, <1>5 DEF RowsStay
<1> QED
  BY <1>2, <1>4, <1>5, <1>6

-----------------------------------------------------------------------------
(* The operators.                                                          *)

\* nothing of a request or a limiter is touched
Elsewhere == UNCHANGED <<request, limits>>

TableOK == TableType /\ KeysAccounted /\ AnsweredIsStored

OperatorStep(o) ==
  \/ \E p \in Permissions : Create(o, p)
  \/ \E k \in Keys : Revoke(o, k) \/ RotateLookUp(o, k)
  \/ RotateRevoke(o) \/ RotateInsert(o)

-----------------------------------------------------------------------------
LEMMA CreateStep ==
  ASSUME TableOK, NEW o \in Operators, NEW p \in Permissions, Create(o, p)
  PROVE  TableOK' /\ RowsStay /\ refused \subseteq refused' /\ Elsewhere
<1> DEFINE row == Row(p, NoKey)
<1>1. row \in KeyRows /\ ~row.revoked
  BY LimitsAssumption DEF Row, KeyRows
<1>2. keys' = Append(keys, row) /\ Len(keys) < MaxKeys /\ UNCHANGED <<refused, ended, step, target>>
  BY DEF Create, admin
<1> HIDE DEF row
<1>3. /\ keys' \in Seq(KeyRows) /\ Len(keys') <= MaxKeys
      /\ DOMAIN keys' = DOMAIN keys \cup {Len(keys) + 1}
      /\ ~keys'[Len(keys) + 1].revoked
      /\ \A k \in DOMAIN keys : keys'[k] = keys[k]
      /\ RowsStay
  BY <1>1, <1>2, Appended DEF TableOK
<1>4. TableType'
  BY <1>2, <1>3 DEF TableOK, TableType
<1>5. KeysAccounted'
  BY <1>2, <1>3 DEF TableOK, KeysAccounted
<1>6. AnsweredIsStored'
  BY <1>2, <1>3 DEF TableOK, TableType, AnsweredIsStored
<1> QED
  BY <1>2, <1>3, <1>4, <1>5, <1>6 DEF TableOK, Create, Elsewhere

LEMMA RevokeStep ==
  ASSUME TableOK, NEW o \in Operators, NEW k \in Keys, Revoke(o, k)
  PROVE  TableOK' /\ RowsStay /\ refused \subseteq refused' /\ Elsewhere
<1>1. /\ k \in DOMAIN keys /\ keys' = [keys EXCEPT ![k].revoked = TRUE]
      /\ refused' = refused \cup {k} /\ ended' = ended \cup {k}
      /\ UNCHANGED <<step, target>>
  BY DEF Revoke, admin
<1>2. /\ keys' \in Seq(KeyRows) /\ Len(keys') = Len(keys) /\ DOMAIN keys' = DOMAIN keys
      /\ keys'[k].revoked
      /\ \A l \in DOMAIN keys : l # k => keys'[l] = keys[l]
      /\ RowsStay
  BY <1>1, Marked DEF TableOK
<1>3. TableType'
  BY <1>1, <1>2 DEF TableOK, TableType
<1>4. KeysAccounted'
  BY <1>1, <1>2 DEF TableOK, KeysAccounted, RowsStay
<1>5. AnsweredIsStored'
  BY <1>1, <1>2 DEF TableOK, TableType, AnsweredIsStored, RowsStay
<1> QED
  BY <1>1, <1>2, <1>3, <1>4, <1>5 DEF TableOK, Revoke, Elsewhere

LEMMA LookUpStep ==
  ASSUME TableOK, NEW o \in Operators, NEW k \in Keys, RotateLookUp(o, k)
  PROVE  TableOK' /\ RowsStay /\ refused \subseteq refused' /\ Elsewhere
<1>1. /\ step[o] = "idle" /\ k \in DOMAIN keys
      /\ step' = [step EXCEPT ![o] = "found"] /\ target' = [target EXCEPT ![o] = k]
      /\ UNCHANGED <<keys, refused, ended, request, limits>>
  BY DEF RotateLookUp, table
<1>2. TableType'
  BY <1>1 DEF TableOK, TableType
<1>3. KeysAccounted'
  BY <1>1 DEF TableOK, TableType, KeysAccounted
<1>4. AnsweredIsStored'
  BY <1>1 DEF TableOK, TableType, AnsweredIsStored
<1> QED
  BY <1>1, <1>2, <1>3, <1>4 DEF TableOK, RowsStay, Elsewhere

LEMMA RotateRevokeStep ==
  ASSUME TableOK, NEW o \in Operators, RotateRevoke(o)
  PROVE  TableOK' /\ RowsStay /\ refused \subseteq refused' /\ Elsewhere
<1>0. step[o] = "found" /\ UNCHANGED <<refused, ended, request, limits>>
        /\ target[o] \in DOMAIN keys
  BY DEF RotateRevoke, TableOK, TableType
<1>1. CASE keys' = [keys EXCEPT ![target[o]].revoked = TRUE]
             /\ step' = [step EXCEPT ![o] = "revoked"] /\ UNCHANGED target
  <2>1. /\ keys' \in Seq(KeyRows) /\ Len(keys') = Len(keys) /\ DOMAIN keys' = DOMAIN keys
        /\ keys'[target[o]].revoked
        /\ \A l \in DOMAIN keys : l # target[o] => keys'[l] = keys[l]
        /\ RowsStay
    BY <1>0, <1>1, Marked DEF TableOK
  <2>2. TableType'
    BY <1>0, <1>1, <2>1 DEF TableOK, TableType
  <2>3. KeysAccounted'
    BY <1>0, <1>1, <2>1 DEF TableOK, TableType, KeysAccounted, RowsStay
  <2>4. AnsweredIsStored'
    BY <1>0, <1>1, <2>1 DEF TableOK, TableType, AnsweredIsStored, RowsStay
  <2> QED
    BY <1>0, <2>1, <2>2, <2>3, <2>4 DEF TableOK, Elsewhere
<1>2. CASE step' = [step EXCEPT ![o] = "idle"] /\ target' = [target EXCEPT ![o] = NoKey] /\ UNCHANGED keys
  <2>1. TableType'
    BY <1>0, <1>2, LimitsAssumption DEF TableOK, TableType
  <2>2. KeysAccounted'
    BY <1>0, <1>2 DEF TableOK, TableType, KeysAccounted
  <2>3. AnsweredIsStored'
    BY <1>0, <1>2 DEF TableOK, TableType, AnsweredIsStored
  <2> QED
    BY <1>0, <1>2, <2>1, <2>2, <2>3 DEF TableOK, RowsStay, Elsewhere
<1> QED
  BY <1>1, <1>2 DEF RotateRevoke

LEMMA RotateInsertStep ==
  ASSUME TableOK, NEW o \in Operators, RotateInsert(o)
  PROVE  TableOK' /\ RowsStay /\ refused \subseteq refused' /\ Elsewhere
<1> DEFINE row == Row(keys[target[o]].permissions, target[o])
<1>0. /\ step[o] = "revoked" /\ target[o] \in DOMAIN keys /\ keys[target[o]].revoked
      /\ step' = [step EXCEPT ![o] = "idle"] /\ target' = [target EXCEPT ![o] = NoKey]
      /\ UNCHANGED <<request, limits>>
  BY DEF RotateInsert, RotateEnds, TableOK, TableType, AnsweredIsStored
<1>1. row \in KeyRows /\ row.replaces = target[o] /\ ~row.revoked
  BY <1>0, Indices DEF Row, KeyRows, TableOK, TableType
<1>2. CASE Len(keys) < MaxKeys /\ keys' = Append(keys, row)
             /\ refused' = refused \cup {target[o]} /\ UNCHANGED ended
  <2> HIDE DEF row
  <2>1. /\ keys' \in Seq(KeyRows) /\ Len(keys') <= MaxKeys
        /\ DOMAIN keys' = DOMAIN keys \cup {Len(keys) + 1}
        /\ keys'[Len(keys) + 1] = row
        /\ \A k \in DOMAIN keys : keys'[k] = keys[k]
        /\ RowsStay
    BY <1>1, <1>2, Appended DEF TableOK
  <2>2. TableType'
    BY <1>0, <1>2, <2>1, LimitsAssumption DEF TableOK, TableType
  <2>3. KeysAccounted'
    <3> SUFFICES ASSUME NEW k \in DOMAIN keys', keys'[k].revoked
                 PROVE  \/ k \in ended'
                        \/ \E l \in DOMAIN keys' : keys'[l].replaces = k
                        \/ \E x \in Operators : step'[x] = "revoked" /\ target'[x] = k
      BY DEF KeysAccounted
    <3>1. k \in DOMAIN keys /\ keys[k].revoked
      BY <1>1, <2>1
    <3>2. CASE k = target[o]
      BY <1>1, <2>1, <3>2
    <3>3. CASE k # target[o]
      <4>1. \/ k \in ended
            \/ \E l \in DOMAIN keys : keys[l].replaces = k
            \/ \E x \in Operators : step[x] = "revoked" /\ target[x] = k
        BY <3>1 DEF TableOK, KeysAccounted
      <4>2. ASSUME NEW l \in DOMAIN keys, keys[l].replaces = k
            PROVE  l \in DOMAIN keys' /\ keys'[l].replaces = k
        BY <4>2, <2>1
      <4>3. ASSUME NEW x \in Operators, step[x] = "revoked", target[x] = k
            PROVE  step'[x] = "revoked" /\ target'[x] = k
        BY <4>3, <1>0, <3>3 DEF TableOK, TableType
      <4> QED
        BY <4>1, <4>2, <4>3, <1>0, <1>2
    <3> QED
      BY <3>2, <3>3
  <2>4. AnsweredIsStored'
    BY <1>0, <1>2, <2>1 DEF TableOK, TableType, AnsweredIsStored
  <2> QED
    BY <1>0, <1>2, <2>1, <2>2, <2>3, <2>4 DEF TableOK, Elsewhere
<1>3. CASE ended' = ended \cup {target[o]} /\ UNCHANGED <<keys, refused>>
  <2>1. TableType'
    BY <1>0, <1>3, LimitsAssumption DEF TableOK, TableType
  <2>2. KeysAccounted'
    BY <1>0, <1>3 DEF TableOK, TableType, KeysAccounted
  <2>3. AnsweredIsStored'
    BY <1>0, <1>3 DEF TableOK, TableType, AnsweredIsStored
  <2> QED
    BY <1>0, <1>3, <2>1, <2>2, <2>3 DEF TableOK, RowsStay, Elsewhere
<1> QED
  BY <1>2, <1>3 DEF RotateInsert

LEMMA TableStep ==
  ASSUME TableOK, NEW o \in Operators, OperatorStep(o)
  PROVE  TableOK' /\ RowsStay /\ refused \subseteq refused' /\ Elsewhere
BY CreateStep, RevokeStep, LookUpStep, RotateRevokeStep, RotateInsertStep DEF OperatorStep

-----------------------------------------------------------------------------
(* The requests.                                                           *)

RequestOK == RequestType /\ RevokedRefused /\ RefusedUntouched /\ Progress

LimitsOK == LimitsType /\ Balanced

\* requests and limiters survive what the operators do
LEMMA OthersStep ==
  ASSUME TypeOK, TableType', RequestOK, LimitsOK, Elsewhere, RowsStay, refused \subseteq refused'
  PROVE  RequestOK' /\ LimitsOK'
<1>1. UNCHANGED <<pc, key, call, late, effects, handle, bucket, load>>
  BY DEF Elsewhere, request, limits
<1>2. RequestType'
  BY <1>1 DEF RequestOK, RequestType, RowsStay, Places, Answers
<1>3. RevokedRefused' /\ RefusedUntouched' /\ Progress'
  BY <1>1 DEF RequestOK, RevokedRefused, RefusedUntouched, Progress
<1>4. \A k \in DOMAIN keys : Rate(k)' = Rate(k) /\ Burst(k)' = Burst(k) /\ Limiter(k)' = Limiter(k)
  BY <1>1, RatesStay DEF Limiter
<1>5. LimitsType'
  BY <1>1, <1>4 DEF LimitsOK, LimitsType, RowsStay
<1>6. Balanced'
  <2> SUFFICES ASSUME NEW k \in Keys
               PROVE  IF k \in DOMAIN keys' THEN load'[k] + Limiter(k)' <= Burst(k)' ELSE load'[k] = 0
    BY DEF Balanced
  <2>1. CASE k \in DOMAIN keys
    BY <1>1, <1>4, <2>1 DEF LimitsOK, Balanced, RowsStay
  <2>2. CASE k \in DOMAIN keys' \ DOMAIN keys
    <3>1. load'[k] = 0 /\ k \notin DOMAIN bucket'
      BY <1>1, <2>2 DEF LimitsOK, Balanced, LimitsType
    <3>2. Limiter(k)' = Burst(k)'
      BY <3>1 DEF Limiter
    <3>3. Burst(k)' \in Nat
      <4>1. keys' \in Seq(KeyRows) /\ k \in DOMAIN keys'
        BY <2>2 DEF TableType
      <4>2. keys'[k].permissions \in Permissions
        <5>1. keys'[k] \in KeyRows
          BY <4>1
        <5> QED
          BY <5>1 DEF KeyRows
      <4>3. keys'[k].permissions.rps \in Nat
        BY <4>2, CallsAssumption
      <4> QED
        BY <4>3, LimitsAssumption DEF Burst, Rate
    <3> QED
      BY <2>2, <3>1, <3>2, <3>3
  <2>3. CASE k \notin DOMAIN keys'
    BY <1>1, <2>3 DEF LimitsOK, Balanced, RowsStay
  <2> QED
    BY <2>1, <2>2, <2>3
<1> QED
  BY <1>2, <1>3, <1>5, <1>6 DEF RequestOK, LimitsOK

-----------------------------------------------------------------------------
LEMMA ArriveStep ==
  ASSUME TypeOK, TableOK, RequestOK, NEW c \in Clients, NEW k \in Keys, NEW q \in Calls,
         Arrive(c, k, q)
  PROVE  RequestOK' /\ UNCHANGED <<table, admin, limits>>
<1>1. /\ pc[c] = "none" /\ k \in DOMAIN keys
      /\ pc' = [pc EXCEPT ![c] = "arrived"] /\ key' = [key EXCEPT ![c] = k]
      /\ call' = [call EXCEPT ![c] = q] /\ late' = [late EXCEPT ![c] = k \in refused]
      /\ UNCHANGED <<keys, refused, table, admin, effects, handle, limits>>
  BY DEF Arrive, table
<1>2. RequestType'
  BY <1>1, LimitsAssumption DEF RequestOK, RequestType, Places, Answers
<1>3. RevokedRefused'
  BY <1>1 DEF RequestOK, RequestType, RevokedRefused, Progress
<1>4. RefusedUntouched'
  BY <1>1 DEF RequestOK, RequestType, RefusedUntouched
<1>5. Progress'
  BY <1>1 DEF RequestOK, RequestType, Progress
<1> QED
  BY <1>1, <1>2, <1>3, <1>4, <1>5 DEF RequestOK

LEMMA AuthenticateStep ==
  ASSUME TypeOK, TableOK, RequestOK, NEW c \in Clients, Authenticate(c)
  PROVE  RequestOK' /\ UNCHANGED <<table, admin, limits>>
<1>1. PICK to \in {"authenticated", "401", "500"} :
        /\ pc[c] = "arrived" /\ pc' = [pc EXCEPT ![c] = to]
        /\ keys[key[c]].revoked => to # "authenticated"
        /\ UNCHANGED <<keys, refused, table, admin, key, call, late, effects, handle, limits>>
  BY DEF Authenticate, Goes, table
<1>2. RequestType'
  BY <1>1 DEF RequestOK, RequestType, Places, Answers
<1>3. RevokedRefused'
  BY <1>1 DEF RequestOK, RequestType, RevokedRefused, Progress, TableOK, AnsweredIsStored
<1>4. RefusedUntouched'
  BY <1>1 DEF RequestOK, RequestType, RefusedUntouched, Progress
<1>5. Progress'
  BY <1>1 DEF RequestOK, RequestType, Progress
<1> QED
  BY <1>1, <1>2, <1>3, <1>4, <1>5 DEF RequestOK

LEMMA AllowRequest ==
  ASSUME TypeOK, TableOK, RequestOK, NEW c \in Clients, Allow(c)
  PROVE  RequestOK' /\ UNCHANGED <<table, admin>>
<1>1. PICK to \in {"allowed", "429"} :
        /\ pc[c] = "authenticated" /\ pc' = [pc EXCEPT ![c] = to]
        /\ UNCHANGED <<keys, refused, table, admin, key, call, late, effects, handle>>
  BY DEF Allow, Goes, table
<1>2. RequestType'
  BY <1>1 DEF RequestOK, RequestType, Places, Answers
<1>3. RevokedRefused'
  BY <1>1 DEF RequestOK, RequestType, RevokedRefused
<1>4. RefusedUntouched'
  BY <1>1 DEF RequestOK, RequestType, RefusedUntouched, Progress
<1>5. Progress'
  BY <1>1 DEF RequestOK, RequestType, Progress
<1> QED
  BY <1>1, <1>2, <1>3, <1>4, <1>5 DEF RequestOK

LEMMA AllowLimits ==
  ASSUME TypeOK, LimitsOK, RequestOK, NEW c \in Clients, Allow(c)
  PROVE  LimitsOK'
<1> DEFINE k == key[c]
<1>1. k \in DOMAIN keys /\ k \in Keys /\ UNCHANGED keys
  BY Indices DEF TypeOK, Allow, RequestOK, RequestType, table
<1>2. Burst(k) \in Nat /\ Limiter(k) \in 0 .. Burst(k)
  BY <1>1, Rates, Limiters DEF TypeOK
<1>3. \A l \in DOMAIN keys : Burst(l)' = Burst(l)
  BY <1>1 DEF Burst, Rate
<1>4. PICK tokens \in 0 .. Burst(k) :
        /\ Stored(k, tokens)
        /\ \/ tokens = Limiter(k) - 1 /\ load' = [load EXCEPT ![k] = @ + 1]
           \/ tokens = Limiter(k) /\ load' = load
  BY <1>2 DEF Allow, limits
<1>5. /\ DOMAIN bucket' = DOMAIN bucket \cup {k} /\ bucket'[k] = tokens
      /\ \A l \in DOMAIN bucket : l # k => bucket'[l] = bucket[l]
  BY <1>4 DEF Stored
<1> HIDE DEF k
<1>6. LimitsType'
  BY <1>1, <1>3, <1>4, <1>5 DEF LimitsOK, LimitsType
<1>7. Balanced'
  <2> SUFFICES ASSUME NEW l \in Keys
               PROVE  IF l \in DOMAIN keys' THEN load'[l] + Limiter(l)' <= Burst(l)' ELSE load'[l] = 0
    BY DEF Balanced
  <2>1. CASE l = k
    <3>1. Limiter(l)' = tokens
      BY <1>5, <2>1 DEF Limiter
    <3>2. load[k] + Limiter(k) <= Burst(k) /\ load[k] \in Nat
      BY <1>1 DEF LimitsOK, Balanced, LimitsType
    <3>3. load'[k] + tokens = load[k] + Limiter(k)
      <4>1. CASE tokens = Limiter(k) - 1 /\ load' = [load EXCEPT ![k] = @ + 1]
        <5>1. load'[k] = load[k] + 1
          BY <1>1, <4>1 DEF LimitsOK, LimitsType
        <5> QED
          BY <1>2, <4>1, <5>1, <3>2
      <4>2. CASE tokens = Limiter(k) /\ load' = load
        BY <1>2, <4>2, <3>2
      <4> QED
        BY <1>4, <4>1, <4>2
    <3> QED
      BY <1>1, <1>3, <2>1, <3>1, <3>2, <3>3
  <2>2. CASE l # k
    <3>1. load'[l] = load[l]
      BY <1>4, <2>2 DEF LimitsOK, LimitsType
    <3>2. l \in DOMAIN keys => Limiter(l)' = Limiter(l)
      BY <1>3, <1>5, <2>2 DEF Limiter
    <3> QED
      BY <1>1, <1>3, <3>1, <3>2 DEF LimitsOK, Balanced
  <2> QED
    BY <2>1, <2>2
<1> QED
  BY <1>6, <1>7 DEF LimitsOK

\* what Handle may make of a request: where it goes, what it did, what it registered
HandleDoes(c, to, done, filter) ==
  /\ pc' = [pc EXCEPT ![c] = to]
  /\ effects' = [effects EXCEPT ![c] = done]
  /\ handle' = [handle EXCEPT ![c] = filter]
  /\ \/ to = "403" /\ done = {}
     \/ call[c].route = "send" /\ to = "400" /\ done \subseteq {"created"}
     \/ call[c].route = "send" /\ to = "202" /\ done \subseteq {"created", "queued"}
     \/ call[c].route = "receive" /\ to = "400" /\ done = {}
     \/ /\ call[c].route = "receive" /\ to = "waiting" /\ done = {"registered"}
        /\ filter = Requested(call[c].filter)
     \/ call[c].route = "ask" /\ to \in {"400", "sent"} /\ done \subseteq {"created", "sent"}

LEMMA HandleStep ==
  ASSUME TypeOK, TableOK, RequestOK, NEW c \in Clients, Handle(c)
  PROVE  RequestOK' /\ UNCHANGED <<table, admin, limits>>
<1>0. /\ pc[c] = "allowed" /\ effects[c] = {} /\ ~late[c] /\ call[c] \in Calls
      /\ UNCHANGED <<keys, refused, table, admin, key, call, late, limits>>
  BY DEF Handle, RequestOK, RequestType, Progress, RevokedRefused, table
<1>1. PICK to, done, filter : HandleDoes(c, to, done, filter)
  <2>1. effects = [effects EXCEPT ![c] = {}] /\ handle = [handle EXCEPT ![c] = handle[c]]
    BY <1>0 DEF RequestOK, RequestType
  <2>2. CASE Forbid(c)
    <3>1. HandleDoes(c, "403", {}, handle[c])
      BY <2>1, <2>2 DEF Forbid, Goes, HandleDoes
    <3> QED
      BY <3>1
  <2>3. CASE Send(c)
    <3>1. PICK done \in Resolved :
            \/ Goes(c, "400") /\ effects' = [effects EXCEPT ![c] = done]
            \/ /\ Goes(c, "202")
               /\ \E job \in SUBSET {"queued"} : effects' = [effects EXCEPT ![c] = done \cup job]
      BY <2>3 DEF Send
    <3>2. call[c].route = "send" /\ handle' = handle /\ done \subseteq {"created"}
      BY <2>3 DEF Send, Resolved
    <3>3. CASE Goes(c, "400") /\ effects' = [effects EXCEPT ![c] = done]
      <4>1. HandleDoes(c, "400", done, handle[c])
        BY <2>1, <3>2, <3>3 DEF Goes, HandleDoes
      <4> QED
        BY <4>1
    <3>4. CASE /\ Goes(c, "202")
               /\ \E job \in SUBSET {"queued"} : effects' = [effects EXCEPT ![c] = done \cup job]
      <4>1. PICK job \in SUBSET {"queued"} : effects' = [effects EXCEPT ![c] = done \cup job]
        BY <3>4
      <4>2. done \cup job \subseteq {"created", "queued"}
        BY <3>2
      <4>3. HandleDoes(c, "202", done \cup job, handle[c])
        BY <2>1, <3>2, <3>4, <4>1, <4>2 DEF Goes, HandleDoes
      <4> QED
        BY <4>3
    <3> QED
      BY <3>1, <3>3, <3>4
  <2>4. CASE Receive(c)
    <3>1. CASE Goes(c, "400") /\ UNCHANGED <<effects, handle>>
      <4>1. HandleDoes(c, "400", {}, handle[c])
        BY <2>1, <2>4, <3>1 DEF Receive, Goes, HandleDoes
      <4> QED
        BY <4>1
    <3>2. CASE ~(Goes(c, "400") /\ UNCHANGED <<effects, handle>>)
      <4>1. /\ call[c].route = "receive" /\ Goes(c, "waiting")
            /\ effects' = [effects EXCEPT ![c] = @ \cup {"registered"}]
            /\ handle' = [handle EXCEPT ![c] = Requested(call[c].filter)]
        BY <2>4, <3>2 DEF Receive, Registers
      <4>2. effects' = [effects EXCEPT ![c] = {"registered"}]
        BY <4>1, <1>0
      <4>3. HandleDoes(c, "waiting", {"registered"}, Requested(call[c].filter))
        BY <4>1, <4>2 DEF Goes, HandleDoes
      <4> QED
        BY <4>3
    <3> QED
      BY <3>1, <3>2
  <2>5. CASE AskSends(c)
    <3>1. PICK done \in Resolved :
            \/ Goes(c, "400") /\ effects' = [effects EXCEPT ![c] = done]
            \/ /\ Goes(c, "sent") \/ Goes(c, "400")
               /\ effects' = [effects EXCEPT ![c] = done \cup {"sent"}]
      BY <2>5 DEF AskSends
    <3>2. /\ call[c].route = "ask" /\ handle' = handle
          /\ done \subseteq {"created", "sent"} /\ done \cup {"sent"} \subseteq {"created", "sent"}
      BY <2>5 DEF AskSends, Resolved
    <3>3. \/ HandleDoes(c, "400", done, handle[c])
          \/ HandleDoes(c, "400", done \cup {"sent"}, handle[c])
          \/ HandleDoes(c, "sent", done \cup {"sent"}, handle[c])
      BY <2>1, <3>1, <3>2 DEF Goes, HandleDoes
    <3> QED
      BY <3>3
  <2> QED
    BY <2>2, <2>3, <2>4, <2>5 DEF Handle
<1>2. to \in Places
  BY <1>1 DEF HandleDoes, Places, Answers
<1>3. RequestType'
  BY <1>0, <1>1, <1>2 DEF HandleDoes, RequestOK, RequestType
<1>4. RevokedRefused'
  BY <1>0, <1>1 DEF HandleDoes, RequestOK, RequestType, RevokedRefused
<1>5. RefusedUntouched'
  BY <1>0, <1>1, CallsAssumption DEF HandleDoes, RequestOK, RequestType, RefusedUntouched, LeftBehind, Routes
<1>6. Progress'
  BY <1>0, <1>1 DEF HandleDoes, RequestOK, RequestType, Progress, LeftBehind
<1> QED
  BY <1>0, <1>3, <1>4, <1>5, <1>6 DEF RequestOK

LEMMA AskRegistersStep ==
  ASSUME TypeOK, TableOK, RequestOK, NEW c \in Clients, AskRegisters(c)
  PROVE  RequestOK' /\ UNCHANGED <<table, admin, limits>>
<1>0. /\ pc[c] = "sent" /\ call[c].route = "ask" /\ ~late[c] /\ "registered" \notin effects[c]
      /\ effects[c] \subseteq LeftBehind["ask"]
      /\ UNCHANGED <<keys, refused, table, admin, key, call, late, limits>>
  BY DEF AskRegisters, RequestOK, RequestType, Progress, RevokedRefused, table
<1> DEFINE filter == WithoutEcho(Requested(call[c].filter), Bot[call[c].account])
<1>1. CASE Goes(c, "500") /\ UNCHANGED <<effects, handle>>
  <2>1. pc' = [pc EXCEPT ![c] = "500"] /\ UNCHANGED <<effects, handle>>
    BY <1>1 DEF Goes
  <2>2. RequestType'
    BY <1>0, <2>1 DEF RequestOK, RequestType, Places, Answers
  <2>3. RevokedRefused' /\ RefusedUntouched'
    BY <1>0, <2>1 DEF RequestOK, RequestType, RevokedRefused, RefusedUntouched
  <2>4. Progress'
    BY <1>0, <2>1 DEF RequestOK, RequestType, Progress
  <2> QED
    BY <1>0, <2>2, <2>3, <2>4 DEF RequestOK
<1>2. CASE /\ Goes(c, "waiting")
           /\ effects' = [effects EXCEPT ![c] = @ \cup {"registered"}]
           /\ handle' = [handle EXCEPT ![c] = filter]
  <2>1. pc' = [pc EXCEPT ![c] = "waiting"]
    BY <1>2 DEF Goes
  <2>2. RequestType'
    BY <1>0, <1>2, <2>1 DEF RequestOK, RequestType, Places, Answers
  <2>3. RevokedRefused' /\ RefusedUntouched'
    BY <1>0, <1>2, <2>1 DEF RequestOK, RequestType, RevokedRefused, RefusedUntouched
  <2>4. Progress'
    BY <1>0, <1>2, <2>1 DEF RequestOK, RequestType, Progress
  <2> QED
    BY <1>0, <2>2, <2>3, <2>4 DEF RequestOK
<1> QED
  BY <1>1, <1>2 DEF AskRegisters, Registers

LEMMA FinishStep ==
  ASSUME TypeOK, TableOK, RequestOK, NEW c \in Clients, Finish(c)
  PROVE  RequestOK' /\ UNCHANGED <<table, admin, limits>>
<1>1. /\ pc' = [pc EXCEPT ![c] = "none"] /\ key' = [key EXCEPT ![c] = NoKey]
      /\ call' = [call EXCEPT ![c] = NoCall] /\ late' = [late EXCEPT ![c] = FALSE]
      /\ effects' = [effects EXCEPT ![c] = {}] /\ handle' = [handle EXCEPT ![c] = NoFilter]
      /\ UNCHANGED <<keys, refused, table, admin, limits>>
  BY DEF Finish, Goes, table
<1>2. RequestType'
  <2>1. /\ pc' \in [Clients -> Places] /\ late' \in [Clients -> BOOLEAN]
        /\ call' \in [Clients -> Calls \cup {NoCall}]
        /\ effects' \in [Clients -> SUBSET {"created", "sent", "queued", "registered"}]
    BY <1>1 DEF RequestOK, RequestType, Places, Answers
  <2>2. key' \in [Clients -> 0 .. MaxKeys]
    BY <1>1, LimitsAssumption DEF RequestOK, RequestType
  <2>3. handle' = [x \in Clients |-> handle'[x]]
    BY <1>1 DEF RequestOK, RequestType
  <2>4. \A x \in Clients : pc'[x] = "none" \/ (key'[x] \in DOMAIN keys' /\ call'[x] \in Calls)
    BY <1>1 DEF RequestOK, RequestType
  <2> QED
    BY <2>1, <2>2, <2>3, <2>4 DEF RequestType
<1>3. RevokedRefused' /\ RefusedUntouched'
  BY <1>1 DEF RequestOK, RequestType, RevokedRefused, RefusedUntouched
<1>4. Progress'
  BY <1>1 DEF RequestOK, RequestType, Progress
<1> QED
  BY <1>1, <1>2, <1>3, <1>4 DEF RequestOK

-----------------------------------------------------------------------------
(* Time, the process, and all together.                                    *)

LEMMA SecondStep ==
  ASSUME TypeOK, LimitsOK, Second
  PROVE  LimitsOK'
<1>1. /\ bucket' = [k \in DOMAIN bucket |->
                      IF bucket[k] + Rate(k) < Burst(k) THEN bucket[k] + Rate(k) ELSE Burst(k)]
      /\ load' = [k \in Keys |->
                    IF k \in DOMAIN keys /\ load[k] > Rate(k) THEN load[k] - Rate(k) ELSE 0]
      /\ UNCHANGED keys
  BY DEF Second, table
<1>2. \A k \in DOMAIN keys :
        Rate(k) \in Nat \ {0} /\ Burst(k) = 2 * Rate(k) /\ Burst(k) \in Nat /\ Burst(k)' = Burst(k)
  BY <1>1, Rates DEF TypeOK, Burst, Rate
<1>3. LimitsType'
  <2>1. DOMAIN bucket' \subseteq DOMAIN keys'
    BY <1>1 DEF LimitsOK, LimitsType
  <2>2. \A k \in DOMAIN bucket' : bucket'[k] \in 0 .. Burst(k)'
    BY <1>1, <1>2 DEF LimitsOK, LimitsType
  <2>3. load' \in [Keys -> Nat]
    <3> SUFFICES ASSUME NEW k \in Keys
                 PROVE  (IF k \in DOMAIN keys /\ load[k] > Rate(k) THEN load[k] - Rate(k) ELSE 0) \in Nat
      BY <1>1
    <3> QED
      BY <1>2 DEF LimitsOK, LimitsType
  <2> QED
    BY <2>1, <2>2, <2>3 DEF LimitsType
<1>4. Balanced'
  <2> SUFFICES ASSUME NEW k \in Keys
               PROVE  IF k \in DOMAIN keys' THEN load'[k] + Limiter(k)' <= Burst(k)' ELSE load'[k] = 0
    BY DEF Balanced
  <2>1. CASE k \notin DOMAIN keys
    BY <1>1, <2>1
  <2>2. CASE k \in DOMAIN keys
    <3>1. load[k] \in Nat /\ load[k] + Limiter(k) <= Burst(k)
      BY <2>2 DEF LimitsOK, LimitsType, Balanced
    <3>2. load'[k] = IF load[k] > Rate(k) THEN load[k] - Rate(k) ELSE 0
      BY <1>1, <2>2
    <3>3. CASE k \in DOMAIN bucket
      <4>1. /\ Limiter(k) = bucket[k] /\ bucket[k] \in Int
            /\ Limiter(k)' = IF bucket[k] + Rate(k) < Burst(k) THEN bucket[k] + Rate(k) ELSE Burst(k)
        BY <1>1, <1>2, <2>2, <3>3 DEF Limiter, LimitsOK, LimitsType
      <4> QED
        BY <1>1, <1>2, <2>2, <3>1, <3>2, <4>1
    <3>4. CASE k \notin DOMAIN bucket
      <4>1. Limiter(k) = Burst(k) /\ Limiter(k)' = Burst(k)
        BY <1>1, <1>2, <2>2, <3>4 DEF Limiter
      <4> QED
        BY <1>1, <1>2, <2>2, <3>1, <3>2, <4>1
    <3> QED
      BY <3>3, <3>4
  <2> QED
    BY <2>1, <2>2
<1> QED
  BY <1>3, <1>4 DEF LimitsOK

LEMMA RestartStep ==
  ASSUME IInv, Restart
  PROVE  IInv'
<1>1. /\ ended' = ended \cup {target[o] : o \in {x \in Operators : step[x] = "revoked"}}
      /\ step' = [o \in Operators |-> "idle"] /\ target' = [o \in Operators |-> NoKey]
      /\ pc' = [c \in Clients |-> "none"] /\ key' = [c \in Clients |-> NoKey]
      /\ call' = [c \in Clients |-> NoCall] /\ late' = [c \in Clients |-> FALSE]
      /\ effects' = [c \in Clients |-> {}] /\ handle' = [c \in Clients |-> NoFilter]
      /\ bucket' = [k \in {} |-> 0] /\ load' = [k \in Keys |-> 0]
      /\ UNCHANGED <<keys, refused>>
  BY DEF Restart
<1>2. TableType'
  BY <1>1, LimitsAssumption DEF IInv, TypeOK, TableType
<1>3. RequestType'
  BY <1>1, LimitsAssumption DEF RequestType, Places, Answers
<1>4. LimitsType'
  BY <1>1 DEF LimitsType
<1>5. KeysAccounted'
  BY <1>1 DEF IInv, KeysAccounted
<1>6. RevokedRefused' /\ RefusedUntouched' /\ Progress'
  BY <1>1 DEF RevokedRefused, RefusedUntouched, Progress
<1>7. AnsweredIsStored'
  BY <1>1 DEF IInv, AnsweredIsStored
<1>8. Balanced'
  <2>1. \A k \in DOMAIN keys : Burst(k)' = Burst(k) /\ Burst(k) \in Nat
    BY <1>1, Rates DEF Burst, Rate, IInv, TypeOK
  <2> QED
    BY <1>1, <2>1 DEF Balanced, Limiter
<1> QED
  BY <1>2, <1>3, <1>4, <1>5, <1>6, <1>7, <1>8 DEF IInv, TypeOK

LEMMA InitIInv == Init => IInv
<1> SUFFICES ASSUME Init PROVE IInv
  OBVIOUS
<1>1. keys = <<>> /\ keys \in Seq(KeyRows) /\ Len(keys) = 0 /\ DOMAIN keys = {}
  BY DEF Init
<1>2. TypeOK
  BY <1>1, LimitsAssumption
     DEF Init, TypeOK, TableType, RequestType, LimitsType, Places, Answers
<1>3. KeysAccounted /\ AnsweredIsStored /\ Balanced
  BY <1>1 DEF Init, KeysAccounted, AnsweredIsStored, Balanced
<1>4. RevokedRefused /\ RefusedUntouched /\ Progress
  BY DEF Init, RevokedRefused, RefusedUntouched, Progress
<1> QED
  BY <1>2, <1>3, <1>4 DEF IInv

ClientStep(c) ==
  \/ \E k \in Keys, q \in Calls : Arrive(c, k, q)
  \/ Authenticate(c) \/ Allow(c) \/ Handle(c) \/ AskRegisters(c) \/ Finish(c)

LEMMA IInvStep == IInv /\ [Next]_vars => IInv'
<1> SUFFICES ASSUME IInv, [Next]_vars PROVE IInv'
  OBVIOUS
<1>1. TypeOK /\ TableOK /\ RequestOK /\ LimitsOK
  BY DEF IInv, TypeOK, TableOK, RequestOK, LimitsOK
<1>2. TableOK' /\ RequestOK' /\ LimitsOK' => IInv'
  BY DEF IInv, TypeOK, TableOK, RequestOK, LimitsOK
<1>3. UNCHANGED <<table, admin>> => TableOK'
  BY <1>1 DEF table, admin, TableOK, TableType, KeysAccounted, AnsweredIsStored
<1>4. UNCHANGED <<table, limits>> => LimitsOK'
  BY <1>1 DEF table, limits, LimitsOK, LimitsType, Balanced, Limiter, Burst, Rate
<1>5. UNCHANGED <<table, request>> => RequestOK'
  BY <1>1 DEF table, request, RequestOK, RequestType, RevokedRefused, RefusedUntouched, Progress
<1>6. ASSUME NEW o \in Operators, OperatorStep(o)
      PROVE  IInv'
  <2>1. TableOK' /\ RowsStay /\ refused \subseteq refused' /\ Elsewhere
    BY <1>1, <1>6, TableStep
  <2>2. TableType'
    BY <2>1 DEF TableOK
  <2> QED
    BY <1>1, <1>2, <2>1, <2>2, OthersStep
<1>7. ASSUME NEW c \in Clients, ClientStep(c)
      PROVE  IInv'
  <2>1. CASE Allow(c)
    BY <1>1, <1>2, <1>3, <2>1, AllowRequest, AllowLimits
  <2>2. CASE ~Allow(c)
    <3>1. RequestOK' /\ UNCHANGED <<table, admin, limits>>
      BY <1>1, <1>7, <2>2, ArriveStep, AuthenticateStep, HandleStep, AskRegistersStep, FinishStep
         DEF ClientStep
    <3> QED
      BY <1>2, <1>3, <1>4, <3>1
  <2> QED
    BY <2>1, <2>2
<1>8. CASE Second
  <2>1. UNCHANGED <<table, admin, request>>
    BY <1>8 DEF Second
  <2> QED
    BY <1>1, <1>2, <1>3, <1>5, <1>8, <2>1, SecondStep
<1>9. CASE Restart
  BY <1>9, RestartStep
<1>10. CASE UNCHANGED vars
  BY <1>2, <1>3, <1>4, <1>5, <1>10 DEF vars
<1> QED
  BY <1>6, <1>7, <1>8, <1>9, <1>10 DEF Next, OperatorStep, ClientStep

-----------------------------------------------------------------------------
(* The theorems.                                                           *)

\* The invariant holds in every state: Init makes it true and every step of the
\* operators, the requests, the clock and the process keeps it.
THEOREM GatewayInvariant == Spec => []IInv
BY InitIInv, IInvStep, PTL DEF Spec

\* Every variable keeps its type.
THEOREM GatewayTypeCorrect == Spec => []TypeOK
<1>1. IInv => TypeOK
  BY DEF IInv
<1> QED
  BY <1>1, GatewayInvariant, PTL

\* No request that comes after a revocation was answered gets past the lookup.
THEOREM RevokedRefusedCorrect == Spec => []RevokedRefused
<1>1. IInv => RevokedRefused
  BY DEF IInv
<1> QED
  BY <1>1, GatewayInvariant, PTL

\* A key that stopped working was deleted, replaced, is being rotated, or its
\* rotation broke off.
THEOREM KeysAccountedCorrect == Spec => []KeysAccounted
<1>1. IInv => KeysAccounted
  BY DEF IInv
<1> QED
  BY <1>1, GatewayInvariant, PTL

\* No key gets more through than its burst and its rate allow.
THEOREM RateBoundedCorrect == Spec => []RateBounded
<1>1. IInv => RateBounded
  <2> SUFFICES ASSUME IInv, NEW k \in DOMAIN keys PROVE load[k] <= Burst(k)
    BY DEF RateBounded
  <2>1. k \in Keys /\ Burst(k) \in Nat /\ Limiter(k) \in 0 .. Burst(k)
    BY Indices, Rates, Limiters DEF IInv, TypeOK
  <2>2. load[k] \in Nat /\ load[k] + Limiter(k) <= Burst(k)
    BY <2>1 DEF IInv, TypeOK, LimitsType, Balanced
  <2> QED
    BY <2>1, <2>2
<1> QED
  BY <1>1, GatewayInvariant, PTL

\* A request refused for its key, rate or permissions has done nothing; one that
\* fails later has left no job and no handle, at most its room or the message of an ask.
THEOREM RefusedUntouchedCorrect == Spec => []RefusedUntouched
<1>1. IInv => RefusedUntouched
  BY DEF IInv
<1> QED
  BY <1>1, GatewayInvariant, PTL

\* The filter that a handle gets selects what the guide says of the request's.
LEMMA HandleSelects ==
  ASSUME NEW q \in Calls, NEW e \in Inbound, NEW account
  PROVE  /\ Matches(Requested(q.filter), account, e)
              <=> e.account = account /\ Selected(q.filter, e)
         /\ Matches(WithoutEcho(Requested(q.filter), Bot[q.account]), account, e)
              <=> e.account = account /\ Selected(q.filter, e) /\ e.sender # Bot[q.account]
<1> DEFINE asked == Requested(q.filter)
           quiet == WithoutEcho(asked, Bot[q.account])
<1>1. /\ WellFormed(q.filter) /\ Unset \notin DOMAIN q.filter /\ Unset \notin SenderSets
      /\ q.filter[1].senderID \in SenderSets \cup {Unset} /\ Bot[q.account] \in Users
      /\ e.type \in DOMAIN Compared
  BY FiltersAssumption, InboundAssumption
<1>2. /\ WellFormed(asked) /\ DOMAIN asked = DOMAIN q.filter
      /\ \A i \in DOMAIN q.filter : asked[i].anyOf = Unset \/ asked[i].anyOf # {}
      /\ \A i \in DOMAIN q.filter : asked[i].senderID = q.filter[i].senderID
      /\ Selected(asked, e) <=> Selected(q.filter, e)
  BY <1>1, RequestedSelects
<1>3. asked[1].senderID = q.filter[1].senderID
  <2>1. 1 \in DOMAIN q.filter
    BY <1>1 DEF WellFormed
  <2> QED
    BY <1>2, <2>1
<1> HIDE DEF asked
<1>4. /\ WellFormed(quiet) /\ DOMAIN quiet = DOMAIN asked
      /\ \A i \in DOMAIN asked : quiet[i].anyOf = asked[i].anyOf
      /\ Selected(quiet, e) <=> Selected(asked, e) /\ e.sender # Bot[q.account]
  BY <1>1, <1>2, <1>3, WithoutEchoSelects DEF SenderSets
<1> HIDE DEF quiet
<1>5. Matches(asked, account, e) <=> e.account = account /\ Selected(asked, e)
  <2>1. Unset \notin DOMAIN asked /\ \A i \in DOMAIN asked : asked[i].anyOf = Unset \/ asked[i].anyOf # {}
    BY <1>1, <1>2
  <2> QED
    BY <1>1, <1>2, <2>1, MatchesSelected
<1>6. Matches(quiet, account, e) <=> e.account = account /\ Selected(quiet, e)
  <2>1. \A i \in DOMAIN quiet : quiet[i].anyOf = Unset \/ quiet[i].anyOf # {}
    BY <1>2, <1>4
  <2>2. Unset \notin DOMAIN quiet
    BY <1>1, <1>2, <1>4
  <2> QED
    BY <1>1, <1>4, <2>1, <2>2, MatchesSelected
<1> QED
  BY <1>2, <1>4, <1>5, <1>6, Zenon DEF quiet, asked

\* Whatever its filter, a handle matches the events of its account that the guide
\* says, and an ask none of its own account's user.
THEOREM DeliveredAsDocumentedCorrect == Spec => []DeliveredAsDocumented
<1>1. IInv => DeliveredAsDocumented
  <2> SUFFICES ASSUME IInv, NEW c \in Registered, NEW e \in Inbound
               PROVE  Matches(handle[c], call[c].account, e) <=>
                        /\ e.account = call[c].account
                        /\ Selected(call[c].filter, e)
                        /\ call[c].route = "ask" => e.sender # Bot[e.account]
    BY DEF DeliveredAsDocumented
  <2>1. c \in Clients /\ pc[c] = "waiting" /\ call[c] \in Calls
    BY DEF Registered, IInv, Progress, TypeOK, RequestType
  <2>2. handle[c] = IF call[c].route = "ask"
                    THEN WithoutEcho(Requested(call[c].filter), Bot[call[c].account])
                    ELSE Requested(call[c].filter)
    BY <2>1 DEF IInv, Progress
  <2>3. PICK q \in Calls : q = call[c]
    BY <2>1
  <2>4. handle[c] = IF q.route = "ask"
                    THEN WithoutEcho(Requested(q.filter), Bot[q.account])
                    ELSE Requested(q.filter)
    BY <2>2, <2>3
  <2>5. /\ Matches(Requested(q.filter), q.account, e)
              <=> e.account = q.account /\ Selected(q.filter, e)
        /\ Matches(WithoutEcho(Requested(q.filter), Bot[q.account]), q.account, e)
              <=> e.account = q.account /\ Selected(q.filter, e) /\ e.sender # Bot[q.account]
    BY HandleSelects
  <2> QED
    BY <2>3, <2>4, <2>5
<1> QED
  BY <1>1, GatewayInvariant, PTL

\* No ask, whatever its filter, is answered by an event of its own account.
THEOREM EchoNeverAnswersCorrect == Spec => []EchoNeverAnswers
<1>1. DeliveredAsDocumented => EchoNeverAnswers
  BY DEF DeliveredAsDocumented, EchoNeverAnswers
<1> QED
  BY <1>1, DeliveredAsDocumentedCorrect, PTL
=============================================================================
