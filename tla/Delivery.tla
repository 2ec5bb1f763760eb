------------------------------ MODULE Delivery ------------------------------
(***************************************************************************)
(* What the outbound side of matfix promises to a client, said without     *)
(* queue, workers, retries or restarts: a job is accepted at most once per *)
(* account and idempotency key, only a pending job is sent to the          *)
(* homeserver, a job is acknowledged only after a copy of it was stored    *)
(* there, and a settled job (acknowledged or dead_letter) stays settled    *)
(* and is never sent again.  Several copies are possible: delivery is at   *)
(* least once.                                                             *)
(***************************************************************************)
EXTENDS Naturals

CONSTANTS Jobs,      \* rows of outbound_queue
          Accounts,  \* configured account ids
          Keys,      \* idempotency keys
          NoKey      \* the empty idempotency key

VARIABLES status,  \* status[j]: what the table says of j, "sending" being pending
          owner,   \* owner[j]: account and idempotency key j was accepted with
          copies   \* copies[j]: events the homeserver stored for j

vars == <<status, owner, copies>>

Settled == {"acknowledged", "dead_letter"}
Unowned == [account |-> NoKey, key |-> NoKey]
Owners  == [account : Accounts, key : Keys \cup {NoKey}]

Init ==
  /\ status = [j \in Jobs |-> "absent"]
  /\ owner  = [j \in Jobs |-> Unowned]
  /\ copies = [j \in Jobs |-> 0]

Accept(j, o) ==
  /\ status[j] = "absent"
  /\ o.key # NoKey => \A i \in Jobs : status[i] # "absent" => owner[i] # o
  /\ status' = [status EXCEPT ![j] = "pending"]
  /\ owner'  = [owner EXCEPT ![j] = o]
  /\ UNCHANGED copies

Deliver(j) ==
  /\ status[j] = "pending"
  /\ copies' = [copies EXCEPT ![j] = @ + 1]
  /\ UNCHANGED <<status, owner>>

Acknowledge(j) ==
  /\ status[j] = "pending"
  /\ copies[j] > 0
  /\ status' = [status EXCEPT ![j] = "acknowledged"]
  /\ UNCHANGED <<owner, copies>>

GiveUp(j) ==
  /\ status[j] = "pending"
  /\ status' = [status EXCEPT ![j] = "dead_letter"]
  /\ UNCHANGED <<owner, copies>>

Next ==
  \E j \in Jobs :
    \/ \E o \in Owners : Accept(j, o)
    \/ Deliver(j)
    \/ Acknowledge(j)
    \/ GiveUp(j)

Spec == Init /\ [][Next]_vars
=============================================================================
