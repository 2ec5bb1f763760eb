------------------------------ MODULE Waiting ------------------------------
(***************************************************************************)
(* What a call of POST /v1/ask or POST /v1/receive that waits for events   *)
(* can rely on, read off the code and said without maps, onces, timers,    *)
(* sweeps and goroutines: it is decided once, resolved or expired, and     *)
(* expired only past its deadline.  An ask is resolved by its first match, *)
(* a receive by as many as its limit and by nothing less.                  *)
(* Whichever it is, the call is given the first events it wants of those   *)
(* heard since it began to listen: per type none is left out before the    *)
(* last, none comes twice and none too early.  The record follows the      *)
(* decision, or is pruned past the deadline, and never contradicts it.     *)
(***************************************************************************)
EXTENDS Naturals, Sequences

CONSTANTS Asks, Receives,
          Limit,     \* Limit[v]: the receive's limit, 0 for none
          Events, Types,
          TypeOf,    \* TypeOf[e]: the type of e
          Wanted,    \* pairs <<h, e>>: call h wants e
          Capacity   \* events of a type that may be under way

VARIABLES heard,     \* heard[t]: the events of t the bus took, in order
          from,      \* from[h]: how many of each type h came too late for
          call,      \* what the client sees of its call
          decision,  \* "none", "resolved" or "expired"
          answer,    \* the events the call was given
          record,    \* its row: "none", "pending", a decision or "pruned"
          overdue    \* calls whose deadline has passed

waiting == <<heard, from, call, decision, answer, record, overdue>>

Calls == Asks \cup Receives

WaitingInit ==
  /\ heard = [t \in Types |-> <<>>]
  /\ from = [h \in Calls |-> [t \in Types |-> 0]]
  /\ call = [h \in Calls |-> "coming"]
  /\ decision = [h \in Calls |-> "none"]
  /\ answer = [h \in Calls |-> <<>>]
  /\ record = [h \in Calls |-> "none"]
  /\ overdue = {}

Hear(t, e) ==
  /\ heard' = [heard EXCEPT ![t] = Append(@, e)]
  /\ UNCHANGED <<from, call, decision, answer, record, overdue>>

Fail(h) ==
  /\ call[h] = "coming" /\ record[h] = "none"
  /\ call' = [call EXCEPT ![h] = "failed"]
  /\ UNCHANGED <<heard, from, decision, answer, record, overdue>>

Write(h) ==
  /\ call[h] = "coming" /\ record[h] = "none"
  /\ record' = [record EXCEPT ![h] = "pending"]
  /\ UNCHANGED <<heard, from, call, decision, answer, overdue>>

\* the events that are under way may still reach it
Listen(h) ==
  /\ call[h] = "coming" /\ record[h] # "none"
  /\ call' = [call EXCEPT ![h] = "waiting"]
  /\ from' = [from EXCEPT ![h] = from'[h]]
  /\ \A t \in Types : from'[h][t] <= Len(heard[t]) /\ Len(heard[t]) <= from'[h][t] + Capacity
  /\ UNCHANGED <<heard, decision, answer, record, overdue>>

Pass(h) ==
  /\ record[h] = "pending"
  /\ overdue' = overdue \cup {h}
  /\ UNCHANGED <<heard, from, call, decision, answer, record>>

\* what h wants of type t, heard in time and before the k-th event
Before(h, t, k) == {heard[t][m] : m \in {n \in from[h][t] + 1 .. k - 1 : <<h, heard[t][n]>> \in Wanted}}

FirstOnes(h, given) ==
  /\ \A i, j \in 1 .. Len(given) : given[i] = given[j] => i = j
  /\ \A i \in 1 .. Len(given) :
       LET t == TypeOf[given[i]] IN
       /\ <<h, given[i]>> \in Wanted
       /\ \E k \in from[h][t] + 1 .. Len(heard[t]) :
            /\ heard[t][k] = given[i]
            /\ Before(h, t, k) \subseteq {given[j] : j \in 1 .. i - 1}

Decide(h, v, given) ==
  /\ call[h] \in {"waiting", "cancelled"}
  /\ decision[h] = "none"
  /\ FirstOnes(h, given)
  /\ decision' = [decision EXCEPT ![h] = v]
  /\ answer' = [answer EXCEPT ![h] = given]
  /\ UNCHANGED <<heard, from, call, record, overdue>>

Size(h) == IF h \in Asks THEN 1 ELSE Limit[h]

Resolve(h, given) ==
  /\ Size(h) > 0 /\ Len(given) = Size(h)
  /\ Decide(h, "resolved", given)

\* an ask that expires has nothing, a receive what there is
Expire(h, given) ==
  /\ h \in overdue
  /\ IF h \in Asks THEN given = <<>> ELSE Limit[h] > 0 => Len(given) <= Limit[h]
  /\ Decide(h, "expired", given)

Return(h) ==
  /\ call[h] = "waiting"
  /\ decision[h] # "none"
  /\ call' = [call EXCEPT ![h] = IF answer[h] = <<>> THEN "timed_out" ELSE "answered"]
  /\ UNCHANGED <<heard, from, decision, answer, record, overdue>>

Leave(h) ==
  /\ call[h] = "waiting"
  /\ call' = [call EXCEPT ![h] = "cancelled"]
  /\ UNCHANGED <<heard, from, decision, answer, record, overdue>>

Update(h) ==
  /\ record[h] = "pending"
  /\ decision[h] # "none"
  /\ record' = [record EXCEPT ![h] = decision[h]]
  /\ UNCHANGED <<heard, from, call, decision, answer, overdue>>

Prune ==
  /\ \E gone \in SUBSET {h \in overdue : record[h] = "pending"} :
       record' = [h \in Calls |-> IF h \in gone THEN "pruned" ELSE record[h]]
  /\ UNCHANGED <<heard, from, call, decision, answer, overdue>>

\* the process dies: every call that waits is lost, and some of those that come
Die ==
  /\ \E gone \in SUBSET {h \in Calls : call[h] = "coming"} :
       call' = [h \in Calls |-> IF call[h] = "waiting" \/ h \in gone THEN "lost" ELSE call[h]]
  /\ UNCHANGED <<heard, from, decision, answer, record, overdue>>

CallStep(h) ==
  \/ Fail(h) \/ Write(h) \/ Listen(h) \/ Pass(h) \/ Return(h) \/ Leave(h) \/ Update(h)
  \/ Resolve(h, answer'[h]) \/ Expire(h, answer'[h])

WaitingNext ==
  \/ \E t \in Types, e \in Events : TypeOf[e] = t /\ Hear(t, e)
  \/ \E h \in Calls : CallStep(h)
  \/ Prune \/ Die

WaitingSpec == WaitingInit /\ [][WaitingNext]_waiting
=============================================================================
