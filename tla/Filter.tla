------------------------------- MODULE Filter -------------------------------
(***************************************************************************)
(* The filters of receive and ask.  A filter is a tree of nodes, given as  *)
(* a function from 1 .. n to nodes with the root at 1 and every child      *)
(* numbered higher than its parent.  A field that is not given is Unset;   *)
(* a regular expression stands for the set of bodies it matches.           *)
(*   node:  senderID, roomID, eventType   Unset or [include, exclude]      *)
(*          inReplyTo, bodyRegex, reactionKey, relatesToEventID,           *)
(*          hasAttachment                 Unset or a value                 *)
(*          minTimestamp, maxTimestamp    0 when not given                 *)
(*          allOf, anyOf                  Unset or a set of nodes          *)
(*          not                           Unset or a node                  *)
(*   event: type, account, room, sender, body, timestamp and one field for *)
(*          each predicate other than bodyRegex                            *)
(***************************************************************************)
EXTENDS Integers, FiniteSets, Sequences

CONSTANTS
  Unset,
  BadRegex    \* a regular expression that does not compile

Predicates ==
  {"inReplyTo", "bodyRegex", "reactionKey", "relatesToEventID", "hasAttachment"}

SetFilters == {"senderID", "roomID", "eventType"}

Fields ==
  Predicates \cup SetFilters
    \cup {"minTimestamp", "maxTimestamp", "allOf", "anyOf", "not"}

\* a tree as it is decoded: every node has every field, children come after parents
WellFormed(filter) ==
  /\ Len(filter) \in Nat \ {0} /\ DOMAIN filter = 1 .. Len(filter)
  /\ \A i \in DOMAIN filter : LET n == filter[i] below == i + 1 .. Len(filter) IN
       /\ n = [f \in Fields |-> n[f]]
       /\ n.allOf = Unset \/ n.allOf \subseteq below
       /\ n.anyOf = Unset \/ n.anyOf \subseteq below
       /\ n.not = Unset \/ n.not \in below

-----------------------------------------------------------------------------
(* From the request to a compiled filter.                                  *)

\* requestFilterToCorrelation appends the children one by one, so that an empty
\* list is afterwards no list
Requested(filter) ==
  [i \in DOMAIN filter |->
     [filter[i] EXCEPT !.allOf = IF @ = {} THEN Unset ELSE @,
                       !.anyOf = IF @ = {} THEN Unset ELSE @]]

\* validate (every node of the tree is visited)
Valid(filter) ==
  \A i \in DOMAIN filter : LET n == filter[i] IN
    /\ n.allOf # {} /\ n.anyOf # {}
    /\ n.bodyRegex # BadRegex
    /\ n.minTimestamp = 0 \/ n.maxTimestamp = 0 \/ n.minTimestamp <= n.maxTimestamp
    /\ \A s \in SetFilters : n[s] # Unset => n[s].include \cup n[s].exclude # {}

NoSet == [include |-> {}, exclude |-> {}]

\* RegisterAsk excludes the account's own user, on top of what the caller asked for
WithoutEcho(filter, bot) ==
  LET given == IF filter[1].senderID = Unset THEN NoSet ELSE filter[1].senderID
  IN  [filter EXCEPT ![1].senderID = [given EXCEPT !.exclude = @ \cup {bot}]]

-----------------------------------------------------------------------------
(* Evaluation.                                                             *)

\* an inactive set passes everything, the exclude list takes precedence
Passes(set, v) ==
  \/ set = Unset
  \/ v \notin set.exclude /\ (set.include = {} \/ v \in set.include)

\* What matchesPayload does with a predicate that is set, by the type of the
\* event: it is compared with the payload,
Compared ==
  [message    |-> {"inReplyTo", "bodyRegex", "hasAttachment"},
   reaction   |-> {"reactionKey", "relatesToEventID"},
   edit       |-> {"bodyRegex", "relatesToEventID"},
   redaction  |-> {"relatesToEventID"},
   membership |-> {},
   receipt    |-> {}]

\* mutant: a reaction ignores a regular expression
RefusedButBodies ==
  [message    |-> {"reactionKey", "relatesToEventID"},
   reaction   |-> {"inReplyTo", "hasAttachment"},
   edit       |-> {"inReplyTo", "reactionKey", "hasAttachment"},
   redaction  |-> {"inReplyTo", "bodyRegex", "reactionKey", "hasAttachment"},
   membership |-> Predicates,
   receipt    |-> Predicates]

\* or it is inapplicable and the node does not match.
Refused ==
  [message    |-> {"reactionKey", "relatesToEventID"},
   reaction   |-> {"inReplyTo", "bodyRegex", "hasAttachment"},
   edit       |-> {"inReplyTo", "reactionKey", "hasAttachment"},
   redaction  |-> {"inReplyTo", "bodyRegex", "reactionKey", "hasAttachment"},
   membership |-> Predicates,
   receipt    |-> Predicates]

Agrees(p, n, e) == IF p = "bodyRegex" THEN e.body \in n[p] ELSE e[p] = n[p]

MatchesTimestamp(n, e) ==
  /\ n.minTimestamp = 0 \/ e.timestamp >= n.minTimestamp
  /\ n.maxTimestamp = 0 \/ e.timestamp <= n.maxTimestamp

MatchesPayload(n, e) ==
  /\ e.type \in DOMAIN Compared
  /\ Passes(n.senderID, e.sender)
  /\ \A p \in Compared[e.type] : n[p] = Unset \/ Agrees(p, n, e)
  /\ \A p \in Refused[e.type] : n[p] = Unset
  /\ MatchesTimestamp(n, e)

\* matchesEnvelope of one node, given what its children do
MatchesEnvelope(n, e, matching) ==
  /\ Passes(n.roomID, e.room)
  /\ Passes(n.eventType, e.type)
  /\ MatchesPayload(n, e)
  /\ n.allOf = Unset \/ \A c \in n.allOf : matching[c]
  /\ n.anyOf = Unset \/ \E c \in n.anyOf : matching[c]
  /\ n.not = Unset \/ ~matching[n.not]

Matching(filter, e) ==
  LET matching[i \in DOMAIN filter] == MatchesEnvelope(filter[i], e, matching)
  IN  matching

Matches(filter, account, e) ==
  /\ e.account = account
  /\ MatchesEnvelope(filter[1], e, Matching(filter, e))

-----------------------------------------------------------------------------
(* What the user's guide says a filter selects.                            *)

\* the table of section 10.2
Applicable ==
  [inReplyTo        |-> {"message"},
   bodyRegex        |-> {"message", "edit"},
   hasAttachment    |-> {"message"},
   reactionKey      |-> {"reaction"},
   relatesToEventID |-> {"reaction", "edit", "redaction"}]

\* "All predicates set within a single node are ANDed"; one that does not apply
\* never matches
Fulfils(n, e) ==
  /\ \A s \in SetFilters : n[s] # Unset =>
       LET v == CASE s = "senderID" -> e.sender [] s = "roomID" -> e.room
                  [] s = "eventType" -> e.type
       IN  v \notin n[s].exclude /\ (n[s].include # {} => v \in n[s].include)
  /\ \A p \in Predicates : n[p] # Unset => e.type \in Applicable[p] /\ Agrees(p, n, e)
  /\ n.minTimestamp # 0 => e.timestamp >= n.minTimestamp
  /\ n.maxTimestamp # 0 => e.timestamp <= n.maxTimestamp

\* T is a set of nodes that the combinators allow (an empty list of children is
\* no constraint)
Consistent(filter, e, T) ==
  \A i \in DOMAIN filter : LET n == filter[i] IN
    i \in T <=> /\ Fulfils(n, e)
                /\ n.allOf # Unset => n.allOf \subseteq T
                /\ n.anyOf \notin {Unset, {}} => n.anyOf \cap T # {}
                /\ n.not \notin T

\* An event is selected when the root is in the one set that the combinators allow.
Selected(filter, e) ==
  \E T \in SUBSET DOMAIN filter : 1 \in T /\ Consistent(filter, e, T)
=============================================================================
