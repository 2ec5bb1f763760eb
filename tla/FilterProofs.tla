---------------------------- MODULE FilterProofs ----------------------------
(***************************************************************************)
(* What a compiled filter matches is what the user's guide says it         *)
(* selects, for every tree of nodes, of any size.  The evaluation is a     *)
(* recursive function, and so the proofs are by induction over the nodes:  *)
(* a non-empty set of numbers has a least one, from which the evaluation   *)
(* is shown to be defined and to be the only one the combinators allow.    *)
(***************************************************************************)
EXTENDS Filter, WellFoundedInduction, TLAPS

\* The least number principle, as a fact about sets.
LEMMA LeastNumber ==
  ASSUME NEW S \in SUBSET Nat, S # {}
  PROVE  \E n \in S : \A m \in S : n <= m
<1>1. PICK n \in S : \A m \in S : <<m, n>> \notin OpToRel(<, Nat)
  BY NatLessThanWellFounded, WFMin
<1>2. \A m \in S : ~ (m < n)
  BY <1>1 DEF OpToRel
<1> QED
  BY <1>2

\* A set of nodes that is not empty has a last one.
LEMMA LastNode ==
  ASSUME NEW n \in Nat, NEW S \in SUBSET (1 .. n), S # {}
  PROVE  \E i \in S : \A j \in S : j <= i
<1> DEFINE D == {n - i : i \in S}
<1>1. D \in SUBSET Nat /\ D # {}
  <2>1. ASSUME NEW i \in S PROVE n - i \in Nat
    OBVIOUS
  <2>2. PICK i \in S : TRUE
    OBVIOUS
  <2>3. n - i \in D
    OBVIOUS
  <2> QED
    BY <2>1, <2>3
<1>2. PICK d \in D : \A m \in D : d <= m
  BY <1>1, LeastNumber
<1>3. PICK i \in S : d = n - i
  BY <1>2
<1>4. ASSUME NEW j \in S PROVE j <= i
  <2>1. n - i <= n - j
    BY <1>2, <1>3
  <2> QED
    BY <2>1
<1> QED
  BY <1>4

-----------------------------------------------------------------------------
(* The evaluation is defined.                                              *)

\* what a node evaluates to depends on the nodes after it only
LEMMA MatchesBelow ==
  ASSUME NEW f, WellFormed(f), NEW e, NEW i \in DOMAIN f, NEW m1, NEW m2,
         \A j \in i + 1 .. Len(f) : m1[j] = m2[j]
  PROVE  MatchesEnvelope(f[i], e, m1) = MatchesEnvelope(f[i], e, m2)
<1> DEFINE n == f[i]
<1>1. /\ n.allOf = Unset \/ n.allOf \subseteq i + 1 .. Len(f)
      /\ n.anyOf = Unset \/ n.anyOf \subseteq i + 1 .. Len(f)
      /\ n.not = Unset \/ n.not \in i + 1 .. Len(f)
  BY DEF WellFormed
<1>2. (n.allOf = Unset \/ \A c \in n.allOf : m1[c]) <=> (n.allOf = Unset \/ \A c \in n.allOf : m2[c])
  BY <1>1
<1>3. (n.anyOf = Unset \/ \E c \in n.anyOf : m1[c]) <=> (n.anyOf = Unset \/ \E c \in n.anyOf : m2[c])
  BY <1>1
<1>4. (n.not = Unset \/ ~m1[n.not]) <=> (n.not = Unset \/ ~m2[n.not])
  BY <1>1
<1> HIDE DEF n
<1> QED
  BY <1>2, <1>3, <1>4, Zenon DEF MatchesEnvelope, n

\* the last nodes of a tree can be evaluated, whatever their number
EvaluatedFrom(f, e, k, m) ==
  /\ m = [i \in DOMAIN f |-> m[i]]
  /\ \A i \in DOMAIN f : i > k => m[i] = MatchesEnvelope(f[i], e, m)

LEMMA EvaluateOneMore ==
  ASSUME NEW f, WellFormed(f), NEW e, NEW k \in DOMAIN f, NEW m, EvaluatedFrom(f, e, k, m)
  PROVE  \E m2 : EvaluatedFrom(f, e, k - 1, m2)
<1> DEFINE m2 == [i \in DOMAIN f |-> IF i = k THEN MatchesEnvelope(f[k], e, m) ELSE m[i]]
<1>1. DOMAIN f = 1 .. Len(f) /\ Len(f) \in Nat
  BY DEF WellFormed
<1>2. ASSUME NEW i \in DOMAIN f, i > k - 1 PROVE m2[i] = MatchesEnvelope(f[i], e, m2)
  <2>1. \A j \in i + 1 .. Len(f) : m[j] = m2[j]
    BY <1>1, <1>2
  <2>2. MatchesEnvelope(f[i], e, m) = MatchesEnvelope(f[i], e, m2)
    <3> HIDE DEF m2
    <3> QED
      BY <2>1, MatchesBelow
  <2>3. CASE i = k
    BY <2>2, <2>3
  <2>4. CASE i # k
    <3>1. i > k
      BY <1>1, <1>2, <2>4
    <3> QED
      BY <2>2, <3>1, <2>4 DEF EvaluatedFrom
  <2> QED
    BY <2>3, <2>4
<1>3. EvaluatedFrom(f, e, k - 1, m2)
  BY <1>2 DEF EvaluatedFrom
<1> QED
  BY <1>3, Zenon

LEMMA EvaluationExists ==
  ASSUME NEW f, WellFormed(f), NEW e
  PROVE  \E m : m = [i \in DOMAIN f |-> MatchesEnvelope(f[i], e, m)]
<1> DEFINE S == {k \in 0 .. Len(f) : \E m : EvaluatedFrom(f, e, k, m)}
<1>1. DOMAIN f = 1 .. Len(f) /\ Len(f) \in Nat
  BY DEF WellFormed
<1>2. S \in SUBSET Nat /\ S # {}
  <2> DEFINE m == [i \in DOMAIN f |-> TRUE]
  <2>1. EvaluatedFrom(f, e, Len(f), m)
    <3>1. \A i \in DOMAIN f : ~(i > Len(f))
      BY <1>1
    <3> QED
      BY <3>1, Zenon DEF EvaluatedFrom
  <2>2. Len(f) \in S
    BY <1>1, <2>1
  <2> QED
    BY <1>1, <2>2
<1>3. PICK k \in S : \A l \in S : k <= l
  BY <1>2, LeastNumber
<1>4. k = 0
  <2>1. SUFFICES ASSUME k \in DOMAIN f PROVE FALSE
    BY <1>1, <1>3
  <2>2. PICK m : EvaluatedFrom(f, e, k, m)
    BY <1>3
  <2>3. k - 1 \in S
    BY <1>1, <2>1, <2>2, EvaluateOneMore
  <2> QED
    BY <1>1, <1>3, <2>1, <2>3
<1>5. PICK m : EvaluatedFrom(f, e, 0, m)
  BY <1>3, <1>4
<1>6. m = [i \in DOMAIN f |-> MatchesEnvelope(f[i], e, m)]
  BY <1>1, <1>5 DEF EvaluatedFrom
<1> QED
  BY <1>6

LEMMA MatchingEvaluates ==
  ASSUME NEW f, WellFormed(f), NEW e, NEW i \in DOMAIN f
  PROVE  Matching(f, e)[i] = MatchesEnvelope(f[i], e, Matching(f, e))
<1>1. Matching(f, e) = [j \in DOMAIN f |-> MatchesEnvelope(f[j], e, Matching(f, e))]
  BY EvaluationExists DEF Matching
<1> QED
  BY <1>1

-----------------------------------------------------------------------------
(* What it evaluates to.                                                   *)

\* A node without children matches as the guide says: in particular its table
\* of predicates and event types is the switch of matchesPayload.
LEMMA NodeFulfils ==
  ASSUME NEW n, NEW e, e.type \in DOMAIN Compared
  PROVE  Passes(n.roomID, e.room) /\ Passes(n.eventType, e.type) /\ MatchesPayload(n, e)
           <=> Fulfils(n, e)
<1> DEFINE Sets == /\ Passes(n.roomID, e.room) /\ Passes(n.eventType, e.type)
                   /\ Passes(n.senderID, e.sender)
           Said == \A s \in SetFilters : n[s] # Unset =>
                     LET v == CASE s = "senderID" -> e.sender [] s = "roomID" -> e.room
                                [] s = "eventType" -> e.type
                     IN  v \notin n[s].exclude /\ (n[s].include # {} => v \in n[s].include)
           Switch == /\ \A p \in Compared[e.type] : n[p] = Unset \/ Agrees(p, n, e)
                     /\ \A p \in Refused[e.type] : n[p] = Unset
           Table == \A p \in Predicates : n[p] # Unset => e.type \in Applicable[p] /\ Agrees(p, n, e)
<1>1. Sets <=> Said
  BY DEF SetFilters, Passes
<1>2. Switch <=> Table
  <2>1. e.type \in {"message", "reaction", "edit", "redaction", "membership", "receipt"}
    BY DEF Compared
  <2>2. \A p \in Predicates : /\ e.type \in Applicable[p] <=> p \in Compared[e.type]
                              /\ e.type \notin Applicable[p] <=> p \in Refused[e.type]
    BY <2>1 DEF Predicates, Applicable, Compared, Refused
  <2>3. Compared[e.type] \subseteq Predicates /\ Refused[e.type] \subseteq Predicates
    BY <2>1 DEF Predicates, Compared, Refused
  <2> QED
    BY <2>2, <2>3, Zenon
<1>3. MatchesTimestamp(n, e) <=> /\ n.minTimestamp # 0 => e.timestamp >= n.minTimestamp
                                 /\ n.maxTimestamp # 0 => e.timestamp <= n.maxTimestamp
  BY DEF MatchesTimestamp
<1>4. Fulfils(n, e) <=> Said /\ Table /\ MatchesTimestamp(n, e)
  BY <1>3, Zenon DEF Fulfils
<1>5. MatchesPayload(n, e) <=> Passes(n.senderID, e.sender) /\ Switch /\ MatchesTimestamp(n, e)
  BY Zenon DEF MatchesPayload
<1> HIDE DEF Said, Switch, Table
<1> QED
  BY <1>1, <1>2, <1>4, <1>5, Zenon

\* what the combinators of a node ask of the chosen nodes
Combined(n, T) ==
  /\ n.allOf # Unset => n.allOf \subseteq T
  /\ n.anyOf \notin {Unset, {}} => n.anyOf \cap T # {}
  /\ n.not \notin T

Matched(f, e) == {i \in DOMAIN f : Matching(f, e)[i]}

LEMMA NodeMatches ==
  ASSUME NEW f, WellFormed(f), Unset \notin DOMAIN f, NEW e, e.type \in DOMAIN Compared,
         NEW i \in DOMAIN f, f[i].anyOf = Unset \/ f[i].anyOf # {}
  PROVE  i \in Matched(f, e) <=> Fulfils(f[i], e) /\ Combined(f[i], Matched(f, e))
<1> DEFINE n == f[i]
           T == Matched(f, e)
           m == Matching(f, e)
<1>1. /\ n.allOf = Unset \/ n.allOf \subseteq DOMAIN f
      /\ n.anyOf = Unset \/ n.anyOf \subseteq DOMAIN f
      /\ n.not = Unset \/ n.not \in DOMAIN f
  <2>1. DOMAIN f = 1 .. Len(f) /\ i + 1 .. Len(f) \subseteq DOMAIN f
    BY DEF WellFormed
  <2> QED
    BY <2>1 DEF WellFormed
<1>2. \A j \in DOMAIN f : j \in T <=> m[j]
  BY DEF Matched
<1>3. T \subseteq DOMAIN f
  BY DEF Matched
<1>4. i \in T <=> MatchesEnvelope(n, e, m)
  BY <1>2, MatchingEvaluates, Zenon
<1> HIDE DEF m, T
<1>5. (n.allOf = Unset \/ \A c \in n.allOf : m[c]) <=> (n.allOf # Unset => n.allOf \subseteq T)
  BY <1>1, <1>2, Zenon
<1>6. (n.anyOf = Unset \/ \E c \in n.anyOf : m[c]) <=> (n.anyOf \notin {Unset, {}} => n.anyOf \cap T # {})
  BY <1>1, <1>2, Zenon
<1>7. (n.not = Unset \/ ~m[n.not]) <=> n.not \notin T
  BY <1>1, <1>2, <1>3, Zenon
<1>8. MatchesEnvelope(n, e, m) <=> Fulfils(n, e) /\ Combined(n, T)
  <2> HIDE DEF n
  <2> QED
    BY <1>5, <1>6, <1>7, NodeFulfils, Zenon DEF MatchesEnvelope, Combined
<1> QED
  BY <1>4, <1>8, Zenon DEF T

\* The combinators allow one set of nodes only.
LEMMA ConsistentUnique ==
  ASSUME NEW f, WellFormed(f), NEW e, Unset \notin DOMAIN f,
         NEW T1 \in SUBSET DOMAIN f, Consistent(f, e, T1),
         NEW T2 \in SUBSET DOMAIN f, Consistent(f, e, T2)
  PROVE  T1 = T2
<1> DEFINE D == {i \in DOMAIN f : ~(i \in T1 <=> i \in T2)}
<1>1. DOMAIN f = 1 .. Len(f) /\ Len(f) \in Nat
  BY DEF WellFormed
<1>2. SUFFICES ASSUME D # {} PROVE FALSE
  OBVIOUS
<1>3. PICK i \in D : \A j \in D : j <= i
  BY <1>1, <1>2, LastNode
<1> DEFINE n == f[i]
           below == i + 1 .. Len(f)
<1>4. \A j \in below : j \in DOMAIN f /\ (j \in T1 <=> j \in T2)
  BY <1>1, <1>3
<1>5. /\ n.allOf = Unset \/ n.allOf \subseteq below
      /\ n.anyOf = Unset \/ n.anyOf \subseteq below
      /\ n.not = Unset \/ n.not \in below
  BY DEF WellFormed
<1>6. Combined(n, T1) <=> Combined(n, T2)
  <2> HIDE DEF below
  <2>1. (n.allOf # Unset => n.allOf \subseteq T1) <=> (n.allOf # Unset => n.allOf \subseteq T2)
    BY <1>4, <1>5
  <2>2. n.anyOf \notin {Unset, {}} => (n.anyOf \cap T1 # {} <=> n.anyOf \cap T2 # {})
    BY <1>4, <1>5
  <2>3. n.not \notin T1 <=> n.not \notin T2
    BY <1>4, <1>5
  <2> QED
    BY <2>1, <2>2, <2>3 DEF Combined
<1>7. /\ i \in T1 <=> Fulfils(n, e) /\ Combined(n, T1)
      /\ i \in T2 <=> Fulfils(n, e) /\ Combined(n, T2)
  BY Zenon DEF Consistent, Combined
<1> QED
  BY <1>3, <1>6, <1>7

\* A compiled filter matches what its tree selects.
THEOREM MatchesSelected ==
  ASSUME NEW f, WellFormed(f), Unset \notin DOMAIN f, \A i \in DOMAIN f : f[i].anyOf = Unset \/ f[i].anyOf # {},
         NEW e, e.type \in DOMAIN Compared, NEW account
  PROVE  Matches(f, account, e) <=> e.account = account /\ Selected(f, e)
<1>1. 1 \in DOMAIN f
  BY DEF WellFormed
<1>2. Matched(f, e) \in SUBSET DOMAIN f /\ Consistent(f, e, Matched(f, e))
  BY NodeMatches, Zenon DEF Consistent, Combined, Matched
<1>3. 1 \in Matched(f, e) <=> MatchesEnvelope(f[1], e, Matching(f, e))
  <2>1. 1 \in Matched(f, e) <=> Matching(f, e)[1]
    BY <1>1 DEF Matched
  <2>2. Matching(f, e)[1] = MatchesEnvelope(f[1], e, Matching(f, e))
    BY <1>1, MatchingEvaluates
  <2> QED
    BY <2>1, <2>2
<1>4. Selected(f, e) <=> 1 \in Matched(f, e)
  BY <1>2, ConsistentUnique, Zenon DEF Selected
<1> QED
  BY <1>3, <1>4, Zenon DEF Matches

-----------------------------------------------------------------------------
(* What the handlers make of a filter before they register it.             *)

\* Two trees with the same nodes fulfilled and the same combinators select the
\* same events.
LEMMA SameSelection ==
  ASSUME NEW f, NEW g, DOMAIN f = DOMAIN g, NEW e,
         \A i \in DOMAIN f : Fulfils(f[i], e) <=> Fulfils(g[i], e),
         \A i \in DOMAIN f, T \in SUBSET DOMAIN f : Combined(f[i], T) <=> Combined(g[i], T)
  PROVE  Selected(f, e) <=> Selected(g, e)
<1>1. ASSUME NEW T \in SUBSET DOMAIN f PROVE Consistent(f, e, T) <=> Consistent(g, e, T)
  <2>1. Consistent(f, e, T) <=> \A i \in DOMAIN f : i \in T <=> Fulfils(f[i], e) /\ Combined(f[i], T)
    BY Zenon DEF Consistent, Combined
  <2>2. Consistent(g, e, T) <=> \A i \in DOMAIN f : i \in T <=> Fulfils(g[i], e) /\ Combined(g[i], T)
    BY Zenon DEF Consistent, Combined
  <2> QED
    BY <2>1, <2>2, Zenon
<1> QED
  BY <1>1, Zenon DEF Selected

\* A node whose fields other than the combinators and the sender are the same.
LEMMA FulfilsByFields ==
  ASSUME NEW n, NEW m, \A f \in Fields \ {"allOf", "anyOf", "not"} : n[f] = m[f], NEW e
  PROVE  Fulfils(n, e) <=> Fulfils(m, e)
<1>1. /\ \A s \in SetFilters : n[s] = m[s]
      /\ \A p \in Predicates : n[p] = m[p]
      /\ n.minTimestamp = m.minTimestamp /\ n.maxTimestamp = m.maxTimestamp
      /\ n.bodyRegex = m.bodyRegex
  BY DEF Fields, SetFilters, Predicates
<1>2. \A p \in Predicates : Agrees(p, n, e) <=> Agrees(p, m, e)
  BY <1>1 DEF Agrees
<1>3. ASSUME NEW s \in SetFilters, NEW v
      PROVE  (n[s] # Unset => v \notin n[s].exclude /\ (n[s].include # {} => v \in n[s].include))
               <=> (m[s] # Unset => v \notin m[s].exclude /\ (m[s].include # {} => v \in m[s].include))
  BY <1>1
<1> QED
  BY <1>1, <1>2, <1>3, Zenon DEF Fulfils

LEMMA RequestedNode ==
  ASSUME NEW f, WellFormed(f), NEW i \in DOMAIN f
  PROVE  LET n == f[i]
             r == Requested(f)[i]
         IN  /\ \A x \in Fields \ {"allOf", "anyOf"} : r[x] = n[x]
             /\ r.allOf = IF n.allOf = {} THEN Unset ELSE n.allOf
             /\ r.anyOf = IF n.anyOf = {} THEN Unset ELSE n.anyOf
             /\ r = [x \in Fields |-> r[x]]
<1> DEFINE n == f[i]
           r == Requested(f)[i]
<1>1. n = [x \in Fields |-> n[x]]
  BY DEF WellFormed
<1>2. DOMAIN n = Fields /\ "allOf" \in Fields /\ "anyOf" \in Fields
  BY <1>1 DEF Fields
<1>3. r = [n EXCEPT !.allOf = IF @ = {} THEN Unset ELSE @, !.anyOf = IF @ = {} THEN Unset ELSE @]
  BY DEF Requested
<1> HIDE DEF n, r
<1> QED
  BY <1>1, <1>2, <1>3 DEF n, r

\* The tree that is compiled has no empty list, and selects what was asked for.
LEMMA RequestedSelects ==
  ASSUME NEW f, WellFormed(f), NEW e
  PROVE  /\ WellFormed(Requested(f)) /\ DOMAIN Requested(f) = DOMAIN f
         /\ \A i \in DOMAIN f : Requested(f)[i].anyOf = Unset \/ Requested(f)[i].anyOf # {}
         /\ \A i \in DOMAIN f : Requested(f)[i].senderID = f[i].senderID
         /\ Selected(Requested(f), e) <=> Selected(f, e)
<1> DEFINE g == Requested(f)
<1>1. DOMAIN f = 1 .. Len(f) /\ Len(f) \in Nat \ {0}
  BY DEF WellFormed
<1>2. DOMAIN g = DOMAIN f /\ Len(g) = Len(f)
  BY <1>1 DEF Requested
<1>3. \A i \in DOMAIN f :
        /\ \A x \in Fields \ {"allOf", "anyOf"} : g[i][x] = f[i][x]
        /\ g[i].allOf = IF f[i].allOf = {} THEN Unset ELSE f[i].allOf
        /\ g[i].anyOf = IF f[i].anyOf = {} THEN Unset ELSE f[i].anyOf
        /\ g[i] = [x \in Fields |-> g[i][x]]
  BY RequestedNode
<1>4. \A i \in DOMAIN f : g[i].not = f[i].not /\ g[i].senderID = f[i].senderID
  BY <1>3 DEF Fields, SetFilters
<1> HIDE DEF g
<1>5. WellFormed(g)
  <2> SUFFICES ASSUME NEW i \in DOMAIN f
               PROVE  /\ g[i] = [x \in Fields |-> g[i][x]]
                      /\ g[i].allOf = Unset \/ g[i].allOf \subseteq i + 1 .. Len(f)
                      /\ g[i].anyOf = Unset \/ g[i].anyOf \subseteq i + 1 .. Len(f)
                      /\ g[i].not = Unset \/ g[i].not \in i + 1 .. Len(f)
    BY <1>1, <1>2, Zenon DEF WellFormed
  <2>1. /\ f[i].allOf = Unset \/ f[i].allOf \subseteq i + 1 .. Len(f)
        /\ f[i].anyOf = Unset \/ f[i].anyOf \subseteq i + 1 .. Len(f)
        /\ f[i].not = Unset \/ f[i].not \in i + 1 .. Len(f)
    BY DEF WellFormed
  <2> QED
    BY <1>3, <1>4, <2>1, Zenon
<1>6. \A i \in DOMAIN f : Fulfils(g[i], e) <=> Fulfils(f[i], e)
  BY <1>3, FulfilsByFields
<1>7. ASSUME NEW i \in DOMAIN f, NEW T \in SUBSET DOMAIN f
      PROVE  Combined(g[i], T) <=> Combined(f[i], T)
  BY <1>3, <1>4 DEF Combined
<1>8. Selected(g, e) <=> Selected(f, e)
  BY <1>2, <1>6, <1>7, SameSelection
<1> QED
  BY <1>2, <1>3, <1>4, <1>5, <1>8 DEF g

\* An ask selects what was asked for, without the events of the account itself.
LEMMA WithoutEchoSelects ==
  ASSUME NEW f, WellFormed(f), NEW users, NEW bot \in users, NEW e,
         Unset \notin [include : SUBSET users, exclude : SUBSET users],
         f[1].senderID \in [include : SUBSET users, exclude : SUBSET users] \cup {Unset}
  PROVE  /\ WellFormed(WithoutEcho(f, bot)) /\ DOMAIN WithoutEcho(f, bot) = DOMAIN f
         /\ \A i \in DOMAIN f : WithoutEcho(f, bot)[i].anyOf = f[i].anyOf
         /\ Selected(WithoutEcho(f, bot), e) <=> Selected(f, e) /\ e.sender # bot
<1> DEFINE g == WithoutEcho(f, bot)
           given == IF f[1].senderID = Unset THEN NoSet ELSE f[1].senderID
           set == [given EXCEPT !.exclude = @ \cup {bot}]
<1>1. DOMAIN f = 1 .. Len(f) /\ Len(f) \in Nat \ {0}
  BY DEF WellFormed
<1>2. f[1] = [x \in Fields |-> f[1][x]] /\ 1 \in DOMAIN f
  BY <1>1 DEF WellFormed
<1>3. DOMAIN g = DOMAIN f /\ Len(g) = Len(f)
  BY <1>1 DEF WithoutEcho
<1>4. /\ \A i \in DOMAIN f : i # 1 => g[i] = f[i]
      /\ g[1] = [f[1] EXCEPT !.senderID = set]
  BY <1>2 DEF WithoutEcho
<1>5. given \in [include : SUBSET users, exclude : SUBSET users]
  BY DEF NoSet
<1>6. /\ set = [include |-> given.include, exclude |-> given.exclude \cup {bot}]
      /\ set # Unset
  BY <1>5
<1>7. /\ \A x \in Fields : x # "senderID" => g[1][x] = f[1][x]
      /\ g[1].senderID = set
      /\ g[1] = [x \in Fields |-> g[1][x]]
  <2>1. "senderID" \in Fields
    BY DEF Fields, SetFilters
  <2> HIDE DEF set
  <2> QED
    BY <1>2, <1>4, <2>1
<1>8. \A i \in DOMAIN f : /\ g[i].allOf = f[i].allOf /\ g[i].anyOf = f[i].anyOf /\ g[i].not = f[i].not
  BY <1>4, <1>7 DEF Fields
<1> HIDE DEF g
<1>9. WellFormed(g)
  <2> SUFFICES ASSUME NEW i \in DOMAIN f
               PROVE  /\ g[i] = [x \in Fields |-> g[i][x]]
                      /\ g[i].allOf = Unset \/ g[i].allOf \subseteq i + 1 .. Len(f)
                      /\ g[i].anyOf = Unset \/ g[i].anyOf \subseteq i + 1 .. Len(f)
                      /\ g[i].not = Unset \/ g[i].not \in i + 1 .. Len(f)
    BY <1>1, <1>3, Zenon DEF WellFormed
  <2>1. /\ f[i].allOf = Unset \/ f[i].allOf \subseteq i + 1 .. Len(f)
        /\ f[i].anyOf = Unset \/ f[i].anyOf \subseteq i + 1 .. Len(f)
        /\ f[i].not = Unset \/ f[i].not \in i + 1 .. Len(f)
        /\ f[i] = [x \in Fields |-> f[i][x]]
    BY DEF WellFormed
  <2> QED
    BY <1>4, <1>7, <1>8, <2>1, Zenon
<1>10. Fulfils(g[1], e) <=> Fulfils(f[1], e) /\ e.sender # bot
  <2> DEFINE Sender(n) == n.senderID # Unset =>
               e.sender \notin n.senderID.exclude
                 /\ (n.senderID.include # {} => e.sender \in n.senderID.include)
             Rest(n) == /\ n.roomID # Unset => e.room \notin n.roomID.exclude
                                        /\ (n.roomID.include # {} => e.room \in n.roomID.include)
                        /\ n.eventType # Unset => e.type \notin n.eventType.exclude
                                        /\ (n.eventType.include # {} => e.type \in n.eventType.include)
                        /\ \A p \in Predicates : n[p] # Unset => e.type \in Applicable[p] /\ Agrees(p, n, e)
                        /\ n.minTimestamp # 0 => e.timestamp >= n.minTimestamp
                        /\ n.maxTimestamp # 0 => e.timestamp <= n.maxTimestamp
  <2>1. \A n : Fulfils(n, e) <=> Sender(n) /\ Rest(n)
    BY DEF Fulfils, SetFilters
  <2>2. Sender(g[1]) <=> Sender(f[1]) /\ e.sender # bot
    <3>1. g[1].senderID # Unset
      BY <1>6, <1>7
    <3>2. g[1].senderID.exclude = given.exclude \cup {bot} /\ g[1].senderID.include = given.include
      BY <1>6, <1>7
    <3>3. Sender(f[1]) <=> e.sender \notin given.exclude /\ (given.include # {} => e.sender \in given.include)
      BY DEF NoSet
    <3> HIDE DEF given
    <3> QED
      BY <3>1, <3>2, <3>3
  <2>3. /\ \A p \in Predicates : g[1][p] = f[1][p]
        /\ g[1].roomID = f[1].roomID /\ g[1].eventType = f[1].eventType
        /\ g[1].minTimestamp = f[1].minTimestamp /\ g[1].maxTimestamp = f[1].maxTimestamp
        /\ g[1].bodyRegex = f[1].bodyRegex
    BY <1>7 DEF Fields, Predicates, SetFilters
  <2>4. \A p \in Predicates : Agrees(p, g[1], e) <=> Agrees(p, f[1], e)
    BY <2>3 DEF Agrees
  <2>5. Rest(g[1]) <=> Rest(f[1])
    BY <2>3, <2>4, Zenon
  <2> QED
    BY <2>1, <2>2, <2>5, Zenon
<1>11. CASE e.sender # bot
  <2>1. \A i \in DOMAIN f : Fulfils(g[i], e) <=> Fulfils(f[i], e)
    BY <1>4, <1>10, <1>11
  <2>2. \A i \in DOMAIN f, T \in SUBSET DOMAIN f : Combined(g[i], T) <=> Combined(f[i], T)
    BY <1>8 DEF Combined
  <2>3. Selected(g, e) <=> Selected(f, e)
    BY <1>3, <2>1, <2>2, SameSelection
  <2> QED
    BY <1>3, <1>8, <1>9, <1>11, <2>3 DEF g
<1>12. CASE e.sender = bot
  <2>1. ~Selected(g, e)
    BY <1>2, <1>3, <1>10, <1>12 DEF Selected, Consistent
  <2> QED
    BY <1>3, <1>8, <1>9, <1>12, <2>1 DEF g
<1> QED
  BY <1>11, <1>12
=============================================================================
