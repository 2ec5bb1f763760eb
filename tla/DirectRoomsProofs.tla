------------------------- MODULE DirectRoomsProofs -------------------------
(***************************************************************************)
(* For any number of calls, users and faults: the rooms belong to the user,*)
(* and the versions of m.direct grow from one to the next wherever no      *)
(* write was built on an older one.  LossExplained is inductive as soon as *)
(* a version is known to begin like the one it was built on.               *)
(***************************************************************************)
EXTENDS DirectRooms, TLAPS

\* a room is created before it is recorded, and returned at the end
Places ==
  /\ \A c \in Calls : pc[c] \in {"reread", "write"} => c \in rooms
  /\ inFlight \subseteq rooms
  /\ \A c \in Calls : answer[c] # NoRoom => pc[c] = "done"

IInv == TypeOK /\ Places /\ RoomsOfUser /\ LossExplained /\ FirstRoomStays

LEMMA BeginsItself == ASSUME NEW s PROVE Begins(s, s)
  BY DEF Begins

LEMMA BeginsChains ==
  ASSUME NEW s, NEW t, NEW r, Begins(s, t), Begins(t, r) PROVE Begins(s, r)
  BY DEF Begins

LEMMA InitIInv == Init => IInv
<1> SUFFICES ASSUME Init PROVE IInv
  OBVIOUS
<1>1. history = <<>> /\ Len(history) = 0 /\ DOMAIN history = {}
  BY DEF Init
<1>2. <<>> \in Seq([by : Calls, base : Nat, value : MDirect])
  OBVIOUS
<1>3. TypeOK
  BY <1>1, <1>2, BoundAssumption DEF Init, TypeOK, Latest
<1>4. Places /\ RoomsOfUser /\ LossExplained /\ FirstRoomStays
  BY <1>1 DEF Init, Places, RoomsOfUser, LossExplained, FirstRoomStays
<1> QED
  BY <1>3, <1>4 DEF IInv

-----------------------------------------------------------------------------
(* Versions.                                                               *)

LEMMA VersionType ==
  ASSUME TypeOK, NEW n \in 0 .. Latest
  PROVE  Version(n) \in MDirect
<1>1. CASE n = 0
  BY <1>1 DEF Version, MDirect
<1>2. CASE n # 0
  <2>1. n \in 1 .. Len(history)
    BY <1>2 DEF TypeOK, Latest
  <2> DEFINE V == [by : Calls, base : Nat, value : MDirect]
  <2>2. history \in Seq(V)
    BY DEF TypeOK
  <2>3. \A v \in V : v.value \in MDirect
    OBVIOUS
  <2> HIDE DEF V
  <2>4. history[n] \in V
    BY <2>1, <2>2
  <2> QED
    BY <1>2, <2>3, <2>4 DEF Version
<1> QED
  BY <1>1, <1>2

\* a version that is built on base begins like it, and ends with the new room
LEMMA UpdatedBegins ==
  ASSUME TypeOK, NEW c \in Calls
  PROVE  /\ Updated(c) \in MDirect
         /\ \A u \in Users : Begins(Version(base[c])[u], Updated(c)[u])
         /\ \A u \in Users : \A k \in DOMAIN Updated(c)[u] :
              \/ k \in DOMAIN Version(base[c])[u] /\ Updated(c)[u][k] = Version(base[c])[u][k]
              \/ u = For[c] /\ Updated(c)[u][k] = c
<1> DEFINE old == Version(base[c])
<1>1. old \in MDirect
  BY VersionType DEF TypeOK
<1>2. For[c] \in Users
  BY CallsAssumption
<1>3. Updated(c) = [old EXCEPT ![For[c]] = Append(old[For[c]], c)]
  BY DEF Updated
<1> HIDE DEF old
<1>4. old[For[c]] \in Seq(Calls)
  BY <1>1, <1>2 DEF MDirect
<1>5. /\ Append(old[For[c]], c) \in Seq(Calls)
      /\ \A k \in DOMAIN old[For[c]] : /\ k \in DOMAIN Append(old[For[c]], c)
                                       /\ Append(old[For[c]], c)[k] = old[For[c]][k]
      /\ \A k \in DOMAIN Append(old[For[c]], c) :
           k \in DOMAIN old[For[c]] \/ Append(old[For[c]], c)[k] = c
  BY <1>4
<1>6. Updated(c) \in MDirect
  BY <1>1, <1>3, <1>5 DEF MDirect
<1>7. \A u \in Users : Updated(c)[u] = IF u = For[c] THEN Append(old[For[c]], c) ELSE old[u]
  BY <1>1, <1>3 DEF MDirect
<1>8. \A u \in Users : Begins(old[u], Updated(c)[u])
  BY <1>5, <1>7 DEF Begins
<1>9. \A u \in Users : \A k \in DOMAIN Updated(c)[u] :
              \/ k \in DOMAIN old[u] /\ Updated(c)[u][k] = old[u][k]
              \/ u = For[c] /\ Updated(c)[u][k] = c
  BY <1>5, <1>7
<1> QED
  BY <1>6, <1>8, <1>9 DEF old

\* what a write does to the versions
LEMMA PutGrows ==
  ASSUME TypeOK, NEW c \in Calls, Put(c)
  PROVE  /\ history' \in Seq([by : Calls, base : Nat, value : MDirect])
         /\ Len(history') = Len(history) + 1
         /\ DOMAIN history' = DOMAIN history \cup {Len(history) + 1}
         /\ \A k \in DOMAIN history : history'[k] = history[k]
         /\ history'[Len(history) + 1].base = base[c]
         /\ history'[Len(history) + 1].value = Updated(c)
<1> DEFINE new == [by |-> c, base |-> base[c], value |-> Updated(c)]
           V   == [by : Calls, base : Nat, value : MDirect]
<1>1. base[c] \in Nat
  BY DEF TypeOK, Latest
<1>2. new \in V /\ new.base = base[c] /\ new.value = Updated(c)
  BY <1>1, UpdatedBegins
<1>3. history' = Append(history, new)
  BY DEF Put
<1>4. history \in Seq(V)
  BY DEF TypeOK
<1> SUFFICES /\ history' \in Seq(V)
             /\ Len(history') = Len(history) + 1
             /\ DOMAIN history' = DOMAIN history \cup {Len(history) + 1}
             /\ \A k \in DOMAIN history : history'[k] = history[k]
             /\ history'[Len(history) + 1] = new
  BY <1>2
<1> HIDE DEF new, V
<1>5. history' \in Seq(V) /\ Len(history') = Len(history) + 1 /\ Len(history) \in Nat
  BY <1>2, <1>3, <1>4
<1>6. DOMAIN history = 1 .. Len(history) /\ DOMAIN history' = 1 .. Len(history) + 1
  BY <1>4, <1>5
<1>7. DOMAIN history' = DOMAIN history \cup {Len(history) + 1}
  BY <1>5, <1>6
<1>8. \A k \in 1 .. Len(history) : history'[k] = history[k]
  BY <1>2, <1>3, <1>4
<1>9. history'[Len(history) + 1] = new
  BY <1>2, <1>3, <1>4
<1> QED
  BY <1>5, <1>6, <1>7, <1>8, <1>9

-----------------------------------------------------------------------------
(* The steps.  Most leave the versions alone.                              *)

LEMMA PutTypeOK ==
  ASSUME TypeOK, NEW c \in Calls, Put(c)
  PROVE  /\ history' \in Seq([by : Calls, base : Nat, value : MDirect])
         /\ looked \in [Calls -> 0 .. Latest'] /\ base \in [Calls -> 0 .. Latest']
<1>1. Latest \in Nat /\ Latest' = Latest + 1
  BY PutGrows DEF TypeOK, Latest
<1>2. looked \in [Calls -> 0 .. Latest] /\ base \in [Calls -> 0 .. Latest]
  BY DEF TypeOK
<1>3. \A c1 \in Calls : looked[c1] \in 0 .. Latest' /\ base[c1] \in 0 .. Latest'
  BY <1>1, <1>2
<1> QED
  BY <1>2, <1>3, PutGrows

LEMMA PutLossExplained ==
  ASSUME TypeOK, LossExplained, NEW c \in Calls, Put(c)
  PROVE  LossExplained'
<1> DEFINE n == Len(history) + 1
<1> SUFFICES ASSUME NEW i \in DOMAIN history', NEW j \in DOMAIN history', i <= j,
                    Unbroken(i, j)', NEW u \in Users
             PROVE  Begins(history'[i].value[u], history'[j].value[u])
  BY DEF LossExplained
<1>1. /\ Len(history) \in Nat /\ DOMAIN history = 1 .. Len(history)
      /\ base[c] \in 0 .. Len(history)
  BY DEF TypeOK, Latest
<1>2. \A k \in DOMAIN history' : i < k /\ k <= j => i <= history'[k].base
  BY DEF Unbroken
<1>3. CASE i = j
  BY <1>3, BeginsItself
<1>4. CASE i < j /\ j # n
  <2>1. i \in DOMAIN history /\ j \in DOMAIN history
    BY <1>1, <1>4, PutGrows
  <2>2. Unbroken(i, j)
    BY <1>2, PutGrows DEF Unbroken
  <2> QED
    BY <2>1, <2>2, PutGrows DEF LossExplained
<1>5. CASE i < j /\ j = n
  <2>1. i <= base[c] /\ i \in DOMAIN history /\ base[c] \in DOMAIN history
    BY <1>1, <1>2, <1>5, PutGrows
  <2>2. Unbroken(i, base[c])
    <3> SUFFICES ASSUME NEW k \in DOMAIN history, i < k, k <= base[c]
                 PROVE  i <= history[k].base
      BY DEF Unbroken
    <3>1. k \in DOMAIN history' /\ k <= j /\ history'[k] = history[k]
      BY <1>1, <1>5, <2>1, PutGrows
    <3> QED
      BY <3>1, <1>2
  <2>3. Begins(history[i].value[u], history[base[c]].value[u])
    BY <2>1, <2>2 DEF LossExplained
  <2>4. Version(base[c]) = history[base[c]].value
    BY <1>1, <2>1 DEF Version
  <2>5. Begins(history[base[c]].value[u], history'[j].value[u])
    BY <1>5, <2>4, PutGrows, UpdatedBegins
  <2>6. history'[i] = history[i]
    BY <2>1, PutGrows
  <2> QED
    BY <2>3, <2>5, <2>6, BeginsChains
<1> QED
  BY <1>1, <1>3, <1>4, <1>5, PutGrows

LEMMA PutRooms ==
  ASSUME TypeOK, RoomsOfUser, NEW c \in Calls, c \in rooms, Put(c), rooms' = rooms
  PROVE  \A n \in DOMAIN history', u \in Users : \A k \in DOMAIN history'[n].value[u] :
           history'[n].value[u][k] \in rooms' /\ For[history'[n].value[u][k]] = u
<1> SUFFICES ASSUME NEW n \in DOMAIN history', NEW u \in Users,
                    NEW k \in DOMAIN history'[n].value[u]
             PROVE  history'[n].value[u][k] \in rooms /\ For[history'[n].value[u][k]] = u
  OBVIOUS
<1>1. CASE n \in DOMAIN history
  BY <1>1, PutGrows DEF RoomsOfUser
<1>2. CASE n = Len(history) + 1
  <2>1. history'[n].value = Updated(c)
    BY <1>2, PutGrows
  <2>2. CASE u = For[c] /\ Updated(c)[u][k] = c
    BY <2>1, <2>2
  <2>3. CASE /\ k \in DOMAIN Version(base[c])[u]
             /\ Updated(c)[u][k] = Version(base[c])[u][k]
    <3>1. base[c] # 0
      BY <2>3 DEF Version
    <3>2. base[c] \in DOMAIN history /\ Version(base[c]) = history[base[c]].value
      BY <3>1 DEF TypeOK, Latest, Version
    <3> QED
      BY <2>1, <2>3, <3>2 DEF RoomsOfUser
  <2> QED
    BY <2>1, <2>2, <2>3, UpdatedBegins
<1> QED
  BY <1>1, <1>2, PutGrows

-----------------------------------------------------------------------------

\* the steps that change m.direct, and the others
LEMMA Steps ==
  ASSUME [Next]_vars
  PROVE  \/ \E c \in Calls : Write(c) \/ Land(c)
         \/ /\ UNCHANGED history
            /\ \/ UNCHANGED vars
               \/ \E c \in Calls :
                    \/ Find(c) \/ FindFails(c) \/ Create(c) \/ CreateFails(c)
                    \/ Reread(c) \/ RereadFails(c) \/ WriteFails(c) \/ Abandon(c)
<1>1. CASE UNCHANGED vars
  BY <1>1 DEF vars
<1>2. CASE Next
  <2>1. PICK c \in Calls : Resolve(c) \/ Abandon(c) \/ Land(c)
    BY <1>2 DEF Next
  <2>2. CASE Write(c) \/ Land(c)
    BY <2>2
  <2>3. CASE Find(c) \/ FindFails(c) \/ Create(c) \/ CreateFails(c)
    BY <2>3 DEF Find, FindFails, Create, CreateFails
  <2>4. CASE Reread(c) \/ RereadFails(c) \/ WriteFails(c) \/ Abandon(c)
    BY <2>4 DEF Reread, RereadFails, WriteFails, Abandon
  <2> QED
    BY <2>1, <2>2, <2>3, <2>4 DEF Resolve
<1> QED
  BY <1>1, <1>2

LEMMA TypeStep == TypeOK /\ Places /\ RoomsOfUser /\ [Next]_vars => TypeOK'
<1> SUFFICES ASSUME TypeOK, Places, RoomsOfUser, [Next]_vars PROVE TypeOK'
  OBVIOUS
<1> USE DEF Goto, Fault
<1>1. ASSUME NEW c \in Calls, Write(c) PROVE TypeOK'
  <2>1. Put(c)
    BY <1>1 DEF Write
  <2> QED
    BY <1>1, <2>1, PutTypeOK DEF Write, TypeOK
<1>2. ASSUME NEW c \in Calls, Land(c) PROVE TypeOK'
  <2>1. Put(c)
    BY <1>2 DEF Land
  <2> QED
    BY <1>2, <2>1, PutTypeOK DEF Land, TypeOK
<1>3. CASE UNCHANGED vars
  BY <1>3 DEF vars, TypeOK, Latest
<1>4. ASSUME NEW c \in Calls, Find(c) PROVE TypeOK'
  <2>1. Latest' = Latest /\ Latest \in 0 .. Latest
    BY <1>4 DEF Find, Latest, TypeOK
  <2>2. answer' \in [Calls -> Calls \cup {NoRoom}]
    <3>1. CASE UNCHANGED answer
      BY <3>1 DEF TypeOK
    <3>2. CASE /\ Version(Latest)[For[c]] # <<>>
               /\ answer' = [answer EXCEPT ![c] = Chosen(Version(Latest)[For[c]])]
      <4>1. Version(Latest)[For[c]] \in Seq(Calls)
        BY <2>1, VersionType, CallsAssumption DEF MDirect
      <4>2. Chosen(Version(Latest)[For[c]]) \in Calls
        BY <3>2, <4>1 DEF Chosen
      <4> QED
        BY <3>2, <4>2 DEF TypeOK
    <3> QED
      BY <1>4, <3>1, <3>2 DEF Find
  <2> QED
    BY <1>4, <2>1, <2>2 DEF Find, TypeOK
<1>5. ASSUME NEW c \in Calls, Reread(c) PROVE TypeOK'
  <2>1. Latest' = Latest /\ Latest \in 0 .. Latest
    BY <1>5 DEF Reread, Latest, TypeOK
  <2> QED
    BY <1>5, <2>1 DEF Reread, TypeOK
<1>6. ASSUME faults < MaxFaults, faults' = faults + 1 PROVE faults' \in 0 .. MaxFaults
  BY <1>6, BoundAssumption DEF TypeOK
<1>7. ASSUME NEW c \in Calls,
             FindFails(c) \/ Create(c) \/ CreateFails(c) \/ RereadFails(c) \/ WriteFails(c)
      PROVE  TypeOK'
  <2>1. Latest' = Latest /\ UNCHANGED <<looked, base, history>> /\ faults' \in 0 .. MaxFaults
    BY <1>6, <1>7 DEF FindFails, Create, CreateFails, RereadFails, WriteFails, Latest, TypeOK
  <2>2. CASE FindFails(c)
    BY <2>1, <2>2 DEF FindFails, TypeOK
  <2>3. CASE Create(c) \/ CreateFails(c)
    BY <2>1, <2>3 DEF Create, CreateFails, TypeOK
  <2>4. CASE RereadFails(c)
    BY <2>1, <2>4 DEF RereadFails, TypeOK
  <2>5. CASE WriteFails(c)
    BY <2>1, <2>5 DEF WriteFails, TypeOK
  <2> QED
    BY <1>7, <2>2, <2>3, <2>4, <2>5
<1>8. ASSUME NEW c \in Calls, Abandon(c) PROVE TypeOK'
  BY <1>8 DEF Abandon, TypeOK, Latest
<1> QED
  BY <1>1, <1>2, <1>3, <1>4, <1>5, <1>6, <1>7, <1>8, Steps

LEMMA PlacesStep == TypeOK /\ Places /\ [Next]_vars => Places'
<1> SUFFICES ASSUME TypeOK, Places, [Next]_vars PROVE Places'
  OBVIOUS
<1> USE DEF Goto, Places
<1>1. ASSUME NEW c \in Calls, Write(c) \/ Land(c) PROVE Places'
  BY <1>1 DEF Write, Land, TypeOK
<1>2. CASE UNCHANGED vars
  BY <1>2 DEF vars
<1>3. ASSUME NEW c \in Calls, Find(c) \/ FindFails(c) PROVE Places'
  BY <1>3 DEF Find, FindFails, TypeOK
<1>4. ASSUME NEW c \in Calls, Create(c) \/ CreateFails(c) PROVE Places'
  BY <1>4 DEF Create, CreateFails, TypeOK
<1>5. ASSUME NEW c \in Calls, Reread(c) \/ RereadFails(c) PROVE Places'
  BY <1>5 DEF Reread, RereadFails, TypeOK
<1>6. ASSUME NEW c \in Calls, WriteFails(c) PROVE Places'
  BY <1>6 DEF WriteFails, TypeOK
<1>7. ASSUME NEW c \in Calls, Abandon(c) PROVE Places'
  BY <1>7 DEF Abandon, TypeOK
<1> QED
  BY <1>1, <1>2, <1>3, <1>4, <1>5, <1>6, <1>7, Steps

LEMMA LossStep == TypeOK /\ LossExplained /\ [Next]_vars => LossExplained'
<1> SUFFICES ASSUME TypeOK, LossExplained, [Next]_vars PROVE LossExplained'
  OBVIOUS
<1>1. ASSUME NEW c \in Calls, Write(c) \/ Land(c) PROVE LossExplained'
  <2>1. Put(c)
    BY <1>1 DEF Write, Land
  <2> QED
    BY <2>1, PutLossExplained
<1>2. CASE UNCHANGED history
  BY <1>2 DEF LossExplained, Unbroken
<1> QED
  BY <1>1, <1>2, Steps

\* what findDMRoom returns was recorded for the user
LEMMA FoundRoom ==
  ASSUME TypeOK, RoomsOfUser, NEW c \in Calls, Version(Latest)[For[c]] # <<>>
  PROVE  LET r == Chosen(Version(Latest)[For[c]]) IN r \in rooms /\ For[r] = For[c]
<1>1. Latest \in Nat /\ Latest \in 0 .. Latest /\ For[c] \in Users
  BY CallsAssumption DEF TypeOK, Latest
<1>2. Latest # 0
  BY <1>1 DEF Version
<1>3. Latest \in DOMAIN history /\ Version(Latest) = history[Latest].value
  BY <1>1, <1>2 DEF TypeOK, Latest, Version
<1>4. Version(Latest)[For[c]] \in Seq(Calls)
  BY <1>1, VersionType DEF MDirect
<1>5. 1 \in DOMAIN Version(Latest)[For[c]]
  BY <1>4
<1> QED
  BY <1>1, <1>3, <1>5 DEF RoomsOfUser, Chosen

LEMMA RoomsStep == TypeOK /\ Places /\ RoomsOfUser /\ [Next]_vars => RoomsOfUser'
<1> SUFFICES ASSUME TypeOK, Places, RoomsOfUser, [Next]_vars PROVE RoomsOfUser'
  OBVIOUS
<1>1. ASSUME NEW c \in Calls, Write(c) PROVE RoomsOfUser'
  <2>1. Put(c) /\ c \in rooms /\ rooms' = rooms /\ answer' = [answer EXCEPT ![c] = c]
    BY <1>1 DEF Write, Places
  <2>2. \A d \in Calls : answer'[d] # NoRoom =>
          answer'[d] \in rooms' /\ For[answer'[d]] = For[d]
    BY <2>1 DEF RoomsOfUser, TypeOK
  <2> QED
    BY <2>1, <2>2, PutRooms DEF RoomsOfUser
<1>2. ASSUME NEW c \in Calls, Land(c) PROVE RoomsOfUser'
  <2>1. Put(c) /\ c \in rooms /\ rooms' = rooms /\ answer' = answer
    BY <1>2 DEF Land, Places
  <2> QED
    BY <2>1, PutRooms DEF RoomsOfUser
<1>3. ASSUME UNCHANGED history, rooms \subseteq rooms',
             \A d \in Calls : answer'[d] # NoRoom =>
               answer'[d] \in rooms' /\ For[answer'[d]] = For[d]
      PROVE  RoomsOfUser'
  BY <1>3 DEF RoomsOfUser
<1>4. ASSUME UNCHANGED history, rooms \subseteq rooms', UNCHANGED answer
      PROVE  RoomsOfUser'
  BY <1>4, <1>3 DEF RoomsOfUser
<1>5. ASSUME NEW c \in Calls, Find(c) PROVE RoomsOfUser'
  <2>1. UNCHANGED history /\ rooms' = rooms
    BY <1>5 DEF Find
  <2>2. CASE UNCHANGED answer
    BY <2>1, <2>2, <1>4
  <2>3. CASE /\ Version(Latest)[For[c]] # <<>>
             /\ answer' = [answer EXCEPT ![c] = Chosen(Version(Latest)[For[c]])]
    BY <2>1, <2>3, <1>3, FoundRoom DEF RoomsOfUser, TypeOK
  <2> QED
    BY <1>5, <2>2, <2>3 DEF Find
<1>6. ASSUME NEW c \in Calls, WriteFails(c) PROVE RoomsOfUser'
  <2>1. c \in rooms /\ rooms' = rooms /\ UNCHANGED history /\ answer' = [answer EXCEPT ![c] = c]
    BY <1>6 DEF WriteFails, Places
  <2> QED
    BY <2>1, <1>3 DEF RoomsOfUser, TypeOK
<1>7. ASSUME NEW c \in Calls,
             \/ FindFails(c) \/ Create(c) \/ CreateFails(c)
             \/ Reread(c) \/ RereadFails(c) \/ Abandon(c)
      PROVE  RoomsOfUser'
  BY <1>7, <1>4 DEF FindFails, Create, CreateFails, Reread, RereadFails, Abandon
<1>8. CASE UNCHANGED vars
  BY <1>8, <1>4 DEF vars
<1> QED
  BY <1>1, <1>2, <1>5, <1>6, <1>7, <1>8, Steps

\* A call that found nothing looked at a version that lists nothing for its user,
\* so it is none of those that FirstRoomStays speaks of.
LEMMA FirstStep == IInv /\ [Next]_vars => FirstRoomStays'
<1> SUFFICES ASSUME TypeOK, TypeOK', LossExplained, FirstRoomStays, [Next]_vars,
                    NEW d \in Calls, NEW i \in DOMAIN history',
                    pc'[d] \notin {"find", "failed", "gone"},
                    i <= looked'[d], Unbroken(i, looked[d])',
                    history'[i].value[For[d]] # <<>>
             PROVE  pc'[d] = "done" /\ answer'[d] = history'[i].value[For[d]][1]
  BY TypeStep DEF IInv, FirstRoomStays
<1> USE DEF Goto
<1>1. Latest \in Nat /\ DOMAIN history = 1 .. Latest /\ For[d] \in Users
  BY CallsAssumption DEF TypeOK, Latest
<1>2. ASSUME UNCHANGED looked[d], pc[d] \notin {"find", "failed", "gone"},
             DOMAIN history \subseteq DOMAIN history',
             \A k \in DOMAIN history : history'[k] = history[k]
      PROVE  pc[d] = "done" /\ answer[d] = history'[i].value[For[d]][1]
  <2>1. looked[d] \in 0 .. Latest
    BY DEF TypeOK
  <2>2. i \in DOMAIN history'  /\ i <= looked[d]
    BY <1>2
  <2>3. i \in DOMAIN history /\ history'[i] = history[i]
    <3> DEFINE V == [by : Calls, base : Nat, value : MDirect]
    <3>0. history' \in Seq(V)
      BY DEF TypeOK, MDirect
    <3> HIDE DEF V
    <3>1. i \in Nat /\ 1 <= i
      BY <3>0
    <3>2. looked[d] \in Nat /\ looked[d] <= Latest
      BY <1>1, <2>1
    <3>3. i \in 1 .. Latest
      BY <1>1, <2>2, <3>1, <3>2
    <3> QED
      BY <1>1, <1>2, <3>3
  <2>4. Unbroken(i, looked[d])
    BY <1>2 DEF Unbroken
  <2> QED
    BY <1>2, <2>2, <2>3, <2>4 DEF FirstRoomStays
<1>3. ASSUME NEW c \in Calls, Write(c) \/ Land(c)
      PROVE  pc'[d] = "done" /\ answer'[d] = history'[i].value[For[d]][1]
  <2>1. Put(c) /\ looked' = looked
    BY <1>3 DEF Write, Land
  <2>2. CASE pc' = pc /\ answer' = answer
    BY <2>1, <2>2, <1>2, PutGrows
  <2>3. CASE Write(c)
    <3>1. pc[d] \notin {"find", "failed", "gone"}
      BY <2>3 DEF Write, TypeOK
    <3>2. pc[d] = "done" /\ answer[d] = history'[i].value[For[d]][1]
      BY <2>1, <3>1, <1>2, PutGrows
    <3>3. d # c
      BY <2>3, <3>2 DEF Write
    <3> QED
      BY <2>3, <3>2, <3>3 DEF Write, TypeOK
  <2> QED
    BY <1>3, <2>2, <2>3 DEF Land
<1>4. ASSUME NEW c \in Calls, Find(c), c = d
      PROVE  pc'[d] = "done" /\ answer'[d] = history'[i].value[For[d]][1]
  <2>1. history' = history /\ looked'[d] = Latest
    BY <1>4 DEF Find, TypeOK
  <2>2. i \in DOMAIN history /\ Latest \in DOMAIN history /\ i <= Latest
    BY <1>1, <2>1
  <2>3. Begins(history[i].value[For[d]], history[Latest].value[For[d]])
    BY <1>1, <2>1, <2>2 DEF LossExplained, Unbroken
  <2>4. history[i].value[For[d]] \in Seq(Calls)
    BY <1>1, <2>2, VersionType DEF Version, MDirect
  <2>5. 1 \in DOMAIN history[i].value[For[d]]
    BY <2>1, <2>4
  <2>6. /\ Version(Latest) = history[Latest].value
        /\ 1 \in DOMAIN history[Latest].value[For[d]]
        /\ history[Latest].value[For[d]][1] = history[i].value[For[d]][1]
    BY <1>1, <2>2, <2>3, <2>5 DEF Begins, Version
  <2>7. Version(Latest)[For[d]] # <<>>
    BY <2>6
  <2> QED
    BY <1>4, <2>1, <2>6, <2>7 DEF Find, Chosen, TypeOK
<1>5. ASSUME NEW c \in Calls,
             \/ Find(c) /\ c # d
             \/ FindFails(c) \/ Create(c) \/ CreateFails(c) \/ Reread(c) \/ RereadFails(c)
             \/ WriteFails(c) \/ Abandon(c)
      PROVE  pc'[d] = "done" /\ answer'[d] = history'[i].value[For[d]][1]
  <2>1. history' = history /\ looked'[d] = looked[d] /\ pc[d] \notin {"find", "failed", "gone"}
    BY <1>5 DEF Find, FindFails, Create, CreateFails, Reread, RereadFails, WriteFails, Abandon,
                TypeOK
  <2>2. pc[d] = "done" /\ answer[d] = history'[i].value[For[d]][1]
    BY <1>2, <2>1
  <2>3. UNCHANGED <<pc[d], answer[d]>>
    BY <1>5, <2>2 DEF Find, FindFails, Create, CreateFails, Reread, RereadFails, WriteFails,
                      Abandon, TypeOK
  <2> QED
    BY <2>2, <2>3
<1>6. CASE UNCHANGED vars
  BY <1>6, <1>2 DEF vars
<1> QED
  BY <1>3, <1>4, <1>5, <1>6, Steps

LEMMA NextIInv == IInv /\ [Next]_vars => IInv'
  BY TypeStep, PlacesStep, RoomsStep, LossStep, FirstStep DEF IInv

\* in every reachable state the variables have their types and the invariants hold
THEOREM Invariance == Spec => []IInv
  BY InitIInv, NextIInv, PTL DEF Spec

\* The variables have their declared types, however calls interleave.
THEOREM TypeCorrect == Spec => []TypeOK
  BY Invariance, PTL DEF IInv

\* resolveDMRoom never returns or records a room of another user.
THEOREM RoomsOfUserCorrect == Spec => []RoomsOfUser
  BY Invariance, PTL DEF IInv

\* m.direct loses a room only to a write built on an older version or a failed read.
THEOREM LossExplainedCorrect == Spec => []LossExplained
  BY Invariance, PTL DEF IInv

\* Without such a write, all who look find the first room that was recorded.
THEOREM FirstRoomStaysCorrect == Spec => []FirstRoomStays
  BY Invariance, PTL DEF IInv
=============================================================================
