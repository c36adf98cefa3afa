--------------------------- MODULE PresenceProofs ---------------------------
(***************************************************************************)
(* Proofs that a visitor leaves the map only if its tag was recorded as    *)
(* off while the sweep asked for it, and that the tags are those of        *)
(* TagLifecycle, for any visitors and rooms.                               *)
(***************************************************************************)
EXTENDS Presence, FiniteSetTheorems, TLAPS

(***************************************************************************)
(* An answer that reads "offline" was read from the recorded status while  *)
(* the query was out. That needs the history to be up to date while it is: *)
(* it must hold of a query still out that would read "offline" now.        *)
(***************************************************************************)
OffWasRecorded ==
  \A u \in User :
    \/ sweep[u] = "offline"
    \/ sweep[u] = "asked" /\ status[u] = "offline"
    => wasOff[u]

IInv == TypeOK /\ OffWasRecorded

-----------------------------------------------------------------------------
\* The counts of updateRoomOccupancy are between 0 and the number of visitors.
LEMMA CountedType == Counted \in [Room -> 0..Cardinality(User)]
  <1>1. ASSUME NEW r \in Room
        PROVE  Cardinality({u \in User : loc[u] = r}) \in 0..Cardinality(User)
    <2> DEFINE S == {u \in User : loc[u] = r}
    <2>1. IsFiniteSet(User) /\ S \subseteq User
      BY PresenceAssumption
    <2>2. IsFiniteSet(S) /\ Cardinality(S) <= Cardinality(User)
      BY <2>1, FS_Subset
    <2>3. Cardinality(S) \in Nat /\ Cardinality(User) \in Nat
      BY <2>1, <2>2, FS_CardinalityType
    <2> QED
      BY <2>2, <2>3
  <1> QED
    BY <1>1 DEF Counted

LEMMA InitIInv == Init => IInv
  <1> SUFFICES ASSUME Init PROVE IInv
    OBVIOUS
  <1>1. 0 \in 0..Cardinality(User)
    BY PresenceAssumption, FS_CardinalityType
  <1>2. TypeOK
    BY <1>1 DEF Init, TypeOK, None
  <1> QED
    BY <1>2 DEF Init, IInv, OffWasRecorded

LEMMA TypeStep == TypeOK /\ [Next]_vars => TypeOK'
  <1> SUFFICES ASSUME TypeOK, [Next]_vars PROVE TypeOK'
    OBVIOUS
  <1> USE DEF TypeOK, tags, net, query
  <1>1. ASSUME NEW u \in User, Tag(u) PROVE TypeOK'
    <2>1. CASE TagOnline(u)
      BY <2>1 DEF TagOnline
    <2>2. CASE TagOffline(u)
      BY <2>2 DEF TagOffline
    <2>3. CASE TagRange(u)
      BY <2>3 DEF TagRange
    <2>4. CASE TagCharge(u)
      BY <2>4 DEF TagCharge
    <2>5. CASE TagSleep(u)
      BY <2>5 DEF TagSleep
    <2>6. CASE TagWake(u)
      <3>1. phase' \in [User -> {"touring", "stopping", "asleep"}]
        BY <2>6 DEF TagWake
      <3>2. stopped' \in [User -> SUBSET Worker]
        BY <2>6 DEF TagWake
      <3>3. farewell' \in [User -> BOOLEAN]
        BY <2>6 DEF TagWake
      <3> QED
        BY <2>6, <3>1, <3>2, <3>3 DEF TagWake
    <2>7. ASSUME NEW w \in Worker, TagStop(u, w) PROVE TypeOK'
      BY <2>7 DEF TagStop
    <2> QED
      BY <1>1, <2>1, <2>2, <2>3, <2>4, <2>5, <2>6, <2>7 DEF Tag
  <1>2. ASSUME NEW u \in User, Lose(u) PROVE TypeOK'
    <2>1. ASSUME NEW m \in connNet[u], connNet' = [connNet EXCEPT ![u] = connNet[u] \ {m}]
          PROVE  connNet' \in [User -> SUBSET {"online", "offline"}]
      BY <2>1
    <2>2. connNet' \in [User -> SUBSET {"online", "offline"}]
      BY <1>2, <2>1 DEF Lose
    <2>3. uwbNet' \in [User -> Place \cup {Absent}]
      BY <1>2 DEF Lose
    <2> QED
      BY <1>2, <2>2, <2>3 DEF Lose
  <1>3. ASSUME NEW u \in User, NEW m \in {"online", "offline"}, ConnectionMessage(u, m)
        PROVE  TypeOK'
    BY <1>3 DEF ConnectionMessage
  <1>4. ASSUME NEW u \in User, UwbMessage(u) PROVE TypeOK'
    BY <1>4 DEF UwbMessage
  <1>5. CASE SweepTick
    <2>1. \A u \in User : (loc[u] # Absent /\ status[u] = "offline") \in BOOLEAN
      OBVIOUS
    <2>2. wasOff' = [u \in User |-> loc[u] # Absent /\ status[u] = "offline"]
      BY <1>5 DEF SweepTick
    <2>3. wasOff' \in [User -> BOOLEAN]
      BY <2>1, <2>2, Zenon
    <2>4. sweep' \in [User -> {"idle", "asked", "none", "online", "offline"}]
      BY <1>5 DEF SweepTick
    <2> QED
      BY <1>5, <2>3, <2>4 DEF SweepTick
  <1>6. ASSUME NEW u \in User, SweepAnswer(u) PROVE TypeOK'
    BY <1>6 DEF SweepAnswer
  <1>7. ASSUME NEW u \in User, SweepFails(u) PROVE TypeOK'
    BY <1>7 DEF SweepFails
  <1>8. ASSUME NEW u \in User, SweepResume(u) PROVE TypeOK'
    <2>1. CASE sweep[u] = "offline"
      <3>1. (stays[u] # None) \in BOOLEAN
        OBVIOUS
      <3>2. stays' = [stays EXCEPT ![u].gap = stays[u] # None]
        BY <1>8, <2>1 DEF SweepResume
      <3>3. stays' \in [User -> [room : Place \cup {Absent}, gap : BOOLEAN]]
        BY <3>1, <3>2
      <3> QED
        BY <1>8, <2>1, <3>3 DEF SweepResume
    <2>2. CASE sweep[u] # "offline"
      BY <1>8, <2>2 DEF SweepResume
    <2> QED
      BY <2>1, <2>2
  <1>9. CASE GraphTick
    BY <1>9, CountedType DEF GraphTick
  <1>10. CASE StayTick
    <2>1. stays' \in [User -> [room : Place \cup {Absent}, gap : BOOLEAN]]
      BY <1>10 DEF StayTick
    <2> QED
      BY <1>10, <2>1, CountedType DEF StayTick
  <1>11. CASE UNCHANGED vars
    BY <1>11 DEF vars
  <1> QED
    BY <1>1, <1>2, <1>3, <1>4, <1>5, <1>6, <1>7, <1>8, <1>9, <1>10, <1>11
    DEF Next, Server

LEMMA StepIInv == IInv /\ [Next]_vars => IInv'
  <1> SUFFICES ASSUME IInv, [Next]_vars PROVE OffWasRecorded'
    BY TypeStep DEF IInv
  <1> USE DEF IInv, TypeOK, OffWasRecorded, tags, net, query
  <1>1. ASSUME NEW u \in User, Tag(u) \/ Lose(u) PROVE OffWasRecorded'
    BY <1>1 DEF Tag, Lose, TagOnline, TagOffline, TagRange, TagCharge, TagSleep,
       TagWake, TagStop
  <1>2. ASSUME NEW u \in User, NEW m \in {"online", "offline"}, ConnectionMessage(u, m)
        PROVE  OffWasRecorded'
    BY <1>2 DEF ConnectionMessage
  <1>3. ASSUME NEW u \in User, SweepAnswer(u) PROVE OffWasRecorded'
    BY <1>3 DEF SweepAnswer
  <1>4. ASSUME NEW u \in User, UwbMessage(u) \/ SweepFails(u) \/ SweepResume(u)
        PROVE  OffWasRecorded'
    BY <1>4 DEF UwbMessage, SweepFails, SweepResume
  <1>5. CASE SweepTick
    <2>1. ASSUME NEW u \in User
          PROVE  /\ sweep'[u] # "offline"
                 /\ sweep'[u] = "asked" => loc[u] # Absent
                 /\ wasOff'[u] = (loc[u] # Absent /\ status[u] = "offline")
      BY <1>5 DEF SweepTick
    <2> QED
      BY <1>5, <2>1 DEF SweepTick
  <1>6. CASE GraphTick \/ StayTick \/ UNCHANGED vars
    BY <1>6 DEF GraphTick, StayTick, vars
  <1> QED
    BY <1>1, <1>2, <1>3, <1>4, <1>5, <1>6 DEF Next, Server

\* Only the sweep, after an answer that reads "offline", takes a visitor off.
LEMMA DroppedBySweep ==
  ASSUME TypeOK, [Next]_vars, NEW u \in User, Dropped(u)
  PROVE  sweep[u] = "offline"
  <1> USE DEF TypeOK, Dropped, tags, net, query
  <1>1. ASSUME NEW v \in User, Tag(v) \/ Lose(v) PROVE FALSE
    BY <1>1 DEF Tag, Lose, TagOnline, TagOffline, TagRange, TagCharge, TagSleep,
       TagWake, TagStop
  <1>2. ASSUME NEW v \in User, NEW m \in {"online", "offline"}, ConnectionMessage(v, m)
        PROVE  FALSE
    BY <1>2 DEF ConnectionMessage
  <1>3. ASSUME NEW v \in User, UwbMessage(v) PROVE FALSE
    BY <1>3 DEF UwbMessage
  <1>4. ASSUME NEW v \in User, SweepAnswer(v) \/ SweepFails(v) PROVE FALSE
    BY <1>4 DEF SweepAnswer, SweepFails
  <1>5. CASE SweepTick \/ GraphTick \/ StayTick \/ UNCHANGED vars
    BY <1>5 DEF SweepTick, GraphTick, StayTick, vars
  <1>6. ASSUME NEW v \in User, SweepResume(v) PROVE sweep[u] = "offline"
    BY <1>6 DEF SweepResume
  <1> QED
    BY <1>1, <1>2, <1>3, <1>4, <1>5, <1>6 DEF Next, Server

-----------------------------------------------------------------------------
\* The types of the server's maps, for any number of visitors and rooms; no
\* room ever counts more visitors than there are.
THEOREM TypeCorrect == Spec => []TypeOK
  <1>1. Init => TypeOK
    BY InitIInv DEF IInv
  <1> QED
    BY <1>1, TypeStep, PTL DEF Spec

\* The sweep of index.js drops only visitors whose tag was recorded "offline"
\* while its query was out, whatever queries fail or come back empty.
THEOREM OnlyOffDropped == Spec => OnlyOffIsDropped
  <1>1. IInv /\ [Next]_vars => [\A u \in User : Dropped(u) => wasOff[u]]_vars
    BY DroppedBySweep DEF IInv, OffWasRecorded
  <1> QED
    BY <1>1, InitIInv, StepIInv, PTL DEF Spec, OnlyOffIsDropped

-----------------------------------------------------------------------------
\* The connection task stops only after it has sent "offline".
StopsAfterFarewell == \A u \in User : "connection" \in stopped[u] => farewell[u]

\* Only a visitor's tag changes where it is in its life.
LEMMA OthersLeaveTag ==
  ASSUME TypeOK, [Next]_vars, NEW u \in User, ~Tag(u)
  PROVE  UNCHANGED <<phase[u], stopped[u], farewell[u]>>
  <1> USE DEF TypeOK, tags, net, query
  <1>1. ASSUME NEW v \in User, Tag(v), v # u
        PROVE  UNCHANGED <<phase[u], stopped[u], farewell[u]>>
    BY <1>1 DEF Tag, TagOnline, TagOffline, TagRange, TagCharge, TagSleep, TagWake,
       TagStop
  <1>2. ASSUME NEW v \in User, Lose(v)
        PROVE  UNCHANGED tags
    BY <1>2 DEF Lose
  <1>3. ASSUME NEW v \in User, NEW m \in {"online", "offline"}, ConnectionMessage(v, m)
        PROVE  UNCHANGED tags
    BY <1>3 DEF ConnectionMessage
  <1>4. ASSUME NEW v \in User,
               UwbMessage(v) \/ SweepAnswer(v) \/ SweepFails(v) \/ SweepResume(v)
        PROVE  UNCHANGED tags
    BY <1>4 DEF UwbMessage, SweepAnswer, SweepFails, SweepResume
  <1>5. CASE SweepTick \/ GraphTick \/ StayTick \/ UNCHANGED vars
    BY <1>5 DEF SweepTick, GraphTick, StayTick, vars
  <1>6. UNCHANGED tags => UNCHANGED <<phase[u], stopped[u], farewell[u]>>
    OBVIOUS
  <1> QED
    BY <1>1, <1>2, <1>3, <1>4, <1>5, <1>6 DEF Next, Server

\* Being silent after the farewell is inductive.
LEMMA FarewellStep ==
  TypeOK /\ StopsAfterFarewell /\ [Next]_vars => StopsAfterFarewell'
  <1> SUFFICES ASSUME TypeOK, StopsAfterFarewell, [Next]_vars, NEW u \in User
               PROVE  "connection" \in stopped'[u] => farewell'[u]
    BY DEF StopsAfterFarewell
  <1> USE DEF TypeOK, StopsAfterFarewell, tags, net, query
  <1>1. CASE Tag(u)
    BY <1>1 DEF Tag, TagOnline, TagOffline, TagRange, TagCharge, TagSleep, TagWake,
       TagStop
  <1>2. CASE ~Tag(u)
    BY <1>2, OthersLeaveTag
  <1> QED
    BY <1>1, <1>2

\* Whatever a visitor's tag does is a step of its life cycle.
LEMMA TagLives ==
  ASSUME TypeOK, StopsAfterFarewell, NEW u \in User, Tag(u)
  PROVE  Life(u)!Next \/ UNCHANGED <<phase[u], stopped[u], farewell[u]>>
  <1> USE DEF TypeOK, tags, net, query
  <1>1. CASE TagOnline(u) \/ TagRange(u)
    BY <1>1 DEF TagOnline, TagRange
  <1>2. CASE TagOffline(u)
    <2>1. Life(u)!SayFarewell
      BY <1>2 DEF TagOffline, Talking, Life!SayFarewell
    <2> QED
      BY <2>1 DEF Life!Next
  <1>3. CASE TagCharge(u)
    <2>1. Life(u)!RequestSleep
      BY <1>3 DEF TagCharge, Life!RequestSleep
    <2> QED
      BY <2>1 DEF Life!Next
  <1>4. CASE TagSleep(u)
    <2>1. Life(u)!FallAsleep
      BY <1>4 DEF TagSleep, Life!FallAsleep, StopsAfterFarewell, Worker
    <2> QED
      BY <2>1 DEF Life!Next
  <1>5. CASE TagWake(u)
    <2>1. Life(u)!WakeUp
      BY <1>5 DEF TagWake, Life!WakeUp
    <2> QED
      BY <2>1 DEF Life!Next
  <1>6. ASSUME NEW w \in Worker, TagStop(u, w)
        PROVE  Life(u)!Next
    <2>1. Life(u)!Stop(w)
      BY <1>6 DEF TagStop, Life!Stop
    <2> QED
      BY <2>1 DEF Life!Next
  <1> QED
    BY <1>1, <1>2, <1>3, <1>4, <1>5, <1>6 DEF Tag

\* The tags the server talks to behave as TagLifecycle promises, which is what
\* TourTagProofs shows of the firmware: for any number of visitors.
THEOREM TagsLive == Spec => TagsAreLifecycles
  <1>1. Init => StopsAfterFarewell /\ \A u \in User : Life(u)!Init
    BY DEF Init, StopsAfterFarewell, Life!Init
  <1>2. TypeOK /\ StopsAfterFarewell /\ [Next]_vars =>
          [\A u \in User : Life(u)!Next
                           \/ UNCHANGED <<phase[u], stopped[u], farewell[u]>>]_vars
    <2> SUFFICES ASSUME TypeOK, StopsAfterFarewell, [Next]_vars, NEW u \in User
                 PROVE  Life(u)!Next \/ UNCHANGED <<phase[u], stopped[u], farewell[u]>>
      OBVIOUS
    <2> QED
      BY TagLives, OthersLeaveTag
  <1> QED
    BY <1>1, <1>2, InitIInv, TypeStep, FarewellStep, PTL DEF Spec, TagsAreLifecycles, IInv
=============================================================================
