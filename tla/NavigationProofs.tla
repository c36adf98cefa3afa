-------------------------- MODULE NavigationProofs --------------------------
(***************************************************************************)
(* Proof that no tag is forgotten in the fast mode, for every set of       *)
(* visitors and rooms and any number of navigations.                       *)
(***************************************************************************)
EXTENDS Navigation, TLAPS

(***************************************************************************)
(* FastHasReason is not inductive: a sleeping tag that were fast could let *)
(* its "slow" pass, and a tracker that ends for a visitor without a device *)
(* sends nothing.                                                          *)
(***************************************************************************)
AsleepIsSlow  == \A u \in User : ~on[u] => mode[u] = "slow"
UnknownIsSlow == \A u \in User : ~device[u] => mode[u] = "slow" /\ toTag[u] = <<>>

IInv == TypeOK /\ AsleepIsSlow /\ UnknownIsSlow /\ FastHasReason

-----------------------------------------------------------------------------
\* Taking one message out of the queue leaves messages, one fewer.
LEMMA RemovedType ==
  ASSUME NEW S, NEW s \in Seq(S), NEW i \in DOMAIN s
  PROVE  /\ RemoveAt(s, i) \in Seq(S)
         /\ Len(RemoveAt(s, i)) = Len(s) - 1
  <1>1. i \in 1..Len(s)
    OBVIOUS
  <1>2. SubSeq(s, 1, i - 1) \in Seq(S) /\ Len(SubSeq(s, 1, i - 1)) = i - 1
    BY <1>1
  <1>3. SubSeq(s, i + 1, Len(s)) \in Seq(S) /\ Len(SubSeq(s, i + 1, Len(s))) = Len(s) - i
    BY <1>1
  <1> DEFINE a == SubSeq(s, 1, i - 1)
             b == SubSeq(s, i + 1, Len(s))
  <1>4. a \o b \in Seq(S) /\ Len(a \o b) = Len(a) + Len(b)
    <2> HIDE DEF a, b
    <2>1. a \in Seq(S) /\ b \in Seq(S)
      BY <1>2, <1>3 DEF a, b
    <2> QED
      BY <2>1
  <1>5. RemoveAt(s, i) = a \o b
    BY DEF RemoveAt
  <1>6. Len(a) = i - 1 /\ Len(b) = Len(s) - i /\ i \in Nat /\ Len(s) \in Nat
    BY <1>1, <1>2, <1>3
  <1> HIDE DEF a, b
  <1>7. Len(a) + Len(b) = Len(s) - 1
    BY <1>6
  <1> QED
    BY <1>4, <1>5, <1>7

\* Taking the first of several leaves the last one in place.
LEMMA RemovedLast ==
  ASSUME NEW S, NEW s \in Seq(S), Len(s) > 1
  PROVE  Last(RemoveAt(s, 1)) = Last(s)
  <1> DEFINE t == SubSeq(s, 2, Len(s))
  <1>1. SubSeq(s, 1, 0) = <<>>
    OBVIOUS
  <1>2. t \in Seq(S) /\ Len(t) = Len(s) - 1 /\ t[Len(s) - 1] = s[Len(s)]
    OBVIOUS
  <1>3. RemoveAt(s, 1) = <<>> \o t
    BY <1>1 DEF RemoveAt
  <1>4. <<>> \o t = t
    BY <1>2
  <1> QED
    BY <1>2, <1>3, <1>4 DEF Last

\* What is sent last is what counts in the end.
LEMMA AppendedLast ==
  ASSUME NEW S, NEW s \in Seq(S), NEW m \in S
  PROVE  Append(s, m) \in Seq(S) /\ Append(s, m) # <<>> /\ Last(Append(s, m)) = m
  BY DEF Last

-----------------------------------------------------------------------------
LEMMA InitIInv == Init => IInv
  BY NavigationAssumption
  DEF Init, IInv, TypeOK, AsleepIsSlow, UnknownIsSlow, FastHasReason, Settled,
      Navigating, Modes, Place

LEMMA LocatedType == TypeOK => \A u \in User : Located(u) \in Place
  BY NavigationAssumption DEF TypeOK, Located, Place

LEMMA SendType ==
  ASSUME TypeOK, NEW u \in User, NEW m \in Modes, Send(u, m)
  PROVE  toTag' \in [User -> Seq(Modes)]
  BY DEF TypeOK, Send, Modes

LEMMA NavigateType ==
  ASSUME TypeOK, NEW u \in User, NEW e \in Room, Navigate(u, e), UNCHANGED up
  PROVE  TypeOK'
  <1>1. toTag' \in [User -> Seq(Modes)]
    BY SendType DEF Navigate, Modes
  <1>2. trackers' \in [User -> [Room -> Nat]]
    BY DEF Navigate, TypeOK
  <1> QED
    BY <1>1, <1>2, NavigationAssumption DEF Navigate, TypeOK, tag

LEMMA TypeStep == TypeOK /\ [Next]_vars => TypeOK'
  <1> SUFFICES ASSUME TypeOK, [Next]_vars PROVE TypeOK'
    OBVIOUS
  <1>1. ASSUME NEW u \in User, UwbMessage(u) PROVE TypeOK'
    BY <1>1 DEF UwbMessage, TypeOK, tag, Place
  <1>2. ASSUME NEW u \in User, Sweep(u) PROVE TypeOK'
    BY <1>2 DEF Sweep, TypeOK, tag
  <1>3. ASSUME NEW u \in User, PhonePoll(u) PROVE TypeOK'
    BY <1>3, LocatedType DEF PhonePoll, TypeOK, tag, server
  <1>4. ASSUME NEW u \in User, TagReceive(u) PROVE TypeOK'
    <2>1. PICK i \in DOMAIN toTag[u] :
            /\ toTag' = [toTag EXCEPT ![u] = RemoveAt(@, i)]
            /\ mode' = [mode EXCEPT ![u] = IF on[u] THEN toTag[u][i] ELSE @]
      BY <1>4 DEF TagReceive
    <2>2. toTag[u] \in Seq(Modes) /\ toTag[u][i] \in Modes
      BY DEF TypeOK
    <2>3. RemoveAt(toTag[u], i) \in Seq(Modes)
      BY <2>2, RemovedType
    <2> QED
      BY <1>4, <2>1, <2>2, <2>3 DEF TagReceive, TypeOK, server
  <1>5. ASSUME NEW u \in User, Lose(u) PROVE TypeOK'
    <2>1. PICK i \in DOMAIN toTag[u] : toTag' = [toTag EXCEPT ![u] = RemoveAt(@, i)]
      BY <1>5 DEF Lose
    <2>2. RemoveAt(toTag[u], i) \in Seq(Modes)
      BY RemovedType DEF TypeOK
    <2> QED
      BY <1>5, <2>1, <2>2 DEF Lose, TypeOK, server, tag
  <1>6. ASSUME NEW u \in User, TagSleep(u) PROVE TypeOK'
    BY <1>6 DEF TagSleep, TypeOK, server, Modes
  <1>7. ASSUME NEW u \in User, TagWake(u) PROVE TypeOK'
    BY <1>7 DEF TagWake, TypeOK, server
  <1>8. ASSUME NEW u \in User, NEW e \in Room, Path(u, e) PROVE TypeOK'
    BY <1>8, NavigateType DEF Path
  <1>9. ASSUME NEW u \in User, NEW e \in Room, TspPath(u, e) PROVE TypeOK'
    <2>1. CASE Located(u) = NoRoom
      BY <1>9, <2>1 DEF TspPath, TypeOK, tag
    <2>2. CASE Located(u) # NoRoom
      BY <1>9, <2>2, NavigateType DEF TspPath
    <2> QED
      BY <2>1, <2>2
  <1>10. ASSUME NEW u \in User, NEW e \in Room, TrackerFires(u, e) PROVE TypeOK'
    <2>1. toTag' \in [User -> Seq(Modes)]
      BY <1>10, SendType DEF TrackerFires, Modes
    <2>2. trackers' \in [User -> [Room -> Nat]]
      BY <1>10 DEF TrackerFires, TypeOK
    <2> QED
      BY <1>10, <2>1, <2>2 DEF TrackerFires, TypeOK, tag
  <1>11. CASE UNCHANGED vars
    BY <1>11 DEF vars, TypeOK
  <1> QED
    BY <1>1, <1>2, <1>3, <1>4, <1>5, <1>6, <1>7, <1>8, <1>9, <1>10, <1>11 DEF Next

-----------------------------------------------------------------------------
\* Starting a navigation gives the fast message its tracker.
LEMMA NavigateKeeps ==
  ASSUME IInv, NEW u \in User, NEW e \in Room, Navigate(u, e)
  PROVE  AsleepIsSlow' /\ UnknownIsSlow' /\ FastHasReason'
  <1> USE DEF IInv
  <1>1. AsleepIsSlow'
    BY DEF Navigate, AsleepIsSlow, tag
  <1>2. UnknownIsSlow'
    BY DEF Navigate, Send, UnknownIsSlow, tag, TypeOK
  <1>3. FastHasReason'
    <2> SUFFICES ASSUME NEW v \in User, Settled(v)' = "fast", ~disturbed'[v]
                 PROVE  Navigating(v)'
      BY DEF FastHasReason
    <2>1. CASE v = u
      <3>1. trackers'[u][e] = trackers[u][e] + 1 /\ trackers[u][e] \in Nat
        BY DEF Navigate, TypeOK
      <3> QED
        BY <2>1, <3>1 DEF Navigating
    <2>2. CASE v # u
      <3>1. /\ Settled(v)' = Settled(v)
            /\ trackers'[v] = trackers[v]
            /\ ~disturbed[v]
        BY <2>2 DEF Navigate, Send, Settled, TypeOK, tag
      <3> QED
        BY <3>1 DEF FastHasReason, Navigating
    <2> QED
      BY <2>1, <2>2
  <1> QED
    BY <1>1, <1>2, <1>3

LEMMA StepIInv == IInv /\ [Next]_vars => IInv'
  <1> SUFFICES ASSUME IInv, [Next]_vars
               PROVE  AsleepIsSlow' /\ UnknownIsSlow' /\ FastHasReason'
    BY TypeStep DEF IInv
  <1> USE DEF IInv
  <1>1. ASSUME NEW u \in User, UwbMessage(u) \/ Sweep(u) \/ PhonePoll(u)
        PROVE  AsleepIsSlow' /\ UnknownIsSlow' /\ FastHasReason'
    BY <1>1 DEF UwbMessage, Sweep, PhonePoll, AsleepIsSlow, UnknownIsSlow,
       FastHasReason, Settled, Navigating, TypeOK, tag, server
  <1>2. ASSUME NEW u \in User, TagReceive(u)
        PROVE  AsleepIsSlow' /\ UnknownIsSlow' /\ FastHasReason'
    <2>1. PICK i \in DOMAIN toTag[u] :
            /\ toTag' = [toTag EXCEPT ![u] = RemoveAt(@, i)]
            /\ disturbed' = [disturbed EXCEPT ![u] = @ \/ i # 1]
            /\ mode' = [mode EXCEPT ![u] = IF on[u] THEN toTag[u][i] ELSE @]
      BY <1>2 DEF TagReceive
    <2>2. device' = device /\ trackers' = trackers /\ on' = on
      BY <1>2 DEF TagReceive, server
    <2>3. toTag[u] \in Seq(Modes) /\ toTag[u] # <<>> /\ device[u]
      BY DEF TypeOK, UnknownIsSlow
    <2>4. AsleepIsSlow'
      BY <2>1, <2>2 DEF AsleepIsSlow, TypeOK
    <2>5. UnknownIsSlow'
      BY <2>1, <2>2, <2>3 DEF UnknownIsSlow, TypeOK
    <2>6. FastHasReason'
      <3> SUFFICES ASSUME NEW v \in User, Settled(v)' = "fast", ~disturbed'[v]
                   PROVE  Navigating(v)
        BY <2>2 DEF FastHasReason, Navigating
      <3>0. ~disturbed[v] /\ (v = u => i = 1)
        <4>1. CASE v = u
          <5>1. disturbed'[u] = (disturbed[u] \/ i # 1)
            BY <2>1, Zenon DEF TypeOK
          <5> QED
            BY <4>1, <5>1, Zenon
        <4>2. CASE v # u
          BY <4>2, <2>1, Zenon DEF TypeOK
        <4> QED
          BY <4>1, <4>2
      <3>6. ASSUME v = u PROVE toTag'[u] = RemoveAt(toTag[u], 1)
        BY <3>0, <3>6, <2>1 DEF TypeOK
      <3>1. CASE v # u
        BY <3>0, <3>1, <2>1 DEF FastHasReason, Settled, TypeOK
      <3>2. CASE v = u /\ Len(toTag[u]) > 1
        <4> DEFINE t == RemoveAt(toTag[u], 1)
        <4>0. t \in Seq(Modes) /\ Len(t) = Len(toTag[u]) - 1
          <5>1. 1 \in DOMAIN toTag[u]
            BY <2>3, <3>2
          <5> QED
            BY <5>1, <2>3, RemovedType
        <4>1. toTag'[u] = t /\ t # <<>>
          <5> HIDE DEF t
          <5>1. toTag'[u] = t
            BY <3>6, <3>2 DEF t
          <5>2. Len(t) # 0
            BY <4>0, <3>2, <2>3
          <5> QED
            BY <5>1, <5>2
        <4>2. Settled(u)' = Last(toTag[u])
          BY <4>1, <2>3, <3>2, RemovedLast DEF Settled
        <4> QED
          BY <3>0, <4>2, <2>3, <3>2 DEF FastHasReason, Settled
      <3>3. CASE v = u /\ Len(toTag[u]) = 1
        <4>1. toTag'[u] = RemoveAt(toTag[u], 1) /\ Len(RemoveAt(toTag[u], 1)) = 0
          BY <3>6, <2>3, <3>3, RemovedType
        <4>2. toTag'[u] = <<>>
          BY <4>1, <2>1, <2>3, RemovedType
        <4>3. mode'[u] = "fast"
          BY <4>2, <3>3 DEF Settled
        <4>4. on[u] /\ toTag[u][1] = "fast"
          BY <3>0, <3>3, <4>3, <2>1 DEF AsleepIsSlow, TypeOK
        <4>5. Settled(u) = "fast"
          BY <4>4, <2>3, <3>3 DEF Settled, Last
        <4> QED
          BY <3>0, <3>3, <4>5 DEF FastHasReason
      <3>4. Len(toTag[u]) \in Nat /\ Len(toTag[u]) # 0
        BY <2>3
      <3>5. Len(toTag[u]) > 1 \/ Len(toTag[u]) = 1
        <4> DEFINE n == Len(toTag[u])
        <4>1. n \in Nat /\ n # 0
          BY <3>4
        <4> HIDE DEF n
        <4>2. n > 1 \/ n = 1
          BY <4>1
        <4> QED
          BY <4>2 DEF n
      <3> QED
        BY <3>1, <3>2, <3>3, <3>5
    <2> QED
      BY <2>4, <2>5, <2>6
  <1>3. ASSUME NEW u \in User, Lose(u)
        PROVE  AsleepIsSlow' /\ UnknownIsSlow' /\ FastHasReason'
    <2>1. PICK i \in DOMAIN toTag[u] : toTag' = [toTag EXCEPT ![u] = RemoveAt(@, i)]
      BY <1>3 DEF Lose
    <2>2. device[u]
      BY <2>1 DEF UnknownIsSlow, TypeOK
    <2>3. AsleepIsSlow' /\ UnknownIsSlow'
      BY <1>3, <2>1, <2>2 DEF Lose, AsleepIsSlow, UnknownIsSlow, TypeOK, server
    <2>4. disturbed'[u] = TRUE /\ \A v \in User : v # u => disturbed'[v] = disturbed[v]
      BY <1>3 DEF Lose, TypeOK
    <2>5. FastHasReason'
      BY <1>3, <2>1, <2>4 DEF Lose, FastHasReason, Settled, Navigating, TypeOK, server
    <2> QED
      BY <2>3, <2>5
  <1>4. ASSUME NEW u \in User, TagSleep(u) \/ TagWake(u)
        PROVE  AsleepIsSlow' /\ UnknownIsSlow' /\ FastHasReason'
    BY <1>4, ZenonT(60) DEF TagSleep, TagWake, AsleepIsSlow, UnknownIsSlow, FastHasReason,
       Settled, Navigating, TypeOK, server
  <1>5. ASSUME NEW u \in User, NEW e \in Room, Path(u, e)
        PROVE  AsleepIsSlow' /\ UnknownIsSlow' /\ FastHasReason'
    BY <1>5, NavigateKeeps DEF Path
  <1>6. ASSUME NEW u \in User, NEW e \in Room, TspPath(u, e)
        PROVE  AsleepIsSlow' /\ UnknownIsSlow' /\ FastHasReason'
    <2>1. CASE Located(u) = NoRoom
      BY <1>6, <2>1 DEF TspPath, AsleepIsSlow, UnknownIsSlow, FastHasReason,
         Settled, Navigating, tag
    <2>2. CASE Located(u) # NoRoom
      BY <1>6, <2>2, NavigateKeeps DEF TspPath
    <2> QED
      BY <2>1, <2>2
  <1>7. ASSUME NEW u \in User, NEW e \in Room, TrackerFires(u, e)
        PROVE  AsleepIsSlow' /\ UnknownIsSlow' /\ FastHasReason'
    <2>1. AsleepIsSlow'
      BY <1>7 DEF TrackerFires, AsleepIsSlow, tag
    <2>2. UnknownIsSlow'
      BY <1>7 DEF TrackerFires, Send, UnknownIsSlow, tag, TypeOK
    <2>3. FastHasReason'
      <3> SUFFICES ASSUME NEW v \in User, Settled(v)' = "fast", ~disturbed'[v]
                   PROVE  Navigating(v)'
        BY DEF FastHasReason
      <3>1. CASE v # u
        BY <3>1, <1>7 DEF TrackerFires, Send, FastHasReason, Settled, Navigating,
           TypeOK, tag
      <3>2. CASE v = u /\ ~device[u]
        BY <3>2, <1>7 DEF TrackerFires, Send, UnknownIsSlow, Settled, tag
      <3>3. CASE v = u /\ device[u]
        <4>1. toTag'[u] = Append(toTag[u], "slow") /\ toTag[u] \in Seq(Modes)
          BY <3>3, <1>7 DEF TrackerFires, Send, TypeOK
        <4>2. Settled(u)' = "slow"
          BY <4>1, AppendedLast DEF Settled, Modes
        <4> QED
          BY <4>2, <3>3
      <3> QED
        BY <3>1, <3>2, <3>3
    <2> QED
      BY <2>1, <2>2, <2>3
  <1>8. CASE UNCHANGED vars
    BY <1>8 DEF vars, AsleepIsSlow, UnknownIsSlow, FastHasReason, Settled, Navigating
  <1> QED
    BY <1>1, <1>2, <1>3, <1>4, <1>5, <1>6, <1>7, <1>8 DEF Next

-----------------------------------------------------------------------------
\* Every state the server, the phones and the tags reach is one of the types
\* above: no interval is cleared twice, no queue holds anything but modes.
THEOREM TypeCorrect == Spec => []TypeOK
  <1>1. TypeOK /\ [Next]_vars => TypeOK'
    BY TypeStep
  <1>2. Init => TypeOK
    BY InitIInv DEF IInv
  <1> QED
    BY <1>1, <1>2, PTL DEF Spec

\* trackDeviceToEndNode and sendMessageToDevice leave no tag fast behind, for
\* any visitors, rooms and number of overlapping navigations, unless the network
\* lost or reordered what was sent to it.
THEOREM NoTagLeftFast == Spec => []FastHasReason
  <1>1. IInv => FastHasReason
    BY DEF IInv
  <1> QED
    BY <1>1, InitIInv, StepIInv, PTL DEF Spec
=============================================================================
