--------------------------- MODULE TourTagProofs ---------------------------
(***************************************************************************)
(* Proofs that the TourTag's sleep protocol is safe for every set of       *)
(* interval modes, and that its steps are steps of TagLifecycle.           *)
(***************************************************************************)
EXTENDS TourTag, TLAPS

(***************************************************************************)
(* The inductive invariant. SafeSleep alone is not inductive: that the     *)
(* sleep task's wait is over says nothing by itself about the workers. The *)
(* chain of facts is: a finished bit is set only by a worker that deletes  *)
(* itself (BitsMeanStopped); a worker stops only after chargingTask raised *)
(* CHARGING_BIT (StopsAfterRaise), which it does after it created the      *)
(* group (GroupBeforeBit); the connection task stops only after it said    *)
(* "offline" and nothing else (Farewell).                                  *)
(***************************************************************************)
Raised  == pc["charging"] \in {"finish", "deleted"}
Leaving == pc["connection"] \in {"flush", "finish", "deleted"}

MainLabels ==
  /\ pc["main"] \in {"setup", "idle", "asleep"}
  /\ pc["main"] = "setup" =>
       \A t \in {"uwb", "rfid", "interval"} : pc[t] = "absent"

GroupBeforeBit ==
  /\ pc["charging"] \in {"arm", "finish", "deleted"} => sleepGroup
  /\ chargingBit => Raised

StopsAfterRaise ==
  \A t \in Worker : (pc[t] \in {"finish", "deleted"} \/ Leaving) => Raised

Farewell ==
  /\ Leaving => announced = "offline"
  /\ announced = "offline" /\ ~Asleep => Leaving
  /\ pc["connection"] \in {"finish", "deleted"} => link = "off"

BitsMeanStopped == \A t \in sleepBits : pc[t] = "deleted"

SleepTaskLate ==
  /\ pc["sleep"] \in {"clear", "enter"} =>
       (\A t \in Worker : pc[t] = "deleted") /\ sleepBits = {}
  /\ pc["sleep"] = "enter" => ~chargingBit

AsleepAlone ==
  Asleep =>
    /\ \A t \in Task \ {"main"} : pc[t] = "absent"
    /\ announced = "offline"
    /\ ~chargingBit
    /\ sleepBits = {}

IInv ==
  /\ TypeOK /\ MainLabels /\ GroupBeforeBit /\ StopsAfterRaise /\ Farewell
  /\ BitsMeanStopped /\ SleepTaskLate /\ AsleepAlone

-----------------------------------------------------------------------------
LEMMA InitIInv == Init => IInv
  BY ModesAssumption
  DEF Init, IInv, TypeOK, MainLabels, GroupBeforeBit, StopsAfterRaise, Farewell,
      BitsMeanStopped, SleepTaskLate, AsleepAlone, Asleep, Raised, Leaving,
      AtReset, Task, Worker, Label

\* The type part, apart from the rest.
LEMMA TypeStep == TypeOK /\ [Next]_vars => TypeOK'
<1> SUFFICES ASSUME TypeOK, [Next]_vars PROVE TypeOK'
  OBVIOUS
<1> USE ModesAssumption
    DEF TypeOK, Task, Worker, Label, env, groups, modes, Goto
<1>1. CASE StartRanging
  BY <1>1 DEF StartRanging
<1>2. CASE Connection
  BY <1>2, ZenonT(60) DEF Connection, ConnStart, ConnJoined, ConnReconnect,
     ConnAnnounceOnline, ConnKeepOn, ConnAnnounceOffline, ConnDisconnect,
     ConnPauseOver, Finish
<1>3. CASE Battery
  BY <1>3, ZenonT(60) DEF Battery, BatteryReport, BatteryCheck, Finish
<1>4. CASE Charging
  BY <1>4, ZenonT(60) DEF Charging, ChargingStart, ChargingReadNotCharging,
     ChargingReadCharging, ChargingSetBit, ChargingPauseOver, Finish
<1>5. CASE Uwb
  BY <1>5, ZenonT(60) DEF Uwb, UwbSetup, UwbReadMode, UwbRange, UwbCheck, Finish
<1>6. CASE Rfid
  BY <1>6, ZenonT(60) DEF Rfid, RfidStart, RfidStop, RfidCard, RfidPauseOver, Finish
<1>7. CASE IntervalReceive \/ IntervalStore
  BY <1>7 DEF IntervalReceive, IntervalStore
<1>8. CASE Sleep
  BY <1>8 DEF Sleep, SleepWaitOver, SleepClearCharging, EnterDeepSleep
<1>9. CASE Wake
  BY <1>9 DEF Wake, AtReset
<1>10. CASE Environment
  BY <1>10 DEF Environment, LinkUp, LinkLost, ApChange, ChargerChange
<1>11. CASE UNCHANGED vars
  BY <1>11 DEF vars
<1> QED
  BY <1>1, <1>2, <1>3, <1>4, <1>5, <1>6, <1>7, <1>8, <1>9, <1>10, <1>11 DEF Next

LEMMA StepIInv == IInv /\ [Next]_vars => IInv'
<1> SUFFICES ASSUME IInv, [Next]_vars PROVE IInv'
  OBVIOUS
<1>t. TypeOK'
  BY TypeStep DEF IInv
<1> USE <1>t
    DEF IInv, TypeOK, MainLabels, GroupBeforeBit, StopsAfterRaise, Farewell,
      BitsMeanStopped, SleepTaskLate, AsleepAlone, Asleep, Raised, Leaving,
      Task, Worker, env, groups, modes, Goto
<1>1. CASE StartRanging
  BY <1>1 DEF StartRanging
<1>2. CASE Connection
  <2>1. CASE ConnStart
    BY <2>1 DEF ConnStart
  <2>2. CASE ConnJoined
    BY <2>2 DEF ConnJoined
  <2>3. CASE ConnReconnect
    BY <2>3 DEF ConnReconnect
  <2>4. CASE ConnAnnounceOnline
    BY <2>4 DEF ConnAnnounceOnline
  <2>5. CASE ConnKeepOn
    BY <2>5 DEF ConnKeepOn
  <2>6. CASE ConnAnnounceOffline
    BY <2>6 DEF ConnAnnounceOffline
  <2>7. CASE ConnDisconnect
    BY <2>7 DEF ConnDisconnect
  <2>8. CASE ConnPauseOver
    BY <2>8 DEF ConnPauseOver
  <2>9. CASE Finish("connection")
    BY <2>9 DEF Finish
  <2> QED
    BY <1>2, <2>1, <2>2, <2>3, <2>4, <2>5, <2>6, <2>7, <2>8, <2>9 DEF Connection
<1>3. CASE Battery
  <2>1. CASE BatteryReport
    BY <2>1 DEF BatteryReport
  <2>2. CASE BatteryCheck
    BY <2>2 DEF BatteryCheck
  <2>3. CASE Finish("battery")
    BY <2>3 DEF Finish
  <2> QED
    BY <1>3, <2>1, <2>2, <2>3 DEF Battery
<1>4. CASE Charging
  <2>1. CASE ChargingStart \/ ChargingReadNotCharging \/ ChargingPauseOver
    BY <2>1 DEF ChargingStart, ChargingReadNotCharging, ChargingPauseOver
  <2>2. CASE ChargingReadCharging
    BY <2>2 DEF ChargingReadCharging
  <2>3. CASE ChargingSetBit
    BY <2>3 DEF ChargingSetBit
  <2>4. CASE Finish("charging")
    BY <2>4 DEF Finish
  <2> QED
    BY <1>4, <2>1, <2>2, <2>3, <2>4 DEF Charging
<1>5. CASE Uwb
  <2>1. CASE UwbSetup \/ UwbReadMode
    BY <2>1 DEF UwbSetup, UwbReadMode
  <2>2. CASE UwbRange \/ UwbCheck
    BY <2>2 DEF UwbRange, UwbCheck
  <2>3. CASE Finish("uwb")
    BY <2>3 DEF Finish
  <2> QED
    BY <1>5, <2>1, <2>2, <2>3 DEF Uwb
<1>6. CASE Rfid
  <2>1. CASE RfidStart \/ RfidStop \/ RfidCard \/ RfidPauseOver
    BY <2>1 DEF RfidStart, RfidStop, RfidCard, RfidPauseOver
  <2>2. CASE Finish("rfid")
    BY <2>2 DEF Finish
  <2> QED
    BY <1>6, <2>1, <2>2 DEF Rfid
<1>7. CASE IntervalReceive \/ IntervalStore
  BY <1>7 DEF IntervalReceive, IntervalStore
<1>8. CASE Sleep
  <2>1. CASE SleepWaitOver
    BY <2>1 DEF SleepWaitOver
  <2>2. CASE SleepClearCharging
    BY <2>2 DEF SleepClearCharging
  <2>3. CASE EnterDeepSleep
    BY <2>3 DEF EnterDeepSleep
  <2> QED
    BY <1>8, <2>1, <2>2, <2>3 DEF Sleep
<1>9. CASE Wake
  BY <1>9 DEF Wake, AtReset
<1>10. CASE Environment
  BY <1>10 DEF Environment, LinkUp, LinkLost, ApChange, ChargerChange
<1>11. CASE UNCHANGED vars
  BY <1>11 DEF vars
<1> QED
  BY <1>1, <1>2, <1>3, <1>4, <1>5, <1>6, <1>7, <1>8, <1>9, <1>10, <1>11 DEF Next

THEOREM Invariance == Spec => []IInv
  BY InitIInv, StepIInv, PTL DEF Spec

\* Every variable stays in its type.
THEOREM TypeCorrect == Spec => []TypeOK
  BY Invariance, PTL DEF IInv

\* No worker sets its finished bit in an event group that does not exist yet
\* (MuseumMateBattery.cpp creates the group before it raises CHARGING_BIT).
THEOREM GroupReady == Spec => []SleepGroupReady
<1>1. IInv => SleepGroupReady
  BY DEF IInv, GroupBeforeBit, StopsAfterRaise, Raised, SleepGroupReady
<1> QED
  BY <1>1, Invariance, PTL

\* The tag enters deep sleep only with every worker stopped, the radio off and
\* "offline" as its last word to the server.
THEOREM SleepIsSafe == Spec => []SafeSleep
<1>1. IInv => SafeSleep
  BY DEF IInv, Farewell, SleepTaskLate, AsleepAlone, SafeSleep, Worker, Leaving
<1> QED
  BY <1>1, Invariance, PTL

\* After "offline" the tag says nothing else until its next reset.
THEOREM OfflineStays == Spec => OfflineIsLast
<1>1. IInv /\ [Next]_vars => [announced = "offline" /\ ~Asleep => announced' = "offline"]_vars
  <2> SUFFICES ASSUME IInv, Next, announced = "offline", ~Asleep
               PROVE  announced' = "offline"
    BY DEF vars
  <2>1. Leaving
    BY DEF IInv, Farewell
  <2> USE <2>1 DEF Leaving, Goto
  <2>2. CASE Connection
    BY <2>2 DEF Connection, ConnStart, ConnJoined, ConnReconnect,
       ConnAnnounceOnline, ConnKeepOn, ConnAnnounceOffline, ConnDisconnect,
       ConnPauseOver, Finish
  <2>3. CASE Battery \/ Charging
    BY <2>3 DEF Battery, BatteryReport, BatteryCheck, Finish, Charging,
       ChargingStart, ChargingReadNotCharging, ChargingReadCharging,
       ChargingSetBit, ChargingPauseOver
  <2>4. CASE Uwb \/ Rfid
    BY <2>4 DEF Uwb, UwbSetup, UwbReadMode, UwbRange, UwbCheck, Finish, Rfid, RfidStart,
       RfidStop, RfidCard, RfidPauseOver
  <2>5. CASE StartRanging \/ IntervalReceive \/ IntervalStore
    BY <2>5 DEF StartRanging, IntervalReceive, IntervalStore
  <2>6. CASE Sleep
    BY <2>6 DEF Sleep, SleepWaitOver, SleepClearCharging, EnterDeepSleep
  <2>7. CASE Wake
    BY <2>7 DEF Wake
  <2>8. CASE Environment
    BY <2>8 DEF Environment, LinkUp, LinkLost, ApChange, ChargerChange
  <2> QED
    BY <2>2, <2>3, <2>4, <2>5, <2>6, <2>7, <2>8 DEF Next
<1> QED
  BY <1>1, Invariance, PTL DEF Spec, OfflineIsLast

-----------------------------------------------------------------------------
(***************************************************************************)
(* The step simulation of TagLifecycle, under the refinement mapping of    *)
(* `Lifecycle` in TourTag.                                                 *)
(***************************************************************************)
LEMMA InitSimulation == Init => Lifecycle!Init
  BY DEF Init, AtReset, Asleep, Task, Worker, Lifecycle!Init

LEMMA StepSimulation == IInv /\ [Next]_vars => [Lifecycle!Next]_(Lifecycle!lifecycle)
<1> SUFFICES ASSUME IInv, [Next]_vars
             PROVE  [Lifecycle!Next]_(Lifecycle!lifecycle)
  OBVIOUS
<1> USE DEF IInv, TypeOK, MainLabels, Asleep, Raised, Leaving, Goto, Task,
            Worker, env, groups, modes, Lifecycle!lifecycle
\* Only a worker's Finish, the connection task's announcement, chargingTask's
\* raising of the bit, deep sleep and the reset show in the life cycle.
<1>1. ASSUME NEW t \in Worker, Finish(t)
      PROVE  Lifecycle!Stop(t)
  <2>1. ~Asleep /\ ~Asleep'
    BY <1>1 DEF Finish, AsleepAlone
  <2>2. Raised /\ Raised'
    BY <1>1 DEF Finish, StopsAfterRaise
  <2>3. {w \in Worker : pc'[w] = "deleted"} =
          {w \in Worker : pc[w] = "deleted"} \cup {t}
    BY <1>1 DEF Finish
  <2>4. t = "connection" => announced = "offline"
    BY <1>1 DEF Finish, Farewell
  <2>5. pc[t] # "deleted" /\ announced' = announced
    BY <1>1 DEF Finish
  <2> QED
    BY <2>1, <2>2, <2>3, <2>4, <2>5 DEF Lifecycle!Stop
<1>2. CASE ConnAnnounceOffline
  <2>1. Lifecycle!SayFarewell
    BY <1>2 DEF ConnAnnounceOffline, Lifecycle!SayFarewell, GroupBeforeBit,
       AsleepAlone
  <2> QED
    BY <2>1 DEF Lifecycle!Next
<1>3. CASE ChargingSetBit
  <2>1. Lifecycle!RequestSleep
    BY <1>3 DEF ChargingSetBit, Lifecycle!RequestSleep, AsleepAlone
  <2> QED
    BY <2>1 DEF Lifecycle!Next
<1>4. CASE EnterDeepSleep
  <2>1. \A t \in Worker : pc[t] = "deleted"
    BY <1>4 DEF EnterDeepSleep, SleepTaskLate
  <2>2. ~Asleep /\ Asleep'
    BY <1>4 DEF EnterDeepSleep, AsleepAlone
  <2>3. announced = "offline" /\ announced' = announced
    BY <1>4, <2>1 DEF EnterDeepSleep, Farewell
  <2>4. Lifecycle!FallAsleep
    BY <2>1, <2>2, <2>3 DEF Lifecycle!FallAsleep
  <2> QED
    BY <2>4 DEF Lifecycle!Next
<1>5. CASE Wake
  <2>1. Lifecycle!WakeUp
    BY <1>5 DEF Wake, AtReset, Lifecycle!WakeUp
  <2> QED
    BY <2>1 DEF Lifecycle!Next
<1>6. CASE ConnStart \/ ConnJoined \/ ConnReconnect \/ ConnAnnounceOnline
           \/ ConnKeepOn \/ ConnDisconnect \/ ConnPauseOver
  BY <1>6 DEF ConnStart, ConnJoined, ConnReconnect, ConnAnnounceOnline,
     ConnKeepOn, ConnDisconnect, ConnPauseOver, Farewell, AsleepAlone
<1>7. CASE BatteryReport \/ BatteryCheck
  BY <1>7 DEF BatteryReport, BatteryCheck
<1>8. CASE ChargingStart \/ ChargingReadNotCharging \/ ChargingReadCharging
           \/ ChargingPauseOver
  BY <1>8 DEF ChargingStart, ChargingReadNotCharging, ChargingReadCharging,
     ChargingPauseOver
<1>9. CASE UwbSetup \/ UwbReadMode \/ UwbRange \/ UwbCheck
  BY <1>9 DEF UwbSetup, UwbReadMode, UwbRange, UwbCheck
<1>10. CASE RfidStart \/ RfidStop \/ RfidCard \/ RfidPauseOver
  BY <1>10 DEF RfidStart, RfidStop, RfidCard, RfidPauseOver
<1>11. CASE StartRanging \/ IntervalReceive \/ IntervalStore
  BY <1>11 DEF StartRanging, IntervalReceive, IntervalStore
<1>12. CASE SleepWaitOver \/ SleepClearCharging
  BY <1>12 DEF SleepWaitOver, SleepClearCharging
<1>13. CASE Environment
  BY <1>13 DEF Environment, LinkUp, LinkLost, ApChange, ChargerChange
<1>14. CASE UNCHANGED vars
  BY <1>14 DEF vars
<1>15. (\E t \in Worker : Finish(t)) => Lifecycle!Next
  BY <1>1 DEF Lifecycle!Next
<1> QED
  BY <1>2, <1>3, <1>4, <1>5, <1>6, <1>7, <1>8, <1>9, <1>10, <1>11, <1>12,
     <1>13, <1>14, <1>15
  DEF Next, Connection, Battery, Charging, Uwb, Rfid, Sleep

\* TourTag implements TagLifecycle.
THEOREM Refinement == Spec => ImplementsLifecycle
  BY InitSimulation, StepSimulation, Invariance, PTL
  DEF Spec, ImplementsLifecycle, Lifecycle!Spec
=============================================================================
