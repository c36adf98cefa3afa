------------------------------ MODULE TourTag ------------------------------
(***************************************************************************)
(* The life cycle of one TourTag (code/hardware/UWB/MuseumMate_TourTag):   *)
(* the FreeRTOS tasks that `setup` pins to core 1, the two event groups    *)
(* and the mutex they share, the WiFi link, and the deep sleep the tag     *)
(* enters when it is put on its charger and leaves by a timer reset.       *)
(*                                                                         *)
(* One step is the code a task runs between two points where another task  *)
(* can observe it: a delay, a wait, or a use of shared state.              *)
(***************************************************************************)
EXTENDS Naturals

CONSTANT Modes   \* the values an interval packet may carry (atoi of it)

\* MODE is 0 after every boot, so 0 is always one of its values.
ASSUME ModesAssumption == 0 \in Modes

(***************************************************************************)
(* The tasks whose *_FINISHED_BIT the sleep task waits for, and the ones   *)
(* that have no such bit: `main` is Arduino's setup/loop task.             *)
(***************************************************************************)
Worker == {"connection", "battery", "charging", "uwb", "rfid"}
Task   == Worker \cup {"main", "interval", "sleep"}

VARIABLES
  pc,          \* pc[t]: where task t is; "absent": not created
  link,        \* WiFi station: "off", "trying" (begun, no link) or "up"
  ap,          \* the access point is in reach and accepts the tag
  onCharger,   \* CHARGE_GPIO or DONE_GPIO reads 1
  chargingBit, \* CHARGING_BIT of chargingEventGroup
  sleepGroup,  \* sleepEventGroup has been created since the last reset
  sleepBits,   \* the workers whose finished bit is set in sleepEventGroup
  MODE,        \* the interval mode the server last asked for
  pending,     \* the packet Interval_UDP_Receive has read but not stored
  intervalMode,\* UWB_task's copy of MODE
  announced    \* last status handed to Connection_udp since the last reset

vars == <<pc, link, ap, onCharger, chargingBit, sleepGroup, sleepBits,
          MODE, pending, intervalMode, announced>>

env    == <<ap, onCharger>>
groups == <<chargingBit, sleepGroup, sleepBits>>
modes  == <<MODE, pending, intervalMode>>

Label ==
  {"absent", "start", "setup", "idle", "asleep",                  \* main, sleep
   "joining", "loop", "rejoining", "check", "pause", "flush",     \* connection
   "read", "arm",                                                 \* charging
   "range", "failed",                                             \* UWB
   "wait", "store", "clear", "enter", "finish", "deleted"}

TypeOK ==
  /\ pc \in [Task -> Label]
  /\ link \in {"off", "trying", "up"}
  /\ ap \in BOOLEAN
  /\ onCharger \in BOOLEAN
  /\ chargingBit \in BOOLEAN
  /\ sleepGroup \in BOOLEAN
  /\ sleepBits \in SUBSET Worker
  /\ MODE \in Modes
  /\ pending \in Modes
  /\ intervalMode \in Modes
  /\ announced \in {"none", "online", "offline"}

Asleep == pc["main"] = "asleep"

\* setup() creates the first three tasks, then sits in its 2 s delay.
AtReset == [t \in Task |->
             IF t \in {"connection", "battery", "charging"} THEN "start"
             ELSE IF t = "main" THEN "setup"
             ELSE "absent"]

Init ==
  /\ pc = AtReset
  /\ link = "off"
  /\ ap \in BOOLEAN
  /\ onCharger \in BOOLEAN
  /\ chargingBit = FALSE
  /\ sleepGroup = FALSE
  /\ sleepBits = {}
  /\ MODE = 0
  /\ pending = 0
  /\ intervalMode = 0
  /\ announced = "none"

Goto(t, from, to) ==
  /\ pc[t] = from
  /\ pc' = [pc EXCEPT ![t] = to]

\* Timing the code relies on, as guards: chargingTask creates its event group
\* within milliseconds of the reset, before the first 500 ms poll of
\* connectToWiFi, the 12 s of initFilter and the 2 s delay of setup are over.
ChargingGroupCreated == pc["charging"] # "start"
MutexCreated         == pc["connection"] # "start"

(***************************************************************************)
(* xEventGroupSetBits(sleepEventGroup, <t>_FINISHED_BIT); vTaskDelete      *)
(***************************************************************************)
Finish(t) ==
  /\ Goto(t, "finish", "deleted")
  /\ sleepBits' = sleepBits \cup {t}
  /\ UNCHANGED <<env, link, chargingBit, sleepGroup, modes, announced>>

(***************************************************************************)
(* setup()                                                                 *)
(***************************************************************************)
StartRanging ==
  /\ pc["main"] = "setup"
  /\ ChargingGroupCreated /\ MutexCreated
  /\ pc' = [pc EXCEPT !["main"] = "idle", !["uwb"] = "start",
                      !["rfid"] = "start", !["interval"] = "wait"]
  /\ UNCHANGED <<env, link, groups, modes, announced>>

(***************************************************************************)
(* connection_task                                                         *)
(***************************************************************************)
ConnStart ==
  /\ Goto("connection", "start", "joining")
  /\ link' = "trying"
  /\ UNCHANGED <<env, groups, modes, announced>>

\* connectToWiFi returns: linked, or given up after 5 s. The result is not
\* looked at: at boot the task goes on to its loop, later to its 60 s pause.
ConnJoined ==
  /\ ChargingGroupCreated
  /\ \/ Goto("connection", "joining", "loop")
     \/ Goto("connection", "rejoining", "pause")
  /\ UNCHANGED <<env, link, groups, modes, announced>>

ConnReconnect ==
  /\ link # "up"
  /\ Goto("connection", "loop", "rejoining")
  /\ link' = "trying"
  /\ UNCHANGED <<env, groups, modes, announced>>

ConnAnnounceOnline ==
  /\ link = "up"
  /\ Goto("connection", "loop", "check")
  /\ announced' = "online"
  /\ UNCHANGED <<env, link, groups, modes>>

ConnKeepOn ==
  /\ ~chargingBit
  /\ Goto("connection", "check", "pause")
  /\ UNCHANGED <<env, link, groups, modes, announced>>

ConnAnnounceOffline ==
  /\ chargingBit
  /\ Goto("connection", "check", "flush")
  /\ announced' = "offline"
  /\ UNCHANGED <<env, link, groups, modes>>

\* Variant: the `break` after the offline status is missing.
ConnDisconnectNoBreak ==
  /\ Goto("connection", "flush", "pause")
  /\ link' = "off"
  /\ UNCHANGED <<env, groups, modes, announced>>

ConnDisconnect ==
  /\ Goto("connection", "flush", "finish")
  /\ link' = "off"
  /\ UNCHANGED <<env, groups, modes, announced>>

ConnPauseOver ==
  /\ Goto("connection", "pause", "loop")
  /\ UNCHANGED <<env, link, groups, modes, announced>>

Connection ==
  \/ ConnStart \/ ConnJoined \/ ConnReconnect \/ ConnAnnounceOnline
  \/ ConnKeepOn \/ ConnAnnounceOffline \/ ConnDisconnect \/ ConnPauseOver
  \/ Finish("connection")

(***************************************************************************)
(* readBatteryLevelTask                                                    *)
(***************************************************************************)
BatteryReport ==   \* fill the filter (first time), read, send, 10 s delay
  /\ ChargingGroupCreated
  /\ \/ Goto("battery", "start", "check")
     \/ Goto("battery", "loop", "check")
  /\ UNCHANGED <<env, link, groups, modes, announced>>

BatteryCheck ==
  /\ Goto("battery", "check", IF chargingBit THEN "finish" ELSE "loop")
  /\ UNCHANGED <<env, link, groups, modes, announced>>

Battery == BatteryReport \/ BatteryCheck \/ Finish("battery")

(***************************************************************************)
(* chargingTask                                                            *)
(***************************************************************************)
ChargingStart ==   \* chargingEventGroup = xEventGroupCreate()
  /\ Goto("charging", "start", "read")
  /\ UNCHANGED <<env, link, groups, modes, announced>>

ChargingReadNotCharging ==
  /\ ~onCharger
  /\ Goto("charging", "read", "pause")
  /\ UNCHANGED <<env, link, groups, modes, announced>>

\* Variant: CHARGING_BIT is raised before sleepEventGroup is created.
ChargingReadBitFirst ==
  /\ onCharger
  /\ pc["charging"] = "read"
  /\ pc' = [pc EXCEPT !["charging"] = "arm", !["sleep"] = "wait"]
  /\ chargingBit' = TRUE
  /\ UNCHANGED <<env, link, sleepGroup, sleepBits, modes, announced>>

\* Create sleepEventGroup, spawn sleet_task, then wait 200 ms.
ChargingReadCharging ==
  /\ onCharger
  /\ pc["charging"] = "read"
  /\ pc' = [pc EXCEPT !["charging"] = "arm", !["sleep"] = "wait"]
  /\ sleepGroup' = TRUE
  /\ sleepBits' = {}
  /\ UNCHANGED <<env, link, chargingBit, modes, announced>>

ChargingSetBit ==
  /\ Goto("charging", "arm", "finish")
  /\ chargingBit' = TRUE
  /\ UNCHANGED <<env, link, sleepGroup, sleepBits, modes, announced>>

ChargingPauseOver ==
  /\ Goto("charging", "pause", "read")
  /\ UNCHANGED <<env, link, groups, modes, announced>>

Charging ==
  \/ ChargingStart \/ ChargingReadNotCharging \/ ChargingReadCharging
  \/ ChargingSetBit \/ ChargingPauseOver \/ Finish("charging")

(***************************************************************************)
(* UWB_task                                                                *)
(***************************************************************************)
\* UWB_setup: a radio that does not reach IDLE_RC, does not initialise or
\* cannot be configured (IDLE, INIT or CONFIG FAILED) leaves the task in an
\* endless loop of its own; nothing but a reset gets it out.
UwbSetup ==
  /\ \/ Goto("uwb", "start", "loop")
     \/ Goto("uwb", "start", "failed")
  /\ UNCHANGED <<env, link, groups, modes, announced>>

\* Variant: the task ranges on with the copy of MODE it was created with.
UwbReadModeNot ==
  /\ Goto("uwb", "loop", "range")
  /\ UNCHANGED <<env, link, groups, modes, announced>>

\* Take xMutex, copy MODE, give xMutex: nothing blocks while it is held.
UwbReadMode ==
  /\ Goto("uwb", "loop", "range")
  /\ intervalMode' = MODE
  /\ UNCHANGED <<env, link, groups, MODE, pending, announced>>

\* SAMPLES exchanges, the UDP message, and the delay the mode asked for.
UwbRange ==
  /\ Goto("uwb", "range", "check")
  /\ UNCHANGED <<env, link, groups, modes, announced>>

\* Variant: the ranging loop never looks at CHARGING_BIT.
UwbCheckNever ==
  /\ Goto("uwb", "check", "loop")
  /\ UNCHANGED <<env, link, groups, modes, announced>>

UwbCheck ==
  /\ Goto("uwb", "check", IF chargingBit THEN "finish" ELSE "loop")
  /\ UNCHANGED <<env, link, groups, modes, announced>>

Uwb == UwbSetup \/ UwbReadMode \/ UwbRange \/ UwbCheck \/ Finish("uwb")

(***************************************************************************)
(* RFID_task: the bit is looked at first; with no readable card the loop   *)
(* starts over, with one the data is sent and the task delays 1 s.         *)
(***************************************************************************)
RfidStart ==
  /\ Goto("rfid", "start", "check")
  /\ UNCHANGED <<env, link, groups, modes, announced>>

\* Variant: the task clears CHARGING_BIT as it sees it (xClearOnExit pdTRUE).
RfidStopClearing ==
  /\ chargingBit
  /\ Goto("rfid", "check", "finish")
  /\ chargingBit' = FALSE
  /\ UNCHANGED <<env, link, sleepGroup, sleepBits, modes, announced>>

RfidStop ==
  /\ chargingBit
  /\ Goto("rfid", "check", "finish")
  /\ UNCHANGED <<env, link, groups, modes, announced>>

RfidCard ==
  /\ ~chargingBit
  /\ Goto("rfid", "check", "pause")
  /\ UNCHANGED <<env, link, groups, modes, announced>>

RfidPauseOver ==
  /\ Goto("rfid", "pause", "check")
  /\ UNCHANGED <<env, link, groups, modes, announced>>

Rfid == RfidStart \/ RfidStop \/ RfidCard \/ RfidPauseOver \/ Finish("rfid")

(***************************************************************************)
(* Interval_UDP_Receive: it has no finished bit and never stops.           *)
(***************************************************************************)
\* Variant: the packet is not NUL-terminated, so atoi reads on into what an
\* earlier one left in the buffer.
IntervalReceiveUnterminated ==
  /\ link = "up"
  /\ Goto("interval", "wait", "store")
  /\ \E m \in Modes : pending' = 10 * m + MODE
  /\ UNCHANGED <<env, link, groups, MODE, intervalMode, announced>>

IntervalReceive ==
  /\ link = "up"
  /\ Goto("interval", "wait", "store")
  /\ pending' \in Modes
  /\ UNCHANGED <<env, link, groups, MODE, intervalMode, announced>>

IntervalStore ==
  /\ Goto("interval", "store", "wait")
  /\ MODE' = pending
  /\ UNCHANGED <<env, link, groups, pending, intervalMode, announced>>

(***************************************************************************)
(* sleet_task                                                              *)
(***************************************************************************)
\* Variants: waiting for any bit (xWaitForAllBits pdFALSE), and forgetting
\* CONNECTION_FINISH_BIT in the mask.
SleepWaitAny ==
  /\ sleepBits # {}
  /\ Goto("sleep", "wait", "clear")
  /\ sleepBits' = {}
  /\ UNCHANGED <<env, link, chargingBit, sleepGroup, modes, announced>>

SleepWaitNotConnection ==
  /\ Worker \ {"connection"} \subseteq sleepBits
  /\ Goto("sleep", "wait", "clear")
  /\ sleepBits' = {}
  /\ UNCHANGED <<env, link, chargingBit, sleepGroup, modes, announced>>

SleepWaitOver ==   \* all five bits set (pdTRUE, pdTRUE): cleared on return
  /\ sleepBits = Worker
  /\ Goto("sleep", "wait", "clear")
  /\ sleepBits' = {}
  /\ UNCHANGED <<env, link, chargingBit, sleepGroup, modes, announced>>

SleepClearCharging ==
  /\ Goto("sleep", "clear", "enter")
  /\ chargingBit' = FALSE
  /\ UNCHANGED <<env, link, sleepGroup, sleepBits, modes, announced>>

\* esp_deep_sleep_start: every task stops where it is.
EnterDeepSleep ==
  /\ pc["sleep"] = "enter"
  /\ pc' = [t \in Task |-> IF t = "main" THEN "asleep" ELSE "absent"]
  /\ link' = "off"
  /\ UNCHANGED <<env, groups, modes, announced>>

Sleep == SleepWaitOver \/ SleepClearCharging \/ EnterDeepSleep

\* The 10 s timer resets the chip: RAM is lost and setup() runs again.
Wake ==
  /\ Asleep
  /\ pc' = AtReset
  /\ link' = "off"
  /\ chargingBit' = FALSE
  /\ sleepGroup' = FALSE
  /\ sleepBits' = {}
  /\ MODE' = 0
  /\ pending' = 0
  /\ intervalMode' = 0
  /\ announced' = "none"
  /\ UNCHANGED env

(***************************************************************************)
(* The environment                                                         *)
(***************************************************************************)
LinkUp ==
  /\ ap
  /\ link = "trying"
  /\ link' = "up"
  /\ UNCHANGED <<env, pc, groups, modes, announced>>

LinkLost ==
  /\ ~ap
  /\ link = "up"
  /\ link' = "trying"
  /\ UNCHANGED <<env, pc, groups, modes, announced>>

ApChange ==
  /\ ap' = ~ap
  /\ UNCHANGED <<onCharger, pc, link, groups, modes, announced>>

ChargerChange ==
  /\ onCharger' = ~onCharger
  /\ UNCHANGED <<ap, pc, link, groups, modes, announced>>

Environment == LinkUp \/ LinkLost \/ ApChange \/ ChargerChange

Next ==
  \/ StartRanging \/ Connection \/ Battery \/ Charging \/ Uwb \/ Rfid
  \/ IntervalReceive \/ IntervalStore \/ Sleep \/ Wake \/ Environment

Spec == Init /\ [][Next]_vars

(***************************************************************************)
(* FreeRTOS runs its equal-priority tasks in turn, every delay ends, and   *)
(* the deep-sleep timer fires; the WiFi driver joins an access point that  *)
(* stays in reach. Nobody has to plug, unplug or send an interval packet.  *)
(***************************************************************************)
Fairness ==
  /\ WF_vars(StartRanging) /\ WF_vars(Connection) /\ WF_vars(Battery)
  /\ WF_vars(Charging) /\ WF_vars(Uwb) /\ WF_vars(Rfid)
  /\ WF_vars(IntervalStore) /\ WF_vars(Sleep) /\ WF_vars(Wake)
  /\ WF_vars(LinkUp)

FairSpec == Spec /\ Fairness
-----------------------------------------------------------------------------
(***************************************************************************)
(* Properties                                                              *)
(***************************************************************************)

\* A worker that is about to set its finished bit finds the event group it
\* sets it in: chargingTask creates sleepEventGroup before it raises
\* CHARGING_BIT, so no xEventGroupSetBits gets a NULL handle.
SleepGroupReady == \A t \in Worker : pc[t] = "finish" => sleepGroup

\* sleet_task gets past its wait only when all five workers have stopped, the
\* server has been told "offline" and the radio is off ("safe disconnect").
SafeSleep ==
  /\ pc["sleep"] \in {"clear", "enter"} =>
       /\ \A t \in Worker : pc[t] = "deleted"
       /\ announced = "offline"
       /\ link = "off"
  /\ Asleep => announced = "offline"

\* Until the next reset, nothing is announced after "offline": the connection
\* task's loop cannot come round again and report the tag online.
OfflineIsLast ==
  [][announced = "offline" /\ ~Asleep => announced' = "offline"]_vars

\* What the tag promises about its sleep (TagLifecycle).
Lifecycle == INSTANCE TagLifecycle WITH
  Announcer <- "connection",
  phase     <- IF Asleep THEN "asleep"
               ELSE IF pc["charging"] \in {"finish", "deleted"} THEN "stopping"
               ELSE "touring",
  stopped   <- IF Asleep THEN Worker ELSE {t \in Worker : pc[t] = "deleted"},
  farewell  <- announced = "offline"

\* Every step of the tasks is a step of the promised life cycle.
ImplementsLifecycle == Lifecycle!Spec

\* The ranging task hangs in UWB_setup: its radio did not come up.
RadioFailed == pc["uwb"] = "failed"

\* With an access point that stays in reach, a raised CHARGING_BIT brings the
\* tag to deep sleep, no worker misses the bit, none waits for another, unless
\* the ranging task hangs in UWB_setup and never sets its finished bit.
ShutdownCompletes ==
  (<>[]ap) => (pc["charging"] = "finish" ~> (Asleep \/ RadioFailed))

\* Off the charger for good, with the access point in reach, the tag ends up
\* touring for good, whatever part of a shutdown the unplugging fell into,
\* unless its radio failed to come up after the last reset.
ReturnsToTour ==
  (<>[]ap /\ <>[]~onCharger) =>
    \/ <>[](pc["charging"] \in {"read", "pause"} /\ pc["uwb"] \in {"loop", "range", "check"})
    \/ <>[]RadioFailed

\* The mode of a stored interval packet reaches the ranging task's delay,
\* unless another packet or a shutdown comes first, or the radio failed and
\* there is no ranging to delay.
ModeTakesEffect ==
  \A m \in Modes :
    MODE = m ~> (intervalMode = m \/ MODE # m \/ chargingBit \/ Asleep \/ RadioFailed)

\* README.MD of the firmware: "auto sleep upon charging". A tag that stays on
\* its charger goes to sleep. (It does not without a WiFi link, though its
\* radio be sound: the connection task looks at CHARGING_BIT only while it is
\* connected.)
AutoSleepUponCharging == [](onCharger => <>(Asleep \/ ~onCharger \/ RadioFailed))
=============================================================================
