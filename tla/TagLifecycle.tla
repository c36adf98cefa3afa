---------------------------- MODULE TagLifecycle ----------------------------
(***************************************************************************)
(* What a TourTag promises about its sleep, without its tasks' code: it    *)
(* tours until it is told to stop, its workers then stop one by one, the   *)
(* Announcer only after it has told the server that the tag goes offline,  *)
(* and the chip sleeps only when all of them have stopped. Waking starts a *)
(* tour with every worker running and nothing announced.                   *)
(***************************************************************************)
CONSTANTS Worker, Announcer   \* Announcer is one of the workers


VARIABLES
  phase,     \* "touring", "stopping" or "asleep"
  stopped,   \* the workers that have stopped
  farewell   \* the offline status is the last one handed to the network

lifecycle == <<phase, stopped, farewell>>

Init ==
  /\ phase = "touring"
  /\ stopped = {}
  /\ farewell = FALSE

RequestSleep ==
  /\ phase = "touring"
  /\ phase' = "stopping"
  /\ UNCHANGED <<stopped, farewell>>

SayFarewell ==
  /\ phase = "stopping"
  /\ Announcer \notin stopped
  /\ farewell' = TRUE
  /\ UNCHANGED <<phase, stopped>>

Stop(w) ==
  /\ phase = "stopping"
  /\ w \notin stopped
  /\ w = Announcer => farewell
  /\ stopped' = stopped \cup {w}
  /\ UNCHANGED <<phase, farewell>>

FallAsleep ==
  /\ phase = "stopping"
  /\ stopped = Worker
  /\ farewell
  /\ phase' = "asleep"
  /\ UNCHANGED <<stopped, farewell>>

WakeUp ==
  /\ phase = "asleep"
  /\ phase' = "touring"
  /\ stopped' = {}
  /\ farewell' = FALSE

Next ==
  \/ RequestSleep \/ SayFarewell \/ FallAsleep \/ WakeUp
  \/ \E w \in Worker : Stop(w)

Spec == Init /\ [][Next]_lifecycle
=============================================================================
