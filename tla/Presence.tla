------------------------------ MODULE Presence ------------------------------
(***************************************************************************)
(* Who is on the server's map (code/server/index.js): the connection and   *)
(* UWB handlers, the 10 s sweep that asks InfluxDB for every visitor's     *)
(* connection status and drops the ones that are off, the occupancy counts *)
(* with the graph weights that follow them, and the stay durations. The    *)
(* tags are those of TagLifecycle, talking to the server over UDP, which   *)
(* may lose messages and deliver a later one first.                        *)
(*                                                                         *)
(* A visitor's entry of signalMap is represented by the room trilateration *)
(* finds from it.                                                          *)
(***************************************************************************)
EXTENDS Naturals, FiniteSets

CONSTANTS
  User,     \* the tags' ids
  Padded,   \* those with a leading zero: parseInt changes them ("0001" -> "1")
  Room,     \* rooms, the nodes of the museum graph
  NoRoom,   \* "User is not in any room"
  Absent    \* no entry in signalMap.userBeaconMap

ASSUME PresenceAssumption ==
  /\ IsFiniteSet(User)
  /\ Padded \subseteq User
  /\ IsFiniteSet(Room)
  /\ NoRoom \notin Room
  /\ Absent \notin Room \cup {NoRoom}

Place  == Room \cup {NoRoom}
Worker == {"connection", "uwb"}   \* the tag's workers that talk to this part

VARIABLES
  phase, stopped, farewell,   \* the tags: see TagLifecycle
  connNet,    \* connNet[u]: connection statuses in flight from tag u
  uwbNet,     \* uwbNet[u]: the place of a UWB message in flight, or Absent
  status,     \* InfluxDB: last connectionStatus written under u's own id
  loc,        \* signalMap: where trilateration places u, or Absent
  sweep,      \* getConnectionStatus(u): "idle", "asked" or its answer
  wasOff,     \* history: status[u] read "offline" while u's query was out
  occupancy,  \* roomOccupancyCounts
  weights,    \* the occupancy the graph's weights were computed from
  stays       \* userRoomDurationsMap: room, and whether u was dropped since

tags  == <<phase, stopped, farewell>>
query == <<sweep, wasOff>>
net   == <<connNet, uwbNet>>
vars  == <<phase, stopped, farewell, connNet, uwbNet, status, loc, sweep,
           wasOff, occupancy, weights, stays>>

None == [room |-> Absent, gap |-> FALSE]   \* no entry in userRoomDurationsMap

TypeOK ==
  /\ phase \in [User -> {"touring", "stopping", "asleep"}]
  /\ stopped \in [User -> SUBSET Worker]
  /\ farewell \in [User -> BOOLEAN]
  /\ connNet \in [User -> SUBSET {"online", "offline"}]
  /\ uwbNet \in [User -> Place \cup {Absent}]
  /\ status \in [User -> {"none", "online", "offline"}]
  /\ loc \in [User -> Place \cup {Absent}]
  /\ sweep \in [User -> {"idle", "asked", "none", "online", "offline"}]
  /\ wasOff \in [User -> BOOLEAN]
  /\ occupancy \in [Room -> 0..Cardinality(User)]
  /\ weights \in [Room -> 0..Cardinality(User)]
  /\ stays \in [User -> [room : Place \cup {Absent}, gap : BOOLEAN]]

Init ==
  /\ phase = [u \in User |-> "touring"]
  /\ stopped = [u \in User |-> {}]
  /\ farewell = [u \in User |-> FALSE]
  /\ connNet = [u \in User |-> {}]
  /\ uwbNet = [u \in User |-> Absent]
  /\ status = [u \in User |-> "none"]
  /\ loc = [u \in User |-> Absent]
  /\ sweep = [u \in User |-> "idle"]
  /\ wasOff = [u \in User |-> FALSE]
  /\ occupancy = [r \in Room |-> 0]
  /\ weights = [r \in Room |-> 0]
  /\ stays = [u \in User |-> None]

(***************************************************************************)
(* The tags. A tag's messages leave it while its radio is on, that is,     *)
(* until its connection task has stopped.                                  *)
(***************************************************************************)
Talking(u) == phase[u] # "asleep" /\ "connection" \notin stopped[u]

TagOnline(u) ==
  /\ Talking(u) /\ ~farewell[u]
  /\ connNet' = [connNet EXCEPT ![u] = @ \cup {"online"}]
  /\ UNCHANGED <<tags, uwbNet, status, loc, query, occupancy, weights, stays>>

\* One round of connection_task with CHARGING_BIT set sends both.
TagOffline(u) ==
  /\ Talking(u) /\ ~farewell[u]
  /\ phase[u] = "stopping"
  /\ connNet' = [connNet EXCEPT ![u] = @ \cup {"online", "offline"}]
  /\ farewell' = [farewell EXCEPT ![u] = TRUE]
  /\ UNCHANGED <<phase, stopped, uwbNet, status, loc, query, occupancy, weights, stays>>

TagRange(u) ==   \* a newer UWB message takes the place of one still in flight
  /\ Talking(u) /\ "uwb" \notin stopped[u]
  /\ \E p \in Place : uwbNet' = [uwbNet EXCEPT ![u] = p]
  /\ UNCHANGED <<tags, connNet, status, loc, query, occupancy, weights, stays>>

TagCharge(u) ==
  /\ phase[u] = "touring"
  /\ phase' = [phase EXCEPT ![u] = "stopping"]
  /\ UNCHANGED <<stopped, farewell, net, status, loc, query, occupancy, weights, stays>>

\* Variant: the connection task stops without having sent its "offline".
TagStopSilently(u, w) ==
  /\ phase[u] = "stopping" /\ w \notin stopped[u]
  /\ stopped' = [stopped EXCEPT ![u] = @ \cup {w}]
  /\ UNCHANGED <<phase, farewell, net, status, loc, query, occupancy, weights, stays>>

TagStop(u, w) ==
  /\ phase[u] = "stopping" /\ w \notin stopped[u]
  /\ w = "connection" => farewell[u]
  /\ stopped' = [stopped EXCEPT ![u] = @ \cup {w}]
  /\ UNCHANGED <<phase, farewell, net, status, loc, query, occupancy, weights, stays>>

TagSleep(u) ==
  /\ phase[u] = "stopping" /\ stopped[u] = Worker
  /\ phase' = [phase EXCEPT ![u] = "asleep"]
  /\ UNCHANGED <<stopped, farewell, net, status, loc, query, occupancy, weights, stays>>

TagWake(u) ==
  /\ phase[u] = "asleep"
  /\ phase' = [phase EXCEPT ![u] = "touring"]
  /\ stopped' = [stopped EXCEPT ![u] = {}]
  /\ farewell' = [farewell EXCEPT ![u] = FALSE]
  /\ UNCHANGED <<net, status, loc, query, occupancy, weights, stays>>

Tag(u) ==
  \/ TagOnline(u) \/ TagOffline(u) \/ TagRange(u) \/ TagCharge(u)
  \/ TagSleep(u) \/ TagWake(u)
  \/ \E w \in Worker : TagStop(u, w)

Lose(u) ==
  /\ \/ \E m \in connNet[u] :
          connNet' = [connNet EXCEPT ![u] = @ \ {m}] /\ UNCHANGED uwbNet
     \/ /\ uwbNet[u] # Absent
        /\ uwbNet' = [uwbNet EXCEPT ![u] = Absent]
        /\ UNCHANGED connNet
  /\ UNCHANGED <<tags, status, loc, query, occupancy, weights, stays>>

(***************************************************************************)
(* The UDP handlers                                                        *)
(***************************************************************************)
\* Variant: the status is compared with the number 1, which no string equals.
ConnectionMessageNeverOnline(u, m) ==
  /\ m \in connNet[u]
  /\ connNet' = [connNet EXCEPT ![u] = @ \ {m}]
  /\ status' = [status EXCEPT ![u] = "offline"]
  /\ wasOff' = [wasOff EXCEPT ![u] = @ \/ sweep[u] = "asked"]
  /\ UNCHANGED <<tags, uwbNet, loc, sweep, occupancy, weights, stays>>

ConnectionMessage(u, m) ==
  /\ m \in connNet[u]
  /\ connNet' = [connNet EXCEPT ![u] = @ \ {m}]
  /\ status' = [status EXCEPT ![u] = m]
  /\ wasOff' = [wasOff EXCEPT ![u] = @ \/ (m = "offline" /\ sweep[u] = "asked")]
  /\ UNCHANGED <<tags, uwbNet, loc, sweep, occupancy, weights, stays>>

UwbMessage(u) ==
  /\ uwbNet[u] # Absent
  /\ loc' = [loc EXCEPT ![u] = uwbNet[u]]
  /\ uwbNet' = [uwbNet EXCEPT ![u] = Absent]
  /\ UNCHANGED <<tags, connNet, status, query, occupancy, weights, stays>>

(***************************************************************************)
(* The 10 s sweep: for every key of signalMap, await getConnectionStatus,  *)
(* then clear on 0. Between the answer and the code after the await other  *)
(* handlers run. One query per visitor is in flight at a time: InfluxDB    *)
(* answers, or the query fails, within the 10 s.                           *)
(***************************************************************************)
SweepTick ==
  /\ \A u \in User : sweep[u] = "idle"
  /\ \E u \in User : loc[u] # Absent
  /\ sweep' = [u \in User |-> IF loc[u] # Absent THEN "asked" ELSE "idle"]
  /\ wasOff' = [u \in User |-> loc[u] # Absent /\ status[u] = "offline"]
  /\ UNCHANGED <<tags, net, status, loc, occupancy, weights, stays>>

\* The query filters on the key of signalMap, which is parseInt(id): for a
\* padded id no point carries that tag and the answer is null.
SweepAnswer(u) ==
  /\ sweep[u] = "asked"
  /\ sweep' = [sweep EXCEPT ![u] = IF u \in Padded THEN "none" ELSE status[u]]
  /\ UNCHANGED <<tags, net, wasOff, status, loc, occupancy, weights, stays>>

SweepFails(u) ==   \* no answer, or no point within the last hour
  /\ sweep[u] = "asked"
  /\ sweep' = [sweep EXCEPT ![u] = "none"]
  /\ UNCHANGED <<tags, net, wasOff, status, loc, occupancy, weights, stays>>

\* Variant: a failed query clears as well (`!status` for `status === 0`).
SweepResumeOnNull(u) ==
  /\ sweep[u] \in {"none", "online", "offline"}
  /\ sweep' = [sweep EXCEPT ![u] = "idle"]
  /\ wasOff' = [wasOff EXCEPT ![u] = FALSE]
  /\ IF sweep[u] # "online"
     THEN /\ loc' = [loc EXCEPT ![u] = Absent]
          /\ stays' = [stays EXCEPT ![u].gap = stays[u] # None]
     ELSE UNCHANGED <<loc, stays>>
  /\ UNCHANGED <<tags, net, status, occupancy, weights>>

\* Variant: the answer is compared with the string "0".
SweepResumeNever(u) ==
  /\ sweep[u] \in {"none", "online", "offline"}
  /\ sweep' = [sweep EXCEPT ![u] = "idle"]
  /\ wasOff' = [wasOff EXCEPT ![u] = FALSE]
  /\ UNCHANGED <<tags, net, status, loc, occupancy, weights, stays>>

\* clearUserData deletes the signalMap entry only; that userRoomDurationsMap
\* keeps its entry is what `gap` remembers.
SweepResume(u) ==
  /\ sweep[u] \in {"none", "online", "offline"}
  /\ sweep' = [sweep EXCEPT ![u] = "idle"]
  /\ wasOff' = [wasOff EXCEPT ![u] = FALSE]
  /\ IF sweep[u] = "offline"
     THEN /\ loc' = [loc EXCEPT ![u] = Absent]
          /\ stays' = [stays EXCEPT ![u].gap = stays[u] # None]
     ELSE UNCHANGED <<loc, stays>>
  /\ UNCHANGED <<tags, net, status, occupancy, weights>>

(***************************************************************************)
(* The periodic updates                                                    *)
(***************************************************************************)
\* Variant: the visitors of a room by userRoomDurationsMap.
CountedByStays == [r \in Room |-> Cardinality({u \in User : stays[u].room = r})]

Counted == [r \in Room |-> Cardinality({u \in User : loc[u] = r})]

\* Variant: the counts start from the previous ones.
GraphTickAccumulating ==
  /\ occupancy' = [r \in Room |-> occupancy[r] + Counted[r]]
  /\ weights' = occupancy'
  /\ UNCHANGED <<tags, net, status, loc, query, stays>>

GraphTick ==   \* every second: occupancy, then the graph's weights
  /\ occupancy' = Counted
  /\ weights' = Counted
  /\ UNCHANGED <<tags, net, status, loc, query, stays>>

\* A visitor found elsewhere than its entry says: the stay is logged, the
\* entry starts over.
Moved(u) == loc[u] # Absent /\ stays[u] # None /\ stays[u].room # loc[u]

StayTick ==    \* every 3 s: occupancy, then the stay durations
  /\ occupancy' = Counted
  /\ stays' = [u \in User |->
                 IF loc[u] # Absent /\ (stays[u] = None \/ Moved(u))
                 THEN [room |-> loc[u], gap |-> FALSE]
                 ELSE stays[u]]
  /\ UNCHANGED <<tags, net, status, loc, query, weights>>

Server ==
  \/ SweepTick \/ GraphTick \/ StayTick
  \/ \E u \in User :
       \/ UwbMessage(u) \/ SweepAnswer(u) \/ SweepFails(u) \/ SweepResume(u)
       \/ \E m \in {"online", "offline"} : ConnectionMessage(u, m)

Next == Server \/ \E u \in User : Tag(u) \/ Lose(u)

Spec == Init /\ [][Next]_vars

(***************************************************************************)
(* The tags' tasks and the server's timers keep running (no tag is meant   *)
(* whose radio did not come up: TourTag's RadioFailed); UDP and InfluxDB   *)
(* may fail, but not for ever. Charging a tag is up to its visitor, and a  *)
(* sleeping tag wakes only if its battery lasts.                           *)
(***************************************************************************)
Fairness ==
  /\ WF_vars(SweepTick) /\ WF_vars(GraphTick) /\ WF_vars(StayTick)
  /\ \A u \in User :
       /\ WF_vars(TagOnline(u)) /\ WF_vars(TagRange(u))
       /\ WF_vars(TagOffline(u)) /\ WF_vars(TagSleep(u))
       /\ \A w \in Worker : WF_vars(TagStop(u, w))
       /\ SF_vars(ConnectionMessage(u, "online"))
       /\ SF_vars(ConnectionMessage(u, "offline"))
       /\ SF_vars(UwbMessage(u))
       /\ SF_vars(SweepAnswer(u)) /\ WF_vars(SweepResume(u))

FairSpec == Spec /\ Fairness

-----------------------------------------------------------------------------
(***************************************************************************)
(* Properties                                                              *)
(***************************************************************************)
Dropped(u) == loc[u] # Absent /\ loc'[u] = Absent

\* Each tag behaves as TagLifecycle promises: the tags this module talks to
\* are the ones TourTag was shown to implement.
Life(u) == INSTANCE TagLifecycle WITH
  Announcer <- "connection",
  phase <- phase[u], stopped <- stopped[u], farewell <- farewell[u]
TagsAreLifecycles ==
  /\ \A u \in User : Life(u)!Init
  /\ [][\A u \in User : Life(u)!Next \/ UNCHANGED <<phase[u], stopped[u], farewell[u]>>]_vars

\* A visitor is taken off the map only if "offline" was the recorded status of
\* its tag at some time while the sweep's query for it was out: not on a query
\* that failed or came back empty, and not on "online" or an older answer.
OnlyOffIsDropped ==
  [][\A u \in User : Dropped(u) => wasOff[u]]_vars

\* index.js: "If the status is 0, clear the values for that userID": a visitor
\* whose tag is recorded as off for good leaves the map for good, even if UWB
\* messages overtook the farewell. It needs an id without a leading zero.
OffIsDropped ==
  \A u \in User : (<>[](status[u] = "offline")) => <>[](loc[u] = Absent)

\* A room that everybody has left, or was dropped from, stops counting in the
\* occupancy and in the weights the routes are computed from.
EmptyRoomsWeighNothing ==
  \A r \in Room :
    (\A u \in User : loc[u] # r) ~>
       (\/ occupancy[r] = 0 /\ weights[r] = 0
        \/ \E u \in User : loc[u] = r)

\* A visitor whose tag keeps touring is on the map for good from some time on,
\* although a sweep may have dropped it on an answer that was out of date.
TouringIsPlaced ==
  \A u \in User : (<>[](phase[u] = "touring")) => <>[](loc[u] # Absent)
=============================================================================
