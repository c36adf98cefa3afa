----------------------------- MODULE Navigation -----------------------------
(***************************************************************************)
(* A visitor's navigation: the phone's CurrentLoc screen asks the server   *)
(* for a tour (POST /tsp-path; GET /path is the one-goal form), the server *)
(* tells the tag to range fast ("1" on port 3335) and starts an interval   *)
(* that tells it to range slowly again ("0") once the visitor is in the    *)
(* end room. What moves a visitor on the server's map is Presence's.       *)
(***************************************************************************)
EXTENDS Naturals, Sequences, SequencesExt

CONSTANTS
  User, Room,
  DefaultRoom,   \* where trilateration places a visitor without UWB data
  NoRoom,        \* "User is not in any room", no node of the graph
  Absent,        \* no entry in signalMap; on the phone: nothing fetched yet
  MaxRequests    \* bound: navigations started in a behaviour

ASSUME NavigationAssumption ==
  /\ DefaultRoom \in Room
  /\ NoRoom \notin Room
  /\ Absent \notin Room \cup {NoRoom}
  /\ MaxRequests \in Nat

Place == Room \cup {NoRoom}

VARIABLES
  up,         \* the server's event loop still turns
  loc,        \* signalMap: where trilateration places u, or Absent
  device,     \* userDeviceMap[u] is set
  trackers,   \* trackers[u][e]: running intervals of trackDeviceToEndNode(u, e)
  seen,       \* the location the phone fetched last
  on,         \* the tag is awake
  mode,       \* the tag's MODE
  toTag,      \* messages on their way to the tag's interval port
  disturbed,  \* one of them was lost, or overtaken by a later one
  requests    \* navigations started so far

server == <<up, loc, device, trackers>>
tag    == <<on, mode, disturbed>>
vars   == <<up, loc, device, trackers, seen, on, mode, toTag, disturbed, requests>>

Modes == {"slow", "fast"}

TypeOK ==
  /\ up \in BOOLEAN
  /\ loc \in [User -> Place \cup {Absent}]
  /\ device \in [User -> BOOLEAN]
  /\ trackers \in [User -> [Room -> Nat]]
  /\ seen \in [User -> Place \cup {Absent}]
  /\ on \in [User -> BOOLEAN]
  /\ mode \in [User -> Modes]
  /\ toTag \in [User -> Seq(Modes)]
  /\ disturbed \in [User -> BOOLEAN]
  /\ requests \in 0..MaxRequests

Init ==
  /\ up = TRUE
  /\ loc = [u \in User |-> Absent]
  /\ device = [u \in User |-> FALSE]
  /\ trackers = [u \in User |-> [e \in Room |-> 0]]
  /\ seen = [u \in User |-> Absent]
  /\ on = [u \in User |-> TRUE]
  /\ mode = [u \in User |-> "slow"]
  /\ toTag = [u \in User |-> <<>>]
  /\ disturbed = [u \in User |-> FALSE]
  /\ requests = 0

\* trilateration(signalMap, u, ...): with ten equal default distances the
\* first three beacons decide.
Located(u) == IF loc[u] = Absent THEN DefaultRoom ELSE loc[u]

(***************************************************************************)
(* The server                                                              *)
(***************************************************************************)
UwbMessage(u) ==
  /\ up
  /\ \E p \in Place : loc' = [loc EXCEPT ![u] = p]
  /\ device' = [device EXCEPT ![u] = TRUE]
  /\ UNCHANGED <<up, trackers, seen, tag, toTag, requests>>

Sweep(u) ==   \* clearUserData keeps userDeviceMap and the trackers
  /\ up
  /\ loc' = [loc EXCEPT ![u] = Absent]
  /\ UNCHANGED <<up, device, trackers, seen, tag, toTag, requests>>

\* sendMessageToDevice: silently nothing for a visitor without a device.
Send(u, m) ==
  toTag' = IF device[u] THEN [toTag EXCEPT ![u] = Append(@, m)] ELSE toTag

Navigate(u, e) ==
  /\ requests < MaxRequests
  /\ requests' = requests + 1
  /\ Send(u, "fast")
  /\ trackers' = [trackers EXCEPT ![u][e] = @ + 1]
  /\ UNCHANGED <<loc, device, seen, tag>>

Path(u, e) ==   \* dijkstra.js returns a path whatever the start
  /\ up
  /\ Navigate(u, e)
  /\ UNCHANGED up

\* The phone offers its button unless the location it fetched last is NoRoom.
\* The end of the tour is whichever chosen room the shortest route visits last;
\* from a start that is no node of the graph tsp.js never returns.
TspPath(u, e) ==
  /\ up
  /\ seen[u] # NoRoom
  /\ IF Located(u) = NoRoom
     THEN /\ up' = FALSE
          /\ UNCHANGED <<loc, device, trackers, seen, tag, toTag, requests>>
     ELSE Navigate(u, e) /\ UNCHANGED up

\* Variant: the interval is not cleared.
TrackerFiresForever(u, e) ==
  /\ up
  /\ trackers[u][e] > 0 /\ Located(u) = e
  /\ Len(toTag[u]) < 4
  /\ Send(u, "slow")
  /\ UNCHANGED <<server, seen, tag, requests>>

\* Variant: the interval ends without the message.
TrackerFiresSilently(u, e) ==
  /\ up
  /\ trackers[u][e] > 0 /\ Located(u) = e
  /\ trackers' = [trackers EXCEPT ![u][e] = @ - 1]
  /\ UNCHANGED <<up, loc, device, seen, tag, toTag, requests>>

\* Variant: an interval that was cleared fires once more.
TrackerFiresCleared(u, e) ==
  /\ up
  /\ Located(u) = e
  /\ trackers' = [trackers EXCEPT ![u][e] = @ - 1]
  /\ Send(u, "slow")
  /\ UNCHANGED <<up, loc, device, seen, tag, requests>>

TrackerFires(u, e) ==
  /\ up
  /\ trackers[u][e] > 0 /\ Located(u) = e
  /\ trackers' = [trackers EXCEPT ![u][e] = @ - 1]
  /\ Send(u, "slow")
  /\ UNCHANGED <<up, loc, device, seen, tag, requests>>

(***************************************************************************)
(* The phone and the tag                                                   *)
(***************************************************************************)
PhonePoll(u) ==   \* GET /location/u every 5 s
  /\ up
  /\ seen' = [seen EXCEPT ![u] = Located(u)]
  /\ UNCHANGED <<server, tag, toTag, requests>>

\* Variant: the receiving task ends after its first packet.
TagReceiveOnce(u) ==
  /\ mode[u] = "slow"
  /\ \E i \in DOMAIN toTag[u] :
       /\ toTag' = [toTag EXCEPT ![u] = RemoveAt(@, i)]
       /\ disturbed' = [disturbed EXCEPT ![u] = @ \/ i # 1]
       /\ mode' = [mode EXCEPT ![u] = IF on[u] THEN toTag[u][i] ELSE @]
  /\ UNCHANGED <<server, seen, on, requests>>

\* Interval_UDP_Receive; a tag that sleeps hears nothing.
TagReceive(u) ==
  /\ \E i \in DOMAIN toTag[u] :
       /\ toTag' = [toTag EXCEPT ![u] = RemoveAt(@, i)]
       /\ disturbed' = [disturbed EXCEPT ![u] = @ \/ i # 1]
       /\ mode' = [mode EXCEPT ![u] = IF on[u] THEN toTag[u][i] ELSE @]
  /\ UNCHANGED <<server, seen, on, requests>>

Lose(u) ==
  /\ \E i \in DOMAIN toTag[u] : toTag' = [toTag EXCEPT ![u] = RemoveAt(@, i)]
  /\ disturbed' = [disturbed EXCEPT ![u] = TRUE]
  /\ UNCHANGED <<server, seen, on, mode, requests>>

TagSleep(u) ==    \* deep sleep: MODE is 0 again after the reset
  /\ on[u]
  /\ on' = [on EXCEPT ![u] = FALSE]
  /\ mode' = [mode EXCEPT ![u] = "slow"]
  /\ UNCHANGED <<server, seen, toTag, disturbed, requests>>

TagWake(u) ==
  /\ ~on[u]
  /\ on' = [on EXCEPT ![u] = TRUE]
  /\ UNCHANGED <<server, seen, mode, toTag, disturbed, requests>>

Next == \E u \in User :
  \/ UwbMessage(u) \/ Sweep(u) \/ PhonePoll(u)
  \/ TagReceive(u) \/ Lose(u) \/ TagSleep(u) \/ TagWake(u)
  \/ \E e \in Room : Path(u, e) \/ TspPath(u, e) \/ TrackerFires(u, e)

Spec == Init /\ [][Next]_vars

\* Timers fire, and what is sent to a tag arrives or is lost.
Fairness == \A u \in User :
  /\ WF_vars(TagReceive(u))
  /\ \A e \in Room : WF_vars(TrackerFires(u, e))

FairSpec == Spec /\ Fairness

-----------------------------------------------------------------------------
(***************************************************************************)
(* Properties                                                              *)
(***************************************************************************)
Navigating(u) == \E e \in Room : trackers[u][e] > 0

\* What MODE is once everything in flight has arrived.
Settled(u) == IF toTag[u] = <<>> THEN mode[u] ELSE Last(toTag[u])

\* As long as none of its messages is lost or overtaken, a tag is fast, or about
\* to become so, only while an interval is still running that will slow it down:
\* whatever navigations overlap, visitors are dropped and tags sleep, none is
\* forgotten in the fast mode that drains its battery.
FastHasReason ==
  \A u \in User : Settled(u) = "fast" => Navigating(u) \/ disturbed[u]

\* The interval of a visitor who stays in the end room stops.
ArrivalEndsNavigation ==
  \A u \in User, e \in Room :
    (<>[](up /\ Located(u) = e)) => <>[](trackers[u][e] = 0)

\* ... and one who has no navigation left has a slow tag in the end.
RestIsSlow ==
  \A u \in User :
    (<>[](~Navigating(u))) => <>[](mode[u] = "slow" \/ disturbed[u])

\* README: "POST /tsp-path: Calculates and returns the shortest path", so the
\* event loop goes on after it, as the phone asks for no tour from outside the
\* rooms. The location the phone checked may be out of date.
ServerStaysUp == up
=============================================================================
