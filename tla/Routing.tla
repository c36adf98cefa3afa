------------------------------ MODULE Routing ------------------------------
(***************************************************************************)
(* The two searches of the server as its endpoints run them: one call of   *)
(* GET /path/:userID (Dijkstra) or of POST /tsp-path (Tsp), from its first *)
(* statement to its answer. JavaScript runs a call to its end, so that the *)
(* two never interleave and share start, distances and pc here.            *)
(***************************************************************************)
EXTENDS Tsp

VARIABLES
  call,                      \* the endpoint: "path" or "tour"
  graph, end, prev, pq, at, path

pathVars == <<graph, end, prev, pq, at, path>>
tourVars == <<weight, nodes, order, parents, visited, here, back, best>>

D == INSTANCE Dijkstra

\* Variables of the endpoint that is not called keep these values.
PathIdle ==
  /\ graph = <<>> /\ end = Undefined /\ prev = <<>> /\ pq = <<>>
  /\ at = Undefined /\ path = <<>>

TourIdle ==
  /\ weight = <<>> /\ nodes = <<>> /\ perms = <<>> /\ leg = 1 /\ total = 0
  /\ fullPath = <<>> /\ current = Undefined /\ parents = <<>> /\ visited = {}
  /\ here = Undefined /\ cursor = Undefined /\ legPath = <<>>
  /\ shortestDistance = Infinity /\ shortestPath = <<>>

RoutingInit ==
  \/ call = "path" /\ D!Init /\ TourIdle
  \/ call = "tour" /\ Init /\ PathIdle

RoutingNext ==
  \/ call = "path" /\ D!Next /\ UNCHANGED <<call, tourVars>>
  \/ call = "tour" /\ Next /\ UNCHANGED <<call, pathVars>>

routingVars == <<call, pathVars, vars>>

RoutingSpec == RoutingInit /\ [][RoutingNext]_routingVars /\ WF_routingVars(RoutingNext)

-----------------------------------------------------------------------------
(***************************************************************************)
(* Properties                                                              *)
(***************************************************************************)
\* The types of the called endpoint's variables.
RoutingTypeOK ==
  /\ call \in {"path", "tour"}
  /\ call = "path" => D!TypeOK
  /\ call = "tour" => TypeOK

\* Leaving at the first sight of the end (dijkstra.js) and never relaxing a
\* visited room again (tsp.js) are right, whatever congestion does to the
\* weights; the queue dequeues by priority although an improved node is enqueued
\* a second time.
SearchesSettle ==
  /\ call = "path" => D!QueueSorted /\ D!DistancesSettle
  /\ call = "tour" => VisitedAreFinal

\* What GET /path answers for two connected rooms is a walk between them that
\* no other is shorter than.
PathIsShortest == call = "path" => D!PathIsShortest

\* What POST /tsp-path answers is a walk through all the requested rooms that no
\* other is shorter than.
TourAnswered == call = "tour" => TourIsShortest

\* Every call returns, so that the server's event loop goes on: a path from any
\* start, a tour from a room of the graph through rooms of the graph. (From a
\* start that is no node of the graph the tour's first leg never ends,
\* Navigation's ServerStaysUp, and neither does a leg to such a name: nothing
\* of what POST /tsp-path is sent is looked up in the graph.)
CallReturns ==
  call = "path" \/ (start \in Node /\ Stops \subseteq Node) => <>(pc = "done")
=============================================================================
