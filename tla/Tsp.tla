--------------------------------- MODULE Tsp ---------------------------------
(***************************************************************************)
(* code/server/tsp.js: the tour of POST /tsp-path. Every order of the      *)
(* requested rooms is costed by one dijkstra call per leg, the first       *)
(* cheapest order wins. One action is one turn of a loop.                  *)
(***************************************************************************)
EXTENDS Integers, Sequences, SequencesExt, FiniteSetsExt

CONSTANTS
  Node,       \* the rooms, keys of the graph
  Passage,    \* preSetGraph: the pairs of rooms one can walk between
  Weight,     \* the weights a passage may have: distance and congestion
  Elsewhere,  \* "User is not in any room"
  Unknown,    \* a name in a request that is no key of the graph
  From,       \* the starts considered
  MaxStops    \* bound: rooms in a request

ASSUME TspAssumption ==
  /\ IsFiniteSet(Node) /\ Elsewhere \notin Node
  /\ Unknown \notin Node \cup {Elsewhere}
  /\ From \subseteq Node \cup {Elsewhere}
  /\ Passage \subseteq {{m, n} : m, n \in Node}
  /\ IsFiniteSet(Weight) /\ Weight \subseteq Nat \ {0}
  /\ MaxStops \in Nat
  /\ {"null", "undefined"} \cap (Node \cup {Elsewhere, Unknown}) = {}   \* names

Infinity  == 1 + MaxStops * Cardinality(Node) * Max(Weight \cup {1})
Undefined == "undefined"
Start     == Node \cup {Elsewhere}   \* the keys of dijkstra's tables
Stop      == Node \cup {Unknown}     \* what a request may name
Distance  == 0..Infinity

VARIABLES
  weight,                        \* weight[p]: of passage p
  start, nodes,                  \* the request
  perms,                         \* the orders still to be costed
  leg,                           \* calculatePathForPermutation's next node
  total, fullPath,               \* totalDistance, fullPath
  current,                       \* where the leg starts
  distances, parents, visited,   \* dijkstra's tables
  here,                          \* currentNode
  cursor, legPath,               \* the reconstruction's current and path
  shortestDistance, shortestPath,
  pc

request == <<weight, start, nodes>>
order   == <<perms, leg, total, fullPath, current>>
search  == <<distances, parents, visited, here>>
back    == <<cursor, legPath>>
best    == <<shortestDistance, shortestPath>>
vars    == <<request, order, search, back, best, pc>>

TypeOK ==
  /\ weight \in [Passage -> Weight]
  /\ start \in From /\ nodes \in Seq(Stop)
  /\ perms \in Seq(Seq(Stop))
  /\ leg \in 1..MaxStops + 1
  /\ total \in Distance /\ fullPath \in Seq(Node)
  /\ current \in Start
  /\ distances \in [Start -> Distance]
  /\ parents \in [Start -> Start \cup {Undefined}]
  /\ visited \subseteq Node \cup {start}   \* distances has no other keys
  /\ here \in Node \cup {start}
  /\ cursor \in Start \cup {Unknown, Undefined} /\ legPath \in Seq(Stop)
  /\ shortestDistance \in Distance /\ shortestPath \in Seq(Start)
  /\ pc \in {"permutation", "leg", "search", "walk", "done"}

\* Variant: the first element goes everywhere but behind the last.
GetPermutationsShort(a) ==
  LET perm[i \in 1..Len(a) + 1] ==
        IF i > Len(a) THEN << <<>> >>
        ELSE FlattenSeq([j \in DOMAIN perm[i + 1] |->
               LET p == perm[i + 1][j]
               IN  [k \in 1..(IF p = <<>> THEN 1 ELSE Len(p)) |-> InsertAt(p, k, a[i])]])
  IN  perm[1]

\* The permutations of the elements from i on: the i-th at every place of the
\* permutations of those after it.
GetPermutations(a) ==
  LET perm[i \in 1..Len(a) + 1] ==
        IF i > Len(a) THEN << <<>> >>
        ELSE FlattenSeq([j \in DOMAIN perm[i + 1] |->
               LET p == perm[i + 1][j]
               IN  [k \in 1..Len(p) + 1 |-> InsertAt(p, k, a[i])]])
  IN  perm[1]

\* The endpoint takes any names for rooms (its example has "1.1", no key of the
\* graph); an empty request is refused. Requests that name a room twice are left
\* out: the phone's list has every room once.
Requests == {s \in BoundedSeq(Stop, MaxStops) : s # <<>> /\ IsInjective(s)}

Init ==
  /\ weight \in [Passage -> Weight]
  /\ start \in From
  /\ nodes \in Requests
  /\ perms = GetPermutations(nodes)
  /\ leg = 1 /\ total = 0 /\ fullPath = <<>> /\ current = start
  /\ distances = [n \in Start |-> Infinity]
  /\ parents = [n \in Start |-> Undefined]
  /\ visited = {} /\ here = start
  /\ cursor = Undefined /\ legPath = <<>>
  /\ shortestDistance = Infinity /\ shortestPath = <<>>
  /\ pc = "permutation"

Neighbors(n) == {m \in Node : {m, n} \in Passage /\ m # n}

(***************************************************************************)
(* findShortestRoute and calculatePathForPermutation                       *)
(***************************************************************************)
NextPermutation ==
  /\ pc = "permutation"
  /\ IF perms = <<>>
     THEN pc' = "done" /\ UNCHANGED order
     ELSE /\ leg' = 1 /\ total' = 0 /\ fullPath' = <<>> /\ current' = start
          /\ pc' = "leg"
          /\ UNCHANGED perms
  /\ UNCHANGED <<request, search, back, best>>

\* The permutation's cost is known: keep it if it is the first or cheaper.
Costed(d, p) ==
  /\ IF d < shortestDistance
     THEN shortestDistance' = d /\ shortestPath' = p
     ELSE UNCHANGED best
  /\ perms' = Tail(perms)
  /\ pc' = "permutation"

NextLeg ==
  /\ pc = "leg"
  /\ IF leg > Len(Head(perms))
     THEN /\ Costed(total, <<start>> \o fullPath)
          /\ UNCHANGED <<leg, total, fullPath, current, search, back>>
     ELSE /\ distances' = [n \in Start |-> IF n = current THEN 0 ELSE Infinity]
          /\ parents' = [n \in Start |-> Undefined]
          /\ visited' = {}
          /\ here' = current
          /\ pc' = "search"
          /\ UNCHANGED <<order, back, best>>
  /\ UNCHANGED request

(***************************************************************************)
(* dijkstra                                                                *)
(***************************************************************************)
\* Variant: any neighbour's distance is overwritten.
ImprovedAlways == Neighbors(here) \ (visited \cup {here})

Improved ==
  {m \in Neighbors(here) \ (visited \cup {here}) :
     distances[here] + weight[{m, here}] < distances[m]}

\* Relax the neighbours, then scan for the unvisited node at the least distance;
\* among equals, the first key.
Visit ==
  /\ pc = "search"
  /\ visited' = visited \cup {here}
  /\ distances' = [m \in Start |->
       IF m \in Improved THEN distances[here] + weight[{m, here}] ELSE distances[m]]
  /\ parents' = [m \in Start |-> IF m \in Improved THEN here ELSE parents[m]]
  /\ LET reached == {m \in Start \ visited' : distances'[m] < Infinity}
     IN  IF reached = {}
         THEN /\ pc' = "walk"
              /\ cursor' = Head(perms)[leg]
              /\ legPath' = <<>>
              /\ UNCHANGED here
         ELSE /\ here' \in {m \in reached : \A n \in reached : distances'[m] <= distances'[n]}
              /\ UNCHANGED <<back, pc>>
  /\ UNCHANGED <<request, order, best>>

\* `while (current !== start)`: from a room the search did not reach, and from a
\* name that is no room, the walk comes to undefined, whose parent is undefined.
\* (The path grows by undefined for ever; its growth is left out.)
WalkBack ==
  /\ pc = "walk" /\ cursor # current
  /\ IF cursor = Undefined
     THEN UNCHANGED back
     ELSE /\ cursor' = IF cursor \in Start THEN parents[cursor] ELSE Undefined
          /\ legPath' = <<cursor>> \o legPath
  /\ UNCHANGED <<request, order, search, best, pc>>

LegDone ==
  /\ pc = "walk" /\ cursor = current
  /\ LET node == Head(perms)[leg]
     IN  IF distances[node] = Infinity
         THEN /\ Costed(Infinity, <<>>)
              /\ UNCHANGED <<leg, total, fullPath, current>>
         ELSE /\ total' = total + distances[node]
              /\ fullPath' = fullPath \o legPath
              /\ current' = node
              /\ leg' = leg + 1
              /\ pc' = "leg"
              /\ UNCHANGED <<perms, best>>
  /\ UNCHANGED <<request, search, back>>

Next == NextPermutation \/ NextLeg \/ Visit \/ WalkBack \/ LegDone

-----------------------------------------------------------------------------
(***************************************************************************)
(* References: Bellman's equation for one leg, and for tours over pairs of *)
(* a room and the set of requested rooms seen so far.                      *)
(***************************************************************************)
Tabulated(f) == CHOOSE g \in {f} : g = f   \* f, computed once by TLC

Leg[k \in Nat] ==
  IF k = 0 THEN [n \in Start |-> IF n = current THEN 0 ELSE Infinity]
  ELSE LET w == Tabulated(Leg[k - 1])
       IN  [n \in Start |-> Min({w[n]} \cup {w[m] + weight[{m, n}] : m \in Neighbors(n)})]

Stops == Range(nodes)

Tour[k \in Nat] ==   \* at p: in room p[1], having seen p[2]
  IF k = 0
  THEN [p \in Start \X SUBSET Stops |->
          IF p[1] = start /\ p[2] \subseteq {start} THEN 0 ELSE Infinity]
  ELSE LET w == Tabulated(Tour[k - 1])
       IN  [p \in Start \X SUBSET Stops |->
              Min({w[p]} \cup
                  {w[<<m, p[2] \ {p[1]}>>] + weight[{m, p[1]}] : m \in Neighbors(p[1])})]

\* No shortest tour takes more than one simple walk per stop.
LeastTour == Min({Tour[MaxStops * Cardinality(Node)][<<n, Stops>>] : n \in Node})

-----------------------------------------------------------------------------
(***************************************************************************)
(* Properties                                                              *)
(***************************************************************************)
\* The linear scan visits the rooms in order of distance: what it has visited
\* is final, whatever congestion does to the weights.
VisitedAreFinal ==
  pc \in {"search", "walk"} =>
    LET l == Leg[Cardinality(Node)] IN \A n \in visited : distances[n] = l[n]

Walked(p) == FoldFunction(+, 0, [i \in 1..(Len(p) - 1) |-> weight[{p[i], p[i + 1]}]])

\* Costing orders of rooms leg by leg misses no shorter walk: from a room of the
\* graph, and for rooms of the graph, the answer starts at the visitor, passes
\* every requested room and ends in one (the tracker of the navigation waits for
\* the visitor there), is a walk through passages, and costs what it says and
\* what the least walk costs.
TourIsShortest ==
  (pc = "done" /\ start \in Node /\ Stops \subseteq Node) =>
    /\ shortestPath # <<>> /\ Head(shortestPath) = start
    /\ Stops \subseteq Range(shortestPath) /\ Last(shortestPath) \in Stops
    /\ \A i \in 1..(Len(shortestPath) - 1) :
         shortestPath[i + 1] \in Neighbors(shortestPath[i])
    /\ Walked(shortestPath) = shortestDistance
    /\ shortestDistance = LeastTour

=============================================================================
