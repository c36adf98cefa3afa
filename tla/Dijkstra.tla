------------------------------ MODULE Dijkstra ------------------------------
(***************************************************************************)
(* code/server/dijkstra.js with priorityQueue.js: the route of             *)
(* GET /path/:userID. The queue is a sorted sequence into which a node may *)
(* be put again when its distance improves; stale entries stay. One action *)
(* is one turn of a loop. Weights are positive: 0.7 * distance + congestion.*)
(***************************************************************************)
EXTENDS Integers, Sequences, SequencesExt, FiniteSetsExt

CONSTANTS
  Node,       \* the rooms, keys of the graph
  Elsewhere,  \* a start that is no key of the graph
  Weight      \* the weights edges may have, positive (TspAssumption)

\* Larger than any path's length: a path has fewer edges than there are nodes.
Infinity == 1 + Cardinality(Node) * (IF Weight = {} THEN 0 ELSE Max(Weight))
Null     == "null"
Start    == Node \cup {Elsewhere}
Link     == {p \in Node \X Node : p[1] # p[2]}

\* preSetGraph lists every passage in both directions, weighted alike.
Graphs ==
  {g \in [Link -> Weight \cup {Infinity}] : \A p \in Link : g[p] = g[<<p[2], p[1]>>]}

VARIABLES
  graph,     \* graph[<<m, n>>]: the weight of the passage, Infinity if there is none
  start, end,
  distances, \* of the nodes; `distances[startNode]` also of a start elsewhere
  prev,
  pq,        \* PriorityQueue.elements
  at,        \* the reconstruction's cursor
  path,
  pc         \* "search", "reconstruct", "done"

vars == <<graph, start, end, distances, prev, pq, at, path, pc>>

Entry == [element : Start, priority : 0..Infinity]

TypeOK ==
  /\ graph \in Graphs
  /\ start \in Start /\ end \in Node
  /\ distances \in [Start -> 0..Infinity]
  /\ prev \in [Node -> Start \cup {Null}]
  /\ pq \in Seq(Entry)
  /\ at \in Start \cup {Null}
  /\ path \in Seq(Start)
  /\ pc \in {"search", "reconstruct", "done"}

Init ==
  /\ graph \in Graphs
  /\ start \in Start
  /\ end \in Node
  /\ distances = [n \in Start |-> IF n = start THEN 0 ELSE Infinity]
  /\ prev = [n \in Node |-> Null]
  /\ pq = <<[element |-> start, priority |-> 0]>>
  /\ at = end
  /\ path = <<>>
  /\ pc = "search"

Neighbors(n) == {m \in Node : n \in Node /\ n # m /\ graph[<<n, m>>] # Infinity}

\* Variant: the element is queued without its priority.
EnqueueBare(q, e) == Append(q, e.element)

\* enqueue: before the first entry with a larger priority, else at the end.
Enqueue(q, e) ==
  LET after == {i \in DOMAIN q : e.priority < q[i].priority}
  IN  InsertAt(q, IF after = {} THEN Len(q) + 1 ELSE Min(after), e)

Alt(n) == [m \in Neighbors(n) |-> distances[n] + graph[<<n, m>>]]

\* One turn of the while loop: the entry with the least priority, unless it is
\* the end, relaxes its neighbours (in any order: for .. in's is the keys').
Visit ==
  /\ pc = "search"
  /\ pq # <<>>
  /\ LET n        == Head(pq).element
         alt      == Alt(n)
         improved == {m \in Neighbors(n) : alt[m] < distances[m]}
     IN  IF n = end
         THEN /\ pc' = "reconstruct"
              /\ UNCHANGED <<distances, prev, pq>>
         ELSE /\ distances' = [m \in Start |-> IF m \in improved THEN alt[m] ELSE distances[m]]
              /\ prev' = [m \in Node |-> IF m \in improved THEN n ELSE prev[m]]
              /\ \E order \in SetToSeqs(improved) :
                   pq' = FoldLeft(LAMBDA q, m : Enqueue(q, [element |-> m, priority |-> alt[m]]),
                                  Tail(pq), order)
              /\ UNCHANGED pc
  /\ UNCHANGED <<graph, start, end, at, path>>

\* Variant: no isEmpty() test, dequeue() gives undefined and the call throws.
ExhaustedThrows ==
  /\ pc = "search"
  /\ pq = <<>>
  /\ pc' = "thrown"
  /\ UNCHANGED <<graph, start, end, distances, prev, pq, at, path>>

Exhausted ==   \* the queue is empty: the end was never reached
  /\ pc = "search"
  /\ pq = <<>>
  /\ pc' = "reconstruct"
  /\ UNCHANGED <<graph, start, end, distances, prev, pq, at, path>>

\* Variant: no reverse().
WalkUnreversed ==
  /\ pc = "reconstruct"
  /\ at # Null
  /\ path' = Append(path, at)
  /\ at' = IF at \in Node THEN prev[at] ELSE Null
  /\ UNCHANGED <<graph, start, end, distances, prev, pq, pc>>

Walk ==
  /\ pc = "reconstruct"
  /\ at # Null
  /\ path' = <<at>> \o path
  /\ at' = IF at \in Node THEN prev[at] ELSE Null
  /\ UNCHANGED <<graph, start, end, distances, prev, pq, pc>>

\* `path.length === 1 && path[0] === startNode` returns [] ("no path exists").
Return ==
  /\ pc = "reconstruct"
  /\ at = Null
  /\ path' = IF path = <<start>> THEN <<>> ELSE path
  /\ pc' = "done"
  /\ UNCHANGED <<graph, start, end, distances, prev, pq, at>>

Next == Visit \/ Exhausted \/ Walk \/ Return

-----------------------------------------------------------------------------
(***************************************************************************)
(* Reference: Bellman's equation, unrolled once per node                   *)
(***************************************************************************)
Within[k \in Nat] ==   \* least weight of a walk from start of at most k edges
  IF k = 0 THEN [n \in Node |-> IF n = start THEN 0 ELSE Infinity]
  ELSE LET w == Within[k - 1]
       IN  [n \in Node |-> Min({w[n]} \cup {w[m] + graph[<<m, n>>] : m \in Neighbors(n)})]

Shortest == Within[Cardinality(Node)]

-----------------------------------------------------------------------------
(***************************************************************************)
(* Properties                                                              *)
(***************************************************************************)
\* The queue dequeues by priority although an improved node is enqueued a
\* second time: its entries are sorted.
QueueSorted ==
  \A i, j \in DOMAIN pq : i < j => pq[i].priority <= pq[j].priority

\* Leaving the loop at the first sight of the end is right: a distance not above
\* the least one queued is final.
DistancesSettle ==
  pc = "search" =>
    LET s == Shortest
    IN  \A n \in Node :
          (IF pq = <<>> THEN TRUE ELSE distances[n] <= Head(pq).priority)
            => distances[n] = s[n]

Length(p) == FoldFunction(+, 0, [i \in 1..(Len(p) - 1) |-> graph[<<p[i], p[i + 1]>>]])

\* What GET /path answers for two connected rooms is a walk between them that
\* no other is shorter than.
PathIsShortest ==
  (pc = "done" /\ start \in Node /\ start # end /\ Shortest[end] < Infinity) =>
    /\ path # <<>> /\ Head(path) = start /\ Last(path) = end
    /\ \A i \in 1..(Len(path) - 1) : path[i + 1] \in Neighbors(path[i])
    /\ Length(path) = Shortest[end]

=============================================================================
