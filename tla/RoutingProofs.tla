---------------------------- MODULE RoutingProofs ----------------------------
(***************************************************************************)
(* What holds of both searches for every set of rooms, every graph and     *)
(* congestion, every start and every request: GET /path answers a shortest *)
(* walk and POST /tsp-path a shortest tour.                                *)
(*                                                                         *)
(* Induction is over sets, as the provers have no operator parameters: a   *)
(* set of numbers that holds 0 and the successor of each of its members    *)
(* has all of them.  A recursive function is a CHOOSE: it has the value    *)
(* its definition says once there is a function that satisfies it.         *)
(***************************************************************************)
EXTENDS Routing, FiniteSetTheorems, SequenceTheorems, TLAPS

-----------------------------------------------------------------------------
(***************************************************************************)
(* Numbers and induction.                                                  *)
(***************************************************************************)
\* A nonempty set of numbers has a least element.
LEMMA LeastOf ==
  ASSUME NEW T, T \subseteq Nat, T # {}
  PROVE  \E x \in T : \A y \in T : x <= y
  <1> DEFINE R == OpToRel(<, Nat)
  <1>1. IsWellFoundedOn(R, Nat)
    BY NatLessThanWellFounded
  <1>2. \A x, y \in Nat : <<y, x>> \in R <=> y < x
    BY DEF OpToRel
  <1> HIDE DEF R
  <1>3. PICK x \in T : \A y \in T : ~ (<<y, x>> \in R)
    BY <1>1, WFMin
  <1>4. ASSUME NEW y \in T PROVE x <= y
    <2>1. x \in Nat /\ y \in Nat
      OBVIOUS
    <2>2. ~ (y < x)
      BY <1>2, <1>3, <2>1, Zenon
    <2> QED BY <2>1, <2>2
  <1> QED BY <1>3, <1>4

\* Induction, as a set that holds 0 and the successor of each member.
LEMMA InductionSet ==
  ASSUME NEW S, 0 \in S, \A n \in Nat : n \in S => n + 1 \in S
  PROVE  Nat \subseteq S
  <1> SUFFICES ASSUME Nat \ S # {} PROVE FALSE
    OBVIOUS
  <1>1. PICK x \in Nat \ S : \A y \in Nat \ S : x <= y
    BY LeastOf
  <1>2. x # 0 
    OBVIOUS
  <1>3. x - 1 \in Nat /\ x - 1 \in S
    BY <1>1, <1>2
  <1> QED BY <1>3

\* f is the sequence v0, G[v0], G[G[v0]], ...
Iterates(V, v0, G, f) ==
  f \in [Nat -> V] /\ f[0] = v0 /\ \A k \in Nat : f[k + 1] = G[f[k]]

\* A function can be iterated: what a recursive definition over Nat needs to
\* have a value.
LEMMA Iterate ==
  ASSUME NEW V, NEW v0 \in V, NEW G \in [V -> V]
  PROVE  \E f : Iterates(V, v0, G, f)
  <1> DEFINE Pre(k, f) == f \in [0..k -> V] /\ f[0] = v0 /\ \A i \in 0..(k - 1) : f[i + 1] = G[f[i]]
             T == {k \in Nat : \E f : Pre(k, f)}
  <1>1. 0 \in T
    <2>1. Pre(0, [i \in 0..0 |-> v0])
      OBVIOUS
    <2> QED BY <2>1
  <1>2. ASSUME NEW k \in Nat, k \in T PROVE k + 1 \in T
    <2>1. PICK f : Pre(k, f)
      BY <1>2
    <2> DEFINE h == [i \in 0..(k + 1) |-> IF i = k + 1 THEN G[f[k]] ELSE f[i]]
    <2>2. Pre(k + 1, h)
      <3>1. f[k] \in V BY <2>1
      <3>2. h \in [0..(k+1) -> V] BY <3>1, <2>1
      <3>3. h[0] = v0 BY <2>1
      <3>4. ASSUME NEW i \in 0..k PROVE h[i + 1] = G[h[i]]
        <4>1. CASE i = k BY <4>1
        <4>2. CASE i # k 
           <5>1. i \in 0..(k-1) BY <4>2
           <5>2. h[i] = f[i] /\ h[i+1] = f[i+1] BY <5>1
           <5> QED BY <5>1, <5>2, <2>1
        <4> QED BY <4>1, <4>2
      <3>5. (k + 1) - 1 = k OBVIOUS
      <3> HIDE DEF h
      <3> QED BY <3>2, <3>3, <3>4, <3>5
    <2>3. k + 1 \in Nat
      OBVIOUS
    <2> HIDE DEF Pre, h
    <2> QED BY <2>2, <2>3
  <1>3. Nat \subseteq T
    <2> HIDE DEF T
    <2> QED BY <1>1, <1>2, InductionSet
  <1>4. \A k, j \in Nat : \A f, h : Pre(k, f) /\ Pre(j, h) /\ k <= j => \A i \in 0..k : f[i] = h[i]
    <2> SUFFICES ASSUME NEW k \in Nat, NEW j \in Nat, NEW f, NEW h, Pre(k, f), Pre(j, h), k <= j
                 PROVE  \A i \in 0..k : f[i] = h[i]
      <3> HIDE DEF Pre
      <3> QED OBVIOUS
    <2> DEFINE U == {i \in Nat : i <= k => f[i] = h[i]}
    <2>1. 0 \in U OBVIOUS
    <2>2. ASSUME NEW i \in Nat, i \in U PROVE i + 1 \in U
      <3>1. CASE i + 1 <= k
         <4>1. i \in 0..(k-1) /\ i \in 0..(j-1) BY <3>1
         <4> QED BY <4>1, <2>2
      <3> QED BY <3>1
    <2>3. Nat \subseteq U
      <3> HIDE DEF U
      <3> QED BY <2>1, <2>2, InductionSet
    <2> QED BY <2>3
  <1> DEFINE g(k) == CHOOSE f : Pre(k, f)
             F == [k \in Nat |-> g(k)[k]]
  <1>5. \A k \in Nat : Pre(k, g(k))
    <2> HIDE DEF Pre
    <2> QED BY <1>3
  <1> HIDE DEF g
  <1>6. F \in [Nat -> V]
    <2>1. \A k \in Nat : k \in 0..k
      OBVIOUS
    <2> QED BY <1>5, <2>1
  <1>7. F[0] = v0
    BY <1>5
  <1>8. ASSUME NEW k \in Nat PROVE F[k + 1] = G[F[k]]
    <2>1. Pre(k, g(k)) /\ Pre(k + 1, g(k + 1)) /\ k \in 0..k /\ k \in 0..((k + 1) - 1) /\ k <= k + 1
      BY <1>5
    <2>2. g(k)[k] = g(k + 1)[k]
      <3> HIDE DEF Pre
      <3> QED BY <2>1, <1>4
    <2>3. g(k + 1)[k + 1] = G[g(k + 1)[k]]
      BY <2>1
    <2> QED BY <2>2, <2>3
  <1> HIDE DEF F
  <1> QED BY <1>6, <1>7, <1>8 DEF Iterates

\* Induction over the subsets of a finite set.
LEMMA FiniteInduction ==
  ASSUME NEW S, IsFiniteSet(S), NEW P, {} \in P,
         \A T \in SUBSET S, x \in S : x \notin T /\ T \in P => T \cup {x} \in P
  PROVE  S \in P
  <1> DEFINE Z == {k \in Nat : \A T \in SUBSET S : Cardinality(T) = k => T \in P}
  <1>1. 0 \in Z
    BY FS_EmptySet, FS_Subset
  <1>2. ASSUME NEW k \in Nat, k \in Z PROVE k + 1 \in Z
    <2>1. SUFFICES ASSUME NEW T \in SUBSET S, Cardinality(T) = k + 1 PROVE T \in P
      OBVIOUS
    <2>2. IsFiniteSet(T) /\ T # {}
      BY <2>1, FS_Subset, FS_EmptySet
    <2>3. PICK x : x \in T
      BY <2>2
    <2>4. Cardinality(T \ {x}) = k
      <3>1. Cardinality(T \ {x}) = Cardinality(T) - 1
        BY <2>2, <2>3, FS_RemoveElement
      <3> QED BY <2>1, <3>1
    <2>5. T \ {x} \in P /\ T \ {x} \in SUBSET S
      BY <1>2, <2>4
    <2>6. (T \ {x}) \cup {x} = T /\ x \in S /\ x \notin T \ {x}
      BY <2>3
    <2> QED BY <2>5, <2>6
  <1>3. Cardinality(S) \in Z
    <2> HIDE DEF Z
    <2> QED BY <1>1, <1>2, InductionSet, FS_CardinalityType
  <1> QED BY <1>3

\* A nonempty finite set of numbers has a greatest element.
LEMMA GreatestOf ==
  ASSUME NEW S, IsFiniteSet(S), S \subseteq Nat, S # {}
  PROVE  \E x \in S : \A y \in S : y <= x
  <1> DEFINE P == {T \in SUBSET S : \E b \in Nat : \A y \in T : y <= b}
  <1>1. {} \in P
    OBVIOUS
  <1>2. ASSUME NEW T \in SUBSET S, NEW x \in S, T \in P PROVE T \cup {x} \in P
    <2>1. PICK b \in Nat : \A y \in T : y <= b
      BY <1>2
    <2>2. \A y \in T \cup {x} : y <= b + x
      BY <2>1
    <2>3. b + x \in Nat
      OBVIOUS
    <2> QED BY <2>2, <2>3
  <1>3. S \in P
    <2> HIDE DEF P
    <2> QED BY <1>1, <1>2, FiniteInduction
  <1> DEFINE U == {b \in Nat : \A y \in S : y <= b}
  <1>4. PICK b \in U : \A c \in U : b <= c
    <2>1. U # {} /\ U \subseteq Nat
      BY <1>3
    <2> HIDE DEF U
    <2> QED BY <2>1, LeastOf
  <1>5. CASE b \in S
    BY <1>4, <1>5
  <1>6. CASE b \notin S
    <2>0. PICK y \in S : y <= b /\ y # b
      BY <1>4, <1>6
    <2>1. b - 1 \in Nat
      BY <1>4, <2>0
    <2>2. \A z \in S : z <= b - 1
      BY <1>4, <1>6
    <2> QED BY <1>4, <2>1, <2>2
  <1> QED BY <1>5, <1>6

\* What Min of the community modules gives.
LEMMA MinIs ==
  ASSUME NEW S, S \subseteq Nat, S # {}
  PROVE  Min(S) \in S /\ \A y \in S : Min(S) <= y
  BY LeastOf DEF Min

\* What Max of the community modules gives.
LEMMA MaxIs ==
  ASSUME NEW S, IsFiniteSet(S), S \subseteq Nat, S # {}
  PROVE  Max(S) \in S /\ \A y \in S : y <= Max(S)
  <1>1. \E x \in S : \A y \in S : x >= y
    BY GreatestOf
  <1> QED BY <1>1 DEF Max

\* A nonempty part of 1..j has a greatest element.
LEMMA MaxOfInterval ==
  ASSUME NEW j \in Nat, NEW s, s \subseteq 1..j, s # {}
  PROVE  Max(s) \in s /\ \A y \in s : y <= Max(s)
  <1>1. IsFiniteSet(1..j)
    BY FS_Interval
  <1>2. IsFiniteSet(s) /\ s \subseteq Nat
    <2>1. s \in SUBSET (1..j)
      OBVIOUS
    <2>2. IsFiniteSet(s)
      BY <1>1, <2>1, FS_Subset
    <2> QED BY <2>2
  <1> QED BY <1>2, MaxIs

\* The prover's arithmetic is linear: products are dealt with apart.
LEMMA ProductNat == \A a, b \in Nat : a * b \in Nat
  OBVIOUS

\* The laws of products that the bounds on lengths need.
LEMMA Times ==
  /\ \A a, b, c \in Nat : (a * b) * c = a * (b * c)
  /\ \A a, b \in Nat : (a + 1) * b = a * b + b /\ a * b \in Nat
  /\ \A a, b, c \in Nat : a <= b => a * c <= b * c
  /\ \A a \in Nat : 0 * a = 0
  <1>1. \A a, b, c \in Nat : a <= b => a * c <= b * c
    <2>1. SUFFICES ASSUME NEW a \in Nat, NEW b \in Nat, NEW c \in Nat, a <= b PROVE a * c <= b * c
      OBVIOUS
    <2>2. PICK x \in Nat : b = a + x
      <3>1. b - a \in Nat /\ b = a + (b - a)
        BY <2>1
      <3> QED BY <3>1
    <2>3. b * c = a * c + x * c /\ x * c \in Nat /\ a * c \in Nat
      BY <2>2
    <2> QED BY <2>3
  <1> QED BY <1>1

\* Sums are monotonic.
LEMMA AddBelow == \A a, b, c, d \in Nat : a <= c /\ b <= d => a + b <= c + d /\ a + b \in Nat
  OBVIOUS

\* Infinity is a number in both files, as rooms and weights are finite in number.
LEMMA InfinityIsNat == D!Infinity \in Nat \ {0} /\ Infinity \in Nat \ {0}
  <1>0. /\ IsFiniteSet(Node) /\ MaxStops \in Nat
        /\ IsFiniteSet(Weight) /\ Weight \subseteq Nat
    BY TspAssumption
  <1>1. Cardinality(Node) \in Nat /\ D!Cardinality(Node) = Cardinality(Node)
    BY <1>0, FS_CardinalityType DEF Cardinality, D!Cardinality
  <1>2. Weight # {} => D!Max(Weight) \in Nat
    <2>1. D!Max(Weight) = Max(Weight)
      BY DEF Max, D!Max
    <2>2. Weight # {} => Max(Weight) \in Weight
      BY <1>0, MaxIs
    <2> QED BY <1>0, <2>1, <2>2
  <1>3. Max(Weight \cup {1}) \in Nat
    <2>1. IsFiniteSet(Weight \cup {1})
      BY <1>0, FS_AddElement
    <2>2. Weight \cup {1} \subseteq Nat /\ Weight \cup {1} # {}
      BY <1>0
    <2> QED BY <2>1, <2>2, MaxIs
  <1>4. D!Infinity \in Nat \ {0}
    <2>1. CASE Weight = {}
      <3>1. D!Infinity = 1 + Cardinality(Node) * 0
        BY <1>1, <2>1 DEF D!Infinity
      <3>2. \A a \in Nat : 1 + a * 0 \in Nat \ {0}
        OBVIOUS
      <3> QED BY <1>1, <3>1, <3>2
    <2>2. CASE Weight # {}
      <3>1. Cardinality(Node) * D!Max(Weight) \in Nat
        BY <1>1, <1>2, <2>2, ProductNat
      <3>2. D!Infinity = 1 + Cardinality(Node) * D!Max(Weight)
        BY <1>1, <2>2 DEF D!Infinity
      <3> HIDE DEF D!Infinity
      <3> QED BY <3>1, <3>2
    <2> QED BY <2>1, <2>2
  <1>5. Infinity \in Nat \ {0}
    <2>1. MaxStops * Cardinality(Node) \in Nat
      BY <1>0, <1>1, ProductNat
    <2>2. MaxStops * Cardinality(Node) * Max(Weight \cup {1}) \in Nat
      BY <2>1, <1>3, ProductNat
    <2> QED BY <2>2 DEF Infinity
  <1> QED BY <1>4, <1>5

-----------------------------------------------------------------------------
(***************************************************************************)
(* Bellman's equation: the lengths of the shortest walks of a graph with nodes*)
(* N, edges E of weights w and sources S, as far as they are below Top.    *)
(***************************************************************************)
\* c relaxes b once over the edges of E.
Relaxed(N, E, w, b, c) ==
  \A n \in N :
    /\ c[n] <= b[n]
    /\ \A m \in N : <<m, n>> \in E => c[n] <= b[m] + w[<<m, n>>]
    /\ c[n] = b[n] \/ \E m \in N : <<m, n>> \in E /\ c[n] = b[m] + w[<<m, n>>]

\* B unrolls Bellman's equation once per step.
Unrolls(N, E, w, Top, S, B) ==
  /\ \A e \in E : w[e] \in Nat \ {0}
  /\ B \in [Nat -> [N -> 0..Top]]
  /\ \A n \in N : B[0][n] = IF n \in S THEN 0 ELSE Top
  /\ \A k \in Nat : Relaxed(N, E, w, B[k], B[k + 1])

\* L solves Bellman's equation from the sources S: every value is attained, over
\* the last edge of a walk.
Least(N, E, w, Top, S, L) ==
  /\ L \in [N -> 0..Top]
  /\ \A n \in N : n \in S => L[n] = 0
  /\ \A m, n \in N : <<m, n>> \in E => L[n] <= L[m] + w[<<m, n>>]
  /\ \A n \in N : n \notin S /\ L[n] < Top =>
       \E m \in N : <<m, n>> \in E /\ L[n] = L[m] + w[<<m, n>>]

\* M is the limit of B: the least value each node ever gets.
IsLimit(N, B, M) ==
  /\ \A n \in N, k \in Nat : M[n] <= B[k][n]
  /\ \A n \in N : \E k \in Nat : B[k][n] = M[n]

\* The least values that an unrolling of Bellman's equation ever gets to solve it.
LEMMA Limit ==
  ASSUME NEW N, NEW E, NEW w, NEW Top \in Nat, NEW S, NEW B,
         Unrolls(N, E, w, Top, S, B)
  PROVE  \E M : Least(N, E, w, Top, S, M) /\ IsLimit(N, B, M)
  <1> DEFINE Vals(n) == {B[k][n] : k \in Nat}
             M == [n \in N |-> CHOOSE x \in Vals(n) : \A y \in Vals(n) : x <= y]
  <1>0. /\ \A e \in E : w[e] \in Nat \ {0}
        /\ \A k \in Nat, n \in N : B[k][n] \in 0..Top
        /\ \A n \in N : B[0][n] = IF n \in S THEN 0 ELSE Top
        /\ \A k \in Nat, n \in N :
             /\ B[k + 1][n] <= B[k][n]
             /\ \A m \in N : <<m, n>> \in E => B[k + 1][n] <= B[k][m] + w[<<m, n>>]
             /\ B[k + 1][n] = B[k][n]
                \/ \E m \in N : <<m, n>> \in E /\ B[k + 1][n] = B[k][m] + w[<<m, n>>]
    BY DEF Unrolls, Relaxed
  <1>1. ASSUME NEW n \in N PROVE M[n] \in Vals(n) /\ \A y \in Vals(n) : M[n] <= y
    <2>1. Vals(n) # {} /\ Vals(n) \subseteq Nat
      BY <1>0
    <2>2. \E x \in Vals(n) : \A y \in Vals(n) : x <= y
      BY <2>1, LeastOf
    <2> QED BY <2>2
  <1>2. /\ \A n \in N, k \in Nat : M[n] <= B[k][n]
        /\ \A n \in N : \E k \in Nat : B[k][n] = M[n]
    BY <1>1
  <1>3. \A n \in N : M[n] \in 0..Top
    BY <1>2, <1>0
  <1>4. M \in [N -> 0..Top]
    BY <1>3
  <1> HIDE DEF M, Vals
  <1>5. ASSUME NEW n \in N, n \in S PROVE M[n] = 0
    BY <1>0, <1>2, <1>3, <1>5
  <1>6. ASSUME NEW m \in N, NEW n \in N, <<m, n>> \in E PROVE M[n] <= M[m] + w[<<m, n>>]
    <2>1. PICK k \in Nat : B[k][m] = M[m]
      BY <1>2
    <2>2. B[k + 1][n] <= M[m] + w[<<m, n>>]
      BY <1>0, <1>6, <2>1
    <2>3. M[n] <= B[k + 1][n] /\ B[k + 1][n] \in 0..Top /\ w[<<m, n>>] \in Nat
      BY <1>0, <1>2, <1>6
    <2> QED BY <2>2, <2>3, <1>3
  <1>7. ASSUME NEW n \in N, n \notin S, M[n] < Top
        PROVE  \E m \in N : <<m, n>> \in E /\ M[n] = M[m] + w[<<m, n>>]
    <2> DEFINE Hits == {k \in Nat : B[k][n] = M[n]}
    <2>1. PICK k \in Hits : \A j \in Hits : k <= j
      <3>1. Hits # {} /\ Hits \subseteq Nat
        BY <1>2
      <3> QED BY <3>1, LeastOf
    <2>2. k # 0
      BY <1>0, <1>7, <2>1
    <2>3. k - 1 \in Nat /\ k - 1 \notin Hits /\ (k - 1) + 1 = k
      BY <2>1, <2>2
    <2>4. PICK m \in N : <<m, n>> \in E /\ B[k][n] = B[k - 1][m] + w[<<m, n>>]
      BY <1>0, <2>3
    <2>5. M[m] <= B[k - 1][m] /\ M[n] <= M[m] + w[<<m, n>>]
      BY <1>2, <1>6, <2>3, <2>4
    <2>6. M[n] = B[k - 1][m] + w[<<m, n>>] /\ B[k - 1][m] \in Nat /\ w[<<m, n>>] \in Nat
      BY <1>0, <2>1, <2>3, <2>4
    <2> QED BY <2>4, <2>5, <2>6, <1>3
  <1> QED BY <1>2, <1>4, <1>5, <1>6, <1>7 DEF Least, IsLimit

\* Relaxing as many times as there are nodes but one is enough: a node's value
\* is final as soon as those of the nodes with smaller ones are.
LEMMA Bellman ==
  ASSUME NEW N, IsFiniteSet(N), NEW E, NEW w, NEW Top \in Nat, NEW S, NEW B,
         Unrolls(N, E, w, Top, S, B),
         NEW K \in Nat, Cardinality(N) <= K + 1
  PROVE  Least(N, E, w, Top, S, B[K])
  <1>1. PICK M : Least(N, E, w, Top, S, M) /\ IsLimit(N, B, M)
    BY Limit
  <1> DEFINE Below(n) == {x \in N : M[x] < M[n]}
             T == {k \in Nat : \A n \in N : Cardinality(Below(n)) <= k => B[k][n] = M[n]}
  <1>2. ASSUME NEW n \in N
        PROVE  IsFiniteSet(Below(n)) /\ Cardinality(Below(n)) \in Nat /\ Cardinality(Below(n)) <= K
    <2>1. IsFiniteSet(N \ {n}) /\ Cardinality(N \ {n}) = Cardinality(N) - 1
      BY FS_RemoveElement
    <2>2. Cardinality(N) \in Nat /\ Cardinality(N \ {n}) \in Nat
      BY <2>1, FS_CardinalityType
    <2>3. Below(n) \in SUBSET (N \ {n})
      BY <1>1 DEF Least
    <2>4. IsFiniteSet(Below(n)) /\ Cardinality(Below(n)) <= Cardinality(N \ {n})
      BY <2>1, <2>3, FS_Subset
    <2>5. Cardinality(Below(n)) \in Nat
      BY <2>4, FS_CardinalityType
    <2> HIDE DEF Below
    <2> QED BY <2>1, <2>2, <2>4, <2>5
  <1>0. \A e \in E : w[e] \in Nat \ {0}
    BY DEF Unrolls
  <1>3. \A k \in Nat, n \in N : B[k][n] \in 0..Top /\ M[n] \in 0..Top
    BY <1>1 DEF Least, Unrolls
  <1>4. ASSUME NEW k \in Nat, NEW n \in N, n \in S \/ M[n] = Top
        PROVE  B[k][n] = M[n]
    <2> DEFINE Z == {j \in Nat : B[j][n] = M[n]}
    <2>1. 0 \in Z
      BY <1>1, <1>4 DEF Unrolls, Least
    <2>2. ASSUME NEW j \in Nat, j \in Z PROVE j + 1 \in Z
      <3>1. B[j + 1][n] <= B[j][n]
        BY DEF Unrolls, Relaxed
      <3>2. M[n] <= B[j + 1][n]
        BY <1>1 DEF IsLimit
      <3> QED BY <2>2, <3>1, <3>2, <1>3
    <2>3. Nat \subseteq Z
      <3> HIDE DEF Z
      <3> QED BY <2>1, <2>2, InductionSet
    <2> QED BY <2>3
  <1>5. ASSUME NEW n \in N, n \notin S, M[n] < Top
        PROVE  \E m \in N : /\ <<m, n>> \in E /\ M[n] = M[m] + w[<<m, n>>]
                            /\ Cardinality(Below(m)) < Cardinality(Below(n))
    <2>1. PICK m \in N : <<m, n>> \in E /\ M[n] = M[m] + w[<<m, n>>]
      BY <1>1, <1>5 DEF Least
    <2>2. M[m] < M[n]
      BY <2>1, <1>3, <1>0
    <2>3. Below(m) \in SUBSET Below(n) /\ m \in Below(n) /\ m \notin Below(m)
      BY <2>2, <1>3
    <2>4. IsFiniteSet(Below(n)) /\ IsFiniteSet(Below(m))
          /\ Cardinality(Below(n)) \in Nat /\ Cardinality(Below(m)) \in Nat
      BY <1>2
    <2> HIDE DEF Below
    <2>5. Cardinality(Below(m)) <= Cardinality(Below(n)) /\ Cardinality(Below(m)) # Cardinality(Below(n))
      BY <2>3, <2>4, FS_Subset
    <2> QED BY <2>1, <2>4, <2>5
  <1>6. 0 \in T
    <2>1. SUFFICES ASSUME NEW n \in N, Cardinality(Below(n)) <= 0 PROVE B[0][n] = M[n]
      OBVIOUS
    <2>2. n \in S \/ M[n] = Top
      <3>1. CASE n \notin S /\ M[n] < Top
        <4>1. PICK m \in N : Cardinality(Below(m)) < Cardinality(Below(n))
          BY <3>1, <1>5
        <4>2. Cardinality(Below(m)) \in Nat /\ Cardinality(Below(n)) \in Nat
          BY <1>2
        <4> HIDE DEF Below
        <4> QED BY <2>1, <4>1, <4>2
      <3> QED BY <3>1, <1>3
    <2> QED BY <2>2, <1>4
  <1>7. ASSUME NEW k \in Nat, k \in T PROVE k + 1 \in T
    <2>1. SUFFICES ASSUME NEW n \in N, Cardinality(Below(n)) <= k + 1 PROVE B[k + 1][n] = M[n]
      OBVIOUS
    <2>2. CASE n \in S \/ M[n] = Top
      BY <2>2, <1>4
    <2>3. CASE n \notin S /\ M[n] < Top
      <3>1. PICK m \in N : /\ <<m, n>> \in E /\ M[n] = M[m] + w[<<m, n>>]
                           /\ Cardinality(Below(m)) < Cardinality(Below(n))
        BY <2>3, <1>5
      <3>2. Cardinality(Below(m)) <= k
        <4>1. Cardinality(Below(m)) \in Nat /\ Cardinality(Below(n)) \in Nat
          BY <1>2
        <4> HIDE DEF Below
        <4> QED BY <4>1, <2>1, <3>1
      <3>3. B[k][m] = M[m]
        BY <1>7, <3>2
      <3>4. B[k + 1][n] <= B[k][m] + w[<<m, n>>]
        BY <3>1 DEF Unrolls, Relaxed
      <3>5. M[n] <= B[k + 1][n]
        BY <1>1 DEF IsLimit
      <3> QED BY <3>1, <3>3, <3>4, <3>5, <1>3, <1>0
    <2> QED BY <2>2, <2>3, <1>3
  <1>8. K \in T
    <2> HIDE DEF T
    <2> QED BY <1>6, <1>7, InductionSet
  <1>9. \A n \in N : B[K][n] = M[n]
    BY <1>8, <1>2
  <1>10. B[K] \in [N -> 0..Top]
    BY DEF Unrolls
  <1> HIDE DEF T, Below
  <1>11. B[K] = M
    BY <1>1, <1>9, <1>10 DEF Least
  <1> QED BY <1>1, <1>11

\* Bellman's equation for v, and its iteration from the sources' distances.
Eased(N, E, w, v) ==
  [n \in N |-> Min({v[n]} \cup {v[m] + w[<<m, n>>] : m \in {x \in N : <<x, n>> \in E}})]

Sources(N, Top, S) == [n \in N |-> IF n \in S THEN 0 ELSE Top]

Unrolling(N, E, w, Top, S, B) ==
  [k \in Nat |-> IF k = 0 THEN Sources(N, Top, S) ELSE Eased(N, E, w, B[k - 1])]

\* Bellman's equation relaxes every node once.
LEMMA EasedRelaxes ==
  ASSUME NEW N, NEW E, NEW w, \A e \in E : w[e] \in Nat, NEW Top \in Nat,
         NEW v \in [N -> 0..Top]
  PROVE  Eased(N, E, w, v) \in [N -> 0..Top] /\ Relaxed(N, E, w, v, Eased(N, E, w, v))
  <1> DEFINE Reach(n) == {v[n]} \cup {v[m] + w[<<m, n>>] : m \in {x \in N : <<x, n>> \in E}}
  <1>1. ASSUME NEW n \in N
        PROVE  /\ Min(Reach(n)) \in Reach(n) /\ Min(Reach(n)) \in 0..Top
               /\ \A y \in Reach(n) : Min(Reach(n)) <= y
    <2>1. Reach(n) \subseteq Nat /\ v[n] \in Reach(n) /\ v[n] \in 0..Top
      <3>1. \A m \in N : v[m] \in 0..Top /\ v[m] \in Nat
        OBVIOUS
      <3>2. \A m \in N : <<m, n>> \in E => v[m] + w[<<m, n>>] \in Nat
        BY <3>1
      <3> QED BY <3>1, <3>2
    <2> HIDE DEF Reach
    <2>2. Min(Reach(n)) \in Reach(n) /\ \A y \in Reach(n) : Min(Reach(n)) <= y
      BY <2>1, MinIs
    <2> QED BY <2>1, <2>2
  <1>2. Eased(N, E, w, v) = [n \in N |-> Min(Reach(n))]
    BY DEF Eased
  <1>3. ASSUME NEW n \in N
        PROVE  LET c == Min(Reach(n))
               IN  /\ c <= v[n]
                   /\ \A m \in N : <<m, n>> \in E => c <= v[m] + w[<<m, n>>]
                   /\ c = v[n] \/ \E m \in N : <<m, n>> \in E /\ c = v[m] + w[<<m, n>>]
    <2> DEFINE c == Min(Reach(n))
    <2>1. c \in Reach(n) /\ \A y \in Reach(n) : c <= y
      BY <1>1
    <2> HIDE DEF c
    <2>2. c <= v[n] /\ \A m \in N : <<m, n>> \in E => c <= v[m] + w[<<m, n>>]
      BY <2>1
    <2>3. c = v[n] \/ \E m \in N : <<m, n>> \in E /\ c = v[m] + w[<<m, n>>]
      BY <2>1
    <2> QED BY <2>2, <2>3 DEF c
  <1> HIDE DEF Reach
  <1>4. Eased(N, E, w, v) \in [N -> 0..Top]
    BY <1>1, <1>2
  <1>5. \A n \in N : Eased(N, E, w, v)[n] = Min(Reach(n))
    BY <1>2
  <1>6. Relaxed(N, E, w, v, Eased(N, E, w, v))
    BY <1>3, <1>5 DEF Relaxed
  <1> QED BY <1>4, <1>6

\* There is a function that unrolls Bellman's equation.
LEMMA UnrollingExists ==
  ASSUME NEW N, NEW E, NEW w, \A e \in E : w[e] \in Nat, NEW Top \in Nat, NEW S
  PROVE  \E B : B = Unrolling(N, E, w, Top, S, B)
  <1> DEFINE V == [N -> 0..Top]
             v0 == Sources(N, Top, S)
             G == [v \in V |-> Eased(N, E, w, v)]
  <1>1. v0 \in V
    BY DEF Sources
  <1>2. G \in [V -> V]
    BY EasedRelaxes
  <1>3. \A v \in V : G[v] = Eased(N, E, w, v)
    OBVIOUS
  <1> HIDE DEF V, v0, G
  <1>4. \E f : Iterates(V, v0, G, f)
    BY <1>1, <1>2, Iterate
  <1>5. PICK f : f \in [Nat -> V] /\ f[0] = v0 /\ \A k \in Nat : f[k + 1] = G[f[k]]
    BY <1>4 DEF Iterates
  <1>6. ASSUME NEW k \in Nat PROVE f[k] = Unrolling(N, E, w, Top, S, f)[k]
    <2>1. CASE k = 0
      BY <1>5, <2>1 DEF Unrolling, v0
    <2>2. CASE k # 0
      <3>1. k - 1 \in Nat /\ (k - 1) + 1 = k
        BY <2>2
      <3>2. f[k] = Eased(N, E, w, f[k - 1])
        BY <1>3, <1>5, <3>1
      <3> QED BY <2>2, <3>2 DEF Unrolling
    <2> QED BY <2>1, <2>2
  <1>7. f = [k \in Nat |-> f[k]]
    BY <1>5
  <1>8. Unrolling(N, E, w, Top, S, f) = [k \in Nat |-> Unrolling(N, E, w, Top, S, f)[k]]
    BY DEF Unrolling
  <1>9. f = Unrolling(N, E, w, Top, S, f)
    BY <1>6, <1>7, <1>8
  <1> QED BY <1>9

\* Each of its values relaxes the one before it.
LEMMA UnrollingUnrolls ==
  ASSUME NEW N, NEW E, NEW w, \A e \in E : w[e] \in Nat \ {0}, NEW Top \in Nat, NEW S,
         NEW B, B = Unrolling(N, E, w, Top, S, B)
  PROVE  Unrolls(N, E, w, Top, S, B)
  <1>1. B[0] = Sources(N, Top, S)
    BY DEF Unrolling
  <1>2. \A k \in Nat : B[k + 1] = Eased(N, E, w, B[k])
    <2>1. ASSUME NEW k \in Nat PROVE B[k + 1] = Eased(N, E, w, B[k])
      <3>1. k + 1 \in Nat /\ k + 1 # 0 /\ (k + 1) - 1 = k
        OBVIOUS
      <3>2. B[k + 1] = Unrolling(N, E, w, Top, S, B)[k + 1]
        OBVIOUS
      <3>3. Unrolling(N, E, w, Top, S, B)[k + 1] = Eased(N, E, w, B[(k + 1) - 1])
        BY <3>1 DEF Unrolling
      <3> QED BY <3>1, <3>2, <3>3
    <2> QED BY <2>1
  <1>3. \A k \in Nat : B[k] \in [N -> 0..Top]
    <2> DEFINE Z == {k \in Nat : B[k] \in [N -> 0..Top]}
    <2>1. 0 \in Z
      BY <1>1 DEF Sources
    <2>2. ASSUME NEW k \in Nat, k \in Z PROVE k + 1 \in Z
      <3>1. Eased(N, E, w, B[k]) \in [N -> 0..Top]
        BY <2>2, EasedRelaxes
      <3> QED BY <1>2, <3>1
    <2>3. Nat \subseteq Z
      <3> HIDE DEF Z
      <3> QED BY <2>1, <2>2, InductionSet
    <2> QED BY <2>3
  <1>4. B \in [Nat -> [N -> 0..Top]]
    <2>1. B = [k \in Nat |-> B[k]]
      <3>1. Unrolling(N, E, w, Top, S, B) = [k \in Nat |-> Unrolling(N, E, w, Top, S, B)[k]]
        BY DEF Unrolling
      <3> QED BY <3>1
    <2> QED BY <1>3, <2>1
  <1>5. \A k \in Nat : Relaxed(N, E, w, B[k], B[k + 1])
    <2>1. ASSUME NEW k \in Nat PROVE Relaxed(N, E, w, B[k], B[k + 1])
      <3>1. Relaxed(N, E, w, B[k], Eased(N, E, w, B[k]))
        BY <1>3, EasedRelaxes
      <3> QED BY <1>2, <3>1
    <2> QED BY <2>1
  <1>6. \A n \in N : B[0][n] = IF n \in S THEN 0 ELSE Top
    BY <1>1 DEF Sources
  <1> QED BY <1>4, <1>5, <1>6 DEF Unrolls

\* After k rounds a value that was reached is at most k edges' weights.
LEMMA UnrollsBound ==
  ASSUME NEW N, NEW E, NEW w, NEW Top \in Nat, NEW S, NEW B,
         Unrolls(N, E, w, Top, S, B),
         NEW W \in Nat, \A e \in E : w[e] <= W
  PROVE  \A k \in Nat, n \in N : B[k][n] < Top => B[k][n] <= k * W
  <1>1. \A k \in Nat, n \in N : B[k][n] \in Nat
    BY DEF Unrolls
  <1> DEFINE Z == {k \in Nat : \A n \in N : B[k][n] < Top => B[k][n] <= k * W}
  <1>2. 0 \in Z
    <2>1. ASSUME NEW n \in N, B[0][n] < Top PROVE B[0][n] <= 0 * W
      <3>1. B[0][n] = 0
        BY <2>1 DEF Unrolls
      <3> QED BY <3>1, Times
    <2> QED BY <2>1
  <1>3. ASSUME NEW k \in Nat, k \in Z PROVE k + 1 \in Z
    <2>1. SUFFICES ASSUME NEW n \in N, B[k + 1][n] < Top PROVE B[k + 1][n] <= (k + 1) * W
      OBVIOUS
    <2>2. (k + 1) * W = k * W + W /\ k * W \in Nat
      BY Times
    <2>3. CASE B[k + 1][n] = B[k][n]
      <3>1. B[k][n] <= k * W
        BY <1>3, <2>1, <2>3
      <3> QED BY <1>1, <2>2, <2>3, <3>1
    <2>4. CASE \E m \in N : <<m, n>> \in E /\ B[k + 1][n] = B[k][m] + w[<<m, n>>]
      <3>1. PICK m \in N : <<m, n>> \in E /\ B[k + 1][n] = B[k][m] + w[<<m, n>>]
        BY <2>4
      <3>2. w[<<m, n>>] \in Nat /\ w[<<m, n>>] <= W
        BY <3>1 DEF Unrolls
      <3>3. B[k][m] < Top
        BY <1>1, <2>1, <3>1, <3>2
      <3>4. B[k][m] <= k * W
        BY <1>3, <3>3
      <3> QED BY <1>1, <2>2, <3>1, <3>2, <3>4
    <2>5. B[k + 1][n] = B[k][n] \/ \E m \in N : <<m, n>> \in E /\ B[k + 1][n] = B[k][m] + w[<<m, n>>]
      BY DEF Unrolls, Relaxed
    <2> QED BY <2>3, <2>4, <2>5
  <1>4. Nat \subseteq Z
    <2> HIDE DEF Z
    <2> QED BY <1>2, <1>3, InductionSet
  <1> QED BY <1>4

\* Bellman's equation has one solution.
LEMMA LeastBelow ==
  ASSUME NEW N, NEW E, NEW w, \A e \in E : w[e] \in Nat \ {0}, NEW Top \in Nat, NEW S,
         NEW L, Least(N, E, w, Top, S, L), NEW M, Least(N, E, w, Top, S, M)
  PROVE  \A n \in N : L[n] <= M[n]
  <1>1. \A n \in N : L[n] \in Nat /\ M[n] \in Nat /\ L[n] <= Top
    BY DEF Least
  <1> DEFINE Bad == {n \in N : M[n] < L[n]}
             Vals == {M[n] : n \in Bad}
  <1>2. SUFFICES ASSUME Bad # {} PROVE FALSE
    BY <1>1
  <1>3. PICK v \in Vals : \A u \in Vals : v <= u
    <2>1. Vals \subseteq Nat /\ Vals # {}
      BY <1>1, <1>2
    <2> HIDE DEF Vals
    <2> QED BY <2>1, LeastOf
  <1>4. PICK x \in Bad : M[x] = v
    OBVIOUS
  <1>5. x \in N /\ M[x] < L[x] /\ x \notin S /\ M[x] < Top
    <2>1. x \in N /\ M[x] < L[x]
      OBVIOUS
    <2>2. x \notin S
      BY <1>1, <2>1 DEF Least
    <2> QED BY <1>1, <2>1, <2>2
  <1>6. PICK m \in N : <<m, x>> \in E /\ M[x] = M[m] + w[<<m, x>>]
    BY <1>5 DEF Least
  <1>7. w[<<m, x>>] \in Nat \ {0} /\ L[x] <= L[m] + w[<<m, x>>]
    BY <1>5, <1>6 DEF Least
  <1>8. M[m] < M[x] /\ M[m] < L[m]
    BY <1>1, <1>5, <1>6, <1>7
  <1>9. m \in Bad
    BY <1>8
  <1>10. v <= M[m]
    BY <1>3, <1>9
  <1> QED BY <1>1, <1>4, <1>8, <1>10

LEMMA LeastUnique ==
  ASSUME NEW N, NEW E, NEW w, \A e \in E : w[e] \in Nat \ {0}, NEW Top \in Nat, NEW S,
         NEW L, Least(N, E, w, Top, S, L), NEW M, Least(N, E, w, Top, S, M)
  PROVE  L = M
  <1>1. \A n \in N : L[n] <= M[n] /\ M[n] <= L[n]
    BY LeastBelow
  <1>2. \A n \in N : L[n] = M[n]
    BY <1>1 DEF Least
  <1> QED BY <1>2 DEF Least

-----------------------------------------------------------------------------
(***************************************************************************)
(* Sequences and sums: the community modules fold over sets of indices.    *)
(***************************************************************************)
\* InsertAt puts an element into a sequence.
LEMMA Insertion ==
  ASSUME NEW S, NEW q \in Seq(S), NEW e \in S, NEW p \in 1..(Len(q) + 1)
  PROVE  /\ InsertAt(q, p, e) \in Seq(S)
         /\ Len(InsertAt(q, p, e)) = Len(q) + 1
         /\ \A i \in 1..(Len(q) + 1) :
              InsertAt(q, p, e)[i] = IF i < p THEN q[i] ELSE IF i = p THEN e ELSE q[i - 1]
  <1> DEFINE a == SubSeq(q, 1, p - 1)
             b == SubSeq(q, p, Len(q))
             c == a \o <<e>>
  <1>0. Len(q) \in Nat /\ \A i \in 1..Len(q) : q[i] \in S
    BY LenProperties, ElementOfSeq
  <1>1. a \in Seq(S) /\ Len(a) = p - 1 /\ \A i \in 1..(p - 1) : a[i] = q[i]
    <2>1. \A i \in 1..(p - 1) : q[i] \in S
      BY <1>0
    <2> QED BY <2>1, <1>0, SubSeqProperties
  <1>2. b \in Seq(S) /\ Len(b) = Len(q) - p + 1 /\ \A i \in 1..(Len(q) - p + 1) : b[i] = q[p + i - 1]
    <2>1. \A i \in p..Len(q) : q[i] \in S
      BY <1>0
    <2>2. p \in Int /\ Len(q) \in Int
      BY <1>0
    <2>3. /\ b \in Seq(S)
          /\ Len(b) = IF p <= Len(q) THEN Len(q) - p + 1 ELSE 0
          /\ \A i \in 1..(Len(q) - p + 1) : b[i] = q[p + i - 1]
      BY <2>1, <2>2, SubSeqProperties
    <2> HIDE DEF b
    <2> QED BY <2>3, <1>0
  <1>3. <<e>> \in Seq(S) /\ Len(<<e>>) = 1 /\ <<e>>[1] = e
    OBVIOUS
  <1> HIDE DEF a, b
  <1>4. c \in Seq(S) /\ Len(c) = p /\ \A i \in 1..p : c[i] = IF i < p THEN q[i] ELSE e
    <2>1. /\ c \in Seq(S) /\ Len(c) = Len(a) + Len(<<e>>)
          /\ \A i \in 1..(Len(a) + Len(<<e>>)) : c[i] = IF i <= Len(a) THEN a[i] ELSE <<e>>[i - Len(a)]
      BY <1>1, <1>3, ConcatProperties
    <2> HIDE DEF c
    <2>2. Len(c) = p
      BY <2>1, <1>1, <1>3
    <2>3. ASSUME NEW i \in 1..p PROVE c[i] = IF i < p THEN q[i] ELSE e
      <3>1. CASE i < p
        BY <2>1, <1>1, <1>3, <3>1
      <3>2. CASE i = p
        <4>1. c[i] = <<e>>[p - (p - 1)] /\ p - (p - 1) = 1
          BY <2>1, <1>1, <1>3, <3>2
        <4> QED BY <4>1, <1>3, <3>2
      <3> QED BY <3>1, <3>2
    <2> QED BY <2>1, <2>2, <2>3
  <1> HIDE DEF c
  <1>5. /\ c \o b \in Seq(S) /\ Len(c \o b) = Len(c) + Len(b)
        /\ \A i \in 1..(Len(c) + Len(b)) : (c \o b)[i] = IF i <= Len(c) THEN c[i] ELSE b[i - Len(c)]
    BY <1>2, <1>4, ConcatProperties
  <1>6. Len(c \o b) = Len(q) + 1
    BY <1>0, <1>2, <1>4, <1>5
  <1>7. ASSUME NEW i \in 1..(Len(q) + 1)
        PROVE  (c \o b)[i] = IF i < p THEN q[i] ELSE IF i = p THEN e ELSE q[i - 1]
    <2>1. CASE i <= p
      BY <1>0, <1>2, <1>4, <1>5, <2>1
    <2>2. CASE i > p
      <3>1. (c \o b)[i] = b[i - p] /\ i - p \in 1..(Len(q) - p + 1) /\ p + (i - p) - 1 = i - 1
        BY <1>0, <1>2, <1>4, <1>5, <2>2
      <3>2. b[i - p] = q[p + (i - p) - 1]
        BY <3>1, <1>2
      <3> QED BY <3>1, <3>2, <2>2
    <2>3. i <= p \/ i > p
      BY <1>0
    <2> QED BY <2>1, <2>2, <2>3, Zenon
  <1>8. InsertAt(q, p, e) = c \o b
    BY DEF InsertAt, a, b, c
  <1> QED BY <1>5, <1>6, <1>7, <1>8

\* it[s] folds the steps G[i], i in s, over v0 in ascending order.
Folded(k, V, v0, G, it) ==
  /\ it \in [SUBSET (1..k) -> V]
  /\ \A s \in SUBSET (1..k) :
       it[s] = IF s = {} THEN v0 ELSE G[Max(s)][it[s \ {Max(s)}]]

\* A fold over 1..k has a value: what FoldLeft needs.
LEMMA FoldExists ==
  ASSUME NEW k \in Nat, NEW V, NEW v0 \in V, NEW G \in [1..k -> [V -> V]]
  PROVE  \E it : Folded(k, V, v0, G, it)
  <1> DEFINE Z == {j \in Nat : j <= k => \E it : Folded(j, V, v0, G, it)}
  <1>1. 0 \in Z
    <2> DEFINE it == [s \in SUBSET (1..0) |-> v0]
    <2>1. \A s \in SUBSET (1..0) : s = {}
      OBVIOUS
    <2>2. Folded(0, V, v0, G, it)
      BY <2>1 DEF Folded
    <2> QED BY <2>2
  <1>2. ASSUME NEW j \in Nat, j \in Z PROVE j + 1 \in Z
    <2>1. SUFFICES ASSUME j + 1 <= k PROVE \E it : Folded(j + 1, V, v0, G, it)
      OBVIOUS
    <2>2. PICK h : Folded(j, V, v0, G, h)
      BY <1>2, <2>1
    <2> DEFINE it == [s \in SUBSET (1..(j + 1)) |->
                        IF j + 1 \in s THEN G[j + 1][h[s \ {j + 1}]] ELSE h[s]]
    <2>3. ASSUME NEW s \in SUBSET (1..(j + 1))
          PROVE  /\ it[s] \in V
                 /\ it[s] = IF s = {} THEN v0 ELSE G[Max(s)][it[s \ {Max(s)}]]
      <3>1. CASE j + 1 \in s
        <4>0. j + 1 \in Nat /\ s \subseteq 1..(j + 1) /\ s # {}
          BY <3>1
        <4>1. Max(s) \in s /\ \A y \in s : y <= Max(s)
          BY <4>0, MaxOfInterval
        <4>2. Max(s) \in 1..(j + 1) /\ j + 1 <= Max(s)
          BY <3>1, <4>1
        <4>3. Max(s) = j + 1
          BY <4>2
        <4>4. s \ {j + 1} \in SUBSET (1..j) /\ s \ {j + 1} \in SUBSET (1..(j + 1))
          OBVIOUS
        <4>5. it[s \ {j + 1}] = h[s \ {j + 1}] /\ it[s] = G[j + 1][h[s \ {j + 1}]]
          BY <3>1, <4>4
        <4>6. h[s \ {j + 1}] \in V /\ G[j + 1] \in [V -> V]
          BY <2>1, <2>2, <4>4 DEF Folded
        <4>7. s # {}
          BY <3>1
        <4> HIDE DEF it
        <4> QED BY <4>3, <4>5, <4>6, <4>7
      <3>2. CASE j + 1 \notin s
        <4>1. s \in SUBSET (1..j)
          BY <3>2
        <4>2. it[s] = h[s] /\ h[s] \in V
          BY <2>2, <3>2, <4>1 DEF Folded
        <4>3. CASE s = {}
          BY <2>2, <4>1, <4>2, <4>3 DEF Folded
        <4>4. CASE s # {}
          <5>1. Max(s) \in s
            BY <4>1, <4>4, MaxOfInterval
          <5>2. s \ {Max(s)} \in SUBSET (1..j) /\ j + 1 \notin s \ {Max(s)}
                /\ s \ {Max(s)} \in SUBSET (1..(j + 1))
            BY <3>2, <4>1
          <5>3. it[s \ {Max(s)}] = h[s \ {Max(s)}]
            BY <5>2
          <5>4. h[s] = G[Max(s)][h[s \ {Max(s)}]]
            BY <2>2, <4>1, <4>4 DEF Folded
          <5> HIDE DEF it
          <5> QED BY <4>2, <4>4, <5>3, <5>4
        <4> QED BY <4>3, <4>4
      <3> QED BY <3>1, <3>2
    <2>4. it \in [SUBSET (1..(j + 1)) -> V]
      <3>1. \A s \in SUBSET (1..(j + 1)) : it[s] \in V
        BY <2>3
      <3> QED BY <3>1
    <2> HIDE DEF it
    <2>5. Folded(j + 1, V, v0, G, it)
      BY <2>3, <2>4 DEF Folded
    <2> QED BY <2>5
  <1>3. k \in Z
    <2> HIDE DEF Z
    <2> QED BY <1>1, <1>2, InductionSet
  <1> QED BY <1>3

\* A fold over 1..j + 1 is one step after the fold over 1..j.
LEMMA FoldSteps ==
  ASSUME NEW k \in Nat, NEW V, NEW v0 \in V, NEW G \in [1..k -> [V -> V]],
         NEW it, Folded(k, V, v0, G, it)
  PROVE  /\ it[1..0] = v0
         /\ \A j \in 0..k : it[1..j] \in V
         /\ \A j \in 0..(k - 1) : it[1..(j + 1)] = G[j + 1][it[1..j]]
  <1>1. it[1..0] = v0
    <2>1. 1..0 = {} /\ 1..0 \in SUBSET (1..k)
      OBVIOUS
    <2> QED BY <2>1 DEF Folded
  <1>2. ASSUME NEW j \in 0..k PROVE it[1..j] \in V
    <2>1. 1..j \in SUBSET (1..k)
      OBVIOUS
    <2> QED BY <2>1 DEF Folded
  <1>3. ASSUME NEW j \in 0..(k - 1) PROVE it[1..(j + 1)] = G[j + 1][it[1..j]]
    <2> DEFINE s == 1..(j + 1)
    <2>0. j + 1 \in Nat /\ j + 1 \in s
      OBVIOUS
    <2>1. s \in SUBSET (1..k) /\ s # {}
      <3>1. \A i \in s : i \in 1..k
        OBVIOUS
      <3> HIDE DEF s
      <3> QED BY <2>0, <3>1
    <2>2. Max(s) \in s /\ \A y \in s : y <= Max(s)
      BY <2>0, <2>1, MaxOfInterval
    <2>3. Max(s) = j + 1
      <3>1. Max(s) \in 1..(j + 1) /\ j + 1 <= Max(s)
        BY <2>0, <2>2
      <3> QED BY <3>1
    <2>4. s \ {j + 1} = 1..j
      OBVIOUS
    <2> HIDE DEF s
    <2>5. it[s] = G[j + 1][it[1..j]]
      BY <2>1, <2>3, <2>4 DEF Folded
    <2> QED BY <2>5 DEF s
  <1> QED BY <1>1, <1>2, <1>3

\* How the community modules sum up a function: over its domain, in an order
\* that CHOOSE picks.
Pick(s) == CHOOSE x \in s : TRUE

SumTurns(f, h) ==
  [s \in SUBSET DOMAIN f |-> IF s = {} THEN 0 ELSE f[Pick(s)] + h[s \ {Pick(s)}]]

Total(f) == (CHOOSE h : h = SumTurns(f, h))[DOMAIN f]

\* h has the sums of f over all subsets of S.
Sums(S, f, h) ==
  /\ h \in [SUBSET S -> Nat]
  /\ \A s \in SUBSET S : h[s] = IF s = {} THEN 0 ELSE f[Pick(s)] + h[s \ {Pick(s)}]

\* The sums over a finite set exist.
LEMMA SumExists ==
  ASSUME NEW S, IsFiniteSet(S), NEW f \in [S -> Nat]
  PROVE  \E h : Sums(S, f, h)
  <1> DEFINE Upto(k, h) ==
               /\ h \in [SUBSET S -> Nat]
               /\ \A s \in SUBSET S : Cardinality(s) <= k =>
                    h[s] = IF s = {} THEN 0 ELSE f[Pick(s)] + h[s \ {Pick(s)}]
             Z == {k \in Nat : \E h : Upto(k, h)}
  <1>1. \A s \in SUBSET S : IsFiniteSet(s) /\ Cardinality(s) \in Nat /\ Cardinality(s) <= Cardinality(S)
    BY FS_Subset, FS_CardinalityType
  <1>2. \A s \in SUBSET S : s # {} => Pick(s) \in s
    BY DEF Pick
  <1>3. \A s \in SUBSET S : s # {} => /\ s \ {Pick(s)} \in SUBSET S
                                      /\ Cardinality(s \ {Pick(s)}) = Cardinality(s) - 1
    BY <1>1, <1>2, FS_RemoveElement
  <1>4. 0 \in Z
    <2> DEFINE h == [s \in SUBSET S |-> 0]
    <2>1. \A s \in SUBSET S : Cardinality(s) <= 0 => s = {}
      BY <1>1, FS_EmptySet
    <2>2. Upto(0, h)
      BY <2>1
    <2> QED BY <2>2
  <1>5. ASSUME NEW k \in Nat, k \in Z PROVE k + 1 \in Z
    <2>1. PICK g : Upto(k, g)
      BY <1>5
    <2> DEFINE h == [s \in SUBSET S |->
                       IF Cardinality(s) <= k THEN g[s] ELSE f[Pick(s)] + g[s \ {Pick(s)}]]
    <2>2. ASSUME NEW s \in SUBSET S, ~(Cardinality(s) <= k) PROVE s # {} /\ Pick(s) \in S
      <3>1. s # {}
        BY <2>2, FS_EmptySet
      <3> QED BY <3>1, <1>2
    <2>3. h \in [SUBSET S -> Nat]
      <3>1. ASSUME NEW s \in SUBSET S PROVE h[s] \in Nat
        <4>1. CASE Cardinality(s) <= k
          BY <2>1, <4>1
        <4>2. CASE ~(Cardinality(s) <= k)
          <5>1. f[Pick(s)] \in Nat /\ g[s \ {Pick(s)}] \in Nat
            BY <2>1, <2>2, <1>3, <4>2
          <5> QED BY <4>2, <5>1
        <4> QED BY <4>1, <4>2
      <3> QED BY <3>1
    <2>4. ASSUME NEW s \in SUBSET S, Cardinality(s) <= k + 1
          PROVE  h[s] = IF s = {} THEN 0 ELSE f[Pick(s)] + h[s \ {Pick(s)}]
      <3>1. CASE s = {}
        <4>1. Cardinality(s) <= k
          BY <3>1, FS_EmptySet
        <4>2. h[s] = g[s] /\ g[s] = 0
          BY <2>1, <3>1, <4>1
        <4> HIDE DEF h
        <4> QED BY <3>1, <4>2
      <3>2. CASE s # {}
        <4>1. Cardinality(s \ {Pick(s)}) <= k /\ s \ {Pick(s)} \in SUBSET S
          BY <1>1, <1>3, <2>4, <3>2
        <4>2. h[s \ {Pick(s)}] = g[s \ {Pick(s)}]
          BY <4>1
        <4>3. h[s] = f[Pick(s)] + g[s \ {Pick(s)}]
          BY <2>1, <3>2
        <4> HIDE DEF h
        <4> QED BY <3>2, <4>2, <4>3
      <3> QED BY <3>1, <3>2
    <2> HIDE DEF h
    <2>5. Upto(k + 1, h)
      BY <2>3, <2>4
    <2>6. k + 1 \in Nat
      OBVIOUS
    <2> HIDE DEF Upto
    <2> QED BY <2>5, <2>6
  <1>6. Cardinality(S) \in Z
    <2> HIDE DEF Z
    <2> QED BY <1>4, <1>5, InductionSet, FS_CardinalityType
  <1>7. PICK h : Upto(Cardinality(S), h)
    BY <1>6
  <1>8. Sums(S, f, h)
    BY <1>1, <1>7 DEF Sums
  <1> QED BY <1>8

\* The sums do not depend on which element comes first.
AnyOrder(S, f, h) == \A s \in SUBSET S : \A y \in s : h[s] = f[y] + h[s \ {y}]

\* Sums are the same in every order.
LEMMA SumAnyOrder ==
  ASSUME NEW S, IsFiniteSet(S), NEW f \in [S -> Nat], NEW h, Sums(S, f, h)
  PROVE  AnyOrder(S, f, h)
  <1> DEFINE Good(t) == \A z \in t : h[t] = f[z] + h[t \ {z}]
             Z == {k \in Nat : \A t \in SUBSET S : Cardinality(t) <= k => Good(t)}
  <1>1. \A t \in SUBSET S : IsFiniteSet(t) /\ Cardinality(t) \in Nat
    BY FS_Subset, FS_CardinalityType
  <1>2. 0 \in Z
    <2>1. \A t \in SUBSET S : Cardinality(t) <= 0 => t = {}
      BY <1>1, FS_EmptySet
    <2> QED BY <2>1
  <1>3. ASSUME NEW k \in Nat, k \in Z PROVE k + 1 \in Z
    <2>1. SUFFICES ASSUME NEW t \in SUBSET S, Cardinality(t) <= k + 1, NEW z \in t
                   PROVE  h[t] = f[z] + h[t \ {z}]
      OBVIOUS
    <2> DEFINE x == Pick(t)
    <2>2. x \in t
      BY DEF Pick
    <2>3. h[t] = f[x] + h[t \ {x}]
      BY DEF Sums
    <2> HIDE DEF x
    <2>4. CASE z = x
      BY <2>3, <2>4
    <2>5. CASE z # x
      <3>1. \A u \in t : /\ t \ {u} \in SUBSET S /\ Cardinality(t \ {u}) <= k
        <4>1. \A u \in t : Cardinality(t \ {u}) = Cardinality(t) - 1
          BY <1>1, FS_RemoveElement
        <4> QED BY <1>1, <2>1, <4>1
      <3>2. Good(t \ {x}) /\ Good(t \ {z})
        BY <1>3, <2>2, <3>1
      <3>3. h[t \ {x}] = f[z] + h[(t \ {x}) \ {z}]
        BY <2>5, <3>2
      <3>4. h[t \ {z}] = f[x] + h[(t \ {z}) \ {x}]
        BY <2>2, <2>5, <3>2
      <3>5. (t \ {x}) \ {z} = (t \ {z}) \ {x}
        OBVIOUS
      <3>6. f[x] \in Nat /\ f[z] \in Nat /\ h[(t \ {z}) \ {x}] \in Nat
        <4>1. (t \ {z}) \ {x} \in SUBSET S /\ x \in S /\ z \in S
          BY <2>2
        <4> QED BY <4>1 DEF Sums
      <3>7. f[x] + (f[z] + h[(t \ {z}) \ {x}]) = f[z] + (f[x] + h[(t \ {z}) \ {x}])
        BY <3>6
      <3> QED BY <2>3, <3>3, <3>4, <3>5, <3>7, Zenon
    <2> QED BY <2>4, <2>5
  <1>4. \A s \in SUBSET S : Cardinality(s) \in Z
    <2> HIDE DEF Z
    <2> QED BY <1>1, <1>2, <1>3, InductionSet
  <1>5. \A s \in SUBSET S : Good(s)
    <2>1. ASSUME NEW s \in SUBSET S PROVE Good(s)
      <3>1. Cardinality(s) <= Cardinality(s)
        BY <1>1
      <3> HIDE DEF Good
      <3> QED BY <1>4, <3>1
    <2> HIDE DEF Good
    <2> QED BY <2>1
  <1> QED BY <1>5 DEF AnyOrder

\* The differences of a sequence add up to that of its ends.
LEMMA Telescope ==
  ASSUME NEW n \in Nat, NEW f \in [1..n -> Nat], NEW d,
         \A i \in 1..(n + 1) : d[i] \in Nat,
         \A i \in 1..n : d[i + 1] = d[i] + f[i]
  PROVE  Total(f) \in Nat /\ d[n + 1] = d[1] + Total(f)
  <1>1. IsFiniteSet(1..n) /\ DOMAIN f = 1..n
    BY FS_Interval
  <1>2. PICK g : Sums(1..n, f, g)
    BY <1>1, SumExists
  <1>3. g = SumTurns(f, g)
    <2>1. g = [s \in SUBSET (1..n) |-> g[s]]
      BY <1>2 DEF Sums
    <2> QED BY <1>1, <1>2, <2>1 DEF Sums, SumTurns
  <1> DEFINE h == CHOOSE u : u = SumTurns(f, u)
  <1>4. h = SumTurns(f, h)
    BY <1>3
  <1>5. Total(f) = h[1..n]
    BY <1>1 DEF Total
  <1> HIDE DEF h
  <1>6. Sums(1..n, f, h)
    <2> DEFINE Z == {k \in Nat : \A s \in SUBSET (1..n) : Cardinality(s) <= k => h[s] = g[s]}
    <2>1. \A s \in SUBSET (1..n) : IsFiniteSet(s) /\ Cardinality(s) \in Nat
      BY <1>1, FS_Subset, FS_CardinalityType
    <2>2. \A s \in SUBSET (1..n) : h[s] = IF s = {} THEN 0 ELSE f[Pick(s)] + h[s \ {Pick(s)}]
      BY <1>1, <1>4 DEF SumTurns
    <2>3. 0 \in Z
      <3>1. \A s \in SUBSET (1..n) : Cardinality(s) <= 0 => s = {}
        BY <2>1, FS_EmptySet
      <3>2. {} \in SUBSET (1..n)
        OBVIOUS
      <3>3. h[{}] = 0 /\ g[{}] = 0
        BY <1>2, <2>2, <3>2 DEF Sums
      <3> QED BY <3>1, <3>3
    <2>4. ASSUME NEW k \in Nat, k \in Z PROVE k + 1 \in Z
      <3>1. SUFFICES ASSUME NEW s \in SUBSET (1..n), Cardinality(s) <= k + 1 PROVE h[s] = g[s]
        OBVIOUS
      <3>2. CASE s = {}
        BY <1>2, <2>2, <3>2 DEF Sums
      <3>3. CASE s # {}
        <4>1. Pick(s) \in s
          BY <3>3 DEF Pick
        <4>2. Cardinality(s \ {Pick(s)}) <= k /\ s \ {Pick(s)} \in SUBSET (1..n)
          <5>1. Cardinality(s \ {Pick(s)}) = Cardinality(s) - 1
            BY <2>1, <4>1, FS_RemoveElement
          <5>2. Cardinality(s) \in Nat
            BY <2>1
          <5>3. Cardinality(s) - 1 <= k
            BY <3>1, <5>2
          <5>4. s \ {Pick(s)} \in SUBSET (1..n)
            OBVIOUS
          <5> QED BY <5>1, <5>3, <5>4
        <4>3. h[s \ {Pick(s)}] = g[s \ {Pick(s)}]
          BY <2>4, <4>2
        <4> QED BY <1>2, <2>2, <3>3, <4>3 DEF Sums
      <3> QED BY <3>2, <3>3
    <2>5. \A s \in SUBSET (1..n) : h[s] = g[s]
      <3>1. Nat \subseteq Z
        <4> HIDE DEF Z
        <4> QED BY <2>3, <2>4, InductionSet
      <3> QED BY <2>1, <3>1
    <2>6. h = [s \in SUBSET (1..n) |-> h[s]]
      BY <1>1, <1>4 DEF SumTurns
    <2>7. h = g
      BY <1>2, <2>5, <2>6 DEF Sums
    <2> QED BY <1>2, <2>7
  <1> DEFINE Z == {k \in Nat : k <= n => d[k + 1] = d[1] + h[1..k]}
  <1>7. 0 \in Z
    <2>1. 1..0 = {} /\ {} \in SUBSET (1..n) /\ 1 \in 1..(n + 1)
      OBVIOUS
    <2>2. h[{}] = 0
      BY <1>6, <2>1 DEF Sums
    <2>3. d[1] \in Nat
      BY <2>1
    <2> QED BY <2>1, <2>2, <2>3
  <1>8. ASSUME NEW k \in Nat, k \in Z PROVE k + 1 \in Z
    <2>1. SUFFICES ASSUME k + 1 <= n PROVE d[(k + 1) + 1] = d[1] + h[1..(k + 1)]
      OBVIOUS
    <2>2. k + 1 \in 1..n /\ k <= n /\ 1 \in 1..(n + 1)
      BY <2>1
    <2>3. d[k + 1] = d[1] + h[1..k] /\ d[(k + 1) + 1] = d[k + 1] + f[k + 1]
      BY <1>8, <2>2
    <2>4. h[1..(k + 1)] = f[k + 1] + h[1..k]
      <3>1. (1..(k + 1)) \ {k + 1} = 1..k /\ k + 1 \in 1..(k + 1)
        OBVIOUS
      <3>2. 1..(k + 1) \in SUBSET (1..n)
        <4>1. \A i \in 1..(k + 1) : i \in 1..n
          BY <2>1
        <4> QED BY <4>1
      <3> DEFINE s == 1..(k + 1)
      <3>3. h[s] = f[k + 1] + h[s \ {k + 1}]
        <4>1. s \in SUBSET (1..n) /\ k + 1 \in s
          BY <3>1, <3>2
        <4>2. AnyOrder(1..n, f, h)
          BY <1>1, <1>6, SumAnyOrder
        <4> HIDE DEF s
        <4> QED BY <4>1, <4>2 DEF AnyOrder
      <3> QED BY <3>1, <3>3
    <2>5. h[1..k] \in Nat /\ f[k + 1] \in Nat /\ d[1] \in Nat
      <3>1. 1..k \in SUBSET (1..n)
        BY <2>1
      <3> QED BY <1>6, <2>2, <3>1 DEF Sums
    <2> QED BY <2>3, <2>4, <2>5
  <1>9. n \in Z
    <2> HIDE DEF Z
    <2> QED BY <1>7, <1>8, InductionSet
  <1>10. h[1..n] \in Nat
    BY <1>6 DEF Sums
  <1> QED BY <1>5, <1>9, <1>10

\* FoldFunction, with addition, is that sum.
LEMMA FoldIsTotal ==
  ASSUME NEW f
  PROVE  D!FoldFunction(+, 0, f) = Total(f) /\ FoldFunction(+, 0, f) = Total(f)
  BY DEF D!FoldFunction, D!FoldFunctionOnSet, D!MapThenFoldSet,
         FoldFunction, FoldFunctionOnSet, MapThenFoldSet, Total, SumTurns, Pick

-----------------------------------------------------------------------------
(***************************************************************************)
(* GET /path: the graph and its shortest walks.                            *)
(***************************************************************************)
\* The passages of GET /path's graph, in both directions.
PathEdges == {p \in D!Link : graph[p] # D!Infinity}

\* GET /path's graph has its passages in both directions, at one positive weight.
LEMMA PathNeighbors ==
  ASSUME graph \in D!Graphs
  PROVE  /\ \A m, n \in Node : m \in D!Neighbors(n) <=> <<m, n>> \in PathEdges
         /\ \A m, n \in Node : m \in D!Neighbors(n) <=> n \in D!Neighbors(m)
         /\ \A m, n \in Node : m \in D!Neighbors(n) => graph[<<m, n>>] = graph[<<n, m>>]
         /\ \A e \in PathEdges : graph[e] \in Nat \ {0}
         /\ \A n : D!Neighbors(n) \subseteq Node /\ (n \notin Node => D!Neighbors(n) = {})
  <1>0. \A m, n \in Node : m # n => <<m, n>> \in D!Link /\ <<n, m>> \in D!Link
    BY DEF D!Link
  <1>1. \A m, n \in Node : m # n => graph[<<m, n>>] = graph[<<n, m>>]
    <2>1. \A p \in D!Link : graph[p] = graph[<<p[2], p[1]>>]
      BY DEF D!Graphs
    <2> QED BY <2>1, <1>0
  <1>2. \A e \in PathEdges : graph[e] \in Nat \ {0}
    BY TspAssumption DEF PathEdges, D!Graphs
  <1>3. \A m, n \in Node : <<m, n>> \in PathEdges <=> m # n /\ graph[<<m, n>>] # D!Infinity
    BY DEF PathEdges, D!Link
  <1> QED BY <1>1, <1>2, <1>3 DEF D!Neighbors

\* The reference for GET /path unrolls Bellman's equation.
LEMMA WithinUnrolls ==
  ASSUME graph \in D!Graphs
  PROVE  Unrolls(Node, PathEdges, graph, D!Infinity, {start}, D!Within)
  <1> DEFINE Reach(w, n) == {w[n]} \cup {w[m] + graph[<<m, n>>] : m \in D!Neighbors(n)}
             Body(w) == [k \in Nat |->
               IF k = 0 THEN [n \in Node |-> IF n = start THEN 0 ELSE D!Infinity]
               ELSE [n \in Node |-> D!Min(Reach(w[k - 1], n))]]
             U(w) == Unrolling(Node, PathEdges, graph, D!Infinity, {start}, w)
  <1>1. D!Infinity \in Nat /\ \A e \in PathEdges : graph[e] \in Nat \ {0} /\ graph[e] \in Nat
    BY InfinityIsNat, PathNeighbors
  <1>2. PICK B : B = U(B)
    BY <1>1, UnrollingExists
  <1>3. ASSUME NEW v PROVE [n \in Node |-> D!Min(Reach(v, n))] = Eased(Node, PathEdges, graph, v)
    <2> DEFINE New(n) == {v[n]} \cup {v[m] + graph[<<m, n>>] : m \in {x \in Node : <<x, n>> \in PathEdges}}
    <2>1. ASSUME NEW n \in Node PROVE D!Min(Reach(v, n)) = Min(New(n))
      <3>1. D!Neighbors(n) = {x \in Node : <<x, n>> \in PathEdges}
        BY PathNeighbors
      <3>2. Reach(v, n) = New(n)
        BY <3>1
      <3>3. \A T : D!Min(T) = Min(T)
        BY DEF D!Min, Min
      <3> HIDE DEF Reach, New
      <3> QED BY <3>2, <3>3
    <2>2. Eased(Node, PathEdges, graph, v) = [n \in Node |-> Min(New(n))]
      BY DEF Eased
    <2> HIDE DEF Reach, New
    <2> QED BY <2>1, <2>2
  <1>4. ASSUME NEW f PROVE U(f) = Body(f)
    <2>1. ASSUME NEW k \in Nat PROVE U(f)[k] = Body(f)[k]
      <3>1. CASE k = 0
        BY <3>1 DEF Unrolling, Sources
      <3>2. CASE k # 0
        <4> DEFINE v == f[k - 1]
        <4>1. U(f)[k] = Eased(Node, PathEdges, graph, v)
          BY <3>2 DEF Unrolling
        <4>2. Body(f)[k] = [n \in Node |-> D!Min(Reach(v, n))]
          BY <3>2
        <4> HIDE DEF v, U, Body, Reach
        <4> QED BY <1>3, <4>1, <4>2
      <3> QED BY <3>1, <3>2
    <2>2. U(f) = [k \in Nat |-> U(f)[k]]
      BY DEF Unrolling
    <2>3. Body(f) = [k \in Nat |-> Body(f)[k]]
      OBVIOUS
    <2> HIDE DEF U, Body
    <2> QED BY <2>1, <2>2, <2>3
  <1>5. D!Within = CHOOSE w : w = Body(w)
    BY DEF D!Within
  <1> HIDE DEF U, Body
  <1>6. B = Body(B)
    BY <1>2, <1>4
  <1>7. D!Within = U(D!Within)
    BY <1>4, <1>5, <1>6
  <1> QED BY <1>1, <1>7, UnrollingUnrolls DEF U

\* The reference for GET /path solves Bellman's equation.
LEMMA ShortestIs ==
  ASSUME graph \in D!Graphs
  PROVE  /\ D!Shortest \in [Node -> 0..D!Infinity]
         /\ start \in Node => D!Shortest[start] = 0
         /\ \A m, n \in Node : n \in D!Neighbors(m) =>
              D!Shortest[n] <= D!Shortest[m] + graph[<<m, n>>]
         /\ \A n \in Node : n # start /\ D!Shortest[n] < D!Infinity =>
              \E m \in Node : n \in D!Neighbors(m) /\ D!Shortest[n] = D!Shortest[m] + graph[<<m, n>>]
         /\ \A m, n \in Node : n \in D!Neighbors(m) => graph[<<m, n>>] \in Nat \ {0}
  <1>1. IsFiniteSet(Node)
    BY TspAssumption
  <1>2. Cardinality(Node) \in Nat /\ Cardinality(Node) <= Cardinality(Node) + 1
    BY <1>1, FS_CardinalityType
  <1>3. Least(Node, PathEdges, graph, D!Infinity, {start}, D!Within[Cardinality(Node)])
    BY <1>1, <1>2, InfinityIsNat, WithinUnrolls, Bellman
  <1>4. D!Shortest = D!Within[Cardinality(Node)]
    BY DEF D!Shortest, D!Cardinality, Cardinality
  <1>5. Least(Node, PathEdges, graph, D!Infinity, {start}, D!Shortest)
    BY <1>3, <1>4
  <1>6. /\ \A m, n \in Node : n \in D!Neighbors(m) <=> <<m, n>> \in PathEdges
        /\ \A e \in PathEdges : graph[e] \in Nat \ {0}
    BY PathNeighbors
  <1> QED BY <1>5, <1>6 DEF Least

-----------------------------------------------------------------------------
(***************************************************************************)
(* GET /path: the priority queue.                                          *)
(***************************************************************************)
\* The entries of a queue, and their being in the order of their priorities.
Entries(q) == {q[i] : i \in 1..Len(q)}

Sorted(q) == \A i, j \in 1..Len(q) : i < j => q[i].priority <= q[j].priority

\* priorityQueue.js: enqueue keeps the queue sorted and adds the entry to it.
LEMMA EnqueueSorts ==
  ASSUME NEW q \in Seq(D!Entry), NEW e \in D!Entry, Sorted(q)
  PROVE  /\ D!Enqueue(q, e) \in Seq(D!Entry)
         /\ Sorted(D!Enqueue(q, e))
         /\ Entries(D!Enqueue(q, e)) = Entries(q) \cup {e}
  <1> DEFINE after == {i \in DOMAIN q : e.priority < q[i].priority}
             p == IF after = {} THEN Len(q) + 1 ELSE D!Min(after)
             r == D!Enqueue(q, e)
  <1>0. /\ Len(q) \in Nat /\ DOMAIN q = 1..Len(q)
        /\ \A i \in 1..Len(q) : q[i] \in D!Entry
    BY LenProperties, ElementOfSeq
  <1>1. \A x \in D!Entry : x.priority \in Int
    BY InfinityIsNat DEF D!Entry
  <1>2. /\ p \in 1..(Len(q) + 1)
        /\ \A i \in 1..Len(q) : i < p => q[i].priority <= e.priority
        /\ p <= Len(q) => e.priority < q[p].priority
    <2>1. CASE after = {}
      BY <1>0, <1>1, <2>1
    <2>2. CASE after # {}
      <3>1. after \subseteq Nat
        BY <1>0
      <3>2. D!Min(after) = Min(after)
        BY DEF D!Min, Min
      <3>3. Min(after) \in after /\ \A y \in after : Min(after) <= y
        <4> HIDE DEF after
        <4> QED BY <2>2, <3>1, MinIs
      <3>4. p \in after /\ \A y \in after : p <= y
        <4> HIDE DEF after
        <4> QED BY <2>2, <3>2, <3>3
      <3> HIDE DEF p
      <3>5. /\ Len(q) \in Nat /\ p \in 1..Len(q) /\ e.priority < q[p].priority
            /\ \A y \in 1..Len(q) : e.priority < q[y].priority => p <= y
        BY <1>0, <3>4
      <3>6. e.priority \in Int /\ \A i \in 1..Len(q) : q[i].priority \in Int
        BY <1>0, <1>1
      <3> QED BY ONLY <3>5, <3>6
    <2> QED BY <2>1, <2>2
  <1>3. r = InsertAt(q, p, e)
    BY DEF D!Enqueue, D!InsertAt, InsertAt
  <1> HIDE DEF p, r
  <1>4. /\ r \in Seq(D!Entry) /\ Len(r) = Len(q) + 1
        /\ \A i \in 1..(Len(q) + 1) : r[i] = IF i < p THEN q[i] ELSE IF i = p THEN e ELSE q[i - 1]
    <2>1. p \in 1..(Len(q) + 1)
      BY <1>2
    <2> DEFINE E == D!Entry
    <2>2. q \in Seq(E) /\ e \in E
      OBVIOUS
    <2> HIDE DEF E
    <2>3. /\ InsertAt(q, p, e) \in Seq(E) /\ Len(InsertAt(q, p, e)) = Len(q) + 1
          /\ \A i \in 1..(Len(q) + 1) :
               InsertAt(q, p, e)[i] = IF i < p THEN q[i] ELSE IF i = p THEN e ELSE q[i - 1]
      BY ONLY <2>1, <2>2, Insertion
    <2>4. /\ r \in Seq(E) /\ Len(r) = Len(q) + 1
          /\ \A i \in 1..(Len(q) + 1) : r[i] = IF i < p THEN q[i] ELSE IF i = p THEN e ELSE q[i - 1]
      BY ONLY <2>3, <1>3
    <2> QED BY <2>4 DEF E
  <1>5. Sorted(r)
    <2>1. SUFFICES ASSUME NEW i \in 1..(Len(q) + 1), NEW j \in 1..(Len(q) + 1), i < j
                   PROVE  r[i].priority <= r[j].priority
      BY <1>4 DEF Sorted
    <2>2. \A x, y \in 1..Len(q) : x < y => q[x].priority <= q[y].priority
      BY DEF Sorted
    <2>3. \A x \in 1..Len(q) : x >= p => e.priority <= q[x].priority
      BY <1>0, <1>1, <1>2, <2>2
    <2>4. CASE i < p /\ j < p
      BY <1>0, <1>2, <1>4, <2>1, <2>2, <2>4
    <2>5. CASE i < p /\ j = p
      BY <1>0, <1>2, <1>4, <2>1, <2>5
    <2>6. CASE i < p /\ j > p
      <3>1. r[i] = q[i] /\ r[j] = q[j - 1] /\ i \in 1..Len(q) /\ j - 1 \in 1..Len(q) /\ (i < j - 1 \/ i = j - 1)
        BY <1>0, <1>2, <1>4, <2>1, <2>6
      <3>2. r[i] = q[i] /\ r[j] = q[j - 1] /\ i \in 1..Len(q) /\ j - 1 \in 1..Len(q)
        BY <1>0, <1>2, <1>4, <2>1, <2>6
      <3> QED BY <3>1, <3>2, <2>2, <1>0, <1>1
    <2>7. CASE i = p /\ j > p
      <3>1. r[i] = e /\ r[j] = q[j - 1] /\ j - 1 \in 1..Len(q) /\ j - 1 >= p
        BY <1>0, <1>2, <1>4, <2>1, <2>7
      <3> QED BY <3>1, <2>3
    <2>8. CASE i > p
      <3>1. r[i] = q[i - 1] /\ r[j] = q[j - 1] /\ i - 1 \in 1..Len(q) /\ j - 1 \in 1..Len(q) /\ i - 1 < j - 1
        BY <1>0, <1>2, <1>4, <2>1, <2>8
      <3> QED BY <3>1, <2>2
    <2> QED BY <1>2, <2>1, <2>4, <2>5, <2>6, <2>7, <2>8
  <1>6. Entries(r) = Entries(q) \cup {e}
    <2>1. ASSUME NEW i \in 1..(Len(q) + 1) PROVE r[i] \in Entries(q) \cup {e}
      <3>1. CASE i < p
        <4>1. i \in 1..Len(q) /\ r[i] = q[i]
          BY <1>0, <1>2, <1>4, <3>1
        <4> QED BY <4>1 DEF Entries
      <3>2. CASE i = p
        BY <1>4, <3>2
      <3>3. CASE i > p
        <4>1. i - 1 \in 1..Len(q) /\ r[i] = q[i - 1]
          BY <1>0, <1>2, <1>4, <3>3
        <4> QED BY <4>1 DEF Entries
      <3> QED BY <1>2, <3>1, <3>2, <3>3
    <2>2. e \in Entries(r)
      <3>1. r[p] = e
        BY <1>2, <1>4
      <3> QED BY <3>1, <1>2, <1>4 DEF Entries
    <2>3. ASSUME NEW i \in 1..Len(q) PROVE q[i] \in Entries(r)
      <3>1. CASE i < p
        <4>1. r[i] = q[i] /\ i \in 1..Len(r)
          BY <1>0, <1>4, <3>1
        <4> QED BY <4>1 DEF Entries
      <3>2. CASE i >= p
        <4>1. r[i + 1] = q[(i + 1) - 1] /\ i + 1 \in 1..Len(r) /\ (i + 1) - 1 = i
          BY <1>0, <1>2, <1>4, <3>2
        <4> QED BY <4>1 DEF Entries
      <3> QED BY <1>2, <3>1, <3>2
    <2> QED BY <1>4, <2>1, <2>2, <2>3 DEF Entries
  <1> QED BY <1>4, <1>5, <1>6 DEF r

\* f is what FoldLeft computes: every m of the sequence is enqueued in turn.
EnqueueTurns(t, alt, turn, f) ==
  [s \in SUBSET DOMAIN turn |->
     IF s = {} THEN t
     ELSE D!Enqueue(f[s \ {D!Max(s)}],
                    [element |-> turn[D!Max(s)], priority |-> alt[turn[D!Max(s)]]])]

\* The queue after all of the sequence.
Enqueued(t, alt, turn) ==
  (CHOOSE f : f = EnqueueTurns(t, alt, turn, f))[DOMAIN turn]

\* The entries that are enqueued for the nodes M.
Arrivals(alt, M) == {[element |-> m, priority |-> alt[m]] : m \in M}

\* In whatever order the improved nodes are enqueued, the queue stays sorted and
\* has their entries.
LEMMA EnqueueAll ==
  ASSUME NEW t \in Seq(D!Entry), Sorted(t), NEW M, IsFiniteSet(M), NEW alt,
         Arrivals(alt, M) \subseteq D!Entry,
         NEW turn \in D!SetToSeqs(M)
  PROVE  /\ Enqueued(t, alt, turn) \in Seq(D!Entry)
         /\ Sorted(Enqueued(t, alt, turn))
         /\ Entries(Enqueued(t, alt, turn)) = Entries(t) \cup Arrivals(alt, M)
  <1> DEFINE k == Cardinality(M)
             V == {q \in Seq(D!Entry) : Sorted(q)}
             en(i) == [element |-> turn[i], priority |-> alt[turn[i]]]
             G == [i \in 1..k |-> [q \in V |-> D!Enqueue(q, en(i))]]
             Body(f) == EnqueueTurns(t, alt, turn, f)
             r == Enqueued(t, alt, turn)
             iter == CHOOSE f : f = Body(f)
  <1>1. k \in Nat /\ D!Cardinality(M) = k
    BY FS_CardinalityType DEF Cardinality, D!Cardinality
  <1>2. turn \in [1..k -> M] /\ \A i, j \in 1..k : i # j => turn[i] # turn[j]
    BY <1>1 DEF D!SetToSeqs
  <1>3. \A m \in M : \E i \in 1..k : turn[i] = m
    <2>1. turn \in Injection(1..k, M)
      BY <1>2 DEF Injection, IsInjective
    <2>2. IsFiniteSet(1..k) /\ Cardinality(1..k) = k
      BY <1>1, FS_Interval
    <2>3. turn \in Surjection(1..k, M)
      BY <2>1, <2>2, FS_Injection
    <2> QED BY <2>3 DEF Surjection
  <1>4. \A i \in 1..k : en(i) \in D!Entry
    BY <1>2 DEF Arrivals
  <1>5. \A i \in 1..k, q \in V : D!Enqueue(q, en(i)) \in V
    <2> HIDE DEF en
    <2> QED BY <1>4, EnqueueSorts
  <1>6. t \in V
    OBVIOUS
  <1>20. \A f : Body(f) = [s \in SUBSET (1..k) |->
                           IF s = {} THEN t ELSE D!Enqueue(f[s \ {D!Max(s)}], en(D!Max(s)))]
    <2>1. DOMAIN turn = 1..k
      BY <1>2
    <2> QED BY <2>1 DEF EnqueueTurns
  <1>21. r = iter[DOMAIN turn]
    BY DEF Enqueued
  <1> HIDE DEF k, V, en, iter, Body, r
  <1>7. G \in [1..k -> [V -> V]]
    BY <1>5
  <1>8. \A i \in 1..k, q \in V : G[i][q] = D!Enqueue(q, en(i))
    OBVIOUS
  <1> HIDE DEF G
  <1>9. PICK it : Folded(k, V, t, G, it)
    BY <1>1, <1>6, <1>7, FoldExists
  <1>10. \A s \in SUBSET (1..k) : s # {} => D!Max(s) = Max(s) /\ Max(s) \in s
    <2>1. \A s : D!Max(s) = Max(s)
      BY DEF D!Max, Max
    <2>2. \A s \in SUBSET (1..k) : s # {} => Max(s) \in s
      BY <1>1, MaxOfInterval
    <2> QED BY <2>1, <2>2
  <1>11. it = Body(it)
    <2>1. ASSUME NEW s \in SUBSET (1..k) PROVE it[s] = Body(it)[s]
      <3>1. CASE s = {}
        BY <1>9, <1>20, <3>1 DEF Folded
      <3>2. CASE s # {}
        <4>1. it[s] = G[Max(s)][it[s \ {Max(s)}]]
          BY <1>9, <3>2 DEF Folded
        <4>2. Max(s) \in 1..k /\ it[s \ {Max(s)}] \in V
          BY <1>9, <1>10, <3>2 DEF Folded
        <4>3. it[s] = D!Enqueue(it[s \ {D!Max(s)}], en(D!Max(s)))
          BY <1>8, <1>10, <3>2, <4>1, <4>2
        <4> QED BY <1>20, <3>2, <4>3
      <3> QED BY <3>1, <3>2
    <2>2. it = [s \in SUBSET (1..k) |-> it[s]]
      BY <1>9 DEF Folded
    <2>3. Body(it) = [s \in SUBSET (1..k) |-> Body(it)[s]]
      BY <1>20
    <2> QED BY <2>1, <2>2, <2>3
  <1>12. iter = Body(iter)
    BY <1>11 DEF iter
  <1>13. r = iter[1..k]
    BY <1>2, <1>21
  <1>14. /\ it[1..0] = t
         /\ \A j \in 0..k : it[1..j] \in V
         /\ \A j \in 0..(k - 1) : it[1..(j + 1)] = G[j + 1][it[1..j]]
    <2>1. k \in Nat
      BY <1>1
    <2> QED BY ONLY <2>1, <1>6, <1>7, <1>9, FoldSteps, SMTT(30)
  <1>15. \A j \in 0..(k - 1) : it[1..(j + 1)] = D!Enqueue(it[1..j], en(j + 1))
    <2>1. \A j \in 0..(k - 1) : j + 1 \in 1..k /\ j \in 0..k
      BY <1>1
    <2> QED BY <1>8, <1>14, <2>1
  <1>16. iter[1..k] = it[1..k]
    <2> DEFINE Z == {j \in Nat : j <= k => iter[1..j] = it[1..j]}
    <2>1. 0 \in Z
      <3>1. 1..0 = {} /\ {} \in SUBSET (1..k)
        OBVIOUS
      <3>2. iter[{}] = t
        BY <1>12, <1>20, <3>1
      <3> QED BY <3>1, <3>2, <1>14
    <2>2. ASSUME NEW j \in Nat, j \in Z PROVE j + 1 \in Z
      <3>1. SUFFICES ASSUME j + 1 <= k PROVE iter[1..(j + 1)] = it[1..(j + 1)]
        OBVIOUS
      <3>2. iter[1..j] = it[1..j]
        BY <1>1, <2>2, <3>1
      <3> DEFINE s == 1..(j + 1)
      <3>3. s \in SUBSET (1..k) /\ j + 1 \in s
        <4>1. \A i \in s : i \in 1..k
          BY <1>1, <3>1
        <4>2. j + 1 \in s
          OBVIOUS
        <4> HIDE DEF s
        <4> QED BY <4>1, <4>2
      <3>4. Max(s) = j + 1
        <4>1. j + 1 \in Nat /\ s # {} /\ s \subseteq 1..(j + 1)
          BY <3>3
        <4>2. Max(s) \in s /\ \A y \in s : y <= Max(s)
          BY <4>1, MaxOfInterval
        <4>3. Max(s) \in 1..(j + 1) /\ j + 1 <= Max(s)
          BY <3>3, <4>2
        <4> QED BY <4>3
      <3>5. s \ {j + 1} = 1..j
        OBVIOUS
      <3> HIDE DEF s
      <3>6. iter[s] = D!Enqueue(iter[1..j], en(j + 1))
        BY <1>10, <1>12, <1>20, <3>3, <3>4, <3>5
      <3>7. it[s] = D!Enqueue(it[1..j], en(j + 1))
        <4>1. j \in 0..(k - 1)
          BY <1>1, <3>1
        <4> QED BY <4>1, <1>15 DEF s
      <3> QED BY <3>2, <3>6, <3>7 DEF s
    <2>3. k \in Z
      <3> HIDE DEF Z
      <3> QED BY <1>1, <2>1, <2>2, InductionSet
    <2> QED BY <1>1, <2>3
  <1>17. Entries(it[1..k]) = Entries(t) \cup {en(i) : i \in 1..k}
    <2> DEFINE Z == {j \in Nat : j <= k => Entries(it[1..j]) = Entries(t) \cup {en(i) : i \in 1..j}}
    <2>1. 0 \in Z
      <3>1. 1..0 = {}
        OBVIOUS
      <3>2. {en(i) : i \in {}} = {}
        OBVIOUS
      <3> QED BY <1>14, <3>1, <3>2
    <2>2. ASSUME NEW j \in Nat, j \in Z PROVE j + 1 \in Z
      <3>1. SUFFICES ASSUME j + 1 <= k
                     PROVE  Entries(it[1..(j + 1)]) = Entries(t) \cup {en(i) : i \in 1..(j + 1)}
        OBVIOUS
      <3>2. Entries(it[1..j]) = Entries(t) \cup {en(i) : i \in 1..j}
        BY <1>1, <2>2, <3>1
      <3>3. j \in 0..(k - 1) /\ j \in 0..k /\ j + 1 \in 1..k
        BY <1>1, <3>1
      <3>4. it[1..j] \in V /\ en(j + 1) \in D!Entry /\ it[1..(j + 1)] = D!Enqueue(it[1..j], en(j + 1))
        BY <1>4, <1>14, <1>15, <3>3
      <3>5. Entries(it[1..(j + 1)]) = Entries(it[1..j]) \cup {en(j + 1)}
        BY <3>4, EnqueueSorts DEF V
      <3>6. 1..(j + 1) = (1..j) \cup {j + 1}
        OBVIOUS
      <3>7. {en(i) : i \in (1..j) \cup {j + 1}} = {en(i) : i \in 1..j} \cup {en(j + 1)}
        OBVIOUS
      <3> QED BY <3>2, <3>5, <3>6, <3>7
    <2>3. k \in Z
      <3> HIDE DEF Z
      <3> QED BY <1>1, <2>1, <2>2, InductionSet
    <2> QED BY <1>1, <2>3
  <1>18. {en(i) : i \in 1..k} = Arrivals(alt, M)
    BY <1>2, <1>3 DEF en, Arrivals
  <1>19. it[1..k] \in V
    BY <1>1, <1>14
  <1> QED BY <1>13, <1>16, <1>17, <1>18, <1>19 DEF V, r

-----------------------------------------------------------------------------
(***************************************************************************)
(* GET /path: the search and the walk back.                                *)
(***************************************************************************)
\* While it searches: a node that was reached is in the queue at its distance,
\* or its neighbours are relaxed.  Entries that were overtaken remain.
PathSearch ==
  /\ Sorted(pq)
  /\ \A e \in Entries(pq) : distances[e.element] <= e.priority
  /\ \A n \in Node : distances[n] < D!Infinity =>
       \/ [element |-> n, priority |-> distances[n]] \in Entries(pq)
       \/ \A m \in D!Neighbors(n) : distances[m] <= distances[n] + graph[<<n, m>>]

\* Distances are never too short, and are those of a walk over previous nodes.
PathTree ==
  /\ distances[start] = 0
  /\ \A n \in Node : D!Shortest[n] <= distances[n]
  /\ start \in Node => prev[start] = D!Null
  /\ \A n \in Node : prev[n] # D!Null =>
       /\ prev[n] \in Node /\ n \in D!Neighbors(prev[n])
       /\ distances[prev[n]] + graph[<<prev[n], n>>] <= distances[n]
       /\ distances[n] < D!Infinity
  /\ \A n \in Node : n # start /\ distances[n] < D!Infinity => prev[n] # D!Null

\* The walk back from the end: what is on the path is settled, and each step
\* of it is an edge that a shortest walk takes.
PathWalk ==
  /\ path \in Seq(Node)
  /\ IF path = <<>> THEN at = end ELSE Last(path) = end /\ at = prev[Head(path)]
  /\ \A i \in 1..Len(path) :
       distances[path[i]] <= distances[end] /\ distances[path[i]] = D!Shortest[path[i]]
  /\ \A i \in 1..(Len(path) - 1) :
       /\ path[i + 1] \in D!Neighbors(path[i])
       /\ distances[path[i + 1]] = distances[path[i]] + graph[<<path[i], path[i + 1]>>]

\* The inductive invariant of dijkstra.js.
PathInv ==
  /\ D!TypeOK
  /\ PathTree
  /\ Sorted(pq)
  /\ pc = "search" => PathSearch /\ at = end /\ path = <<>>
  /\ pc = "reconstruct" => distances[end] = D!Shortest[end] /\ PathWalk
  /\ pc = "done" => D!PathIsShortest

\* The reference depends on the graph and the start only.
LEMMA PathFixed ==
  ASSUME UNCHANGED <<graph, start>>
  PROVE  D!Shortest' = D!Shortest /\ \A n : D!Neighbors(n)' = D!Neighbors(n)
  BY DEF D!Shortest, D!Within, D!Neighbors

\* What is no further than the head of the queue is settled: of the nodes that
\* are not, the nearest one's predecessor would be in the queue before the head.
LEMMA Settle ==
  ASSUME D!TypeOK, PathSearch, PathTree, NEW n \in Node,
         pq = <<>> \/ distances[n] <= Head(pq).priority
  PROVE  distances[n] = D!Shortest[n]
  <1> DEFINE d == distances
             L == D!Shortest
             Late == {x \in Node : L[x] < d[x] /\ (pq = <<>> \/ L[x] < Head(pq).priority)}
  <1>1. /\ graph \in D!Graphs /\ D!Infinity \in Nat
        /\ \A x \in Node : d[x] \in 0..D!Infinity
        /\ pq \in Seq(D!Entry)
    BY InfinityIsNat DEF D!TypeOK, D!Start
  <1>2. /\ \A x \in Node : L[x] \in 0..D!Infinity /\ L[x] <= d[x]
        /\ \A x \in Node : x # start /\ L[x] < D!Infinity =>
             \E m \in Node : x \in D!Neighbors(m) /\ L[x] = L[m] + graph[<<m, x>>]
        /\ \A x, m \in Node : x \in D!Neighbors(m) => graph[<<m, x>>] \in Nat \ {0}
    BY <1>1, ShortestIs DEF PathTree
  <1>3. pq # <<>> => /\ Head(pq) \in D!Entry /\ Head(pq).priority \in Nat
                     /\ \A e \in Entries(pq) : e.priority \in Nat /\ Head(pq).priority <= e.priority
    <2>1. SUFFICES ASSUME pq # <<>>
                   PROVE  /\ Head(pq) \in D!Entry /\ Head(pq).priority \in Nat
                          /\ \A e \in Entries(pq) : e.priority \in Nat /\ Head(pq).priority <= e.priority
      OBVIOUS
    <2>2. Len(pq) \in Nat \ {0} /\ \A i \in 1..Len(pq) : pq[i] \in D!Entry
      BY <1>1, <2>1, EmptySeq, LenProperties, ElementOfSeq
    <2>3. Head(pq) = pq[1] /\ 1 \in 1..Len(pq)
      BY <1>1, <2>1, <2>2
    <2>4. \A e \in D!Entry : e.priority \in Nat
      BY <1>1 DEF D!Entry
    <2>5. \A i \in 1..Len(pq) : i = 1 \/ 1 < i
      BY <2>2
    <2>6. \A i \in 1..Len(pq) : pq[1].priority <= pq[i].priority
      <3>1. pq[1].priority <= pq[1].priority
        BY <2>2, <2>3, <2>4
      <3> QED BY <2>3, <2>5, <3>1 DEF PathSearch, Sorted
    <2> QED BY <2>2, <2>3, <2>4, <2>6 DEF Entries
  <1>4. SUFFICES ASSUME L[n] # d[n] PROVE FALSE
    OBVIOUS
  <1>5. n \in Late
    BY <1>1, <1>2, <1>3, <1>4
  <1> HIDE DEF Late
  <1>6. PICK x \in Late : \A y \in Late : L[x] <= L[y]
    <2> DEFINE Vals == {L[y] : y \in Late}
    <2>1. Vals \subseteq Nat /\ Vals # {}
      BY <1>2, <1>5 DEF Late
    <2>2. PICK v \in Vals : \A u \in Vals : v <= u
      <3> HIDE DEF Vals
      <3> QED BY <2>1, LeastOf
    <2> QED BY <2>2
  <1>7. x \in Node /\ L[x] < d[x] /\ (pq = <<>> \/ L[x] < Head(pq).priority)
    BY <1>6 DEF Late
  <1>8. x # start /\ L[x] < D!Infinity
    <2>1. x # start
      BY <1>1, <1>2, <1>7 DEF PathTree
    <2> QED BY <1>1, <1>2, <1>7, <2>1
  <1>9. PICK m \in Node : x \in D!Neighbors(m) /\ L[x] = L[m] + graph[<<m, x>>]
    BY <1>2, <1>7, <1>8
  <1>10. L[m] < L[x]
    BY <1>2, <1>7, <1>9
  <1>11. d[m] = L[m]
    <2>1. m \notin Late
      BY <1>2, <1>6, <1>7, <1>10
    <2>2. L[m] < d[m] => pq # <<>> /\ Head(pq).priority <= L[m]
      BY <1>1, <1>2, <1>3, <2>1 DEF Late
    <2> QED BY <1>1, <1>2, <1>3, <1>7, <1>10, <2>2
  <1>12. d[m] < D!Infinity
    BY <1>1, <1>2, <1>7, <1>8, <1>10, <1>11
  <1>13. CASE [element |-> m, priority |-> d[m]] \in Entries(pq)
    <2>1. pq # <<>>
      <3>1. Len(<<>>) = 0
        OBVIOUS
      <3> QED BY <1>13, <3>1 DEF Entries
    <2>2. Head(pq).priority <= [element |-> m, priority |-> d[m]].priority
      BY <1>3, <1>13, <2>1
    <2> QED BY <1>1, <1>2, <1>3, <1>7, <1>10, <1>11, <2>1, <2>2
  <1>14. CASE \A y \in D!Neighbors(m) : d[y] <= d[m] + graph[<<m, y>>]
    BY <1>1, <1>2, <1>7, <1>9, <1>11, <1>14
  <1> QED BY <1>12, <1>13, <1>14 DEF PathSearch

\* The call begins with the invariant.
LEMMA PathInitInv ==
  ASSUME D!Init
  PROVE  PathInv
  <1>0. D!Infinity \in Nat \ {0} /\ start \in D!Start /\ end \in Node /\ graph \in D!Graphs
    BY InfinityIsNat DEF D!Init
  <1>1. distances \in [D!Start -> 0..D!Infinity]
    BY <1>0 DEF D!Init
  <1>2. pq \in Seq(D!Entry)
    BY <1>0 DEF D!Init, D!Entry
  <1>3. D!TypeOK
    BY <1>0, <1>1, <1>2 DEF D!TypeOK, D!Init, D!Start
  <1>4. PathTree
    <2>1. \A n \in Node : D!Shortest[n] <= distances[n]
      BY <1>0, ShortestIs DEF D!Init, D!Start
    <2>2. \A n \in Node : prev[n] = D!Null
      BY DEF D!Init
    <2> QED BY <1>0, <2>1, <2>2 DEF D!Init, D!Start, PathTree
  <1>5. PathSearch
    <2>1. Len(pq) = 1 /\ pq[1] = [element |-> start, priority |-> 0]
      BY DEF D!Init
    <2>2. Sorted(pq)
      BY <2>1 DEF Sorted
    <2>3. Entries(pq) = {[element |-> start, priority |-> 0]}
      BY <2>1 DEF Entries
    <2>4. distances[start] = 0
      BY <1>0 DEF D!Init
    <2>5. \A n \in Node : distances[n] < D!Infinity => n = start
      BY <1>0 DEF D!Init, D!Start
    <2> QED BY <1>0, <2>2, <2>3, <2>4, <2>5 DEF PathSearch
  <1> QED BY <1>3, <1>4, <1>5 DEF PathInv, PathSearch, D!Init

\* The queue of a Visit that relaxes n's neighbours.
LEMMA VisitQueue ==
  ASSUME PathInv, D!Visit, Head(pq).element # end
  PROVE  LET n == Head(pq).element
             improved == {m \in D!Neighbors(n) : D!Alt(n)[m] < distances[m]}
         IN  /\ pq' \in Seq(D!Entry) /\ Sorted(pq')
             /\ Entries(pq) = {Head(pq)} \cup Entries(Tail(pq))
             /\ Entries(pq') = Entries(Tail(pq)) \cup Arrivals(D!Alt(n), improved)
  <1> DEFINE n == Head(pq).element
             alt == D!Alt(n)
             improved == {m \in D!Neighbors(n) : alt[m] < distances[m]}
  <1>0. /\ pc = "search" /\ pq # <<>> /\ pq \in Seq(D!Entry) /\ Sorted(pq)
        /\ graph \in D!Graphs /\ distances \in [D!Start -> 0..D!Infinity]
        /\ D!Infinity \in Nat
    BY InfinityIsNat DEF D!Visit, PathInv, PathSearch, D!TypeOK
  <1>1. /\ Len(pq) \in Nat \ {0} /\ Tail(pq) \in Seq(D!Entry) /\ Len(Tail(pq)) = Len(pq) - 1
        /\ \A i \in 1..(Len(pq) - 1) : Tail(pq)[i] = pq[i + 1]
        /\ Head(pq) = pq[1] /\ Head(pq) \in D!Entry
    BY <1>0, EmptySeq, HeadTailProperties
  <1>2. Sorted(Tail(pq))
    <2>1. SUFFICES ASSUME NEW i \in 1..(Len(pq) - 1), NEW j \in 1..(Len(pq) - 1), i < j
                   PROVE  Tail(pq)[i].priority <= Tail(pq)[j].priority
      BY <1>1 DEF Sorted
    <2>2. i + 1 \in 1..Len(pq) /\ j + 1 \in 1..Len(pq) /\ i + 1 < j + 1
      BY <1>1, <2>1
    <2> QED BY <1>0, <1>1, <2>2 DEF Sorted
  <1>3. Entries(pq) = {Head(pq)} \cup Entries(Tail(pq))
    <2>1. ASSUME NEW i \in 1..Len(pq) PROVE pq[i] \in {Head(pq)} \cup Entries(Tail(pq))
      <3>1. CASE i = 1
        BY <1>1, <3>1
      <3>2. CASE i # 1
        <4>1. i - 1 \in 1..(Len(pq) - 1) /\ (i - 1) + 1 = i
          BY <1>1, <3>2
        <4>2. Tail(pq)[i - 1] = pq[i] /\ i - 1 \in 1..Len(Tail(pq))
          BY <1>1, <4>1
        <4> QED BY <4>2 DEF Entries
      <3> QED BY <3>1, <3>2
    <2>2. ASSUME NEW i \in 1..Len(Tail(pq)) PROVE Tail(pq)[i] \in Entries(pq)
      <3>1. Tail(pq)[i] = pq[i + 1] /\ i + 1 \in 1..Len(pq)
        BY <1>1
      <3> QED BY <3>1 DEF Entries
    <2>3. Head(pq) \in Entries(pq)
      BY <1>1 DEF Entries
    <2> QED BY <2>1, <2>2, <2>3 DEF Entries
  <1>4. ASSUME NEW m \in improved PROVE [element |-> m, priority |-> alt[m]] \in D!Entry
    <2>1. m \in Node /\ n \in Node
      BY <1>0, PathNeighbors
    <2>2. alt[m] = distances[n] + graph[<<n, m>>] /\ graph[<<n, m>>] \in Nat
      BY <1>0, <2>1, ShortestIs DEF D!Alt
    <2>3. alt[m] \in 0..D!Infinity
      <3>1. distances[n] \in 0..D!Infinity /\ distances[m] \in 0..D!Infinity
        BY <1>0, <2>1 DEF D!Start
      <3>2. alt[m] < distances[m]
        OBVIOUS
      <3> HIDE DEF alt
      <3> QED BY <1>0, <2>2, <3>1, <3>2
    <2> QED BY <2>1, <2>3 DEF D!Entry, D!Start
  <1>5. IsFiniteSet(improved)
    <2>1. improved \in SUBSET Node
      BY <1>0, PathNeighbors
    <2> QED BY <2>1, TspAssumption, FS_Subset
  <1>6. PICK turn \in D!SetToSeqs(improved) : pq' = Enqueued(Tail(pq), alt, turn)
    BY DEF D!Visit, D!FoldLeft, D!MapThenFoldSet, Enqueued, EnqueueTurns
  <1> HIDE DEF improved, alt, n
  <1>7. /\ pq' \in Seq(D!Entry) /\ Sorted(pq')
        /\ Entries(pq') = Entries(Tail(pq)) \cup Arrivals(alt, improved)
    <2>1. Arrivals(alt, improved) \subseteq D!Entry
      BY <1>4 DEF Arrivals
    <2> QED BY <1>1, <1>2, <1>5, <1>6, <2>1, EnqueueAll
  <1> QED BY <1>3, <1>7 DEF improved, alt, n

\* Leaving at the first sight of the end keeps the invariant: the end is settled.
LEMMA VisitEnd ==
  ASSUME PathInv, D!Visit, Head(pq).element = end
  PROVE  PathInv'
  <1>1. /\ pc = "search" /\ pq # <<>> /\ pc' = "reconstruct" /\ at = end /\ path = <<>>
        /\ UNCHANGED <<distances, prev, pq, graph, start, end, at, path>>
        /\ D!TypeOK /\ PathTree /\ PathSearch
    BY DEF D!Visit, PathInv
  <1>2. distances[end] = D!Shortest[end]
    <2>1. end \in Node /\ pq \in Seq(D!Entry)
      BY <1>1 DEF D!TypeOK
    <2>2. Len(pq) \in Nat \ {0} /\ Head(pq) = pq[1]
      BY <1>1, <2>1, EmptySeq
    <2>3. Head(pq) \in Entries(pq)
      BY <2>2 DEF Entries
    <2>4. distances[end] <= Head(pq).priority
      BY <1>1, <2>3 DEF PathSearch
    <2> QED BY <1>1, <2>1, <2>4, Settle
  <1>3. D!Shortest' = D!Shortest /\ \A n : D!Neighbors(n)' = D!Neighbors(n)
    BY <1>1, PathFixed
  <1>4. D!TypeOK'
    BY <1>1 DEF D!TypeOK
  <1>5. PathTree'
    BY <1>1, <1>3 DEF PathTree
  <1>6. PathWalk'
    <2>1. Len(<<>>) = 0
      OBVIOUS
    <2>2. path' = <<>> /\ path' \in Seq(Node) /\ \A i \in 1..0 : FALSE
      BY <1>1
    <2> QED BY <1>1, <2>1, <2>2 DEF PathWalk
  <1> QED BY <1>1, <1>2, <1>3, <1>4, <1>5, <1>6 DEF PathInv, PathSearch

\* Relaxing a node's neighbours keeps the invariant.
LEMMA VisitInv ==
  ASSUME PathInv, D!Visit, Head(pq).element # end
  PROVE  PathInv'
  <1> DEFINE n == Head(pq).element
             alt == D!Alt(n)
             improved == {m \in D!Neighbors(n) : alt[m] < distances[m]}
  <1>1. /\ pc = "search" /\ pq # <<>> /\ pc' = "search" /\ at = end /\ path = <<>>
        /\ UNCHANGED <<graph, start, end, at, path>>
        /\ D!TypeOK /\ PathTree /\ PathSearch
        /\ distances' = [m \in D!Start |-> IF m \in improved THEN alt[m] ELSE distances[m]]
        /\ prev' = [m \in Node |-> IF m \in improved THEN n ELSE prev[m]]
    BY DEF D!Visit, PathInv
  <1>2. /\ graph \in D!Graphs /\ start \in D!Start /\ end \in Node /\ D!Infinity \in Nat
        /\ distances \in [D!Start -> 0..D!Infinity] /\ prev \in [Node -> D!Start \cup {D!Null}]
        /\ Node \subseteq D!Start /\ D!Null \notin D!Start
    BY <1>1, InfinityIsNat, TspAssumption DEF D!TypeOK, D!Start, D!Null
  <1>3. /\ pq' \in Seq(D!Entry) /\ Sorted(pq')
        /\ Entries(pq) = {Head(pq)} \cup Entries(Tail(pq))
        /\ Entries(pq') = Entries(Tail(pq)) \cup Arrivals(alt, improved)
    BY VisitQueue
  <1>4. D!Shortest' = D!Shortest /\ \A m : D!Neighbors(m)' = D!Neighbors(m)
    BY <1>1, PathFixed
  <1>5. /\ D!Shortest \in [Node -> 0..D!Infinity]
        /\ \A m, x \in Node : x \in D!Neighbors(m) =>
             D!Shortest[x] <= D!Shortest[m] + graph[<<m, x>>] /\ graph[<<m, x>>] \in Nat \ {0}
    BY <1>2, ShortestIs
  <1>6. \A m \in D!Neighbors(n) : m \in Node /\ n \in Node /\ m # n
    BY <1>2, PathNeighbors DEF D!Neighbors
  <1>7. \A m \in improved : /\ m \in Node /\ n \in Node /\ m # n /\ m \in D!Neighbors(n)
                            /\ alt[m] = distances[n] + graph[<<n, m>>]
                            /\ distances'[m] = alt[m] /\ alt[m] < distances[m]
                            /\ prev'[m] = n /\ alt[m] \in 0..D!Infinity
    <2>1. SUFFICES ASSUME NEW m \in improved
                   PROVE  /\ alt[m] = distances[n] + graph[<<n, m>>]
                          /\ distances'[m] = alt[m] /\ prev'[m] = n /\ alt[m] \in 0..D!Infinity
      BY <1>6
    <2>2. m \in Node /\ n \in Node /\ m \in D!Neighbors(n) /\ alt[m] < distances[m]
      BY <1>6
    <2>3. alt[m] = distances[n] + graph[<<n, m>>]
      BY <2>2 DEF D!Alt
    <2>4. distances'[m] = alt[m] /\ prev'[m] = n
      BY <1>1, <1>2, <2>2
    <2>5. distances[n] \in 0..D!Infinity /\ distances[m] \in 0..D!Infinity /\ graph[<<n, m>>] \in Nat
      BY <1>2, <1>5, <2>2
    <2> HIDE DEF alt
    <2> QED BY <1>2, <2>2, <2>3, <2>4, <2>5
  <1>8. \A m \in D!Start : m \notin improved => distances'[m] = distances[m]
    BY <1>1
  <1>9. \A m \in Node : m \notin improved => prev'[m] = prev[m]
    BY <1>1
  <1>10. \A m \in D!Neighbors(n) : m \notin improved => distances[m] <= distances[n] + graph[<<n, m>>]
    <2>1. SUFFICES ASSUME NEW m \in D!Neighbors(n), m \notin improved
                   PROVE  distances[m] <= distances[n] + graph[<<n, m>>]
      OBVIOUS
    <2>2. m \in Node /\ n \in Node /\ ~(alt[m] < distances[m])
      BY <1>6, <2>1
    <2>3. alt[m] = distances[n] + graph[<<n, m>>]
      BY DEF D!Alt
    <2>4. distances[n] \in 0..D!Infinity /\ distances[m] \in 0..D!Infinity /\ graph[<<n, m>>] \in Nat
      BY <1>2, <1>5, <2>2
    <2> HIDE DEF alt
    <2> QED BY <1>2, <2>2, <2>3, <2>4
  <1> HIDE DEF improved, alt
  <1>11. /\ \A m \in D!Start : distances'[m] \in 0..D!Infinity /\ distances'[m] <= distances[m]
         /\ n \in D!Start /\ distances'[n] = distances[n]
    <2>1. \A m \in D!Start : distances'[m] \in 0..D!Infinity /\ distances'[m] <= distances[m]
      <3>1. SUFFICES ASSUME NEW m \in D!Start
                     PROVE  distances'[m] \in 0..D!Infinity /\ distances'[m] <= distances[m]
        OBVIOUS
      <3>2. distances[m] \in 0..D!Infinity
        BY <1>2
      <3>3. CASE m \in improved
        <4>1. distances'[m] \in 0..D!Infinity /\ distances'[m] < distances[m]
          BY <1>7, <3>3
        <4> QED BY <1>2, <3>2, <4>1
      <3>4. CASE m \notin improved
        BY <1>2, <1>8, <3>2, <3>4
      <3> QED BY <3>3, <3>4
    <2>2. n \in D!Start
      <3>1. Len(pq) \in Nat \ {0} /\ Head(pq) \in D!Entry
        BY <1>1, EmptySeq, HeadTailProperties DEF D!TypeOK
      <3> QED BY <3>1 DEF D!Entry
    <2> QED BY <2>1, <2>2, <1>7, <1>8
  <1>12. D!TypeOK'
    <2>1. distances' \in [D!Start -> 0..D!Infinity]
      BY <1>1, <1>11
    <2>2. prev' \in [Node -> D!Start \cup {D!Null}]
      BY <1>1, <1>2, <1>7, <1>9
    <2>3. pc' \in {"search", "reconstruct", "done"}
      BY <1>1
    <2> QED BY <1>1, <1>3, <2>1, <2>2, <2>3 DEF D!TypeOK
  <1>13. PathTree'
    <2>1. start \notin improved
      <3>1. start \in improved => distances[n] + graph[<<n, start>>] < 0 /\ n \in D!Start /\ graph[<<n, start>>] \in Nat
        BY <1>1, <1>5, <1>7, <1>11 DEF PathTree
      <3>2. distances[n] \in Nat
        BY <1>2, <1>11
      <3> QED BY <3>1, <3>2
    <2>2. distances'[start] = 0 /\ (start \in Node => prev'[start] = D!Null)
      BY <1>1, <1>2, <1>8, <1>9, <2>1 DEF PathTree
    <2>3. ASSUME NEW m \in Node PROVE D!Shortest[m] <= distances'[m]
      <3>1. CASE m \in improved
        <4>1. D!Shortest[m] <= D!Shortest[n] + graph[<<n, m>>] /\ D!Shortest[n] <= distances[n]
          BY <1>1, <1>5, <1>7, <3>1 DEF PathTree
        <4>2. distances'[m] = distances[n] + graph[<<n, m>>] /\ graph[<<n, m>>] \in Nat
              /\ D!Shortest[n] \in Nat /\ D!Shortest[m] \in Nat /\ distances[n] \in Nat
          BY <1>2, <1>5, <1>7, <3>1
        <4> QED BY <4>1, <4>2
      <3>2. CASE m \notin improved
        BY <1>1, <1>2, <1>8, <3>2 DEF PathTree
      <3> QED BY <3>1, <3>2
    <2>4. ASSUME NEW m \in Node, prev'[m] # D!Null
          PROVE  /\ prev'[m] \in Node /\ m \in D!Neighbors(prev'[m])
                 /\ distances'[prev'[m]] + graph[<<prev'[m], m>>] <= distances'[m]
                 /\ distances'[m] < D!Infinity
      <3>1. CASE m \in improved
        <4>1. prev'[m] = n /\ n \in Node /\ m \in D!Neighbors(n)
              /\ distances'[m] = distances[n] + graph[<<n, m>>] /\ distances'[n] = distances[n]
              /\ distances'[m] < distances[m]
          BY <1>7, <1>11, <3>1
        <4>2. distances[n] \in Nat /\ graph[<<n, m>>] \in Nat /\ distances[m] \in 0..D!Infinity
          BY <1>2, <1>5, <4>1
        <4> QED BY <1>2, <4>1, <4>2
      <3>2. CASE m \notin improved
        <4>1. prev'[m] = prev[m] /\ distances'[m] = distances[m] /\ prev[m] # D!Null
          BY <1>2, <1>8, <1>9, <2>4, <3>2
        <4>2. /\ prev[m] \in Node /\ m \in D!Neighbors(prev[m])
              /\ distances[prev[m]] + graph[<<prev[m], m>>] <= distances[m]
              /\ distances[m] < D!Infinity
          BY <1>1, <4>1 DEF PathTree
        <4>3. distances'[prev[m]] <= distances[prev[m]] /\ distances'[prev[m]] \in Nat
              /\ distances[prev[m]] \in Nat /\ graph[<<prev[m], m>>] \in Nat /\ distances[m] \in Nat
          BY <1>2, <1>5, <1>11, <4>2
        <4> QED BY <4>1, <4>2, <4>3
      <3> QED BY <3>1, <3>2
    <2>5. ASSUME NEW m \in Node, m # start, distances'[m] < D!Infinity PROVE prev'[m] # D!Null
      <3>1. CASE m \in improved
        BY <1>2, <1>7, <3>1
      <3>2. CASE m \notin improved
        BY <1>1, <1>2, <1>8, <1>9, <2>5, <3>2 DEF PathTree
      <3> QED BY <3>1, <3>2
    <2> QED BY <1>1, <1>4, <2>2, <2>3, <2>4, <2>5 DEF PathTree
  <1>14. PathSearch'
    <2>1. ASSUME NEW e \in Entries(pq') PROVE distances'[e.element] <= e.priority
      <3>1. CASE e \in Entries(Tail(pq))
        <4>1. e \in Entries(pq)
          BY <1>3, <3>1
        <4>2. distances[e.element] <= e.priority /\ e \in D!Entry
          <5>1. \A i \in 1..Len(pq) : pq[i] \in D!Entry
            BY <1>1, ElementOfSeq DEF D!TypeOK
          <5> QED BY <1>1, <4>1, <5>1 DEF PathSearch, Entries
        <4>3. e.element \in D!Start /\ e.priority \in Nat
          BY <1>2, <4>2 DEF D!Entry
        <4> QED BY <1>2, <1>11, <4>2, <4>3
      <3>2. CASE e \in Arrivals(alt, improved)
        <4>1. PICK m \in improved : e = [element |-> m, priority |-> alt[m]]
          BY <3>2 DEF Arrivals
        <4>2. e.element = m /\ e.priority = alt[m]
          BY <4>1
        <4>3. distances'[m] = alt[m] /\ alt[m] \in 0..D!Infinity
          BY <1>7, <4>1
        <4>4. distances'[e.element] = alt[m]
          BY <4>2, <4>3
        <4> QED BY <1>2, <4>2, <4>3, <4>4
      <3> QED BY <1>3, <3>1, <3>2
    <2>2. ASSUME NEW x \in Node, distances'[x] < D!Infinity
          PROVE  \/ [element |-> x, priority |-> distances'[x]] \in Entries(pq')
                 \/ \A m \in D!Neighbors(x) : distances'[m] <= distances'[x] + graph[<<x, m>>]
      <3>1. CASE x \in improved
        <4>1. [element |-> x, priority |-> alt[x]] \in Arrivals(alt, improved)
          BY <3>1 DEF Arrivals
        <4> QED BY <1>3, <1>7, <3>1, <4>1
      <3>2. CASE x \notin improved /\ [element |-> x, priority |-> distances[x]] \in Entries(Tail(pq))
        <4>1. distances'[x] = distances[x]
          BY <1>2, <1>8, <3>2
        <4> QED BY <1>3, <3>2, <4>1
      <3>3. CASE x \notin improved /\ \A m \in D!Neighbors(x) : distances[m] <= distances[x] + graph[<<x, m>>]
        <4>1. SUFFICES ASSUME NEW m \in D!Neighbors(x)
                       PROVE  distances'[m] <= distances'[x] + graph[<<x, m>>]
          OBVIOUS
        <4>2. m \in Node /\ distances'[x] = distances[x] /\ distances[m] <= distances[x] + graph[<<x, m>>]
          BY <1>2, <1>8, <3>3 DEF D!Neighbors
        <4>3. distances'[m] <= distances[m] /\ distances'[m] \in Nat /\ distances[m] \in Nat
              /\ distances[x] \in Nat /\ graph[<<x, m>>] \in Nat
          BY <1>2, <1>5, <1>11, <4>2
        <4> QED BY <4>2, <4>3
      <3>4. CASE x \notin improved /\ [element |-> x, priority |-> distances[x]] = Head(pq)
        <4>1. x = n
          BY <3>4
        <4>2. SUFFICES ASSUME NEW m \in D!Neighbors(x)
                       PROVE  distances'[m] <= distances'[x] + graph[<<x, m>>]
          OBVIOUS
        <4>3. m \in Node /\ distances'[x] = distances[x]
          BY <1>6, <1>11, <4>1
        <4>4. CASE m \in improved
          BY <1>2, <1>7, <1>11, <4>1, <4>3, <4>4
        <4>5. CASE m \notin improved
          BY <1>2, <1>8, <1>10, <4>1, <4>3, <4>5
        <4> QED BY <4>4, <4>5
      <3>5. x \notin improved =>
              \/ [element |-> x, priority |-> distances[x]] \in Entries(pq)
              \/ \A m \in D!Neighbors(x) : distances[m] <= distances[x] + graph[<<x, m>>]
        BY <1>1, <1>2, <1>8, <2>2 DEF PathSearch
      <3> QED BY <1>3, <3>1, <3>2, <3>3, <3>4, <3>5
    <2> QED BY <1>1, <1>3, <1>4, <2>1, <2>2 DEF PathSearch
  <1> QED BY <1>1, <1>3, <1>12, <1>13, <1>14 DEF PathInv

\* An empty queue keeps the invariant: all nodes are settled.
LEMMA ExhaustedInv ==
  ASSUME PathInv, D!Exhausted
  PROVE  PathInv'
  <1>1. /\ pc = "search" /\ pq = <<>> /\ pc' = "reconstruct" /\ at = end /\ path = <<>>
        /\ UNCHANGED <<distances, prev, pq, graph, start, end, at, path>>
        /\ D!TypeOK /\ PathTree /\ PathSearch
    BY DEF D!Exhausted, PathInv
  <1>2. distances[end] = D!Shortest[end]
    BY <1>1, Settle DEF D!TypeOK
  <1>3. D!Shortest' = D!Shortest /\ \A n : D!Neighbors(n)' = D!Neighbors(n)
    BY <1>1, PathFixed
  <1>4. D!TypeOK'
    BY <1>1 DEF D!TypeOK
  <1>5. PathTree'
    BY <1>1, <1>3 DEF PathTree
  <1>6. PathWalk'
    <2>1. Len(<<>>) = 0
      OBVIOUS
    <2>2. path' = <<>> /\ path' \in Seq(Node) /\ \A i \in 1..0 : FALSE
      BY <1>1
    <2> QED BY <1>1, <2>1, <2>2 DEF PathWalk
  <1> QED BY <1>1, <1>2, <1>3, <1>4, <1>5, <1>6 DEF PathInv, PathSearch

\* What unshift does to a path.
LEMMA Prepend ==
  ASSUME NEW S, NEW p \in Seq(S), NEW x \in S
  PROVE  /\ <<x>> \o p \in Seq(S) /\ Len(<<x>> \o p) = Len(p) + 1 /\ Len(p) \in Nat
         /\ (<<x>> \o p)[1] = x /\ \A i \in 1..Len(p) : (<<x>> \o p)[i + 1] = p[i]
  <1>1. <<x>> \in Seq(S) /\ Len(<<x>>) = 1 /\ <<x>>[1] = x
    OBVIOUS
  <1>2. Len(p) \in Nat
    BY LenProperties
  <1>3. /\ <<x>> \o p \in Seq(S) /\ Len(<<x>> \o p) = Len(<<x>>) + Len(p)
        /\ \A i \in 1..(Len(<<x>>) + Len(p)) :
             (<<x>> \o p)[i] = IF i <= Len(<<x>>) THEN <<x>>[i] ELSE p[i - Len(<<x>>)]
    BY <1>1, ConcatProperties
  <1>4. ASSUME NEW i \in 1..Len(p) PROVE (<<x>> \o p)[i + 1] = p[i]
    <2>1. i + 1 \in 1..(1 + Len(p)) /\ ~(i + 1 <= 1) /\ (i + 1) - 1 = i
      BY <1>2
    <2> QED BY <1>1, <1>3, <2>1
  <1> QED BY <1>1, <1>2, <1>3, <1>4

\* One turn of the walk back keeps the invariant.
LEMMA WalkInv ==
  ASSUME PathInv, D!Walk
  PROVE  PathInv'
  <1> DEFINE p == <<at>> \o path
  <1>1. /\ pc = "reconstruct" /\ at # D!Null /\ path' = p /\ pc' = "reconstruct"
        /\ at' = IF at \in Node THEN prev[at] ELSE D!Null
        /\ UNCHANGED <<graph, start, end, distances, prev, pq>>
        /\ D!TypeOK /\ PathTree /\ PathWalk /\ Sorted(pq) /\ distances[end] = D!Shortest[end]
    BY DEF D!Walk, PathInv
  <1>2. /\ graph \in D!Graphs /\ end \in Node /\ D!Infinity \in Nat
        /\ \A n \in Node : distances[n] \in 0..D!Infinity
        /\ \A n \in Node : prev[n] # D!Null => prev[n] \in Node
        /\ path \in Seq(Node) /\ D!Null \notin Node
    BY <1>1, InfinityIsNat, TspAssumption DEF D!TypeOK, D!Start, PathTree, PathWalk, D!Null
  <1>3. D!Shortest' = D!Shortest /\ \A n : D!Neighbors(n)' = D!Neighbors(n)
    BY <1>1, PathFixed
  <1>4. path # <<>> => Len(path) \in Nat \ {0} /\ Head(path) = path[1] /\ path[1] \in Node
    BY <1>2, EmptySeq, ElementOfSeq
  <1>5. at \in Node
    BY <1>1, <1>2, <1>4 DEF PathWalk
  <1>6. /\ p \in Seq(Node) /\ Len(p) = Len(path) + 1 /\ Len(path) \in Nat
        /\ p[1] = at /\ \A i \in 1..Len(path) : p[i + 1] = path[i]
    BY <1>2, <1>5, Prepend
  <1> HIDE DEF p
  <1>7. Head(p) = at /\ p # <<>>
    <2>1. p # <<>>
      <3>1. Len(<<>>) = 0
        OBVIOUS
      <3> QED BY <1>6, <3>1
    <2> QED BY <1>6, <2>1
  <1>8. at' = prev[at] /\ (at' # D!Null => at' \in Node)
    BY <1>1, <1>2, <1>5
  <1>9. D!TypeOK'
    <2>1. at' \in D!Start \cup {D!Null}
      BY <1>8 DEF D!Start
    <2>2. path' \in Seq(D!Start)
      <3>1. Node \subseteq D!Start
        BY DEF D!Start
      <3> QED BY <1>1, <1>6, <3>1, SeqMonotonic
    <2> QED BY <1>1, <2>1, <2>2 DEF D!TypeOK
  <1>10. PathTree'
    BY <1>1, <1>3 DEF PathTree
  <1>11. path # <<>> => /\ path[1] \in D!Neighbors(at) /\ at = prev[path[1]]
                        /\ distances[path[1]] = distances[at] + graph[<<at, path[1]>>]
                        /\ distances[at] <= distances[end] /\ distances[at] = D!Shortest[at]
    <2>1. SUFFICES ASSUME path # <<>>
                   PROVE  /\ path[1] \in D!Neighbors(at) /\ at = prev[path[1]]
                          /\ distances[path[1]] = distances[at] + graph[<<at, path[1]>>]
                          /\ distances[at] <= distances[end] /\ distances[at] = D!Shortest[at]
      OBVIOUS
    <2> DEFINE x == path[1]
    <2>2. x \in Node /\ at = prev[x] /\ 1 \in 1..Len(path)
      BY <1>1, <1>4, <2>1 DEF PathWalk
    <2>3. x \in D!Neighbors(at) /\ distances[at] + graph[<<at, x>>] <= distances[x]
      BY <1>1, <2>2 DEF PathTree
    <2>4. distances[x] <= distances[end]
      BY <1>1, <2>2 DEF PathWalk
    <2>5. /\ D!Shortest[x] <= D!Shortest[at] + graph[<<at, x>>] /\ graph[<<at, x>>] \in Nat
          /\ D!Shortest[x] \in Nat /\ D!Shortest[at] \in Nat
          /\ D!Shortest[at] <= distances[at] /\ D!Shortest[x] <= distances[x]
      BY <1>1, <1>2, <1>5, <2>2, <2>3, ShortestIs DEF PathTree
    <2>6. distances[x] = D!Shortest[x]
      <3>1. path \in Seq(Node) /\ \A i \in 1..Len(path) : distances[path[i]] = D!Shortest[path[i]]
        BY <1>1 DEF PathWalk
      <3> QED BY <2>2, <3>1
    <2>7. distances[at] \in Nat /\ distances[x] \in Nat /\ distances[end] \in Nat
      BY <1>2, <1>5, <2>2
    <2> QED BY <2>2, <2>3, <2>4, <2>5, <2>6, <2>7
  <1>12. PathWalk'
    <2>1. Last(p) = end
      <3>1. CASE path = <<>>
        <4>1. Len(p) = 1
          BY <1>6, <3>1
        <4> QED BY <1>1, <1>6, <3>1, <4>1 DEF PathWalk, Last
      <3>2. CASE path # <<>>
        <4>1. Len(path) \in 1..Len(path) /\ p[Len(path) + 1] = path[Len(path)]
          BY <1>4, <1>6, <3>2
        <4> QED BY <1>1, <1>6, <3>2, <4>1 DEF PathWalk, Last
      <3> QED BY <3>1, <3>2
    <2>2. ASSUME NEW i \in 1..Len(p)
          PROVE  distances[p[i]] <= distances[end] /\ distances[p[i]] = D!Shortest[p[i]]
      <3>1. CASE i = 1 /\ path = <<>>
        <4>1. p[i] = end
          BY <1>1, <1>6, <3>1 DEF PathWalk
        <4> QED BY <1>1, <1>2, <4>1
      <3>2. CASE i = 1 /\ path # <<>>
        BY <1>6, <1>11, <3>2
      <3>3. CASE i # 1
        <4>1. i - 1 \in 1..Len(path) /\ (i - 1) + 1 = i
          BY <1>6, <3>3
        <4> QED BY <1>1, <1>6, <4>1 DEF PathWalk
      <3> QED BY <3>1, <3>2, <3>3
    <2>3. ASSUME NEW i \in 1..(Len(p) - 1)
          PROVE  /\ p[i + 1] \in D!Neighbors(p[i])
                 /\ distances[p[i + 1]] = distances[p[i]] + graph[<<p[i], p[i + 1]>>]
      <3>1. CASE i = 1
        <4>1. path # <<>> /\ p[i] = at /\ p[i + 1] = path[1]
          BY <1>6, <3>1
        <4> QED BY <1>11, <4>1
      <3>2. CASE i # 1
        <4>1. i - 1 \in 1..(Len(path) - 1) /\ i - 1 \in 1..Len(path) /\ i \in 1..Len(path) /\ (i - 1) + 1 = i
          BY <1>6, <3>2
        <4>2. p[i] = path[i - 1] /\ p[i + 1] = path[(i - 1) + 1]
          BY <1>6, <4>1
        <4> QED BY <1>1, <4>1, <4>2 DEF PathWalk
      <3> QED BY <3>1, <3>2
    <2> QED BY <1>1, <1>3, <1>6, <1>7, <1>8, <2>1, <2>2, <2>3 DEF PathWalk
  <1> QED BY <1>1, <1>3, <1>9, <1>10, <1>12 DEF PathInv

\* A path's length depends on the graph and the path only.
LEMMA LengthFixed ==
  ASSUME UNCHANGED <<graph, path>>
  PROVE  D!Length(path)' = D!Length(path)
  BY DEF D!Length, D!FoldFunction, D!FoldFunctionOnSet, D!MapThenFoldSet

\* What is returned is a shortest walk.
LEMMA ReturnInv ==
  ASSUME PathInv, D!Return
  PROVE  PathInv'
  <1>1. /\ pc = "reconstruct" /\ at = D!Null /\ pc' = "done"
        /\ path' = IF path = <<start>> THEN <<>> ELSE path
        /\ UNCHANGED <<graph, start, end, distances, prev, pq, at>>
        /\ D!TypeOK /\ PathTree /\ PathWalk /\ Sorted(pq) /\ distances[end] = D!Shortest[end]
    BY DEF D!Return, PathInv
  <1>2. /\ graph \in D!Graphs /\ end \in Node /\ D!Infinity \in Nat
        /\ \A n \in Node : distances[n] \in 0..D!Infinity
        /\ path \in Seq(Node) /\ D!Null \notin Node
    BY <1>1, InfinityIsNat, TspAssumption DEF D!TypeOK, D!Start, PathWalk, D!Null
  <1>3. D!Shortest' = D!Shortest /\ \A n : D!Neighbors(n)' = D!Neighbors(n)
    BY <1>1, PathFixed
  <1>4. D!TypeOK'
    <2>1. path' \in Seq(D!Start)
      <3>1. <<>> \in Seq(D!Start)
        OBVIOUS
      <3> QED BY <1>1, <3>1 DEF D!TypeOK
    <2> QED BY <1>1, <2>1 DEF D!TypeOK
  <1>5. PathTree'
    BY <1>1, <1>3 DEF PathTree
  <1>6. D!PathIsShortest'
    <2>1. SUFFICES ASSUME start \in Node, start # end, D!Shortest[end] < D!Infinity
                   PROVE  /\ path' # <<>> /\ Head(path') = start /\ D!Last(path') = end
                          /\ \A i \in 1..(Len(path') - 1) : path'[i + 1] \in D!Neighbors(path'[i])
                          /\ D!Length(path)' = D!Shortest[end]
      BY <1>1, <1>3 DEF D!PathIsShortest, D!Length
    <2>2. path # <<>>
      BY <1>1, <1>2 DEF PathWalk
    <2>3. Len(path) \in Nat \ {0} /\ Head(path) = path[1] /\ \A i \in 1..Len(path) : path[i] \in Node
      BY <1>2, <2>2, EmptySeq, ElementOfSeq
    <2>4. path[1] = start
      <3>1. path[1] \in Node /\ prev[path[1]] = D!Null /\ 1 \in 1..Len(path)
        BY <1>1, <2>2, <2>3 DEF PathWalk
      <3>2. distances[path[1]] <= distances[end]
        BY <1>1, <3>1 DEF PathWalk
      <3>3. distances[path[1]] < D!Infinity
        BY <1>1, <1>2, <2>1, <3>1, <3>2
      <3> QED BY <1>1, <3>1, <3>3 DEF PathTree
    <2>5. D!Last(path) = end
      BY <1>1, <2>2 DEF PathWalk, Last, D!Last
    <2>6. path' = path
      <3>1. path # <<start>>
        BY <2>1, <2>5 DEF D!Last
      <3> QED BY <1>1, <3>1
    <2> DEFINE n == Len(path) - 1
               f == [i \in 1..n |-> graph[<<path[i], path[i + 1]>>]]
               d == [i \in 1..(n + 1) |-> distances[path[i]]]
    <2>7. /\ n \in Nat /\ n + 1 = Len(path)
          /\ \A i \in 1..n : i \in 1..Len(path) /\ i + 1 \in 1..Len(path) /\ i \in 1..(Len(path) - 1)
      BY <2>3
    <2>8. \A i \in 1..n : path[i + 1] \in D!Neighbors(path[i]) /\ f[i] \in Nat
      <3>1. ASSUME NEW i \in 1..n PROVE path[i + 1] \in D!Neighbors(path[i]) /\ f[i] \in Nat
        <4>1. path[i + 1] \in D!Neighbors(path[i]) /\ path[i] \in Node /\ path[i + 1] \in Node
          BY <1>1, <2>3, <2>7 DEF PathWalk
        <4> QED BY <1>2, <4>1, ShortestIs
      <3> QED BY <3>1
    <2>9. \A i \in 1..(n + 1) : d[i] \in Nat /\ d[i] = distances[path[i]]
      BY <1>2, <2>3, <2>7
    <2>10. \A i \in 1..n : d[i + 1] = d[i] + f[i]
      <3>1. ASSUME NEW i \in 1..n PROVE d[i + 1] = d[i] + f[i]
        <4>1. distances[path[i + 1]] = distances[path[i]] + graph[<<path[i], path[i + 1]>>]
          BY <1>1, <2>7 DEF PathWalk
        <4>2. d[i] = distances[path[i]] /\ d[i + 1] = distances[path[i + 1]]
          BY <2>7
        <4> QED BY <4>1, <4>2
      <3> QED BY <3>1
    <2>11. f \in [1..n -> Nat]
      BY <2>8
    <2>12. D!Length(path) = Total(f)
      BY FoldIsTotal DEF D!Length
    <2>13. D!Length(path)' = D!Length(path)
      BY <1>1, <2>6, LengthFixed
    <2>14. d[1] = 0 /\ d[n + 1] = distances[end]
      <3>1. d[1] = distances[path[1]] /\ d[n + 1] = distances[path[Len(path)]]
        BY <2>3, <2>7
      <3> QED BY <1>1, <2>4, <2>5, <3>1 DEF PathTree, D!Last
    <2> HIDE DEF n, f, d
    <2>15. Total(f) \in Nat /\ d[n + 1] = d[1] + Total(f)
      BY <2>7, <2>9, <2>10, <2>11, Telescope
    <2>16. D!Length(path)' = D!Shortest[end]
      BY <1>1, <2>12, <2>13, <2>14, <2>15
    <2>17. \A i \in 1..(Len(path') - 1) : path'[i + 1] \in D!Neighbors(path'[i])
      BY <2>6, <2>8 DEF n
    <2> QED BY <2>2, <2>3, <2>4, <2>5, <2>6, <2>16, <2>17
  <1> QED BY <1>1, <1>4, <1>5, <1>6 DEF PathInv

\* Every step of dijkstra.js keeps the invariant.
LEMMA PathStep ==
  ASSUME PathInv, [D!Next]_(D!vars)
  PROVE  PathInv'
  <1>1. CASE D!Visit /\ Head(pq).element = end
    BY <1>1, VisitEnd
  <1>2. CASE D!Visit /\ Head(pq).element # end
    BY <1>2, VisitInv
  <1>3. CASE D!Exhausted
    BY <1>3, ExhaustedInv
  <1>4. CASE D!Walk
    BY <1>4, WalkInv
  <1>5. CASE D!Return
    BY <1>5, ReturnInv
  <1>6. CASE UNCHANGED D!vars
    <2>1. UNCHANGED <<graph, start, end, distances, prev, pq, at, path, pc>>
      BY <1>6 DEF D!vars
    <2>2. D!Shortest' = D!Shortest /\ \A n : D!Neighbors(n)' = D!Neighbors(n)
      BY <2>1, PathFixed
    <2>3. D!TypeOK'
      BY <2>1 DEF PathInv, D!TypeOK
    <2>4. PathTree' /\ (PathSearch' <=> PathSearch) /\ (PathWalk' <=> PathWalk)
      BY <2>1, <2>2 DEF PathInv, PathTree, PathSearch, PathWalk
    <2>5. D!PathIsShortest' <=> D!PathIsShortest
      BY <2>1, <2>2, LengthFixed DEF D!PathIsShortest
    <2> QED BY <2>1, <2>2, <2>3, <2>4, <2>5 DEF PathInv
  <1> QED BY <1>1, <1>2, <1>3, <1>4, <1>5, <1>6 DEF D!Next

\* The invariant holds throughout GET /path.
LEMMA PathInvariant == RoutingSpec => [](call = "path" => PathInv)
  <1>1. RoutingInit => (call = "path" => PathInv)
    BY PathInitInv DEF RoutingInit
  <1>2. ASSUME call = "path" => PathInv, [RoutingNext]_routingVars
        PROVE  (call = "path" => PathInv)'
    <2>1. CASE call = "path" /\ D!Next /\ UNCHANGED call
      BY <1>2, <2>1, PathStep
    <2>2. CASE call = "tour" /\ UNCHANGED call
      BY <2>2
    <2>3. CASE UNCHANGED routingVars
      <3>1. UNCHANGED call /\ UNCHANGED D!vars
        BY <2>3 DEF routingVars, pathVars, vars, request, search, D!vars
      <3> QED BY <1>2, <3>1, PathStep
    <2> QED BY <1>2, <2>1, <2>2, <2>3 DEF RoutingNext
  <1> QED BY <1>1, <1>2, PTL DEF RoutingSpec

\* GET /path answers a shortest walk (dijkstra.js), for every graph, every
\* start and every end.
THEOREM PathShortest == RoutingSpec => []PathIsShortest
  <1>1. (call = "path" => PathInv) => PathIsShortest
    BY DEF PathInv, PathIsShortest, D!PathIsShortest
  <1> QED BY <1>1, PathInvariant, PTL

-----------------------------------------------------------------------------
(***************************************************************************)
(* POST /tsp-path: the graph and the shortest walks of one leg.            *)
(***************************************************************************)
\* The passages of the tour's graph, in both directions, and their weights.
TourEdges == {e \in Start \X Start : e[1] \in Neighbors(e[2])}

TourWeight == [e \in TourEdges |-> weight[{e[1], e[2]}]]

\* POST /tsp-path's graph has its passages in both directions, at one positive
\* weight.
LEMMA TourNeighbors ==
  ASSUME weight \in [Passage -> Weight]
  PROVE  \A m, n : m \in Neighbors(n) =>
           /\ m \in Node /\ n \in Node /\ m # n /\ n \in Neighbors(m)
           /\ <<m, n>> \in TourEdges /\ <<n, m>> \in TourEdges
           /\ weight[{m, n}] \in Weight /\ weight[{m, n}] \in Nat \ {0}
           /\ TourWeight[<<m, n>>] = weight[{m, n}] /\ TourWeight[<<n, m>>] = weight[{m, n}]
  <1>1. SUFFICES ASSUME NEW m, NEW n, m \in Neighbors(n)
                 PROVE  /\ m \in Node /\ n \in Node /\ m # n /\ n \in Neighbors(m)
                        /\ <<m, n>> \in TourEdges /\ <<n, m>> \in TourEdges
                        /\ weight[{m, n}] \in Weight /\ weight[{m, n}] \in Nat \ {0}
                        /\ TourWeight[<<m, n>>] = weight[{m, n}] /\ TourWeight[<<n, m>>] = weight[{m, n}]
    OBVIOUS
  <1>2. m \in Node /\ m # n /\ {m, n} \in Passage
    BY <1>1 DEF Neighbors
  <1>3. PICK a \in Node, b \in Node : {m, n} = {a, b}
    BY <1>2, TspAssumption
  <1>4. n \in Node
    <2>1. n \in {a, b}
      BY <1>3
    <2> QED BY <2>1
  <1>5. {n, m} = {m, n}
    OBVIOUS
  <1>6. n \in Neighbors(m)
    BY <1>2, <1>4, <1>5 DEF Neighbors
  <1>7. weight[{m, n}] \in Weight /\ weight[{m, n}] \in Nat \ {0}
    BY <1>2, TspAssumption
  <1>8. <<m, n>> \in TourEdges /\ <<n, m>> \in TourEdges
    BY <1>1, <1>2, <1>4, <1>6 DEF TourEdges, Start
  <1>9. TourWeight[<<m, n>>] = weight[{m, n}] /\ TourWeight[<<n, m>>] = weight[{n, m}]
    BY <1>8 DEF TourWeight
  <1> QED BY <1>2, <1>4, <1>5, <1>6, <1>7, <1>8, <1>9

\* Its edges join neighbours and have positive weights.
LEMMA TourWeights ==
  ASSUME weight \in [Passage -> Weight]
  PROVE  /\ \A e \in TourEdges : TourWeight[e] \in Nat \ {0}
         /\ \A m, n \in Start : <<m, n>> \in TourEdges <=> m \in Neighbors(n)
  <1>1. \A m, n \in Start : <<m, n>> \in TourEdges <=> m \in Neighbors(n)
    BY DEF TourEdges
  <1>2. ASSUME NEW e \in TourEdges PROVE TourWeight[e] \in Nat \ {0}
    <2>1. TourWeight[e] = weight[{e[1], e[2]}] /\ e[1] \in Neighbors(e[2])
      BY DEF TourEdges, TourWeight
    <2> QED BY <2>1, TourNeighbors
  <1> QED BY <1>1, <1>2

\* Tabulating changes nothing.
LEMMA TabulatedIs == \A f : Tabulated(f) = f
  BY DEF Tabulated

\* The reference for one leg unrolls Bellman's equation.
LEMMA LegUnrolls ==
  ASSUME weight \in [Passage -> Weight]
  PROVE  Unrolls(Start, TourEdges, TourWeight, Infinity, {current}, Leg)
  <1> DEFINE Body(f) ==
        [k \in Nat |->
           IF k = 0 THEN [n \in Start |-> IF n = current THEN 0 ELSE Infinity]
           ELSE [n \in Start |->
                  Min({Tabulated(f[k - 1])[n]} \cup
                      {Tabulated(f[k - 1])[m] + weight[{m, n}] : m \in Neighbors(n)})]]
             U(f) == Unrolling(Start, TourEdges, TourWeight, Infinity, {current}, f)
  <1>1. \A e \in TourEdges : TourWeight[e] \in Nat \ {0}
    BY TourWeights
  <1>2. Infinity \in Nat
    BY InfinityIsNat
  <1>3. PICK B : B = U(B)
    <2>1. \A e \in TourEdges : TourWeight[e] \in Nat
      BY <1>1
    <2> QED BY <1>2, <2>1, UnrollingExists
  <1>4. \A v :
          [n \in Start |-> Min({Tabulated(v)[n]} \cup {Tabulated(v)[m] + weight[{m, n}] : m \in Neighbors(n)})]
          = Eased(Start, TourEdges, TourWeight, v)
    <2> DEFINE Old(v, n) == {v[n]} \cup {v[m] + weight[{m, n}] : m \in Neighbors(n)}
               New(v, n) == {v[n]} \cup
                            {v[m] + TourWeight[<<m, n>>] : m \in {x \in Start : <<x, n>> \in TourEdges}}
    <2>1. ASSUME NEW v, NEW n \in Start PROVE Old(v, n) = New(v, n)
      <3>1. Neighbors(n) = {x \in Start : <<x, n>> \in TourEdges}
        BY TourWeights, TourNeighbors DEF Start
      <3>2. \A m \in Neighbors(n) : weight[{m, n}] = TourWeight[<<m, n>>]
        BY TourNeighbors
      <3> QED BY <3>1, <3>2
    <2>2. \A v : Eased(Start, TourEdges, TourWeight, v) = [n \in Start |-> Min(New(v, n))]
      BY DEF Eased
    <2> DEFINE Tab(v, n) == {Tabulated(v)[n]} \cup {Tabulated(v)[m] + weight[{m, n}] : m \in Neighbors(n)}
    <2>3. ASSUME NEW v, NEW n PROVE Tab(v, n) = Old(v, n)
      <3>1. Tabulated(v) = v
        BY TabulatedIs
      <3> QED BY <3>1
    <2>4. ASSUME NEW v
          PROVE  [n \in Start |-> Min(Tab(v, n))] = Eased(Start, TourEdges, TourWeight, v)
      <3> HIDE DEF Old, New, Tab
      <3> QED BY <2>1, <2>2, <2>3
    <2> QED BY <2>4
  <1>5. ASSUME NEW f PROVE U(f) = Body(f)
    <2>2. ASSUME NEW k \in Nat PROVE U(f)[k] = Body(f)[k]
      <3>1. CASE k = 0
        BY <3>1 DEF Unrolling, Sources
      <3>2. CASE k # 0
        <4>1. k - 1 \in Nat
          BY <3>2
        <4> DEFINE v == f[k - 1]
        <4>3. U(f)[k] = Eased(Start, TourEdges, TourWeight, v)
          BY <3>2 DEF Unrolling
        <4>4. Body(f)[k] = [n \in Start |-> Min({Tabulated(v)[n]} \cup {Tabulated(v)[m] + weight[{m, n}] : m \in Neighbors(n)})]
          BY <3>2
        <4> HIDE DEF v, U, Body
        <4> QED BY <1>4, <4>3, <4>4
      <3> QED BY <3>1, <3>2
    <2>3. U(f) = [k \in Nat |-> U(f)[k]]
      BY DEF Unrolling
    <2>4. Body(f) = [k \in Nat |-> Body(f)[k]]
      OBVIOUS
    <2> HIDE DEF U, Body
    <2> QED BY <2>2, <2>3, <2>4
  <1> HIDE DEF U
  <1>6. B = Body(B)
    <2> HIDE DEF Body
    <2> QED BY <1>3, <1>5
  <1>7. Leg = Body(Leg)
    <2>1. Leg = CHOOSE f : f = Body(f)
      BY DEF Leg
    <2> HIDE DEF Body
    <2> QED BY <1>6, <2>1
  <1>8. Leg = U(Leg)
    <2> HIDE DEF Body
    <2> QED BY <1>5, <1>7
  <1> QED BY <1>1, <1>2, <1>8, UnrollingUnrolls DEF U

\* The lengths of the shortest walks from a, and the most one can have.
IsDelta(a, L) == Least(Start, TourEdges, TourWeight, Infinity, {a}, L)

Delta(a) == CHOOSE L : IsDelta(a, L)

LegMost == Cardinality(Node) * Max(Weight \cup {1})

\* The numbers that bound the lengths of walks.
LEMMA HeaviestIs ==
  /\ Max(Weight \cup {1}) \in Nat /\ \A x \in Weight : x <= Max(Weight \cup {1})
  /\ Cardinality(Node) \in Nat /\ Cardinality(Start) = Cardinality(Node) + 1 /\ IsFiniteSet(Start)
  /\ LegMost \in Nat /\ MaxStops \in Nat /\ Infinity = 1 + MaxStops * LegMost
  <1>1. IsFiniteSet(Weight \cup {1}) /\ Weight \cup {1} \subseteq Nat /\ Weight \cup {1} # {}
    BY TspAssumption, FS_AddElement
  <1>2. Max(Weight \cup {1}) \in Nat /\ \A x \in Weight : x <= Max(Weight \cup {1})
    BY <1>1, MaxIs
  <1>3. Cardinality(Node) \in Nat /\ MaxStops \in Nat
    BY TspAssumption, FS_CardinalityType
  <1>4. Cardinality(Start) = Cardinality(Node) + 1 /\ IsFiniteSet(Start)
    BY TspAssumption, FS_AddElement DEF Start
  <1>5. LegMost \in Nat
    BY <1>2, <1>3, Times DEF LegMost
  <1>6. MaxStops * Cardinality(Node) * Max(Weight \cup {1}) = MaxStops * LegMost
    BY <1>2, <1>3, Times DEF LegMost
  <1> QED BY <1>2, <1>3, <1>4, <1>5, <1>6 DEF Infinity

\* The lengths of the shortest walks solve Bellman's equation and are bounded.
LEMMA DeltaIs ==
  ASSUME weight \in [Passage -> Weight], NEW a \in Start
  PROVE  /\ Delta(a) \in [Start -> 0..Infinity] /\ Delta(a)[a] = 0
         /\ \A m, n : m \in Neighbors(n) => Delta(a)[n] <= Delta(a)[m] + weight[{m, n}]
         /\ \A n \in Start : n # a /\ Delta(a)[n] < Infinity =>
              \E m : m \in Neighbors(n) /\ Delta(a)[n] = Delta(a)[m] + weight[{m, n}]
         /\ \A n \in Start : Delta(a)[n] < Infinity => Delta(a)[n] <= LegMost
  <1>1. Infinity \in Nat /\ \A e \in TourEdges : TourWeight[e] \in Nat \ {0}
    BY InfinityIsNat, TourWeights
  <1>2. PICK B : Unrolls(Start, TourEdges, TourWeight, Infinity, {a}, B)
    <2>1. \A e \in TourEdges : TourWeight[e] \in Nat
      BY <1>1
    <2>2. \E B : B = Unrolling(Start, TourEdges, TourWeight, Infinity, {a}, B)
      BY <1>1, <2>1, UnrollingExists
    <2> QED BY <1>1, <2>2, UnrollingUnrolls
  <1> DEFINE L == B[Cardinality(Node)]
  <1>3. IsDelta(a, L)
    <2>1. IsFiniteSet(Start) /\ Cardinality(Node) \in Nat /\ Cardinality(Start) <= Cardinality(Node) + 1
      BY HeaviestIs
    <2> QED BY <1>1, <1>2, <2>1, Bellman DEF IsDelta
  <1>4. \A e \in TourEdges : TourWeight[e] <= Max(Weight \cup {1})
    <2>1. SUFFICES ASSUME NEW e \in TourEdges PROVE TourWeight[e] <= Max(Weight \cup {1})
      OBVIOUS
    <2>2. TourWeight[e] = weight[{e[1], e[2]}] /\ e[1] \in Neighbors(e[2])
      BY DEF TourEdges, TourWeight
    <2>3. weight[{e[1], e[2]}] \in Weight
      BY <2>2, TourNeighbors
    <2> QED BY <2>2, <2>3, HeaviestIs
  <1>5. \A n \in Start : L[n] < Infinity => L[n] <= LegMost
    <2>1. Max(Weight \cup {1}) \in Nat /\ Cardinality(Node) \in Nat
      BY HeaviestIs
    <2> QED BY <1>1, <1>2, <1>4, <2>1, UnrollsBound DEF LegMost
  <1> HIDE DEF L
  <1>6. IsDelta(a, Delta(a))
    BY <1>3 DEF Delta
  <1>7. Delta(a) = L
    BY <1>1, <1>3, <1>6, LeastUnique DEF IsDelta
  <1>8. /\ L \in [Start -> 0..Infinity] /\ L[a] = 0
        /\ \A m, n \in Start : <<m, n>> \in TourEdges => L[n] <= L[m] + TourWeight[<<m, n>>]
        /\ \A n \in Start : n # a /\ L[n] < Infinity =>
             \E m \in Start : <<m, n>> \in TourEdges /\ L[n] = L[m] + TourWeight[<<m, n>>]
    BY <1>3 DEF IsDelta, Least
  <1>9. ASSUME NEW m, NEW n, m \in Neighbors(n) PROVE L[n] <= L[m] + weight[{m, n}]
    <2>1. m \in Start /\ n \in Start /\ <<m, n>> \in TourEdges /\ TourWeight[<<m, n>>] = weight[{m, n}]
      BY <1>9, TourNeighbors DEF Start
    <2> QED BY <1>8, <2>1
  <1>10. ASSUME NEW n \in Start, n # a, L[n] < Infinity
         PROVE  \E m : m \in Neighbors(n) /\ L[n] = L[m] + weight[{m, n}]
    <2>1. PICK m \in Start : <<m, n>> \in TourEdges /\ L[n] = L[m] + TourWeight[<<m, n>>]
      BY <1>8, <1>10
    <2>2. m \in Neighbors(n) /\ TourWeight[<<m, n>>] = weight[{m, n}]
      BY <2>1, TourWeights, TourNeighbors
    <2> QED BY <2>1, <2>2
  <1> QED BY <1>5, <1>7, <1>8, <1>9, <1>10

\* The reference for one leg gives the lengths of the shortest walks.
LEMMA LegIsDelta ==
  ASSUME weight \in [Passage -> Weight], current \in Start
  PROVE  Leg[Cardinality(Node)] = Delta(current)
  <1>1. Infinity \in Nat /\ \A e \in TourEdges : TourWeight[e] \in Nat \ {0}
    BY InfinityIsNat, TourWeights
  <1>2. IsDelta(current, Leg[Cardinality(Node)])
    <2>1. IsFiniteSet(Start) /\ Cardinality(Node) \in Nat /\ Cardinality(Start) <= Cardinality(Node) + 1
      BY HeaviestIs
    <2> QED BY <1>1, <2>1, LegUnrolls, Bellman DEF IsDelta
  <1>3. IsDelta(current, Delta(current))
    BY <1>2 DEF Delta
  <1> QED BY <1>1, <1>2, <1>3, LeastUnique DEF IsDelta

\* They depend on the weights only.
LEMMA DeltaFixed ==
  ASSUME UNCHANGED weight
  PROVE  \A a : Delta(a)' = Delta(a)
  BY DEF Delta, IsDelta, Least, TourEdges, TourWeight, Neighbors

-----------------------------------------------------------------------------
(***************************************************************************)
(* POST /tsp-path: the search of one leg and its walk back.                *)
(***************************************************************************)
\* The tables of one search: what is visited is settled and relaxed, and every
\* distance is that of a walk over the parents.
Tables ==
  /\ current \in Start
  /\ distances \in [Start -> 0..Infinity] /\ parents \in [Start -> Start \cup {Undefined}]
  /\ visited \subseteq Start
  /\ distances[current] = 0 /\ parents[current] = Undefined
  /\ \A n \in Start : Delta(current)[n] <= distances[n]
  /\ \A n \in Start : parents[n] # Undefined =>
       /\ parents[n] \in visited /\ n \in Neighbors(parents[n])
       /\ distances[n] = distances[parents[n]] + weight[{parents[n], n}]
       /\ distances[n] < Infinity
  /\ \A n \in Start : n # current /\ distances[n] < Infinity => parents[n] # Undefined
  /\ \A x \in visited :
       /\ distances[x] = Delta(current)[x]
       /\ \A y \in Neighbors(x) : distances[y] <= distances[x] + weight[{x, y}]

\* The scan visits the nodes in order of distance.
Scan ==
  /\ here \in Start \ visited /\ distances[here] < Infinity
  /\ \A y \in Start \ visited : distances[here] <= distances[y]
  /\ \A x \in visited : distances[x] <= distances[here]

\* Every distance is that of a shortest walk.
Settled == \A n \in Start : distances[n] = Delta(current)[n]

\* The nearest room that is not visited is settled.
LEMMA HereIsFinal ==
  ASSUME weight \in [Passage -> Weight], Tables, Scan
  PROVE  distances[here] = Delta(current)[here]
  <1> DEFINE d == distances
             L == Delta(current)
             Late == {x \in Start \ visited : L[x] < d[x] /\ L[x] < d[here]}
             Vals == {L[x] : x \in Late}
  <1>1. /\ \A x \in Start : d[x] \in 0..Infinity /\ L[x] \in 0..Infinity /\ L[x] <= d[x]
        /\ current \in Start /\ d[current] = 0 /\ here \in Start \ visited /\ d[here] < Infinity
        /\ Infinity \in Nat
    BY DeltaIs, InfinityIsNat DEF Tables, Scan
  <1>2. /\ \A n \in Start : n # current /\ L[n] < Infinity =>
             \E m : m \in Neighbors(n) /\ L[n] = L[m] + weight[{m, n}]
    BY <1>1, DeltaIs
  <1>3. SUFFICES ASSUME Late # {} PROVE FALSE
    <2>1. here \in Late \/ ~(L[here] < d[here])
      BY <1>1
    <2> QED BY <1>1, <2>1
  <1>4. PICK v \in Vals : \A u \in Vals : v <= u
    <2>1. Vals \subseteq Nat /\ Vals # {}
      BY <1>1, <1>3
    <2> HIDE DEF Vals
    <2> QED BY <2>1, LeastOf
  <1>5. PICK x \in Late : L[x] = v
    OBVIOUS
  <1>6. /\ x \in Start \ visited /\ L[x] < d[x] /\ L[x] < d[here] /\ x # current /\ L[x] < Infinity
        /\ \A y \in Late : L[x] <= L[y]
    BY <1>1, <1>4, <1>5
  <1>7. PICK m : m \in Neighbors(x) /\ L[x] = L[m] + weight[{m, x}]
    BY <1>2, <1>6
  <1>8. m \in Node /\ x \in Neighbors(m) /\ weight[{m, x}] \in Nat \ {0} /\ m \in Start
    BY <1>7, TourNeighbors DEF Start
  <1>9. L[m] < L[x]
    BY <1>1, <1>6, <1>7, <1>8
  <1>10. CASE m \in visited
    <2>1. d[m] = L[m] /\ d[x] <= d[m] + weight[{m, x}]
      BY <1>8, <1>10 DEF Tables
    <2> QED BY <1>1, <1>6, <1>7, <1>8, <2>1
  <1>11. CASE m \notin visited
    <2>1. d[here] <= d[m]
      BY <1>8, <1>11 DEF Scan
    <2>2. m \in Late
      BY <1>1, <1>6, <1>8, <1>9, <1>11, <2>1
    <2>3. L[x] <= L[m]
      BY <1>6, <2>2
    <2> QED BY <1>1, <1>6, <1>8, <1>9, <2>3
  <1> QED BY <1>10, <1>11

\* When no node is left to visit, what is not visited is out of reach.
LEMMA AllSettled ==
  ASSUME weight \in [Passage -> Weight], NEW c \in Start, NEW d \in [Start -> 0..Infinity],
         NEW V, d[c] = 0,
         \A x \in V : d[x] = Delta(c)[x] /\ \A y \in Neighbors(x) : d[y] <= d[x] + weight[{x, y}],
         \A n \in Start : Delta(c)[n] <= d[n],
         \A n \in Start \ V : d[n] = Infinity
  PROVE  \A n \in Start : d[n] = Delta(c)[n]
  <1> DEFINE L == Delta(c)
             Late == {x \in Start \ V : L[x] < Infinity}
             Vals == {L[x] : x \in Late}
  <1>1. /\ \A x \in Start : d[x] \in 0..Infinity /\ L[x] \in 0..Infinity /\ L[x] <= d[x]
        /\ Infinity \in Nat \ {0}
    BY DeltaIs, InfinityIsNat
  <1>2. \A n \in Start : n # c /\ L[n] < Infinity =>
             \E m : m \in Neighbors(n) /\ L[n] = L[m] + weight[{m, n}]
    BY DeltaIs
  <1>3. SUFFICES ASSUME Late # {} PROVE FALSE
    <2>1. SUFFICES ASSUME NEW n \in Start PROVE d[n] = L[n]
      OBVIOUS
    <2>2. CASE n \in V
      BY <2>2
    <2>3. CASE n \notin V
      <3>1. n \in Late \/ ~(L[n] < Infinity)
        BY <2>3
      <3> QED BY <1>1, <2>3, <3>1
    <2> QED BY <2>2, <2>3
  <1>4. PICK v \in Vals : \A u \in Vals : v <= u
    <2>1. Vals \subseteq Nat /\ Vals # {}
      BY <1>1, <1>3
    <2> HIDE DEF Vals
    <2> QED BY <2>1, LeastOf
  <1>5. PICK x \in Late : L[x] = v
    OBVIOUS
  <1>6. /\ x \in Start \ V /\ L[x] < Infinity /\ d[x] = Infinity /\ x # c
        /\ \A y \in Late : L[x] <= L[y]
    BY <1>1, <1>4, <1>5
  <1>7. PICK m : m \in Neighbors(x) /\ L[x] = L[m] + weight[{m, x}]
    BY <1>2, <1>6
  <1>8. m \in Node /\ x \in Neighbors(m) /\ weight[{m, x}] \in Nat \ {0} /\ m \in Start
    BY <1>7, TourNeighbors DEF Start
  <1>9. L[m] < L[x]
    BY <1>1, <1>6, <1>7, <1>8
  <1>10. CASE m \in V
    <2>1. d[m] = L[m] /\ d[x] <= d[m] + weight[{m, x}]
      BY <1>8, <1>10
    <2> QED BY <1>1, <1>6, <1>7, <1>8, <2>1
  <1>11. CASE m \notin V
    <2>1. m \in Late
      BY <1>1, <1>6, <1>8, <1>9, <1>11
    <2>2. L[x] <= L[m]
      BY <1>6, <2>1
    <2> QED BY <1>1, <1>6, <1>8, <1>9, <2>2
  <1> QED BY <1>10, <1>11

\* Visiting a room keeps the tables sound.
LEMMA VisitTables ==
  ASSUME weight \in [Passage -> Weight], Tables, Scan, Visit
  PROVE  /\ Tables' /\ visited' = visited \cup {here} /\ distances'[here] = distances[here]
         /\ \A n \in Start : distances[here] <= distances[n] => distances[here] <= distances'[n]
         /\ \A x \in visited : distances'[x] = distances[x]
         /\ \A n \in Start : distances'[n] < Infinity => n \in Node \/ n = current
  <1> DEFINE d == distances
             c == distances[here]
             new(m) == c + weight[{m, here}]
  <1>1. /\ visited' = visited \cup {here}
        /\ distances' = [m \in Start |-> IF m \in Improved THEN new(m) ELSE d[m]]
        /\ parents' = [m \in Start |-> IF m \in Improved THEN here ELSE parents[m]]
        /\ UNCHANGED weight /\ UNCHANGED current
    BY DEF Visit, request, order
  <1>2. /\ \A x \in Start : d[x] \in 0..Infinity /\ parents[x] \in Start \cup {Undefined}
        /\ current \in Start /\ here \in Start /\ here \notin visited /\ c \in Nat /\ c < Infinity
        /\ Infinity \in Nat
        /\ Undefined \notin Start
    BY InfinityIsNat, TspAssumption DEF Tables, Scan, Start, Undefined
  <1>3. \A m \in Improved : /\ m \in Node /\ m \in Start /\ m # here /\ m \notin visited
                            /\ m \in Neighbors(here) /\ new(m) < d[m]
                            /\ weight[{m, here}] \in Nat \ {0}
                            /\ new(m) \in 0..Infinity /\ new(m) \in Nat /\ new(m) < Infinity
    <2>1. SUFFICES ASSUME NEW m \in Improved
                   PROVE  /\ m \in Node /\ m \in Start /\ m # here /\ m \notin visited
                          /\ m \in Neighbors(here) /\ new(m) < d[m]
                          /\ weight[{m, here}] \in Nat \ {0}
                          /\ new(m) \in 0..Infinity /\ new(m) \in Nat /\ new(m) < Infinity
      OBVIOUS
    <2>2. m \in Neighbors(here) /\ m \notin visited /\ m # here /\ new(m) < d[m]
      BY DEF Improved
    <2>3. m \in Node /\ m \in Start /\ weight[{m, here}] \in Nat \ {0}
      BY <2>2, TourNeighbors DEF Start
    <2>4. new(m) \in Nat /\ d[m] \in 0..Infinity
      BY <1>2, <2>3
    <2> HIDE DEF new
    <2> QED BY <1>2, <2>2, <2>3, <2>4
  <1>4. \A m \in Start : m \in Improved => distances'[m] = new(m) /\ parents'[m] = here
    BY <1>1
  <1>5. \A m \in Start : m \notin Improved => distances'[m] = d[m] /\ parents'[m] = parents[m]
    BY <1>1
  <1>6. \A a : Delta(a)' = Delta(a)
    BY <1>1, DeltaFixed
  <1> DEFINE L == Delta(current)
  <1>7. L' = L
    BY <1>1, <1>6 DEF Delta, IsDelta
  <1>8. /\ \A x \in Start : L[x] \in 0..Infinity
        /\ \A x \in Neighbors(here) : L[x] <= L[here] + weight[{here, x}]
        /\ L[here] = c
    <2>1. \A m, n : m \in Neighbors(n) => L[n] <= L[m] + weight[{m, n}]
      BY <1>2, DeltaIs
    <2>2. \A x \in Neighbors(here) : here \in Neighbors(x)
      BY TourNeighbors
    <2> QED BY <1>2, <2>1, <2>2, DeltaIs, HereIsFinal
  <1>9. distances' \in [Start -> 0..Infinity] /\ parents' \in [Start -> Start \cup {Undefined}]
    <2>1. \A m \in Start : (IF m \in Improved THEN new(m) ELSE d[m]) \in 0..Infinity
      BY <1>2, <1>3
    <2>2. \A m \in Start : (IF m \in Improved THEN here ELSE parents[m]) \in Start \cup {Undefined}
      BY <1>2
    <2> QED BY <1>1, <2>1, <2>2
  <1> HIDE DEF new
  <1>10. current \notin Improved /\ here \notin Improved /\ \A x \in visited : x \notin Improved
    <2>1. d[current] = 0
      BY DEF Tables
    <2>2. \A m \in Improved : m # here /\ m \notin visited
      BY <1>3
    <2>3. \A m \in Improved : new(m) \in Nat /\ new(m) < d[m]
      BY <1>3
    <2>4. current \notin Improved
      <3>1. SUFFICES ASSUME current \in Improved PROVE FALSE
        OBVIOUS
      <3>2. new(current) \in Nat /\ new(current) < d[current]
        BY <2>3, <3>1
      <3> QED BY <2>1, <3>2
    <2> QED BY <2>2, <2>4
  <1>11. /\ distances'[current] = 0 /\ parents'[current] = Undefined /\ distances'[here] = c
         /\ \A x \in visited : distances'[x] = d[x]
    BY <1>2, <1>5, <1>10 DEF Tables
  <1>12. \A n \in Start : distances'[n] <= d[n] /\ distances'[n] \in Nat
    <2>1. SUFFICES ASSUME NEW n \in Start PROVE distances'[n] <= d[n] /\ distances'[n] \in Nat
      OBVIOUS
    <2>2. CASE n \in Improved
      <3>1. new(n) \in 0..Infinity /\ new(n) < d[n] /\ d[n] \in 0..Infinity
        BY <1>2, <1>3, <2>2
      <3>2. distances'[n] = new(n)
        BY <1>4, <2>2
      <3> QED BY <1>2, <3>1, <3>2
    <2>3. CASE n \notin Improved
      BY <1>2, <1>5, <2>3
    <2> QED BY <2>2, <2>3
  <1>13. ASSUME NEW n \in Start PROVE L[n] <= distances'[n]
    <2>1. CASE n \in Improved
      <3>1. L[n] <= L[here] + weight[{here, n}] /\ distances'[n] = new(n) /\ {n, here} = {here, n}
        BY <1>3, <1>4, <1>8, <2>1
      <3> QED BY <1>8, <3>1 DEF new
    <2>2. CASE n \notin Improved
      BY <1>5, <2>2 DEF Tables
    <2> QED BY <2>1, <2>2
  <1>14. ASSUME NEW n \in Start, parents'[n] # Undefined
         PROVE  /\ parents'[n] \in visited' /\ n \in Neighbors(parents'[n])
                /\ distances'[n] = distances'[parents'[n]] + weight[{parents'[n], n}]
                /\ distances'[n] < Infinity
    <2>1. CASE n \in Improved
      <3>1. parents'[n] = here /\ distances'[n] = c + weight[{here, n}] /\ new(n) < Infinity
        BY <1>3, <1>4, <2>1 DEF new
      <3> QED BY <1>1, <1>3, <1>4, <1>11, <2>1, <3>1
    <2>2. CASE n \notin Improved
      <3>1. parents'[n] = parents[n] /\ distances'[n] = d[n]
        BY <1>5, <2>2
      <3>2. /\ parents[n] \in visited /\ n \in Neighbors(parents[n])
            /\ d[n] = d[parents[n]] + weight[{parents[n], n}] /\ d[n] < Infinity
        BY <1>14, <3>1 DEF Tables
      <3> QED BY <1>1, <1>11, <3>1, <3>2
    <2> QED BY <2>1, <2>2
  <1>15. ASSUME NEW n \in Start, n # current, distances'[n] < Infinity PROVE parents'[n] # Undefined
    <2>1. CASE n \in Improved
      BY <1>2, <1>4, <2>1
    <2>2. CASE n \notin Improved
      BY <1>5, <1>15, <2>2 DEF Tables
    <2> QED BY <2>1, <2>2
  <1>16. ASSUME NEW x \in visited'
         PROVE  /\ distances'[x] = L[x]
                /\ \A y \in Neighbors(x) : distances'[y] <= distances'[x] + weight[{x, y}]
    <2>1. ASSUME NEW y \in Neighbors(x)
          PROVE  y \in Start /\ weight[{x, y}] \in Nat /\ distances'[y] <= d[y] /\ {x, y} = {y, x}
                 /\ distances'[y] \in Nat /\ d[y] \in Nat
      <3>1. y \in Start /\ weight[{y, x}] \in Nat
        BY TourNeighbors DEF Start
      <3>2. {x, y} = {y, x}
        OBVIOUS
      <3> QED BY <1>2, <1>12, <3>1, <3>2
    <2>2. CASE x \in visited
      <3>1. distances'[x] = d[x] /\ d[x] = L[x] /\ d[x] \in Nat
        BY <1>2, <1>11, <2>2 DEF Tables
      <3>2. ASSUME NEW y \in Neighbors(x) PROVE distances'[y] <= distances'[x] + weight[{x, y}]
        <4>1. d[y] <= d[x] + weight[{x, y}]
          BY <2>2 DEF Tables
        <4> QED BY <2>1, <3>1, <4>1
      <3> QED BY <3>1, <3>2
    <2>3. CASE x = here
      <3>1. distances'[x] = c /\ c = L[x]
        BY <1>8, <1>11, <2>3
      <3>2. ASSUME NEW y \in Neighbors(x) PROVE distances'[y] <= distances'[x] + weight[{x, y}]
        <4>1. CASE y \in Improved
          <5>1. distances'[y] = c + weight[{x, y}]
            BY <1>3, <1>4, <2>3, <4>1 DEF new
          <5> QED BY <1>2, <2>1, <3>1, <5>1
        <4>2. CASE y \in visited
          <5>1. d[y] <= c
            BY <4>2 DEF Scan
          <5> QED BY <1>2, <2>1, <3>1, <5>1
        <4>3. CASE y \notin Improved /\ y \notin visited
          <5>1. y # here
            BY <2>3, TourNeighbors
          <5>2. ~(c + weight[{y, here}] < d[y])
            BY <2>3, <4>3, <5>1 DEF Improved
          <5>3. distances'[y] <= d[y] /\ d[y] \in Nat /\ distances'[y] \in Nat /\ weight[{x, y}] \in Nat
                /\ {y, here} = {x, y}
            BY <2>1, <2>3
          <5>4. ~(c + weight[{x, y}] < d[y])
            BY <5>2, <5>3
          <5> QED BY <1>2, <3>1, <5>3, <5>4
        <4> QED BY <4>1, <4>2, <4>3
      <3> QED BY <3>1, <3>2
    <2> QED BY <1>1, <2>2, <2>3
  <1>17. Tables'
    <2>1. visited' \subseteq Start
      BY <1>1, <1>2 DEF Tables
    <2> QED BY <1>1, <1>2, <1>7, <1>9, <1>11, <1>13, <1>14, <1>15, <1>16, <2>1 DEF Tables
  <1>18. ASSUME NEW n \in Start, c <= d[n] PROVE c <= distances'[n]
    <2>1. CASE n \in Improved
      <3>1. distances'[n] = c + weight[{n, here}] /\ weight[{n, here}] \in Nat
        BY <1>3, <1>4, <2>1 DEF new
      <3> QED BY <1>2, <3>1
    <2>2. CASE n \notin Improved
      BY <1>5, <1>18, <2>2
    <2> QED BY <2>1, <2>2
  <1>19. ASSUME NEW n \in Start, distances'[n] < Infinity PROVE n \in Node \/ n = current
    BY <1>14, <1>15, <1>19, TourNeighbors
  <1> QED BY <1>1, <1>11, <1>17, <1>18, <1>19

\* The scan goes on in order of distance, or the search is over and all is
\* settled.
LEMMA VisitScan ==
  ASSUME weight \in [Passage -> Weight], Tables, Scan, Visit
  PROVE  /\ pc' = "search" => Scan' /\ (here' \in Node \/ here' = current)
         /\ pc' = "walk" => Settled'
         /\ pc' = "search" \/ pc' = "walk"
  <1>1. /\ Tables' /\ visited' = visited \cup {here} /\ distances'[here] = distances[here]
        /\ \A n \in Start : distances[here] <= distances[n] => distances[here] <= distances'[n]
        /\ \A x \in visited : distances'[x] = distances[x]
        /\ \A n \in Start : distances'[n] < Infinity => n \in Node \/ n = current
    BY VisitTables
  <1> DEFINE reached == {m \in Start \ visited' : distances'[m] < Infinity}
  <1>2. \A n \in Start : distances'[n] \in 0..Infinity /\ distances[n] \in 0..Infinity
    BY <1>1 DEF Tables
  <1>3. /\ reached = {} => pc' = "walk"
        /\ reached # {} =>
             /\ here' \in {m \in reached : \A n \in reached : distances'[m] <= distances'[n]}
             /\ pc' = pc
        /\ pc = "search"
        /\ UNCHANGED weight
    BY DEF Visit, request
  <1>4. ASSUME reached # {} PROVE Scan' /\ (here' \in Node \/ here' = current)
    <2>1. here' \in reached /\ \A n \in reached : distances'[here'] <= distances'[n]
      BY <1>3, <1>4
    <2>2. here' \in Start \ visited' /\ distances'[here'] < Infinity
      BY <2>1
    <2>3. \A y \in Start \ visited' : distances'[here'] <= distances'[y]
      BY <1>2, <2>1, <2>2, InfinityIsNat
    <2>4. distances[here] <= distances'[here']
      <3>1. here' \in Start \ visited
        BY <1>1, <2>2
      <3>2. distances[here] <= distances[here']
        BY <3>1 DEF Scan
      <3> QED BY <1>1, <3>1, <3>2
    <2>5. \A x \in visited' : distances'[x] <= distances'[here']
      <3>1. SUFFICES ASSUME NEW x \in visited' PROVE distances'[x] <= distances'[here']
        OBVIOUS
      <3>2. distances'[x] <= distances[here]
        <4>1. CASE x \in visited
          BY <1>1, <4>1 DEF Scan
        <4>2. CASE x = here
          BY <1>1, <1>2, <4>2 DEF Scan
        <4> QED BY <1>1, <4>1, <4>2
      <3>3. x \in Start /\ here \in Start
        BY <1>1 DEF Tables, Scan
      <3> QED BY <1>2, <2>2, <2>4, <3>2, <3>3
    <2> QED BY <1>1, <2>2, <2>3, <2>5 DEF Scan
  <1>5. ASSUME reached = {} PROVE Settled'
    <2>1. \A n \in Start \ visited' : distances'[n] = Infinity
      BY <1>2, <1>5, InfinityIsNat
    <2>2. Delta(current)' = Delta(current) /\ current' = current
      BY <1>3, DeltaFixed DEF Visit, order
    <2>3. /\ current \in Start /\ distances' \in [Start -> 0..Infinity] /\ distances'[current] = 0
          /\ \A x \in visited' : /\ distances'[x] = Delta(current)[x]
                                /\ \A y \in Neighbors(x) : distances'[y] <= distances'[x] + weight[{x, y}]
          /\ \A n \in Start : Delta(current)[n] <= distances'[n]
      BY <1>1, <1>3, <2>2 DEF Tables
    <2>4. \A n \in Start : distances'[n] = Delta(current)[n]
      BY <2>1, <2>3, AllSettled
    <2> QED BY <2>2, <2>4 DEF Settled
  <1>6. "search" # "walk"
    OBVIOUS
  <1> QED BY <1>3, <1>4, <1>5, <1>6

\* Where the leg ends.
Target == Head(perms)[leg]

\* Along q each step is a passage and adds its weight to the distance.
Stepwise(q) ==
  \A i \in 1..(Len(q) - 1) :
    /\ q[i + 1] \in Neighbors(q[i])
    /\ distances[q[i + 1]] = distances[q[i]] + weight[{q[i], q[i + 1]}]

\* The walk back from a target that is a room, as far as the cursor.
RoomWalk ==
  /\ Target \in Node /\ legPath \in Seq(Node)
  /\ cursor \in Node \cup {current, Undefined}
  /\ cursor # Undefined =>
       /\ Last(<<cursor>> \o legPath) = Target
       /\ Stepwise(<<cursor>> \o legPath)
       /\ cursor = Target \/ distances[Target] < Infinity

\* The walk back from a name that is no room never leaves it but for undefined.
NameWalk ==
  /\ Target = Unknown /\ legPath \in Seq(Stop)
  /\ cursor \in {Unknown, Undefined}

BackWalk == RoomWalk \/ NameWalk

\* One turn of the walk back keeps it sound.
LEMMA RoomWalkStep ==
  ASSUME weight \in [Passage -> Weight], Tables, RoomWalk, WalkBack
  PROVE  RoomWalk'
  <1>1. /\ cursor # current /\ UNCHANGED <<weight, perms, leg, current, distances, parents, visited>>
        /\ current \in Start /\ Undefined \notin Start
    BY TspAssumption DEF WalkBack, Tables, Start, Undefined, request, order, search
  <1>2. Target' = Target
    BY <1>1 DEF Target
  <1>3. CASE cursor = Undefined
    <2>1. UNCHANGED <<cursor, legPath>>
      BY <1>3 DEF WalkBack, back
    <2> QED BY <1>1, <1>2, <1>3, <2>1 DEF RoomWalk
  <1>4. CASE cursor # Undefined
    <2> DEFINE q == <<cursor>> \o legPath
               c == parents[cursor]
               r == <<c>> \o q
    <2>1. /\ cursor' = c /\ legPath' = q /\ cursor \in Node /\ cursor \in Start
      BY <1>1, <1>4 DEF WalkBack, RoomWalk, Start
    <2>2. /\ q \in Seq(Node) /\ Len(q) = Len(legPath) + 1 /\ Len(legPath) \in Nat /\ q[1] = cursor
      BY <2>1, Prepend DEF RoomWalk
    <2>3. CASE c = Undefined
      BY <1>1, <1>2, <2>1, <2>2, <2>3 DEF RoomWalk
    <2>4. CASE c # Undefined
      <3>1. /\ cursor \in Neighbors(c) /\ distances[cursor] = distances[c] + weight[{c, cursor}]
            /\ distances[cursor] < Infinity /\ c \in Node
        BY <2>1, <2>4, TourNeighbors DEF Tables
      <3> HIDE DEF q, c
      <3>2. /\ Len(r) = Len(q) + 1 /\ r[1] = c /\ \A i \in 1..Len(q) : r[i + 1] = q[i]
        BY <2>2, <3>1, Prepend
      <3>3. Last(r) = Last(q)
        BY <2>2, <3>2 DEF Last
      <3>4. Stepwise(q) /\ Last(q) = Target /\ (cursor = Target \/ distances[Target] < Infinity)
        BY <1>4 DEF RoomWalk, q
      <3> HIDE DEF r
      <3>5. ASSUME NEW i \in 1..(Len(r) - 1)
            PROVE  /\ r[i + 1] \in Neighbors(r[i])
                   /\ distances[r[i + 1]] = distances[r[i]] + weight[{r[i], r[i + 1]}]
        <4>1. CASE i = 1
          <5>1. r[i] = c /\ r[i + 1] = cursor
            BY <2>2, <3>2, <4>1
          <5> QED BY <3>1, <5>1
        <4>2. CASE i # 1
          <5>1. i - 1 \in 1..(Len(q) - 1) /\ i - 1 \in 1..Len(q) /\ i \in 1..Len(q) /\ (i - 1) + 1 = i
            BY <2>2, <3>2, <4>2
          <5>2. r[i] = q[i - 1] /\ r[i + 1] = q[(i - 1) + 1]
            BY <3>2, <5>1
          <5> QED BY <3>4, <5>1, <5>2 DEF Stepwise
        <4> QED BY <4>1, <4>2
      <3>6. cursor' = c /\ legPath' = q /\ <<cursor'>> \o legPath' = r
        BY <2>1 DEF r
      <3>7. distances[Target] < Infinity
        BY <3>1, <3>4
      <3>8. Stepwise(<<cursor>> \o legPath)'
        BY <1>1, <3>5, <3>6 DEF Stepwise
      <3>9. Last(<<cursor>> \o legPath)' = Target
        BY <3>3, <3>4, <3>6 DEF Last
      <3> QED BY <1>1, <1>2, <2>2, <3>1, <3>6, <3>7, <3>8, <3>9 DEF RoomWalk
    <2> QED BY <2>3, <2>4
  <1> QED BY <1>3, <1>4

\* A name that is no room has no parent.
LEMMA NameWalkStep ==
  ASSUME NameWalk, WalkBack
  PROVE  NameWalk'
  <1>1. /\ UNCHANGED <<perms, leg>> /\ Unknown \notin Start /\ Undefined \notin Start
        /\ Unknown \in Stop /\ Unknown # Undefined
    BY TspAssumption DEF WalkBack, Start, Stop, Undefined, order
  <1>2. Target' = Target
    BY <1>1 DEF Target
  <1>3. CASE cursor = Undefined
    <2>1. UNCHANGED <<cursor, legPath>>
      BY <1>3 DEF WalkBack, back
    <2> QED BY <1>2, <1>3, <2>1 DEF NameWalk
  <1>4. CASE cursor = Unknown
    <2>1. cursor' = Undefined /\ legPath' = <<cursor>> \o legPath
      BY <1>1, <1>4 DEF WalkBack
    <2>2. legPath' \in Seq(Stop)
      BY <1>1, <1>4, <2>1, Prepend DEF NameWalk
    <2> QED BY <1>2, <2>1, <2>2 DEF NameWalk
  <1> QED BY <1>3, <1>4 DEF NameWalk

LEMMA WalkBackStep ==
  ASSUME weight \in [Passage -> Weight], Tables, BackWalk, WalkBack
  PROVE  BackWalk'
  BY RoomWalkStep, NameWalkStep DEF BackWalk

\* At the leg's start: the leg's path leads to the target over passages, and is
\* no longer than there are rooms.
LEMMA BackAtStart ==
  ASSUME weight \in [Passage -> Weight], Tables, BackWalk, cursor = current
  PROVE  /\ legPath \in Seq(Node) /\ Stepwise(<<current>> \o legPath)
         /\ Last(<<current>> \o legPath) = Target /\ Target \in Node
         /\ distances[Target] < Infinity
         /\ Len(legPath) <= Cardinality(Node)
  <1> DEFINE q == <<current>> \o legPath
             n == Len(legPath)
  <1>1. /\ current \in Start /\ current # Undefined /\ distances[current] = 0 /\ Infinity \in Nat \ {0}
        /\ \A x \in Start : distances[x] \in 0..Infinity
    BY TspAssumption, InfinityIsNat DEF Tables, Start, Undefined
  <1>2. /\ legPath \in Seq(Node) /\ Stepwise(q) /\ Last(q) = Target /\ distances[Target] < Infinity
        /\ Target \in Node
    <2>1. RoomWalk
      BY <1>1, TspAssumption DEF BackWalk, NameWalk, Start, Undefined
    <2> QED BY <1>1, <2>1 DEF RoomWalk
  <1>3. legPath \in Seq(Start)
    BY <1>2, SeqMonotonic DEF Start
  <1>4. /\ Len(q) = n + 1 /\ n \in Nat /\ \A i \in 1..n : q[i + 1] = legPath[i]
    BY <1>1, <1>3, Prepend
  <1> HIDE DEF q
  <1>5. \A i \in 1..n : legPath[i] \in Node
    BY <1>2, ElementOfSeq
  <1>6. ASSUME NEW i \in 1..(n - 1) PROVE distances[legPath[i]] < distances[legPath[i + 1]]
    <2>1. i + 1 \in 1..(Len(q) - 1) /\ i \in 1..n /\ i + 1 \in 1..n
      BY <1>4
    <2>2. q[(i + 1) + 1] \in Neighbors(q[i + 1])
          /\ distances[q[(i + 1) + 1]] = distances[q[i + 1]] + weight[{q[i + 1], q[(i + 1) + 1]}]
      BY <1>2, <2>1 DEF Stepwise
    <2> DEFINE a == legPath[i]
               b == legPath[i + 1]
    <2>3. q[i + 1] = a /\ q[(i + 1) + 1] = b
      BY <1>4, <2>1
    <2>4. b \in Neighbors(a) /\ distances[b] = distances[a] + weight[{a, b}]
      BY <2>2, <2>3
    <2> HIDE DEF a, b
    <2>5. /\ weight[{b, a}] \in Nat \ {0} /\ a \in Node /\ b \in Node
      BY <2>4, TourNeighbors
    <2>6. distances[a] \in Nat /\ distances[b] \in Nat /\ weight[{a, b}] \in Nat \ {0}
      <3>1. weight[{a, b}] = weight[{b, a}]
        <4>1. {a, b} = {b, a}
          OBVIOUS
        <4> QED BY <4>1
      <3>2. distances[a] \in Nat /\ distances[b] \in Nat
        BY <1>1, <2>5 DEF Start
      <3> QED BY <2>5, <3>1, <3>2
    <2>7. distances[a] < distances[b]
      BY <2>4, <2>6
    <2> QED BY <2>7 DEF a, b
  <1>7. ASSUME NEW i \in 1..n PROVE \A j \in 1..n : i < j => distances[legPath[i]] < distances[legPath[j]]
    <2> DEFINE Z == {k \in Nat : i + k + 1 <= n => distances[legPath[i]] < distances[legPath[i + k + 1]]}
    <2>0. \A j \in 1..n : distances[legPath[j]] \in Nat
      BY <1>1, <1>5 DEF Start
    <2>1. 0 \in Z
      <3>1. i + 0 + 1 <= n => i \in 1..(n - 1) /\ i + 0 + 1 = i + 1
        BY <1>4
      <3> QED BY <1>6, <3>1
    <2>2. ASSUME NEW k \in Nat, k \in Z PROVE k + 1 \in Z
      <3>1. SUFFICES ASSUME i + (k + 1) + 1 <= n
                     PROVE  distances[legPath[i]] < distances[legPath[i + (k + 1) + 1]]
        OBVIOUS
      <3>2. i + k + 1 \in 1..(n - 1) /\ i + k + 1 \in 1..n /\ i + (k + 1) + 1 \in 1..n
            /\ (i + k + 1) + 1 = i + (k + 1) + 1
        BY <1>4, <3>1
      <3>3. distances[legPath[i]] < distances[legPath[i + k + 1]]
        BY <2>2, <3>2
      <3>4. distances[legPath[i + k + 1]] < distances[legPath[i + (k + 1) + 1]]
        BY <1>6, <3>2
      <3> QED BY <2>0, <3>2, <3>3, <3>4
    <2>3. Nat \subseteq Z
      <3> HIDE DEF Z
      <3> QED BY <2>1, <2>2, InductionSet
    <2>4. SUFFICES ASSUME NEW j \in 1..n, i < j PROVE distances[legPath[i]] < distances[legPath[j]]
      OBVIOUS
    <2>5. j - i - 1 \in Nat /\ i + (j - i - 1) + 1 = j
      BY <2>4
    <2>6. j - i - 1 \in Z
      BY <2>3, <2>5
    <2> QED BY <1>4, <2>5, <2>6
  <1>8. legPath \in Injection(1..n, Node)
    <2>1. legPath \in [1..n -> Node]
      BY <1>2, LenProperties, <1>5
    <2>2. ASSUME NEW i \in 1..n, NEW j \in 1..n, legPath[i] = legPath[j] PROVE i = j
      <3>1. distances[legPath[i]] \in Nat /\ distances[legPath[j]] \in Nat
        BY <1>1, <1>5 DEF Start
      <3>2. ~(i < j) /\ ~(j < i)
        BY <1>7, <2>2, <3>1
      <3> QED BY <1>4, <3>2
    <2>3. DOMAIN legPath = 1..n
      BY <2>1
    <2> QED BY <2>1, <2>2, <2>3 DEF Injection, IsInjective
  <1>9. n <= Cardinality(Node)
    <2> HIDE DEF n
    <2>1. IsFiniteSet(1..n) /\ Cardinality(1..n) = n
      BY <1>4, FS_Interval
    <2>2. IsFiniteSet(Node) /\ Cardinality(Node) \in Nat
      BY TspAssumption, FS_CardinalityType
    <2>3. Cardinality(1..n) <= Cardinality(Node)
      BY <1>8, <2>1, <2>2, FS_Injection
    <2> QED BY <2>1, <2>3
  <1> QED BY <1>2, <1>9 DEF q

-----------------------------------------------------------------------------
(***************************************************************************)
(* POST /tsp-path: the walk so far and what an order costs.                *)
(***************************************************************************)
\* o[i] is the length of the walk q up to its i-th node.
Metered(q, o) ==
  /\ o \in [1..Len(q) -> Nat] /\ o[1] = 0
  /\ \A i \in 1..(Len(q) - 1) :
       q[i + 1] \in Neighbors(q[i]) /\ o[i + 1] = o[i] + weight[{q[i], q[i + 1]}]

\* q is a walk of length v.
Measured(q, v) == \E o : Metered(q, o) /\ o[Len(q)] = v

\* The walk so far: what becomes the answer's path.
Route == <<start>> \o fullPath

\* A walk to the current room and the leg's path make a walk.
LEMMA Extended ==
  ASSUME weight \in [Passage -> Weight], NEW q \in Seq(Start), q # <<>>,
         NEW v \in Nat, Measured(q, v), Last(q) = current, current \in Start,
         legPath \in Seq(Node), Stepwise(<<current>> \o legPath),
         distances[current] = 0, \A n \in Start : distances[n] \in Nat
  PROVE  /\ Measured(q \o legPath, v + distances[Last(<<current>> \o legPath)])
         /\ Last(q \o legPath) = Last(<<current>> \o legPath)
         /\ q \o legPath \in Seq(Start) /\ Len(q \o legPath) = Len(q) + Len(legPath)
         /\ Range(q) \subseteq Range(q \o legPath)
         /\ Len(legPath) \in Nat /\ Len(q) \in Nat \ {0}
  <1> DEFINE n == Len(q)
             k == Len(legPath)
             s == <<current>> \o legPath
             r == q \o legPath
  <1>1. n \in Nat \ {0} /\ k \in Nat /\ legPath \in Seq(Start)
    BY EmptySeq, LenProperties, SeqMonotonic DEF Start
  <1>2. /\ Len(s) = k + 1 /\ s[1] = current /\ \A i \in 1..k : s[i + 1] = legPath[i]
    BY <1>1, Prepend
  <1>3. /\ r \in Seq(Start) /\ Len(r) = n + k
        /\ \A i \in 1..(n + k) : r[i] = IF i <= n THEN q[i] ELSE legPath[i - n]
    BY <1>1, ConcatProperties
  <1>4. q[n] = current
    BY DEF Last
  <1> HIDE DEF s, r
  <1>5. \A j \in 0..k : r[n + j] = s[j + 1]
    <2>1. SUFFICES ASSUME NEW j \in 0..k PROVE r[n + j] = s[j + 1]
      OBVIOUS
    <2>2. CASE j = 0
      <3>1. n \in 1..(n + k) /\ n + j = n /\ j + 1 = 1
        BY <1>1, <2>2
      <3>2. r[n] = q[n]
        BY <1>3, <3>1
      <3> QED BY <1>2, <1>4, <3>1, <3>2
    <2>3. CASE j # 0
      <3>1. n + j \in 1..(n + k) /\ ~(n + j <= n) /\ (n + j) - n = j /\ j \in 1..k
        BY <1>1, <2>3
      <3> QED BY <1>2, <1>3, <3>1
    <2> QED BY <2>2, <2>3
  <1>6. Last(r) = Last(s)
    <2>1. k \in 0..k
      BY <1>1
    <2> QED BY <1>2, <1>3, <1>5, <2>1 DEF Last
  <1>7. \A i \in 1..k : legPath[i] \in Start
    BY <1>1, ElementOfSeq
  <1>8. \A j \in 1..(k + 1) : s[j] \in Start
    <2>1. SUFFICES ASSUME NEW j \in 1..(k + 1) PROVE s[j] \in Start
      OBVIOUS
    <2>2. CASE j = 1
      BY <1>2, <2>2
    <2>3. CASE j # 1
      <3>1. j - 1 \in 1..k /\ (j - 1) + 1 = j
        BY <1>1, <2>3
      <3> QED BY <1>2, <1>7, <3>1
    <2> QED BY <2>2, <2>3
  <1>9. PICK o : Metered(q, o) /\ o[n] = v
    BY DEF Measured
  <1> DEFINE e == [i \in 1..(n + k) |-> IF i <= n THEN o[i] ELSE v + distances[s[i - n + 1]]]
  <1>10. \A j \in 0..k : e[n + j] = v + distances[s[j + 1]]
    <2>1. SUFFICES ASSUME NEW j \in 0..k PROVE e[n + j] = v + distances[s[j + 1]]
      OBVIOUS
    <2>2. CASE j = 0
      <3>1. n \in 1..(n + k) /\ n + j = n /\ j + 1 = 1
        BY <1>1, <2>2
      <3>2. e[n] = o[n]
        BY <1>1, <3>1
      <3> HIDE DEF e
      <3> QED BY <1>2, <1>9, <3>1, <3>2
    <2>3. CASE j # 0
      <3>1. n + j \in 1..(n + k) /\ ~(n + j <= n) /\ (n + j) - n + 1 = j + 1
        BY <1>1, <2>3
      <3> QED BY <3>1
    <2> QED BY <2>2, <2>3
  <1>11. \A i \in 1..n : e[i] = o[i]
    BY <1>1
  <1>12. e \in [1..(n + k) -> Nat]
    <2>1. ASSUME NEW i \in 1..(n + k)
          PROVE  (IF i <= n THEN o[i] ELSE v + distances[s[i - n + 1]]) \in Nat
      <3>1. CASE i <= n
        <4>1. i \in 1..n
          BY <1>1, <3>1
        <4> QED BY <1>9, <3>1, <4>1 DEF Metered
      <3>2. CASE ~(i <= n)
        <4>1. i - n + 1 \in 1..(k + 1)
          BY <1>1, <3>2
        <4> QED BY <1>8, <3>2, <4>1
      <3> QED BY <3>1, <3>2
    <2> QED BY <2>1
  <1> HIDE DEF e
  <1>13. ASSUME NEW i \in 1..((n + k) - 1)
         PROVE  r[i + 1] \in Neighbors(r[i]) /\ e[i + 1] = e[i] + weight[{r[i], r[i + 1]}]
    <2>1. CASE i < n
      <3>1. /\ i \in 1..(n - 1) /\ i \in 1..n /\ i + 1 \in 1..n
            /\ i \in 1..(n + k) /\ i + 1 \in 1..(n + k) /\ i <= n /\ i + 1 <= n
        BY <1>1, <2>1
      <3>2. r[i] = q[i] /\ r[i + 1] = q[i + 1] /\ e[i] = o[i] /\ e[i + 1] = o[i + 1]
        BY <1>3, <1>11, <3>1
      <3> QED BY <1>9, <3>1, <3>2 DEF Metered
    <2>2. CASE ~(i < n)
      <3> DEFINE j == i - n
      <3>1. /\ j \in 0..k /\ j + 1 \in 0..k /\ j + 1 \in 1..((k + 1) - 1)
            /\ n + j = i /\ n + (j + 1) = i + 1
        BY <1>1, <2>2
      <3> HIDE DEF j
      <3>2. r[i] = s[j + 1] /\ r[i + 1] = s[(j + 1) + 1]
        BY <1>5, <3>1
      <3>3. e[i] = v + distances[s[j + 1]] /\ e[i + 1] = v + distances[s[(j + 1) + 1]]
        BY <1>10, <3>1
      <3>4. /\ s[(j + 1) + 1] \in Neighbors(s[j + 1])
            /\ distances[s[(j + 1) + 1]] = distances[s[j + 1]] + weight[{s[j + 1], s[(j + 1) + 1]}]
        BY <1>2, <3>1 DEF Stepwise, s
      <3>5. distances[s[j + 1]] \in Nat /\ weight[{s[j + 1], s[(j + 1) + 1]}] \in Nat
        <4> DEFINE a == s[j + 1]
                   b == s[(j + 1) + 1]
        <4>1. b \in Neighbors(a)
          BY <3>4
        <4>2. a \in Start /\ a \in Neighbors(b)
          BY <4>1, TourNeighbors DEF Start
        <4>3. weight[{a, b}] \in Nat
          BY <4>2, TourNeighbors
        <4> QED BY <4>2, <4>3
      <3> QED BY <3>2, <3>3, <3>4, <3>5
    <2> QED BY <2>1, <2>2
  <1>14. e[1] = 0
    <2>1. 1 \in 1..n
      BY <1>1
    <2> QED BY <1>9, <1>11, <2>1 DEF Metered
  <1>15. Metered(r, e)
    BY <1>3, <1>12, <1>13, <1>14 DEF Metered
  <1>16. e[Len(r)] = v + distances[Last(s)]
    <2>1. k \in 0..k
      BY <1>1
    <2> QED BY <1>2, <1>3, <1>10, <2>1 DEF Last
  <1>17. Measured(r, v + distances[Last(s)])
    BY <1>15, <1>16 DEF Measured
  <1>18. Range(q) \subseteq Range(r)
    <2>1. \A i \in 1..n : i \in 1..(n + k) /\ r[i] = q[i]
      BY <1>1, <1>3
    <2>2. DOMAIN q = 1..n /\ DOMAIN r = 1..(n + k)
      BY <1>1, <1>3, LenProperties
    <2> QED BY <2>1, <2>2 DEF Range
  <1> QED BY <1>1, <1>3, <1>6, <1>17, <1>18 DEF r, s

\* c[i] is the length of the shortest legs over the first i rooms of p.
Costs(p, c) ==
  /\ c \in [0..Len(p) -> Nat] /\ c[0] = 0
  /\ \A i \in 1..Len(p) : c[i] = c[i - 1] + Delta(IF i = 1 THEN start ELSE p[i - 1])[p[i]]

\* The legs costed so far are shortest walks over the first rooms of the order.
Progress ==
  /\ perms # <<>> /\ leg \in 1..(Len(Head(perms)) + 1)
  /\ current = IF leg = 1 THEN start ELSE Head(perms)[leg - 1]
  /\ fullPath \in Seq(Node) /\ Len(fullPath) <= (leg - 1) * Cardinality(Node)
  /\ total \in Nat /\ total <= (leg - 1) * LegMost
  /\ Last(Route) = current /\ Measured(Route, total)
  /\ \A i \in 1..(leg - 1) : Head(perms)[i] \in Range(Route)
  /\ \A c : Costs(Head(perms), c) => c[leg - 1] = total

\* What a walk is depends on the weights only.
LEMMA MeasuredFixed ==
  ASSUME UNCHANGED weight
  PROVE  \A q, v : Measured(q, v)' <=> Measured(q, v)
  BY DEF Measured, Metered, Neighbors

\* What an order costs depends on the weights and the start only.
LEMMA CostsFixed ==
  ASSUME UNCHANGED <<weight, start>>
  PROVE  \A p, c : Costs(p, c)' <=> Costs(p, c)
  BY DeltaFixed DEF Costs

\* A leg that is done extends the walk by a shortest one.
LEMMA LegDoneProgress ==
  ASSUME weight \in [Passage -> Weight], start \in Start, Tables, Settled, BackWalk, Progress,
         perms \in Seq(Seq(Stop)), leg <= Len(Head(perms)), LegDone
  PROVE  /\ Progress' /\ pc' = "leg"
         /\ UNCHANGED <<request, search, back, best, perms>>
  <1> DEFINE p == Head(perms)
             t == p[leg]
  <1>1. /\ cursor = current /\ Target = t
        /\ UNCHANGED <<request, search, back>> /\ UNCHANGED <<weight, start>>
        /\ current \in Start /\ distances[current] = 0
        /\ \A n \in Start : distances[n] \in Nat
    BY InfinityIsNat DEF LegDone, Target, Tables, request
  <1>2. /\ legPath \in Seq(Node) /\ Stepwise(<<current>> \o legPath)
        /\ Last(<<current>> \o legPath) = t /\ t \in Node
        /\ distances[t] < Infinity
        /\ Len(legPath) <= Cardinality(Node)
    BY <1>1, BackAtStart
  <1>3. /\ total' = total + distances[t] /\ fullPath' = fullPath \o legPath
        /\ current' = t /\ leg' = leg + 1 /\ pc' = "leg" /\ UNCHANGED <<perms, best>>
    <2>1. distances[t] # Infinity
      BY <1>2, InfinityIsNat
    <2> QED BY <2>1 DEF LegDone
  <1>4. /\ p \in Seq(Stop) /\ Len(p) \in Nat /\ leg \in 1..Len(p) /\ t \in Node /\ t \in Start
    <2>1. p \in Seq(Stop)
      BY EmptySeq, HeadTailProperties DEF Progress
    <2> HIDE DEF p
    <2>2. Len(p) \in Nat
      BY <2>1, LenProperties
    <2>3. leg \in 1..Len(p)
      BY <2>2 DEF Progress, p
    <2> QED BY <1>2, <2>1, <2>2, <2>3 DEF Start
  <1> HIDE DEF t
  <1>5. /\ Route \in Seq(Start) /\ Route # <<>> /\ Len(Route) = Len(fullPath) + 1 /\ Len(fullPath) \in Nat
    <2>1. fullPath \in Seq(Start)
      BY SeqMonotonic DEF Progress, Start
    <2>2. Route \in Seq(Start) /\ Len(Route) = Len(fullPath) + 1 /\ Len(fullPath) \in Nat
      BY <2>1, Prepend DEF Route
    <2>3. Len(<<>>) = 0
      OBVIOUS
    <2> QED BY <2>2, <2>3
  <1>6. Route' = Route \o legPath
    <2>1. <<start>> \in Seq(Start) /\ fullPath \in Seq(Node) /\ legPath \in Seq(Node)
      BY <1>2 DEF Progress
    <2>2. <<start>> \in Seq(Start) /\ fullPath \in Seq(Start) /\ legPath \in Seq(Start)
      BY <2>1, SeqMonotonic DEF Start
    <2>3. <<start>> \o (fullPath \o legPath) = (<<start>> \o fullPath) \o legPath
      BY <2>2, ConcatAssociative
    <2> QED BY <1>1, <1>3, <2>3 DEF Route
  <1>7. /\ Measured(Route \o legPath, total + distances[t])
        /\ Last(Route \o legPath) = t
        /\ Route \o legPath \in Seq(Start)
        /\ Range(Route) \subseteq Range(Route \o legPath)
        /\ Len(legPath) \in Nat
        /\ Len(Route \o legPath) = Len(Route) + Len(legPath)
    BY <1>1, <1>2, <1>5, Extended DEF Progress
  <1>8. fullPath' \in Seq(Node) /\ Len(fullPath') = Len(fullPath) + Len(legPath)
    BY <1>2, <1>3, ConcatProperties DEF Progress
  <1>9. /\ Len(fullPath') <= leg * Cardinality(Node)
        /\ total' \in Nat /\ total' <= leg * LegMost
    <2>1. Cardinality(Node) \in Nat /\ LegMost \in Nat /\ leg - 1 \in Nat /\ (leg - 1) + 1 = leg
      BY <1>4, HeaviestIs
    <2>2. /\ leg * Cardinality(Node) = (leg - 1) * Cardinality(Node) + Cardinality(Node)
          /\ leg * LegMost = (leg - 1) * LegMost + LegMost
          /\ (leg - 1) * Cardinality(Node) \in Nat /\ (leg - 1) * LegMost \in Nat
      BY <2>1, Times, ZenonT(60)
    <2>3. distances[t] \in Nat /\ distances[t] <= LegMost
      <3>1. distances[t] = Delta(current)[t]
        BY <1>4 DEF Settled
      <3> QED BY <1>1, <1>2, <1>4, <3>1, DeltaIs
    <2>4. /\ Len(fullPath) <= (leg - 1) * Cardinality(Node)
          /\ total \in Nat /\ total <= (leg - 1) * LegMost
      BY DEF Progress
    <2>5. Len(fullPath') <= leg * Cardinality(Node)
      <3>1. Len(fullPath) + Len(legPath) <= (leg - 1) * Cardinality(Node) + Cardinality(Node)
        BY <1>2, <1>5, <1>7, <2>1, <2>2, <2>4, AddBelow
      <3> QED BY <1>8, <2>2, <3>1
    <2>6. total' \in Nat /\ total' <= leg * LegMost
      <3>1. /\ total + distances[t] <= (leg - 1) * LegMost + LegMost
            /\ total + distances[t] \in Nat
        BY <2>1, <2>2, <2>3, <2>4, AddBelow
      <3> QED BY <1>3, <2>2, <3>1
    <2> QED BY <2>5, <2>6
  <1>10. ASSUME NEW i \in 1..leg PROVE p[i] \in Range(Route')
    <2>1. CASE i = leg
      <3>1. Range(Route') = {Route'[j] : j \in 1..Len(Route')} /\ Len(Route') \in Nat \ {0}
        <4>1. Route' \in Seq(Start) /\ Len(Route') \in Nat \ {0}
          BY <1>5, <1>6, <1>7
        <4>2. DOMAIN Route' = 1..Len(Route')
          BY <4>1, LenProperties
        <4> QED BY <4>1, <4>2 DEF Range
      <3>2. Route'[Len(Route')] = t
        BY <1>6, <1>7 DEF Last
      <3> QED BY <2>1, <3>1, <3>2 DEF t
    <2>2. CASE i # leg
      <3>1. i \in 1..(leg - 1)
        BY <1>4, <2>2
      <3> QED BY <1>6, <1>7, <3>1 DEF Progress
    <2> QED BY <2>1, <2>2
  <1>11. ASSUME NEW c, Costs(p, c) PROVE c[leg] = total + distances[t]
    <2>1. c[leg] = c[leg - 1] + Delta(IF leg = 1 THEN start ELSE p[leg - 1])[t]
      BY <1>4, <1>11 DEF Costs, t
    <2>2. c[leg - 1] = total /\ current = IF leg = 1 THEN start ELSE p[leg - 1]
      BY <1>11 DEF Progress
    <2> QED BY <1>4, <2>1, <2>2 DEF Settled
  <1>12. (leg + 1) - 1 = leg /\ leg + 1 \in 1..(Len(p) + 1) /\ leg + 1 # 1
    BY <1>4
  <1>13. Progress'
    <2>1. Head(perms)' = p /\ perms' # <<>> /\ leg' \in 1..(Len(Head(perms)') + 1)
      BY <1>3, <1>12 DEF Progress
    <2>2. current' = IF leg' = 1 THEN start' ELSE Head(perms)'[leg' - 1]
      BY <1>3, <1>12, <2>1 DEF t
    <2>3. Last(Route') = current' /\ Measured(Route, total)'
      <3>1. Last(Route') = current'
        BY <1>3, <1>6, <1>7 DEF Last
      <3>2. Measured(Route', total')
        BY <1>3, <1>6, <1>7
      <3>3. Measured(Route, total)' <=> Measured(Route', total')
        BY <1>1 DEF Measured, Metered, Neighbors
      <3> QED BY <3>1, <3>2, <3>3
    <2>4. \A i \in 1..(leg' - 1) : Head(perms)'[i] \in Range(Route')
      BY <1>3, <1>10, <1>12, <2>1
    <2>5. \A c : Costs(Head(perms), c)' => c[leg' - 1] = total'
      <3>1. SUFFICES ASSUME NEW c, Costs(Head(perms), c)' PROVE c[leg' - 1] = total'
        OBVIOUS
      <3>2. Costs(Head(perms), c)' <=> Costs(p, c)
        BY <1>1, <2>1, DeltaFixed DEF Costs
      <3> QED BY <1>3, <1>11, <1>12, <3>1, <3>2
    <2> HIDE DEF p
    <2>6. Last(Route)' = Last(Route') /\ Range(Route)' = Range(Route') /\ LegMost' = LegMost
      BY DEF Last, Range, LegMost
    <2> QED BY <1>3, <1>8, <1>9, <1>12, <2>1, <2>2, <2>3, <2>4, <2>5, <2>6 DEF Progress
  <1> QED BY <1>1, <1>3, <1>13

-----------------------------------------------------------------------------
(***************************************************************************)
(* POST /tsp-path: the orders of the rooms.                                *)
(***************************************************************************)
\* f[i] is the concatenation of the first i sequences of ss.
Flattening(ss, f) ==
  [i \in 1..Len(ss) |-> IF i = 1 THEN ss[i] ELSE f[i - 1] \o ss[i]]

\* Sequences of sequences can be concatenated: what FlattenSeq needs.
LEMMA FlatteningExists ==
  ASSUME NEW S, NEW ss \in Seq(Seq(S))
  PROVE  \E f : f = Flattening(ss, f)
  <1> DEFINE n == Len(ss)
             V == Seq(S)
             G == [i \in 1..n |-> [v \in V |-> v \o ss[i]]]
  <1>1. n \in Nat /\ \A i \in 1..n : ss[i] \in V
    BY LenProperties, ElementOfSeq
  <1>2. <<>> \in V
    BY EmptySeq
  <1>3. G \in [1..n -> [V -> V]]
    <2>1. ASSUME NEW i \in 1..n, NEW v \in V PROVE v \o ss[i] \in V
      BY <1>1, ConcatProperties
    <2> QED BY <2>1
  <1>4. \A i \in 1..n, v \in V : G[i][v] = v \o ss[i]
    OBVIOUS
  <1> HIDE DEF n, V, G
  <1>5. n \in Nat
    BY <1>1
  <1>6. PICK it : Folded(n, V, <<>>, G, it)
    BY <1>2, <1>3, <1>5, FoldExists
  <1>7. /\ it[1..0] = <<>>
        /\ \A j \in 0..n : it[1..j] \in V
        /\ \A j \in 0..(n - 1) : it[1..(j + 1)] = G[j + 1][it[1..j]]
    BY <1>2, <1>3, <1>5, <1>6, FoldSteps
  <1> DEFINE f == [i \in 1..n |-> it[1..i]]
  <1>8. ASSUME NEW i \in 1..n PROVE f[i] = Flattening(ss, f)[i]
    <2>1. i - 1 \in 0..(n - 1) /\ i - 1 \in 0..n /\ (i - 1) + 1 = i
      BY <1>1
    <2>2. it[1..i] = it[1..(i - 1)] \o ss[i]
      BY <1>4, <1>7, <2>1
    <2>3. CASE i = 1
      <3>1. 1..(i - 1) = 1..0
        BY <2>3
      <3>2. it[1..i] = ss[i]
        BY <1>1, <1>7, <2>2, <3>1, ConcatEmptySeq, ZenonT(60) DEF V
      <3> QED BY <2>3, <3>2 DEF Flattening, n
    <2>4. CASE i # 1
      <3>1. i - 1 \in 1..n
        BY <1>1, <2>4
      <3>2. f[i - 1] = it[1..(i - 1)] /\ f[i] = it[1..i]
        BY <3>1
      <3> HIDE DEF f
      <3> QED BY <2>2, <2>4, <3>2 DEF Flattening, n
    <2> QED BY <2>3, <2>4
  <1>9. f = [i \in 1..n |-> f[i]] /\ Flattening(ss, f) = [i \in 1..n |-> Flattening(ss, f)[i]]
    BY DEF Flattening, n
  <1> HIDE DEF f
  <1>10. f = Flattening(ss, f)
    BY <1>8, <1>9
  <1> QED BY <1>10

\* FlattenSeq has the elements of all the sequences.
LEMMA Flattened ==
  ASSUME NEW S, NEW ss \in Seq(Seq(S))
  PROVE  /\ FlattenSeq(ss) \in Seq(S)
         /\ Range(FlattenSeq(ss)) = UNION {Range(ss[j]) : j \in 1..Len(ss)}
  <1> DEFINE n == Len(ss)
  <1>1. n \in Nat /\ \A i \in 1..n : ss[i] \in Seq(S)
    BY LenProperties, ElementOfSeq
  <1>2. CASE n = 0
    <2>1. ss = <<>> /\ FlattenSeq(ss) = ss /\ 1..n = {}
      BY <1>2, EmptySeq DEF FlattenSeq
    <2>2. Range(<<>>) = {}
      BY DEF Range
    <2> QED BY <2>1, <2>2, EmptySeq
  <1>3. CASE n # 0
    <2> DEFINE f == CHOOSE g : g = Flattening(ss, g)
    <2>1. f = Flattening(ss, f)
      BY FlatteningExists
    <2>2. FlattenSeq(ss) = f[n]
      <3>1. \A g : Flattening(ss, g) = [i \in 1..Len(ss) |-> IF i = 1 THEN ss[i] ELSE g[i - 1] \o ss[i]]
        BY DEF Flattening
      <3> QED BY <1>3, <3>1 DEF FlattenSeq, Flattening
    <2> HIDE DEF f
    <2> DEFINE Z == {i \in Nat : i \in 1..n =>
                       /\ f[i] \in Seq(S)
                       /\ Range(f[i]) = UNION {Range(ss[j]) : j \in 1..i}}
    <2>3. 0 \in Z
      OBVIOUS
    <2>4. ASSUME NEW i \in Nat, i \in Z PROVE i + 1 \in Z
      <3>1. SUFFICES ASSUME i + 1 \in 1..n
                     PROVE  /\ f[i + 1] \in Seq(S)
                            /\ Range(f[i + 1]) = UNION {Range(ss[j]) : j \in 1..(i + 1)}
        OBVIOUS
      <3>2. f[i + 1] = Flattening(ss, f)[i + 1]
        BY <2>1
      <3>3. f[i + 1] = IF i + 1 = 1 THEN ss[i + 1] ELSE f[(i + 1) - 1] \o ss[i + 1]
        BY <3>1, <3>2 DEF Flattening
      <3>4. 1..(i + 1) = 1..i \cup {i + 1} /\ (i + 1) - 1 = i
        OBVIOUS
      <3>5. UNION {Range(ss[j]) : j \in 1..(i + 1)} = (UNION {Range(ss[j]) : j \in 1..i}) \cup Range(ss[i + 1])
        BY <3>4
      <3>6. ss[i + 1] \in Seq(S)
        BY <1>1, <3>1
      <3>7. CASE i = 0
        <4>1. f[i + 1] = ss[i + 1] /\ 1..i = {}
          BY <3>3, <3>7
        <4> QED BY <3>5, <3>6, <4>1
      <3>8. CASE i # 0
        <4>1. i \in 1..n /\ i + 1 # 1
          BY <3>1, <3>8
        <4>2. f[i + 1] = f[i] \o ss[i + 1]
          BY <3>3, <3>4, <4>1
        <4>3. f[i] \in Seq(S) /\ Range(f[i]) = UNION {Range(ss[j]) : j \in 1..i}
          BY <2>4, <4>1
        <4>4. f[i + 1] \in Seq(S)
          BY <3>6, <4>2, <4>3, ConcatProperties
        <4>5. Range(f[i + 1]) = Range(f[i]) \cup Range(ss[i + 1])
          BY <3>6, <4>2, <4>3, RangeConcatenation
        <4> QED BY <3>5, <4>3, <4>4, <4>5
      <3> QED BY <3>7, <3>8
    <2>5. n \in Z
      <3> HIDE DEF Z
      <3> QED BY <1>1, <2>3, <2>4, InductionSet
    <2>6. n \in 1..n
      BY <1>1, <1>3
    <2> QED BY <2>2, <2>5, <2>6
  <1> QED BY <1>2, <1>3

\* p is an order of the elements of R.
OrderOf(p, R) == p \in Seq(Stop) /\ IsInjective(p) /\ Range(p) = R

\* Another room at any place of an order makes an order.
LEMMA InsertOrders ==
  ASSUME NEW R, NEW p, OrderOf(p, R), NEW e \in Stop, e \notin R, NEW k \in 1..(Len(p) + 1)
  PROVE  OrderOf(InsertAt(p, k, e), R \cup {e}) /\ Len(InsertAt(p, k, e)) = Len(p) + 1
  <1> DEFINE s == InsertAt(p, k, e)
             n == Len(p)
  <1>1. /\ p \in Seq(Stop) /\ IsInjective(p) /\ n \in Nat /\ DOMAIN p = 1..n
        /\ R = {p[i] : i \in 1..n}
    BY LenProperties, RangeEquality DEF OrderOf
  <1>2. /\ s \in Seq(Stop) /\ Len(s) = n + 1
        /\ \A i \in 1..(n + 1) : s[i] = IF i < k THEN p[i] ELSE IF i = k THEN e ELSE p[i - 1]
    BY <1>1, Insertion
  <1>3. DOMAIN s = 1..(n + 1) /\ Range(s) = {s[i] : i \in 1..(n + 1)}
    BY <1>2, LenProperties, RangeEquality
  <1>4. k \in 1..(n + 1) /\ k \in Nat
    BY <1>1
  <1> HIDE DEF n, s
  <1>5. \A i \in 1..(n + 1) : i < k => i \in 1..n /\ s[i] = p[i]
    BY <1>1, <1>2, <1>4
  <1>6. \A i \in 1..(n + 1) : i > k => i - 1 \in 1..n /\ s[i] = p[i - 1]
    BY <1>1, <1>2, <1>4
  <1>7. s[k] = e
    BY <1>1, <1>2, <1>4
  <1>8. IsInjective(s)
    <2>1. SUFFICES ASSUME NEW a \in 1..(n + 1), NEW b \in 1..(n + 1), s[a] = s[b] PROVE a = b
      BY <1>3 DEF IsInjective
    <2>2. \A i, j \in 1..n : p[i] = p[j] => i = j
      BY <1>1 DEF IsInjective
    <2>3. \A i \in 1..n : p[i] # e
      BY <1>1
    <2>4. CASE a = k
      <3>1. b = k \/ b < k \/ b > k
        BY <1>1, <1>4
      <3> QED BY <1>5, <1>6, <1>7, <2>1, <2>3, <2>4, <3>1
    <2>5. CASE b = k
      <3>1. a = k \/ a < k \/ a > k
        BY <1>1, <1>4
      <3> QED BY <1>5, <1>6, <1>7, <2>1, <2>3, <2>5, <3>1
    <2>6. CASE a < k /\ b < k
      BY <1>5, <2>1, <2>2, <2>6
    <2>7. CASE a < k /\ b > k
      <3>1. a = b - 1
        BY <1>5, <1>6, <2>1, <2>2, <2>7
      <3> QED BY <1>4, <2>7, <3>1
    <2>8. CASE a > k /\ b < k
      <3>1. a - 1 = b
        BY <1>5, <1>6, <2>1, <2>2, <2>8
      <3> QED BY <1>4, <2>8, <3>1
    <2>9. CASE a > k /\ b > k
      <3>1. a - 1 = b - 1
        BY <1>6, <2>1, <2>2, <2>9
      <3> QED BY <3>1
    <2> QED BY <1>1, <1>4, <2>4, <2>5, <2>6, <2>7, <2>8, <2>9
  <1>9. Range(s) = R \cup {e}
    <2>1. Range(s) \subseteq R \cup {e}
      <3>1. SUFFICES ASSUME NEW i \in 1..(n + 1) PROVE s[i] \in R \cup {e}
        BY <1>3
      <3>2. i = k \/ i < k \/ i > k
        BY <1>1, <1>4
      <3> QED BY <1>1, <1>5, <1>6, <1>7, <3>2
    <2>2. ASSUME NEW i \in 1..n PROVE p[i] \in Range(s)
      <3>1. CASE i < k
        <4>1. i \in 1..(n + 1)
          BY <1>1
        <4> QED BY <1>3, <1>5, <3>1, <4>1
      <3>2. CASE ~(i < k)
        <4>1. i + 1 \in 1..(n + 1) /\ i + 1 > k /\ (i + 1) - 1 = i
          BY <1>1, <1>4, <3>2
        <4>2. s[i + 1] = p[i]
          BY <1>6, <4>1
        <4> QED BY <1>3, <4>1, <4>2
      <3> QED BY <3>1, <3>2
    <2>3. e \in Range(s)
      BY <1>3, <1>4, <1>7
    <2> QED BY <1>1, <2>1, <2>2, <2>3
  <1> QED BY <1>2, <1>8, <1>9 DEF OrderOf, s, n

\* Every order with another room in it is made so.
LEMMA InsertInverse ==
  ASSUME NEW R, NEW e \in Stop, e \notin R, NEW s, OrderOf(s, R \cup {e})
  PROVE  \E p : OrderOf(p, R) /\ \E k \in 1..(Len(p) + 1) : s = InsertAt(p, k, e)
  <1>1. /\ s \in Seq(Stop) /\ IsInjective(s) /\ Len(s) \in Nat /\ DOMAIN s = 1..Len(s)
        /\ R \cup {e} = {s[i] : i \in 1..Len(s)}
    BY LenProperties, RangeEquality DEF OrderOf
  <1>2. PICK k \in 1..Len(s) : s[k] = e
    <2>1. e \in R \cup {e}
      OBVIOUS
    <2> QED BY <1>1, <2>1
  <1> DEFINE n == Len(s) - 1
  <1>3. n \in Nat /\ n + 1 = Len(s) /\ k \in 1..(n + 1) /\ k \in Nat
    BY <1>1, <1>2
  <1> HIDE DEF n
  <1>0. PICK p : p = [i \in 1..n |-> IF i < k THEN s[i] ELSE s[i + 1]]
    OBVIOUS
  <1>4. \A i \in 1..Len(s) : s[i] \in Stop
    BY <1>1, ElementOfSeq
  <1>5. \A i \in 1..n : /\ i \in 1..Len(s) /\ i + 1 \in 1..Len(s)
                        /\ p[i] = IF i < k THEN s[i] ELSE s[i + 1]
    BY <1>0, <1>3
  <1>6. p \in Seq(Stop) /\ Len(p) = n
    <2>1. \A i \in 1..n : p[i] \in Stop
      BY <1>4, <1>5
    <2>2. p \in [1..n -> Stop]
      BY <1>0, <2>1
    <2>3. p \in Seq(Stop)
      BY <1>3, <2>2, SeqDef
    <2>4. DOMAIN p = 1..n /\ DOMAIN p = 1..Len(p) /\ Len(p) \in Nat
      BY <2>2, <2>3, LenProperties
    <2>5. \A a, b \in Nat : 1..a = 1..b => a = b
      <3>1. SUFFICES ASSUME NEW a \in Nat, NEW b \in Nat, 1..a = 1..b PROVE a = b
        OBVIOUS
      <3>2. (a # 0 => a \in 1..b) /\ (b # 0 => b \in 1..a)
        <4>1. (a # 0 => a \in 1..a) /\ (b # 0 => b \in 1..b)
          OBVIOUS
        <4> QED BY <3>1, <4>1
      <3> QED BY <3>2
    <2> QED BY <1>3, <2>3, <2>4, <2>5
  <1>7. DOMAIN p = 1..n /\ Range(p) = {p[i] : i \in 1..n}
    BY <1>6, LenProperties, RangeEquality
  <1>8. \A i, j \in 1..Len(s) : s[i] = s[j] => i = j
    BY <1>1 DEF IsInjective
  <1>9. IsInjective(p)
    <2>1. SUFFICES ASSUME NEW a \in 1..n, NEW b \in 1..n, p[a] = p[b] PROVE a = b
      BY <1>7 DEF IsInjective
    <2>2. CASE a < k /\ b < k
      BY <1>5, <1>8, <2>1, <2>2
    <2>3. CASE a < k /\ ~(b < k)
      <3>1. a = b + 1
        BY <1>5, <1>8, <2>1, <2>3
      <3> QED BY <1>3, <2>3, <3>1
    <2>4. CASE ~(a < k) /\ b < k
      <3>1. a + 1 = b
        BY <1>5, <1>8, <2>1, <2>4
      <3> QED BY <1>3, <2>4, <3>1
    <2>5. CASE ~(a < k) /\ ~(b < k)
      <3>1. a + 1 = b + 1
        BY <1>5, <1>8, <2>1, <2>5
      <3> QED BY <3>1
    <2> QED BY <2>2, <2>3, <2>4, <2>5
  <1>10. Range(p) = R
    <2>1. ASSUME NEW i \in 1..n PROVE p[i] \in R
      <3>1. CASE i < k
        <4>1. p[i] = s[i] /\ i # k
          BY <1>3, <1>5, <3>1
        <4>2. s[i] # e /\ s[i] \in R \cup {e}
          BY <1>1, <1>2, <1>5, <1>8, <4>1
        <4> QED BY <4>1, <4>2
      <3>2. CASE ~(i < k)
        <4>1. p[i] = s[i + 1] /\ i + 1 # k
          BY <1>3, <1>5, <3>2
        <4>2. s[i + 1] # e /\ s[i + 1] \in R \cup {e}
          BY <1>1, <1>2, <1>5, <1>8, <4>1
        <4> QED BY <4>1, <4>2
      <3> QED BY <3>1, <3>2
    <2>2. ASSUME NEW x \in R PROVE x \in Range(p)
      <3>1. PICK j \in 1..Len(s) : s[j] = x
        BY <1>1
      <3>2. j # k
        BY <1>2, <3>1
      <3>3. CASE j < k
        <4>1. j \in 1..n /\ p[j] = s[j]
          BY <1>3, <1>5, <3>3
        <4> QED BY <1>7, <3>1, <4>1
      <3>4. CASE j > k
        <4>1. j - 1 \in 1..n /\ ~(j - 1 < k) /\ (j - 1) + 1 = j
          BY <1>3, <3>4
        <4>2. p[j - 1] = s[j]
          BY <1>5, <4>1
        <4> QED BY <1>7, <3>1, <4>1, <4>2
      <3> QED BY <1>3, <3>2, <3>3, <3>4
    <2> QED BY <1>7, <2>1, <2>2
  <1>11. s = InsertAt(p, k, e)
    <2> DEFINE t == InsertAt(p, k, e)
    <2>1. k \in 1..(Len(p) + 1)
      BY <1>3, <1>6
    <2>2. /\ t \in Seq(Stop) /\ Len(t) = n + 1
          /\ \A i \in 1..(n + 1) : t[i] = IF i < k THEN p[i] ELSE IF i = k THEN e ELSE p[i - 1]
      <3>1. /\ t \in Seq(Stop) /\ Len(t) = Len(p) + 1
            /\ \A i \in 1..(Len(p) + 1) : t[i] = IF i < k THEN p[i] ELSE IF i = k THEN e ELSE p[i - 1]
        <4>1. p \in Seq(Stop)
          BY <1>6
        <4> QED BY <2>1, <4>1, Insertion
      <3> HIDE DEF t
      <3> QED BY <1>6, <3>1
    <2> HIDE DEF t
    <2>3. ASSUME NEW i \in 1..(n + 1) PROVE s[i] = t[i]
      <3>1. CASE i < k
        <4>1. i \in 1..n
          BY <1>3, <3>1
        <4> QED BY <1>5, <2>2, <3>1, <4>1
      <3>2. CASE i = k
        BY <1>2, <1>3, <2>2, <3>2
      <3>3. CASE i > k
        <4>1. i - 1 \in 1..n /\ ~(i - 1 < k) /\ (i - 1) + 1 = i
          BY <1>3, <3>3
        <4>2. t[i] = p[i - 1]
          BY <1>3, <2>2, <3>3
        <4> QED BY <1>5, <4>1, <4>2
      <3> QED BY <1>3, <3>1, <3>2, <3>3
    <2>4. s = t
      BY <1>1, <1>3, <2>2, <2>3, SeqEqual
    <2> QED BY <2>4 DEF t
  <1>12. OrderOf(p, R)
    BY <1>6, <1>9, <1>10 DEF OrderOf
  <1>13. k \in 1..(Len(p) + 1)
    BY <1>3, <1>6
  <1> QED BY <1>11, <1>12, <1>13

\* e at every place of every order in v.
Placed(v, e) ==
  FlattenSeq([j \in DOMAIN v |-> [k \in 1..(Len(v[j]) + 1) |-> InsertAt(v[j], k, e)]])

\* v lists the orders of R, which has m elements, and all of them.
AllOrders(v, R, m) ==
  /\ v \in Seq(Seq(Stop))
  /\ \A p \in Range(v) : OrderOf(p, R) /\ Len(p) = m
  /\ \A p : OrderOf(p, R) => p \in Range(v)

\* What is placed is exactly the orders with the room at some place.
LEMMA PlacedIs ==
  ASSUME NEW v \in Seq(Seq(Stop)), NEW e \in Stop
  PROVE  /\ Placed(v, e) \in Seq(Seq(Stop))
         /\ \A s : s \in Range(Placed(v, e)) <=>
              \E p \in Range(v) : \E k \in 1..(Len(p) + 1) : s = InsertAt(p, k, e)
  <1> DEFINE n == Len(v)
             places(p) == [k \in 1..(Len(p) + 1) |-> InsertAt(p, k, e)]
             ss == [j \in 1..n |-> places(v[j])]
  <1>1. n \in Nat /\ DOMAIN v = 1..n /\ Range(v) = {v[j] : j \in 1..n} /\ \A j \in 1..n : v[j] \in Seq(Stop)
    BY LenProperties, RangeEquality, ElementOfSeq
  <1>2. ASSUME NEW p \in Seq(Stop)
        PROVE  /\ places(p) \in Seq(Seq(Stop))
               /\ \A s : s \in Range(places(p)) <=> \E k \in 1..(Len(p) + 1) : s = InsertAt(p, k, e)
    <2>1. Len(p) \in Nat
      BY LenProperties
    <2>2. \A k \in 1..(Len(p) + 1) : InsertAt(p, k, e) \in Seq(Stop)
      BY Insertion
    <2>3. places(p) \in [1..(Len(p) + 1) -> Seq(Stop)]
      BY <2>2
    <2>4. Len(p) + 1 \in Nat
      BY <2>1
    <2>5. places(p) \in Seq(Seq(Stop))
      <3> HIDE DEF places
      <3> QED BY <2>3, <2>4, SeqDef
    <2>6. Range(places(p)) = {places(p)[k] : k \in 1..(Len(p) + 1)}
      BY DEF Range
    <2> QED BY <2>5, <2>6
  <1>3. ss \in Seq(Seq(Seq(Stop))) /\ Len(ss) = n
    <2>1. ss \in [1..n -> Seq(Seq(Stop))]
      <3>1. \A j \in 1..n : places(v[j]) \in Seq(Seq(Stop))
        <4> HIDE DEF places
        <4> QED BY <1>1, <1>2
      <3> HIDE DEF places
      <3> QED BY <3>1
    <2>2. Len(ss) = n
      BY <1>1
    <2>3. n \in Nat
      BY <1>1
    <2> HIDE DEF ss, n
    <2>4. ss \in Seq(Seq(Seq(Stop)))
      BY <2>1, <2>3, SeqDef
    <2> QED BY <2>2, <2>4
  <1>4. Placed(v, e) = FlattenSeq(ss)
    BY <1>1 DEF Placed
  <1>5. \A j \in 1..n : ss[j] = places(v[j])
    OBVIOUS
  <1> HIDE DEF n, ss, places
  <1>6. /\ FlattenSeq(ss) \in Seq(Seq(Stop))
        /\ Range(FlattenSeq(ss)) = UNION {Range(ss[j]) : j \in 1..n}
    BY <1>3, Flattened
  <1>7. ASSUME NEW s
        PROVE  s \in Range(Placed(v, e)) <=>
                 \E p \in Range(v) : \E k \in 1..(Len(p) + 1) : s = InsertAt(p, k, e)
    <2>1. s \in Range(Placed(v, e)) <=> \E j \in 1..n : s \in Range(places(v[j]))
      BY <1>4, <1>5, <1>6
    <2>2. (\E j \in 1..n : s \in Range(places(v[j]))) <=> \E p \in Range(v) : s \in Range(places(p))
      BY <1>1
    <2>3. \A p \in Range(v) : p \in Seq(Stop)
      BY <1>1
    <2> QED BY <1>2, <2>1, <2>2, <2>3
  <1> QED BY <1>4, <1>6, <1>7

\* From all orders of some rooms, all orders of one room more.
LEMMA PlacedAll ==
  ASSUME NEW v, NEW R, NEW m \in Nat, AllOrders(v, R, m), NEW e \in Stop, e \notin R
  PROVE  AllOrders(Placed(v, e), R \cup {e}, m + 1)
  <1>1. v \in Seq(Seq(Stop))
    BY DEF AllOrders
  <1>2. ASSUME NEW s \in Range(Placed(v, e)) PROVE OrderOf(s, R \cup {e}) /\ Len(s) = m + 1
    <2>0. PICK p \in Range(v) : \E k \in 1..(Len(p) + 1) : s = InsertAt(p, k, e)
      BY <1>1, <1>2, PlacedIs
    <2>1. PICK k \in 1..(Len(p) + 1) : s = InsertAt(p, k, e)
      BY <2>0
    <2>2. OrderOf(p, R) /\ Len(p) = m
      BY DEF AllOrders
    <2>3. OrderOf(InsertAt(p, k, e), R \cup {e}) /\ Len(InsertAt(p, k, e)) = Len(p) + 1
      BY <2>2, InsertOrders
    <2> QED BY <2>1, <2>2, <2>3
  <1>3. ASSUME NEW s, OrderOf(s, R \cup {e}) PROVE s \in Range(Placed(v, e))
    <2>1. PICK p : OrderOf(p, R) /\ \E k \in 1..(Len(p) + 1) : s = InsertAt(p, k, e)
      BY <1>3, InsertInverse
    <2>2. p \in Range(v)
      BY <2>1 DEF AllOrders
    <2> QED BY <1>1, <2>1, <2>2, PlacedIs
  <1>4. Placed(v, e) \in Seq(Seq(Stop))
    BY <1>1, PlacedIs
  <1> QED BY <1>2, <1>3, <1>4 DEF AllOrders

\* The recursion of getPermutations.
Permuting(a, f) ==
  [i \in 1..(Len(a) + 1) |-> IF i > Len(a) THEN << <<>> >> ELSE Placed(f[i + 1], a[i])]

\* It has a value.
LEMMA PermutingExists ==
  ASSUME NEW a \in Seq(Stop)
  PROVE  \E f : f = Permuting(a, f)
  <1> DEFINE n == Len(a)
             V == Seq(Seq(Stop))
             G == [m \in 1..n |-> [v \in V |-> Placed(v, a[n + 1 - m])]]
  <1>1. n \in Nat /\ \A i \in 1..n : a[i] \in Stop
    BY LenProperties, ElementOfSeq
  <1>2. << <<>> >> \in V
    BY EmptySeq
  <1>3. G \in [1..n -> [V -> V]]
    <2>1. ASSUME NEW m \in 1..n, NEW v \in V PROVE Placed(v, a[n + 1 - m]) \in V
      <3>1. n + 1 - m \in 1..n
        BY <1>1
      <3> QED BY <1>1, <3>1, PlacedIs
    <2> QED BY <2>1
  <1>4. \A m \in 1..n, v \in V : G[m][v] = Placed(v, a[n + 1 - m])
    OBVIOUS
  <1> HIDE DEF n, V, G
  <1>5. PICK it : Folded(n, V, << <<>> >>, G, it)
    BY <1>1, <1>2, <1>3, FoldExists
  <1>6. /\ it[1..0] = << <<>> >>
        /\ \A j \in 0..n : it[1..j] \in V
        /\ \A j \in 0..(n - 1) : it[1..(j + 1)] = G[j + 1][it[1..j]]
    BY <1>1, <1>2, <1>3, <1>5, FoldSteps
  <1> DEFINE f == [i \in 1..(n + 1) |-> it[1..(n + 1 - i)]]
  <1>7. ASSUME NEW i \in 1..(n + 1) PROVE f[i] = Permuting(a, f)[i]
    <2>1. CASE i > n
      <3>1. n + 1 - i = 0
        BY <1>1, <2>1
      <3>2. f[i] = << <<>> >>
        BY <1>6, <3>1
      <3> HIDE DEF f
      <3> QED BY <2>1, <3>2 DEF Permuting, n
    <2>2. CASE ~(i > n)
      <3>1. /\ n - i \in 0..(n - 1) /\ n - i \in 0..n /\ (n - i) + 1 = n + 1 - i /\ i + 1 \in 1..(n + 1)
            /\ n + 1 - (i + 1) = n - i /\ (n - i) + 1 \in 1..n /\ n + 1 - ((n - i) + 1) = i
        BY <1>1, <2>2
      <3>2. f[i] = it[1..((n - i) + 1)] /\ f[i + 1] = it[1..(n - i)]
        BY <3>1
      <3>3. it[1..((n - i) + 1)] = Placed(it[1..(n - i)], a[i])
        BY <1>4, <1>6, <3>1
      <3> HIDE DEF f
      <3>4. Permuting(a, f)[i] = Placed(f[i + 1], a[i])
        BY <2>2 DEF Permuting, n
      <3> QED BY <3>2, <3>3, <3>4
    <2> QED BY <2>1, <2>2
  <1>8. f = [i \in 1..(n + 1) |-> f[i]] /\ Permuting(a, f) = [i \in 1..(n + 1) |-> Permuting(a, f)[i]]
    BY DEF Permuting, n
  <1> HIDE DEF f
  <1>9. f = Permuting(a, f)
    BY <1>7, <1>8
  <1> QED BY <1>9

\* getPermutations (tsp.js) lists every order of the requested rooms.
THEOREM Permuted ==
  ASSUME NEW a \in Seq(Stop), IsInjective(a)
  PROVE  AllOrders(GetPermutations(a), Range(a), Len(a))
  <1> DEFINE n == Len(a)
             f == CHOOSE g : g = Permuting(a, g)
             Behind(m) == {a[j] : j \in (n + 1 - m)..n}
  <1>1. /\ n \in Nat /\ DOMAIN a = 1..n /\ Range(a) = {a[i] : i \in 1..n}
        /\ \A i \in 1..n : a[i] \in Stop
    BY LenProperties, RangeEquality, ElementOfSeq
  <1>2. f = Permuting(a, f)
    BY PermutingExists
  <1>3. GetPermutations(a) = f[1]
    BY DEF GetPermutations, Permuting, Placed
  <1>4. ASSUME NEW i \in 1..(n + 1)
        PROVE  f[i] = IF i > n THEN << <<>> >> ELSE Placed(f[i + 1], a[i])
    <2> HIDE DEF f
    <2>1. f[i] = Permuting(a, f)[i]
      BY <1>2
    <2> QED BY <2>1 DEF Permuting
  <1> HIDE DEF f
  <1> DEFINE Z == {m \in Nat : m <= n => AllOrders(f[n + 1 - m], Behind(m), m)}
  <1>5. 0 \in Z
    <2>1. n + 1 \in 1..(n + 1) /\ n + 1 > n /\ n + 1 - 0 = n + 1 /\ Behind(0) = {}
      BY <1>1
    <2>2. f[n + 1] = << <<>> >>
      BY <1>4, <2>1
    <2>3. AllOrders(<< <<>> >>, {}, 0)
      <3>1. << <<>> >> \in Seq(Seq(Stop)) /\ Range(<< <<>> >>) = {<<>>}
        <4>1. <<>> \in Seq(Stop) /\ << <<>> >> \in Seq(Seq(Stop)) /\ Len(<< <<>> >>) = 1 /\ << <<>> >>[1] = <<>>
          BY EmptySeq
        <4>2. Range(<< <<>> >>) = {<< <<>> >>[i] : i \in 1..1}
          BY <4>1, RangeEquality
        <4> QED BY <4>1, <4>2
      <3>2. OrderOf(<<>>, {}) /\ Len(<<>>) = 0
        BY EmptySeq DEF OrderOf, IsInjective, Range
      <3>3. ASSUME NEW p, OrderOf(p, {}) PROVE p = <<>>
        <4>1. p \in Seq(Stop) /\ Range(p) = {}
          BY <3>3 DEF OrderOf
        <4>2. Range(p) = {p[i] : i \in 1..Len(p)} /\ Len(p) \in Nat
          BY <4>1, RangeEquality, LenProperties
        <4>3. Len(p) = 0
          <5>1. Len(p) # 0 => 1 \in 1..Len(p)
            BY <4>2
          <5> QED BY <4>1, <4>2, <5>1
        <4> QED BY <4>1, <4>3, EmptySeq
      <3> QED BY <3>1, <3>2, <3>3 DEF AllOrders
    <2> HIDE DEF Behind
    <2> QED BY <2>1, <2>2, <2>3
  <1>6. ASSUME NEW m \in Nat, m \in Z PROVE m + 1 \in Z
    <2>1. SUFFICES ASSUME m + 1 <= n PROVE AllOrders(f[n + 1 - (m + 1)], Behind(m + 1), m + 1)
      OBVIOUS
    <2> DEFINE i == n - m
    <2>2. /\ i \in 1..n /\ i \in 1..(n + 1) /\ ~(i > n) /\ n + 1 - (m + 1) = i /\ i + 1 = n + 1 - m
          /\ m <= n
      <3>1. n \in Nat
        BY <1>1
      <3> HIDE DEF n
      <3> QED BY <2>1, <3>1
    <2>3. f[i] = Placed(f[n + 1 - m], a[i])
      <3>1. f[i] = Placed(f[i + 1], a[i])
        BY <1>4, <2>2
      <3>2. i + 1 = n + 1 - m
        BY <2>2
      <3> HIDE DEF i, n
      <3> QED BY <3>1, <3>2, Zenon
    <2>4. AllOrders(f[n + 1 - m], Behind(m), m)
      BY <1>6, <2>2
    <2>5. Behind(m + 1) = Behind(m) \cup {a[i]}
      <3>1. i..n = ((i + 1)..n) \cup {i}
        <4> HIDE DEF i, n
        <4> QED BY <1>1, <2>2
      <3>2. (n + 1 - (m + 1))..n = ((n + 1 - m)..n) \cup {i}
        <4> HIDE DEF i
        <4> QED BY <2>2, <3>1, SMTT(30)
      <3> QED BY <3>2
    <2>6. a[i] \in Stop /\ a[i] \notin Behind(m)
      <3>1. \A j \in (n + 1 - m)..n : j \in 1..n /\ j # i
        <4>1. n \in Nat
          BY <1>1
        <4> HIDE DEF n
        <4> QED BY <2>1, <4>1, SMTT(30)
      <3>2. \A j \in 1..n : a[j] = a[i] => j = i
        BY <1>1, <2>2 DEF IsInjective
      <3> QED BY <1>1, <2>2, <3>1, <3>2
    <2> HIDE DEF Behind, i
    <2> QED BY <2>2, <2>3, <2>4, <2>5, <2>6, PlacedAll
  <1>7. n \in Z
    <2> HIDE DEF Z
    <2> QED BY <1>1, <1>5, <1>6, InductionSet
  <1>8. n + 1 - n = 1 /\ Behind(n) = Range(a)
    <2>1. n + 1 - n = 1
      BY <1>1
    <2> QED BY <1>1, <2>1
  <1>9. n <= n
    BY <1>1
  <1> HIDE DEF Behind
  <1> QED BY <1>3, <1>7, <1>8, <1>9

-----------------------------------------------------------------------------
(***************************************************************************)
(* POST /tsp-path: the invariant.                                          *)
(***************************************************************************)
\* The shortest legs over the order p add up to v.
Priced(p, v) == \E c : Costs(p, c) /\ c[Len(p)] = v

\* q is a walk of length v from the visitor through all the rooms of the request.
Answer(q, v) ==
  /\ q \in Seq(Start) /\ q # <<>> /\ q[1] = start
  /\ Last(q) \in Stops /\ Stops \subseteq Range(q)
  /\ Measured(q, v) /\ Len(q) <= 1 + MaxStops * Cardinality(Node)

\* The request, as the endpoint takes it.
Asked ==
  /\ weight \in [Passage -> Weight] /\ start \in Start
  /\ nodes \in Seq(Stop) /\ nodes # <<>> /\ IsInjective(nodes) /\ Len(nodes) <= MaxStops

\* What is still to be costed, and what is the best of the orders costed so far.
Best ==
  /\ perms \in Seq(Seq(Stop))
  /\ \A p \in Range(perms) : OrderOf(p, Stops) /\ Len(p) = Len(nodes)
  /\ shortestDistance \in 0..Infinity /\ shortestPath \in Seq(Start)
  /\ shortestPath = <<>> => shortestDistance = Infinity
  /\ shortestPath # <<>> => Answer(shortestPath, shortestDistance)
  /\ \A p : OrderOf(p, Stops) =>
       \/ p \in Range(perms)
       \/ shortestPath # <<>> /\ \A v : Priced(p, v) => shortestDistance <= v

\* The leg being searched.
Searching ==
  /\ pc \in {"leg", "search", "walk"} => Progress
  /\ pc \in {"search", "walk"} => leg <= Len(Head(perms)) /\ Tables
  /\ pc = "search" => Scan
  /\ pc = "walk" => Settled /\ BackWalk
  /\ pc = "done" => perms = <<>>

\* The inductive invariant of tsp.js.
TourInv == TypeOK /\ Asked /\ current \in Node \cup {start} /\ Best /\ Searching

\* What the request asks for does not change with the search.
LEMMA RequestFixed ==
  ASSUME UNCHANGED request
  PROVE  /\ Asked' <=> Asked
         /\ Stops' = Stops
         /\ \A q, v : Answer(q, v)' <=> Answer(q, v)
         /\ \A p, v : Priced(p, v)' <=> Priced(p, v)
  <1>1. UNCHANGED weight /\ UNCHANGED <<weight, start>> /\ UNCHANGED <<weight, start, nodes>>
    BY DEF request
  <1>2. Stops' = Stops /\ (Asked' <=> Asked)
    BY <1>1 DEF Stops, Asked
  <1>3. ASSUME NEW q, NEW v PROVE Answer(q, v)' <=> Answer(q, v)
    <2>1. Measured(q, v)' <=> Measured(q, v)
      BY <1>1, MeasuredFixed
    <2> QED BY <1>1, <1>2, <2>1 DEF Answer
  <1>4. ASSUME NEW p, NEW v PROVE Priced(p, v)' <=> Priced(p, v)
    <2>1. \A c : Costs(p, c)' <=> Costs(p, c)
      BY <1>1, CostsFixed
    <2> QED BY <2>1 DEF Priced
  <1> QED BY <1>2, <1>3, <1>4

\* The parts of the invariant depend on the variables they name only.
LEMMA BestFixed ==
  ASSUME UNCHANGED <<request, best, perms>>
  PROVE  Best' <=> Best
  <1>1. UNCHANGED request /\ UNCHANGED <<nodes, perms, shortestDistance, shortestPath>>
    BY DEF request, best
  <1>2. /\ Stops' = Stops
        /\ \A q, v : Answer(q, v)' <=> Answer(q, v)
        /\ \A p, v : Priced(p, v)' <=> Priced(p, v)
    BY <1>1, RequestFixed
  <1>3. Answer(shortestPath, shortestDistance)' <=> Answer(shortestPath, shortestDistance)
    <2>1. UNCHANGED <<weight, start>>
      BY <1>1 DEF request
    <2>2. Measured(shortestPath, shortestDistance)' <=> Measured(shortestPath, shortestDistance)
      BY <1>1, <2>1 DEF Measured, Metered, Neighbors
    <2>3. Last(shortestPath)' = Last(shortestPath) /\ Range(shortestPath)' = Range(shortestPath)
      BY <1>1 DEF Last, Range
    <2> QED BY <1>1, <1>2, <2>1, <2>2, <2>3 DEF Answer
  <1> QED BY <1>1, <1>2, <1>3 DEF Best

LEMMA ProgressFixed ==
  ASSUME UNCHANGED <<request, order>>
  PROVE  Progress' <=> Progress
  <1>1. /\ UNCHANGED <<weight, start, perms, leg, total, fullPath, current>>
        /\ UNCHANGED <<weight, start>>
    BY DEF request, order
  <1>2. Route' = Route /\ LegMost' = LegMost
    BY <1>1 DEF Route, LegMost
  <1>3. Measured(Route, total)' <=> Measured(Route, total)
    BY <1>1, <1>2 DEF Measured, Metered, Neighbors
  <1>4. ASSUME NEW c PROVE Costs(Head(perms), c)' <=> Costs(Head(perms), c)
    BY <1>1, DeltaFixed DEF Costs
  <1>5. Last(Route)' = Last(Route) /\ Range(Route)' = Range(Route)
    BY <1>2 DEF Last, Range
  <1> QED BY <1>1, <1>2, <1>3, <1>4, <1>5 DEF Progress

LEMMA TablesFixed ==
  ASSUME UNCHANGED <<weight, current, search>>
  PROVE  (Tables' <=> Tables) /\ (Scan' <=> Scan) /\ (Settled' <=> Settled)
  <1>1. UNCHANGED <<weight, current, distances, parents, visited, here>> /\ UNCHANGED weight
    BY DEF search
  <1>2. Delta(current)' = Delta(current)
    BY <1>1, DeltaFixed
  <1> QED BY <1>1, <1>2 DEF Tables, Scan, Settled, Neighbors

LEMMA BackWalkFixed ==
  ASSUME UNCHANGED <<weight, order, search, back>>
  PROVE  BackWalk' <=> BackWalk
  <1>1. UNCHANGED <<weight, perms, leg, current, distances, cursor, legPath>>
    BY DEF order, search, back
  <1>2. Stepwise(<<cursor>> \o legPath)' <=> Stepwise(<<cursor>> \o legPath)
    BY <1>1 DEF Stepwise, Neighbors
  <1>3. Last(<<cursor>> \o legPath)' = Last(<<cursor>> \o legPath)
    BY <1>1 DEF Last
  <1> QED BY <1>1, <1>2, <1>3 DEF BackWalk, RoomWalk, NameWalk, Target

\* Where nothing changes the invariant stays.
LEMMA TourFixed ==
  ASSUME TourInv, UNCHANGED vars
  PROVE  TourInv'
  <1>1. /\ UNCHANGED <<request, order, search, back, best, pc>> /\ UNCHANGED request
        /\ UNCHANGED <<request, best, perms>> /\ UNCHANGED <<request, order>>
        /\ UNCHANGED <<weight, current, search>> /\ UNCHANGED <<weight, order, search, back>>
        /\ UNCHANGED <<pc, perms, leg, start, current>>
    BY DEF vars, request, order, search, back
  <1>2. TypeOK'
    BY <1>1 DEF TourInv, TypeOK, request, order, search, back, best
  <1>3. Asked' /\ Best'
    BY <1>1, RequestFixed, BestFixed DEF TourInv
  <1>4. Searching'
    <2>1. /\ Progress' <=> Progress
          /\ (Tables' <=> Tables) /\ (Scan' <=> Scan) /\ (Settled' <=> Settled)
          /\ BackWalk' <=> BackWalk
      BY <1>1, ProgressFixed, TablesFixed, BackWalkFixed
    <2> QED BY <1>1, <2>1 DEF TourInv, Searching
  <1> QED BY <1>1, <1>2, <1>3, <1>4 DEF TourInv

\* Rooms are starts, and "undefined" is none.
LEMMA StartIs == Start = Node \cup {Elsewhere} /\ From \subseteq Start /\ Undefined \notin Start /\ Node \subseteq Start
           /\ Stop \subseteq Start \cup {Unknown}
  BY TspAssumption DEF Start, Stop, Undefined

\* The call begins with the invariant: the orders to be costed are all there are.
LEMMA TourInit == Init => TourInv
  <1> SUFFICES ASSUME Init PROVE TourInv
    OBVIOUS
  <1>1. /\ weight \in [Passage -> Weight] /\ start \in From /\ start \in Start /\ nodes \in Requests
        /\ perms = GetPermutations(nodes)
        /\ leg = 1 /\ total = 0 /\ fullPath = <<>> /\ current = start
        /\ distances = [n \in Start |-> Infinity] /\ parents = [n \in Start |-> Undefined]
        /\ visited = {} /\ here = start /\ cursor = Undefined /\ legPath = <<>>
        /\ shortestDistance = Infinity /\ shortestPath = <<>> /\ pc = "permutation"
    BY StartIs DEF Init
  <1>2. nodes \in Seq(Stop) /\ nodes # <<>> /\ IsInjective(nodes) /\ Len(nodes) <= MaxStops
    <2>1. nodes \in UNION {[1..m -> Stop] : m \in 0..MaxStops} /\ nodes # <<>> /\ IsInjective(nodes)
      BY <1>1 DEF Requests, BoundedSeq, SeqOf
    <2>2. PICK m \in 0..MaxStops : nodes \in [1..m -> Stop]
      BY <2>1
    <2>3. m \in Nat /\ m <= MaxStops
      BY TspAssumption
    <2>4. nodes \in Seq(Stop)
      BY <2>2, <2>3, SeqDef
    <2>5. Len(nodes) = m
      BY <2>2, <2>3
    <2> QED BY <2>1, <2>3, <2>4, <2>5
  <1>3. AllOrders(perms, Stops, Len(nodes))
    BY <1>1, <1>2, Permuted DEF Stops
  <1>4. Asked
    BY <1>1, <1>2 DEF Asked
  <1>5. Infinity \in Nat /\ MaxStops \in Nat /\ Infinity \in 0..Infinity /\ 0 \in 0..Infinity
    BY InfinityIsNat, TspAssumption
  <1>6. Best
    <2>1. shortestDistance \in 0..Infinity /\ shortestPath \in Seq(Start)
      BY <1>1, <1>5, EmptySeq
    <2> QED BY <1>1, <1>3, <2>1 DEF Best, AllOrders
  <1>7. TypeOK
    <2>1. fullPath \in Seq(Node) /\ legPath \in Seq(Stop) /\ shortestPath \in Seq(Start)
      BY <1>1, EmptySeq
    <2>2. perms \in Seq(Seq(Stop)) /\ leg \in 1..MaxStops + 1
      BY <1>1, <1>3, <1>5 DEF AllOrders
    <2>3. distances \in [Start -> Distance] /\ parents \in [Start -> Start \cup {Undefined}]
      BY <1>1, <1>5 DEF Distance
    <2> QED BY <1>1, <1>2, <1>5, <2>1, <2>2, <2>3 DEF TypeOK, Distance
  <1>8. Searching
    BY <1>1 DEF Searching
  <1> QED BY <1>1, <1>4, <1>6, <1>7, <1>8 DEF TourInv

\* An order's first leg begins at the visitor.
LEMMA FirstLeg ==
  ASSUME TourInv, NextPermutation, perms # <<>>
  PROVE  Progress'
  <1> DEFINE p == Head(perms)
  <1>1. /\ leg' = 1 /\ total' = 0 /\ fullPath' = <<>> /\ current' = start
        /\ UNCHANGED perms /\ UNCHANGED <<weight, start>>
    BY DEF NextPermutation, request
  <1>2. start \in Start /\ p \in Seq(Stop) /\ Len(p) \in Nat /\ Cardinality(Node) \in Nat /\ LegMost \in Nat
    BY HeaviestIs, HeadTailProperties, LenProperties DEF TourInv, Asked, Best
  <1>3. Route' = <<start>>
    <2>1. <<start>> \o <<>> = <<start>>
      BY <1>2, ConcatEmptySeq
    <2> QED BY <1>1, <2>1 DEF Route
  <1>4. Last(Route)' = start
    <2>1. Last(Route)' = Last(Route')
      BY DEF Last
    <2> QED BY <1>3, <2>1 DEF Last
  <1>5. Measured(Route, total)'
    <2>1. Metered(<<start>>, [i \in 1..1 |-> 0])
      BY DEF Metered
    <2>2. Len(<<start>>) = 1
      OBVIOUS
    <2>3. Measured(<<start>>, 0)
      BY <2>1, <2>2 DEF Measured
    <2>4. Measured(<<start>>, 0)'
      BY <1>1, <2>3 DEF Measured, Metered, Neighbors
    <2> QED BY <1>1, <1>3, <2>4 DEF Measured, Metered, Neighbors
  <1>6. \A c : Costs(Head(perms), c)' => c[leg' - 1] = total'
    BY <1>1 DEF Costs
  <1>7. LegMost' = LegMost /\ Len(<<>>) = 0 /\ 0 <= 0 * Cardinality(Node) /\ 0 <= 0 * LegMost /\ 1 - 1 = 0
        /\ 1..0 = {} /\ <<>> \in Seq(Node)
    BY <1>2, Times, EmptySeq DEF LegMost
  <1>8. Head(perms)' = p /\ 1 \in 1..(Len(p) + 1) /\ perms' # <<>>
    BY <1>1, <1>2
  <1> HIDE DEF p
  <1> QED BY <1>1, <1>4, <1>5, <1>6, <1>7, <1>8 DEF Progress

\* Taking the next order keeps the invariant.
LEMMA NextPermutationInv ==
  ASSUME TourInv, NextPermutation
  PROVE  TourInv'
  <1>1. /\ UNCHANGED <<request, search, back, best>> /\ UNCHANGED request /\ UNCHANGED perms
        /\ UNCHANGED <<request, best, perms>> /\ UNCHANGED <<weight, start, nodes>>
        /\ perms = <<>> => pc' = "done" /\ UNCHANGED order
        /\ perms # <<>> => /\ pc' = "leg" /\ leg' = 1 /\ total' = 0 /\ fullPath' = <<>> /\ current' = start
    BY DEF NextPermutation, order, request
  <1>2. Asked' /\ Best'
    BY <1>1, RequestFixed, BestFixed DEF TourInv
  <1>3. current' \in Node \cup {start'} /\ start' = start
    BY <1>1 DEF TourInv, order
  <1>4. TypeOK'
    <2>1. /\ leg' \in 1..MaxStops + 1 /\ total' \in Distance /\ fullPath' \in Seq(Node)
          /\ current' \in Start
      <3>1. CASE perms = <<>>
        BY <1>1, <3>1 DEF TourInv, TypeOK, order
      <3>2. CASE perms # <<>>
        <4>1. MaxStops \in Nat /\ Infinity \in Nat /\ <<>> \in Seq(Node) /\ start \in Start
          BY InfinityIsNat, EmptySeq, TspAssumption DEF TourInv, Asked
        <4>2. 1 \in 1..MaxStops + 1 /\ 0 \in Distance
          BY <4>1 DEF Distance
        <4> QED BY <1>1, <3>2, <4>1, <4>2
      <3> QED BY <3>1, <3>2
    <2>2. pc' \in {"permutation", "leg", "search", "walk", "done"}
      BY <1>1
    <2> QED BY <1>1, <2>1, <2>2 DEF TourInv, TypeOK, search, back, best
  <1>5. Searching'
    <2>1. CASE perms = <<>>
      BY <1>1, <2>1 DEF Searching
    <2>2. CASE perms # <<>>
      <3>1. Progress'
        BY <2>2, FirstLeg
      <3> QED BY <1>1, <2>2, <3>1 DEF Searching
    <2> QED BY <2>1, <2>2
  <1> QED BY <1>2, <1>3, <1>4, <1>5 DEF TourInv

\* Keeping the cheaper of two keeps the best so far, and an order that is costed
\* need not be considered again.
LEMMA CostedBest ==
  ASSUME TourInv, pc = "leg", leg = Len(Head(perms)) + 1, Costed(total, Route), UNCHANGED request
  PROVE  Best'
  <1> DEFINE p == Head(perms)
  <1>1. /\ Asked /\ Best /\ Progress
        /\ perms \in Seq(Seq(Stop)) /\ perms # <<>>
    BY DEF TourInv, Searching, Best, Progress
  <1>2. /\ Stops' = Stops
        /\ \A q, v : Answer(q, v)' <=> Answer(q, v)
        /\ \A q, v : Priced(q, v)' <=> Priced(q, v)
    BY RequestFixed
  <1>3. /\ perms' = Tail(perms) /\ nodes' = nodes
        /\ total < shortestDistance => shortestDistance' = total /\ shortestPath' = Route
        /\ ~(total < shortestDistance) => UNCHANGED best
    BY DEF Costed, request
  <1>4. /\ Range(perms) = Range(perms') \cup {p} /\ p \in Range(perms) /\ perms' \in Seq(Seq(Stop))
    <2>1. /\ Tail(perms) \in Seq(Seq(Stop)) /\ Len(perms) \in Nat \ {0} /\ Len(Tail(perms)) = Len(perms) - 1
          /\ \A i \in 1..Len(Tail(perms)) : Tail(perms)[i] = perms[i + 1]
      BY <1>1, EmptySeq, HeadTailProperties
    <2>2. Range(Tail(perms)) = {Tail(perms)[i] : i \in 1..Len(Tail(perms))}
      BY <2>1, RangeEquality
    <2>3. Range(perms) = {perms[i] : i \in 1..Len(perms)}
      BY <1>1, RangeEquality
    <2>4. p = perms[1]
      BY <1>1
    <2> HIDE DEF p
    <2>5. ASSUME NEW i \in 1..Len(perms) PROVE perms[i] \in Range(Tail(perms)) \cup {p}
      <3>1. CASE i = 1
        BY <2>4, <3>1
      <3>2. CASE i # 1
        <4>1. i - 1 \in 1..Len(Tail(perms)) /\ (i - 1) + 1 = i
          BY <2>1, <3>2
        <4>2. Tail(perms)[i - 1] = perms[i]
          BY <2>1, <4>1
        <4> QED BY <2>2, <4>1, <4>2
      <3> QED BY <3>1, <3>2
    <2>6. ASSUME NEW i \in 1..Len(Tail(perms)) PROVE Tail(perms)[i] \in Range(perms)
      <3>1. i + 1 \in 1..Len(perms)
        BY <2>1
      <3> QED BY <2>1, <2>3, <3>1
    <2>7. p \in Range(perms)
      <3>1. 1 \in 1..Len(perms)
        BY <2>1
      <3> QED BY <2>3, <2>4, <3>1
    <2> QED BY <1>3, <2>1, <2>2, <2>3, <2>5, <2>6, <2>7
  <1>5. /\ p \in Seq(Stop) /\ Range(p) = Stops /\ Len(p) = Len(nodes) /\ Len(p) \in Nat \ {0}
        /\ Len(p) <= MaxStops /\ leg - 1 = Len(p)
    <2>1. OrderOf(p, Stops) /\ Len(p) = Len(nodes)
      BY <1>1, <1>4 DEF Best
    <2>2. p \in Seq(Stop) /\ Range(p) = Stops
      BY <2>1 DEF OrderOf
    <2>3. Len(p) \in Nat /\ Len(nodes) \in Nat \ {0} /\ Len(nodes) <= MaxStops
      BY <1>1, <2>2, LenProperties, EmptySeq DEF Asked
    <2> QED BY <2>1, <2>2, <2>3
  <1>6. total \in Nat /\ total < Infinity /\ Len(fullPath) <= MaxStops * Cardinality(Node)
    <2>1. total <= Len(p) * LegMost /\ Len(fullPath) <= Len(p) * Cardinality(Node) /\ total \in Nat
          /\ Len(fullPath) \in Nat
      BY <1>1, <1>5, LenProperties DEF Progress
    <2>2. /\ Cardinality(Node) \in Nat /\ LegMost \in Nat /\ MaxStops \in Nat
          /\ Infinity = 1 + MaxStops * LegMost
      BY HeaviestIs
    <2>3. /\ Len(p) * LegMost <= MaxStops * LegMost
          /\ Len(p) * Cardinality(Node) <= MaxStops * Cardinality(Node)
          /\ Len(p) * LegMost \in Nat /\ MaxStops * LegMost \in Nat
          /\ Len(p) * Cardinality(Node) \in Nat /\ MaxStops * Cardinality(Node) \in Nat
      BY <1>5, <2>2, Times, ProductNat
    <2>4. \A a, b, c \in Nat : a <= b /\ b <= c => a <= c /\ a < 1 + c
      OBVIOUS
    <2>5. total < 1 + MaxStops * LegMost
      BY <2>1, <2>3, <2>4
    <2>6. Len(fullPath) <= MaxStops * Cardinality(Node)
      BY <2>1, <2>3, <2>4
    <2> QED BY <2>1, <2>2, <2>5, <2>6
  <1> HIDE DEF p
  <1>7. Answer(Route, total)
    <2>1. /\ fullPath \in Seq(Node) /\ start \in Start
          /\ Last(Route) = current /\ Measured(Route, total)
          /\ \A i \in 1..Len(p) : p[i] \in Range(Route)
          /\ current = IF leg = 1 THEN start ELSE p[leg - 1]
      BY <1>1, <1>5 DEF Progress, Asked, p
    <2>2. Range(p) = {p[i] : i \in 1..Len(p)}
      BY <1>5, RangeEquality
    <2>3. current \in Stops /\ Stops \subseteq Range(Route)
      <3>1. leg # 1 /\ Len(p) \in 1..Len(p)
        BY <1>5
      <3> QED BY <1>5, <2>1, <2>2, <3>1
    <2>4. fullPath \in Seq(Start)
      BY <2>1, StartIs, SeqMonotonic
    <2>5. Route \in Seq(Start) /\ Len(Route) = Len(fullPath) + 1 /\ Len(fullPath) \in Nat /\ Route[1] = start
      BY <2>1, <2>4, Prepend DEF Route
    <2>6. Route # <<>>
      <3>1. Len(<<>>) = 0
        OBVIOUS
      <3> QED BY <2>5, <3>1
    <2>7. Len(Route) <= 1 + MaxStops * Cardinality(Node)
      <3>1. MaxStops * Cardinality(Node) \in Nat
        BY HeaviestIs, ProductNat
      <3> QED BY <1>6, <2>5, <3>1
    <2> QED BY <2>1, <2>3, <2>5, <2>6, <2>7 DEF Answer
  <1>8. \A v : Priced(p, v) => v = total
    <2>1. \A c : Costs(p, c) => c[Len(p)] = total
      BY <1>1, <1>5 DEF Progress, p
    <2> QED BY <2>1 DEF Priced
  <1>9. /\ shortestDistance' \in 0..Infinity /\ shortestPath' \in Seq(Start) /\ shortestPath' # <<>>
        /\ Answer(shortestPath', shortestDistance')
        /\ shortestDistance' <= total /\ (shortestPath # <<>> => shortestDistance' <= shortestDistance)
    <2>1. Infinity \in Nat /\ shortestDistance \in 0..Infinity
      BY <1>1, InfinityIsNat DEF Best
    <2>2. CASE total < shortestDistance
      <3>1. shortestDistance' = total /\ shortestPath' = Route
        BY <1>3, <2>2
      <3>2. Route \in Seq(Start) /\ Route # <<>>
        BY <1>7 DEF Answer
      <3> QED BY <1>6, <1>7, <2>1, <2>2, <3>1, <3>2
    <2>3. CASE ~(total < shortestDistance)
      <3>1. shortestDistance' = shortestDistance /\ shortestPath' = shortestPath
        BY <1>3, <2>3 DEF best
      <3>2. shortestPath # <<>>
        BY <1>1, <1>6, <2>1, <2>3 DEF Best
      <3>3. Answer(shortestPath, shortestDistance) /\ shortestPath \in Seq(Start)
        BY <1>1, <3>2 DEF Best
      <3> QED BY <1>6, <2>1, <2>3, <3>1, <3>2, <3>3
    <2> QED BY <2>2, <2>3
  <1>10. ASSUME NEW q, OrderOf(q, Stops), q \notin Range(perms'), NEW v, Priced(q, v)
         PROVE  shortestDistance' <= v
    <2>1. CASE q = p
      BY <1>8, <1>9, <1>10, <2>1
    <2>2. CASE q # p
      <3>1. q \notin Range(perms)
        BY <1>4, <1>10, <2>2
      <3>2. shortestPath # <<>> /\ shortestDistance <= v
        BY <1>1, <1>10, <3>1 DEF Best
      <3>3. v \in Nat
        <4>1. q \in Seq(Stop)
          BY <1>10 DEF OrderOf
        <4>2. Len(q) \in 0..Len(q)
          BY <4>1, LenProperties
        <4> QED BY <1>10, <4>2 DEF Priced, Costs
      <3>4. shortestDistance' <= shortestDistance
        BY <1>9, <3>2
      <3>5. shortestDistance \in Nat /\ shortestDistance' \in Nat
        BY <1>1, <1>9, InfinityIsNat DEF Best
      <3> QED BY <3>2, <3>3, <3>4, <3>5
    <2> QED BY <2>1, <2>2
  <1> QED
    <2>1. Range(perms)' = Range(perms')
      BY DEF Range
    <2>2. Answer(shortestPath, shortestDistance)'
      <3>1. UNCHANGED <<weight, start>>
        BY DEF request
      <3>2. Measured(shortestPath', shortestDistance')
        BY <1>9 DEF Answer
      <3>3. Measured(shortestPath, shortestDistance)'
        BY <3>1, <3>2 DEF Measured, Metered, Neighbors
      <3>4. Last(shortestPath)' = Last(shortestPath') /\ Range(shortestPath)' = Range(shortestPath')
        BY DEF Last, Range
      <3> QED BY <1>2, <1>9, <3>1, <3>3, <3>4 DEF Answer
    <2> QED BY <1>1, <1>2, <1>3, <1>4, <1>9, <1>10, <2>1, <2>2 DEF Best

\* Beginning a leg, or ending an order, keeps the invariant.
LEMMA NextLegInv ==
  ASSUME TourInv, NextLeg
  PROVE  TourInv'
  <1>1. pc = "leg" /\ UNCHANGED request /\ UNCHANGED <<weight, start, nodes>> /\ Progress
        /\ Asked /\ Best /\ TypeOK /\ Asked'
    BY RequestFixed DEF NextLeg, request, TourInv, Searching
  <1>2. /\ perms \in Seq(Seq(Stop)) /\ perms # <<>> /\ Head(perms) \in Seq(Stop) /\ Len(Head(perms)) \in Nat
        /\ leg \in 1..(Len(Head(perms)) + 1)
    BY <1>1, HeadTailProperties, LenProperties DEF Best, Progress
  <1>3. CASE leg > Len(Head(perms))
    <2>1. /\ Costed(total, Route) /\ UNCHANGED <<leg, total, fullPath, current, search, back>>
          /\ pc' = "permutation" /\ leg = Len(Head(perms)) + 1
      BY <1>2, <1>3 DEF NextLeg, Route, Costed
    <2>2. Best'
      BY <1>1, <2>1, CostedBest
    <2>3. Searching'
      BY <2>1 DEF Searching
    <2>4. shortestDistance' \in Distance /\ shortestPath' \in Seq(Start) /\ perms' \in Seq(Seq(Stop))
      BY <2>2 DEF Best, Distance
    <2>5. TypeOK'
      BY <1>1, <2>1, <2>4 DEF TypeOK, search, back
    <2> QED BY <1>1, <2>1, <2>2, <2>3, <2>5 DEF TourInv
  <1>4. CASE ~(leg > Len(Head(perms)))
    <2>1. /\ distances' = [n \in Start |-> IF n = current THEN 0 ELSE Infinity]
          /\ parents' = [n \in Start |-> Undefined] /\ visited' = {} /\ here' = current /\ pc' = "search"
          /\ UNCHANGED <<order, back, best>>
      BY <1>4 DEF NextLeg
    <2>2. UNCHANGED <<perms, leg, total, fullPath, current>> /\ UNCHANGED <<request, best, perms>>
          /\ UNCHANGED <<request, order>> /\ UNCHANGED weight
      BY <1>1, <2>1 DEF order
    <2>3. Best' /\ Progress'
      BY <1>1, <2>2, BestFixed, ProgressFixed
    <2>4. Infinity \in Nat \ {0} /\ current \in Start /\ current \in Node \cup {start}
      BY <1>1, InfinityIsNat, StartIs DEF TourInv, Asked
    <2>5. distances' \in [Start -> 0..Infinity] /\ parents' \in [Start -> Start \cup {Undefined}]
      <3>1. \A n \in Start : (IF n = current THEN 0 ELSE Infinity) \in 0..Infinity
        BY <2>4
      <3> QED BY <2>1, <3>1
    <2>6. Tables'
      <3>1. Delta(current)' = Delta(current)
        BY <2>2, DeltaFixed
      <3>2. \A n \in Start : Delta(current)[n] \in 0..Infinity
        BY <1>1, <2>4, DeltaIs DEF Asked
      <3>3. Delta(current)[current] = 0
        BY <1>1, <2>4, DeltaIs DEF Asked
      <3>4. \A n \in Start : Delta(current)[n] <= distances'[n]
        <4>1. SUFFICES ASSUME NEW n \in Start PROVE Delta(current)[n] <= distances'[n]
          OBVIOUS
        <4>2. distances'[n] = IF n = current THEN 0 ELSE Infinity
          BY <2>1
        <4> QED BY <2>4, <3>2, <3>3, <4>2
      <3>5. \A n \in Start : n # current => ~(distances'[n] < Infinity)
        BY <2>1, <2>4
      <3>6. distances'[current] = 0 /\ \A n \in Start : parents'[n] = Undefined
        BY <2>1, <2>4
      <3> QED BY <2>1, <2>2, <2>4, <2>5, <3>1, <3>4, <3>5, <3>6 DEF Tables
    <2>7. Scan'
      <3>1. distances'[current] = 0 /\ \A n \in Start : distances'[n] \in Nat
        BY <2>1, <2>4
      <3> QED BY <2>1, <2>4, <3>1 DEF Scan
    <2>8. Searching'
      <3>1. leg' <= Len(Head(perms))'
        BY <1>2, <1>4, <2>2
      <3> QED BY <2>1, <2>3, <2>6, <2>7, <3>1 DEF Searching
    <2>9. TypeOK'
      BY <1>1, <2>1, <2>2, <2>4, <2>5 DEF TypeOK, Distance, back, best
    <2> QED BY <1>1, <2>2, <2>3, <2>4, <2>8, <2>9 DEF TourInv
  <1> QED BY <1>3, <1>4

\* A turn of the search keeps the invariant.
LEMMA VisitTour ==
  ASSUME TourInv, Visit
  PROVE  TourInv'
  <1>1. /\ pc = "search" /\ UNCHANGED <<request, order, best>> /\ UNCHANGED request
        /\ UNCHANGED <<request, best, perms>> /\ UNCHANGED <<request, order>>
        /\ UNCHANGED <<weight, start, nodes>> /\ UNCHANGED <<perms, leg, total, fullPath, current>>
    BY DEF Visit, request, order
  <1>2. /\ Asked /\ TypeOK /\ Best /\ Progress /\ Tables /\ Scan /\ leg <= Len(Head(perms))
        /\ weight \in [Passage -> Weight]
    BY <1>1 DEF TourInv, Searching, Asked
  <1>3. Asked' /\ Best' /\ Progress'
    BY <1>1, <1>2, RequestFixed, BestFixed, ProgressFixed
  <1>4. /\ Tables' /\ visited' = visited \cup {here}
        /\ pc' = "search" => Scan' /\ (here' \in Node \/ here' = current)
        /\ pc' = "walk" => Settled'
        /\ pc' = "search" \/ pc' = "walk"
    BY <1>2, VisitTables, VisitScan
  <1>5. /\ pc' = "search" => UNCHANGED back
        /\ pc' = "walk" => cursor' = Target /\ legPath' = <<>> /\ UNCHANGED here
    <2>1. "search" # "walk"
      OBVIOUS
    <2> QED BY <1>1, <2>1 DEF Visit, Target
  <1>6. Target \in Stop
    <2>1. Head(perms) \in Seq(Stop)
      BY <1>2, HeadTailProperties DEF Best, Progress
    <2>2. leg \in 1..Len(Head(perms))
      BY <1>2, <2>1, LenProperties DEF Progress
    <2> QED BY <2>1, <2>2, ElementOfSeq DEF Target
  <1>7. pc' = "walk" => BackWalk'
    <2>1. SUFFICES ASSUME pc' = "walk" PROVE BackWalk'
      OBVIOUS
    <2>2. Target' = Target /\ cursor' = Target /\ legPath' = <<>>
      BY <1>1, <1>5, <2>1 DEF Target
    <2>3. /\ <<Target>> \o <<>> = <<Target>> /\ Len(<<Target>>) = 1
          /\ <<>> \in Seq(Node) /\ <<>> \in Seq(Stop)
      BY <1>6, ConcatEmptySeq, EmptySeq
    <2>4. (<<cursor>> \o legPath)' = <<Target>>
      BY <2>2, <2>3
    <2>5. Last(<<cursor>> \o legPath)' = Target
      <3>1. Last(<<cursor>> \o legPath)' = Last((<<cursor>> \o legPath)')
        BY DEF Last
      <3>2. Last(<<Target>>) = Target
        BY DEF Last
      <3> QED BY <2>4, <3>1, <3>2
    <2>6. Stepwise(<<cursor>> \o legPath)'
      BY <2>3, <2>4 DEF Stepwise
    <2>7. CASE Target \in Node
      BY <2>2, <2>3, <2>5, <2>6, <2>7 DEF BackWalk, RoomWalk
    <2>8. CASE Target = Unknown
      BY <2>2, <2>3, <2>8 DEF BackWalk, NameWalk
    <2> QED BY <1>6, <2>7, <2>8 DEF Stop
  <1>8. Searching'
    BY <1>1, <1>2, <1>3, <1>4, <1>7 DEF Searching
  <1>9. current' \in Node \cup {start'} /\ current' = current /\ start' = start
    BY <1>1 DEF TourInv
  <1>10. TypeOK'
    <2>1. distances' \in [Start -> Distance] /\ parents' \in [Start -> Start \cup {Undefined}]
      BY <1>4 DEF Tables, Distance
    <2>2. here' \in Node \cup {start'} /\ visited' \subseteq Node \cup {start'}
      BY <1>1, <1>2, <1>4, <1>5, <1>9 DEF TypeOK
    <2>3. cursor' \in Start \cup {Unknown, Undefined} /\ legPath' \in Seq(Stop)
      <3>1. <<>> \in Seq(Stop)
        BY EmptySeq
      <3> QED BY <1>2, <1>4, <1>5, <1>6, <3>1, StartIs DEF TypeOK, back
    <2>4. pc' \in {"permutation", "leg", "search", "walk", "done"}
      BY <1>4
    <2>5. UNCHANGED <<weight, start, nodes, perms, leg, total, fullPath, current, shortestDistance, shortestPath>>
      BY <1>1 DEF best
    <2> QED BY <1>2, <2>1, <2>2, <2>3, <2>4, <2>5 DEF TypeOK
  <1> QED BY <1>3, <1>8, <1>9, <1>10 DEF TourInv

\* A turn of the walk back keeps the invariant.
LEMMA WalkBackInv ==
  ASSUME TourInv, WalkBack
  PROVE  TourInv'
  <1>1. /\ pc = "walk" /\ UNCHANGED <<request, order, search, best, pc>> /\ UNCHANGED request
        /\ UNCHANGED <<request, best, perms>> /\ UNCHANGED <<request, order>>
        /\ UNCHANGED <<weight, current, search>> /\ UNCHANGED <<perms, leg, start, current, pc>>
    BY DEF WalkBack, request, order
  <1>2. /\ Asked /\ TypeOK /\ Best /\ Progress /\ Tables /\ Settled /\ BackWalk /\ leg <= Len(Head(perms))
        /\ weight \in [Passage -> Weight]
    BY <1>1 DEF TourInv, Searching, Asked
  <1>3. Asked' /\ Best' /\ Progress' /\ Tables' /\ Settled' /\ BackWalk'
    BY <1>1, <1>2, RequestFixed, BestFixed, ProgressFixed, TablesFixed, WalkBackStep
  <1>4. Searching'
    BY <1>1, <1>2, <1>3 DEF Searching
  <1>5. TypeOK'
    <2>1. cursor' \in Start \cup {Unknown, Undefined} /\ legPath' \in Seq(Stop)
      <3>1. CASE RoomWalk'
        <4>1. legPath' \in Seq(Stop)
          BY <3>1, SeqMonotonic DEF RoomWalk, Stop
        <4> QED BY <1>1, <1>2, <3>1, <4>1, StartIs DEF RoomWalk, TypeOK
      <3>2. CASE NameWalk'
        BY <3>2 DEF NameWalk
      <3> QED BY <1>3, <3>1, <3>2 DEF BackWalk
    <2> QED BY <1>1, <1>2, <2>1 DEF TypeOK, request, order, search, best
  <1> QED BY <1>1, <1>3, <1>4, <1>5 DEF TourInv

\* The end of a leg keeps the invariant.  That its target is out of reach never
\* comes up there: the walk back from such a target does not end.
LEMMA LegDoneInv ==
  ASSUME TourInv, LegDone
  PROVE  TourInv'
  <1>1. /\ pc = "walk" /\ Asked /\ TypeOK /\ Best /\ Progress /\ Tables /\ Settled /\ BackWalk
        /\ leg <= Len(Head(perms)) /\ weight \in [Passage -> Weight] /\ start \in Start
        /\ perms \in Seq(Seq(Stop))
    BY DEF LegDone, TourInv, Searching, Asked, Best
  <1>2. Progress' /\ pc' = "leg" /\ UNCHANGED <<request, search, back, best, perms>>
    BY <1>1, LegDoneProgress
  <1>3. /\ UNCHANGED request /\ UNCHANGED <<request, best, perms>> /\ UNCHANGED start
    BY <1>2 DEF request
  <1>4. Asked' /\ Best'
    BY <1>1, <1>3, RequestFixed, BestFixed
  <1>5. Searching'
    BY <1>2 DEF Searching
  <1>6. current' = Target /\ leg' = leg + 1
    <2>1. distances[Target] < Infinity /\ cursor = current
      BY <1>1, BackAtStart DEF LegDone
    <2>2. distances[Target] # Infinity
      BY <2>1, InfinityIsNat
    <2> QED BY <2>2 DEF LegDone, Target
  <1>7. Target \in Node
    BY <1>1, BackAtStart DEF LegDone
  <1>8. leg' \in 1..MaxStops + 1 /\ total' \in Distance /\ fullPath' \in Seq(Node)
    <2> DEFINE p == Head(perms)
    <2>1. p \in Range(perms) /\ p \in Seq(Stop) /\ Len(p) = Len(nodes) /\ Len(p) <= MaxStops /\ Len(p) \in Nat
      <3>1. perms # <<>> /\ Len(perms) \in Nat \ {0} /\ p = perms[1] /\ 1 \in 1..Len(perms)
        BY <1>1, EmptySeq DEF Progress
      <3>2. p \in Range(perms)
        BY <1>1, <3>1, RangeEquality
      <3>3. Len(p) = Len(nodes) /\ p \in Seq(Stop)
        BY <1>1, <3>2 DEF Best, OrderOf
      <3> QED BY <1>1, <3>2, <3>3, LenProperties DEF Asked
    <2> HIDE DEF p
    <2>2. leg \in Nat \ {0} /\ leg <= Len(p) /\ leg <= MaxStops
      <3>1. leg \in 1..(Len(p) + 1) /\ leg <= Len(p) /\ MaxStops \in Nat
        BY <1>1, TspAssumption DEF Progress, p
      <3> QED BY <2>1, <3>1
    <2>3. total' \in Nat /\ total' <= leg * LegMost
      <3>1. (leg + 1) - 1 = leg /\ LegMost' = LegMost
        BY <2>2 DEF LegMost
      <3>2. total' \in Nat /\ total' <= (leg' - 1) * LegMost'
        BY <1>2 DEF Progress
      <3> QED BY <1>6, <3>1, <3>2
    <2>4. leg * LegMost <= MaxStops * LegMost /\ leg * LegMost \in Nat /\ MaxStops * LegMost \in Nat
          /\ Infinity = 1 + MaxStops * LegMost /\ MaxStops \in Nat
      BY <2>2, HeaviestIs, Times, ProductNat
    <2>5. \A a, b, c \in Nat : a <= b /\ b <= c => a \in 0..(1 + c)
      OBVIOUS
    <2>6. total' \in 0..Infinity
      BY <2>3, <2>4, <2>5
    <2>7. leg' \in 1..MaxStops + 1
      BY <1>6, <2>2, <2>4
    <2> QED BY <1>2, <2>6, <2>7 DEF Progress, Distance
  <1>9. TypeOK'
    <2>1. current' \in Start /\ pc' \in {"permutation", "leg", "search", "walk", "done"}
      BY <1>2, <1>6, <1>7, StartIs
    <2> QED BY <1>1, <1>2, <1>8, <2>1 DEF TypeOK, request, search, back, best
  <1> QED BY <1>3, <1>4, <1>5, <1>6, <1>7, <1>9 DEF TourInv

\* Every step of tsp.js keeps the invariant.
LEMMA TourStep ==
  ASSUME TourInv, [Next]_vars
  PROVE  TourInv'
  <1>1. CASE NextPermutation
    BY <1>1, NextPermutationInv
  <1>2. CASE NextLeg
    BY <1>2, NextLegInv
  <1>3. CASE Visit
    BY <1>3, VisitTour
  <1>4. CASE WalkBack
    BY <1>4, WalkBackInv
  <1>5. CASE LegDone
    BY <1>5, LegDoneInv
  <1>6. CASE UNCHANGED vars
    BY <1>6, TourFixed
  <1> QED BY <1>1, <1>2, <1>3, <1>4, <1>5, <1>6 DEF Next

\* The invariant holds throughout POST /tsp-path.
LEMMA TourInvariant == RoutingSpec => [](call = "tour" => TourInv)
  <1>1. RoutingInit => (call = "tour" => TourInv)
    BY TourInit DEF RoutingInit
  <1>2. ASSUME call = "tour" => TourInv, [RoutingNext]_routingVars
        PROVE  (call = "tour" => TourInv)'
    <2>1. CASE call = "tour" /\ Next /\ UNCHANGED call
      BY <1>2, <2>1, TourStep
    <2>2. CASE call = "path" /\ UNCHANGED call
      BY <2>2
    <2>3. CASE UNCHANGED routingVars
      <3>1. UNCHANGED call /\ UNCHANGED vars
        BY <2>3 DEF routingVars
      <3> QED BY <1>2, <3>1, TourStep
    <2> QED BY <1>2, <2>1, <2>2, <2>3 DEF RoutingNext
  <1> QED BY <1>1, <1>2, PTL DEF RoutingSpec

-----------------------------------------------------------------------------
(***************************************************************************)
(* Types, and what the searches have settled.                              *)
(***************************************************************************)
\* A call is of one of the two endpoints.
LEMMA CallIsKnown == RoutingSpec => [](call \in {"path", "tour"})
  <1>1. RoutingInit => call \in {"path", "tour"}
    BY DEF RoutingInit
  <1>2. call \in {"path", "tour"} /\ [RoutingNext]_routingVars => (call \in {"path", "tour"})'
    BY DEF RoutingNext, routingVars
  <1> QED BY <1>1, <1>2, PTL DEF RoutingSpec

\* The variables of the called endpoint have their types throughout
\* (dijkstra.js, tsp.js), for every graph, weights, start and request.
THEOREM RoutingTypes == RoutingSpec => []RoutingTypeOK
  <1>1. /\ call \in {"path", "tour"}
        /\ call = "path" => PathInv
        /\ call = "tour" => TourInv
        => RoutingTypeOK
    BY DEF RoutingTypeOK, PathInv, TourInv
  <1> QED BY <1>1, CallIsKnown, PathInvariant, TourInvariant, PTL

\* The invariant of dijkstra.js implies that the queue is sorted and settles.
LEMMA PathSettles == PathInv => D!QueueSorted /\ D!DistancesSettle
  <1>1. SUFFICES ASSUME PathInv PROVE D!QueueSorted /\ D!DistancesSettle
    OBVIOUS
  <1>2. D!TypeOK /\ PathTree /\ Sorted(pq) /\ (pc = "search" => PathSearch)
    BY <1>1 DEF PathInv
  <1>3. D!QueueSorted
    <2>1. DOMAIN pq = 1..Len(pq)
      BY <1>2, LenProperties DEF D!TypeOK
    <2> QED BY <1>2, <2>1 DEF D!QueueSorted, Sorted
  <1>4. D!DistancesSettle
    <2>1. SUFFICES ASSUME pc = "search", NEW n \in Node, pq = <<>> \/ distances[n] <= Head(pq).priority
                   PROVE  distances[n] = D!Shortest[n]
      BY DEF D!DistancesSettle
    <2> QED BY <1>2, <2>1, Settle
  <1> QED BY <1>3, <1>4

\* The invariant of tsp.js implies that what is visited is final.
LEMMA TourSettles == TourInv => VisitedAreFinal
  <1>1. SUFFICES ASSUME TourInv, pc \in {"search", "walk"}, NEW n \in visited
                 PROVE  distances[n] = Leg[Cardinality(Node)][n]
    BY DEF VisitedAreFinal
  <1>2. Tables /\ weight \in [Passage -> Weight] /\ current \in Start
    BY <1>1 DEF TourInv, Searching, Asked, Tables
  <1>3. Leg[Cardinality(Node)] = Delta(current)
    BY <1>2, LegIsDelta
  <1> QED BY <1>2, <1>3 DEF Tables

\* The queue of priorityQueue.js dequeues by priority, what dijkstra.js has
\* passed is settled when it leaves at the first sight of the end, and what
\* tsp.js has visited is at the distance of a shortest walk, whatever the weights.
THEOREM SearchesAreFinal == RoutingSpec => []SearchesSettle
  <1>1. /\ call = "path" => PathInv
        /\ call = "tour" => TourInv
        => SearchesSettle
    BY PathSettles, TourSettles DEF SearchesSettle
  <1> QED BY <1>1, PathInvariant, TourInvariant, PTL

-----------------------------------------------------------------------------
(***************************************************************************)
(* POST /tsp-path: the answer is a shortest tour.  Bellman's equation over *)
(* pairs of a room and the requested rooms seen so far bounds every walk from*)
(* below; and what it comes to is never less than the legs of some order.  *)
(***************************************************************************)
\* The graph over the pairs of a room and the requested rooms seen so far.
Place == Start \X SUBSET Stops

PlaceEdges ==
  {e \in Place \X Place : e[1][1] \in Neighbors(e[2][1]) /\ e[1][2] = e[2][2] \ {e[2][1]}}

PlaceWeight == [e \in PlaceEdges |-> weight[{e[1][1], e[2][1]}]]

PlaceSources == {p \in Place : p[1] = start /\ p[2] \subseteq {start}}

\* One steps from a pair by going to a neighbour and having seen it.
LEMMA PlaceNeighbors ==
  ASSUME weight \in [Passage -> Weight], NEW n \in Start, NEW X \in SUBSET Stops
  PROVE  /\ <<n, X>> \in Place
         /\ \A m \in Neighbors(n) :
              /\ <<m, X \ {n}>> \in Place /\ <<<<m, X \ {n}>>, <<n, X>>>> \in PlaceEdges
              /\ PlaceWeight[<<<<m, X \ {n}>>, <<n, X>>>>] = weight[{m, n}]
         /\ \A x \in Place : <<x, <<n, X>>>> \in PlaceEdges =>
              x[1] \in Neighbors(n) /\ x = <<x[1], X \ {n}>>
  <1>1. <<n, X>> \in Place /\ <<n, X>>[1] = n /\ <<n, X>>[2] = X
    BY DEF Place
  <1>2. ASSUME NEW m \in Neighbors(n)
        PROVE  /\ <<m, X \ {n}>> \in Place /\ <<<<m, X \ {n}>>, <<n, X>>>> \in PlaceEdges
               /\ PlaceWeight[<<<<m, X \ {n}>>, <<n, X>>>>] = weight[{m, n}]
    <2>1. m \in Start /\ X \ {n} \in SUBSET Stops
      BY TourNeighbors, StartIs
    <2>2. <<m, X \ {n}>> \in Place
      BY <2>1 DEF Place
    <2>3. <<<<m, X \ {n}>>, <<n, X>>>> \in PlaceEdges
      BY <1>1, <2>2 DEF PlaceEdges
    <2> QED BY <2>2, <2>3 DEF PlaceWeight
  <1>3. ASSUME NEW x \in Place, <<x, <<n, X>>>> \in PlaceEdges
        PROVE  x[1] \in Neighbors(n) /\ x = <<x[1], X \ {n}>>
    <2>1. x[1] \in Neighbors(n) /\ x[2] = X \ {n}
      BY <1>3 DEF PlaceEdges
    <2>2. x = <<x[1], x[2]>>
      BY DEF Place
    <2> QED BY <2>1, <2>2
  <1> QED BY <1>1, <1>2, <1>3

\* Its edges have positive weights.
LEMMA PlaceWeights ==
  ASSUME weight \in [Passage -> Weight]
  PROVE  \A e \in PlaceEdges : PlaceWeight[e] \in Nat \ {0}
  <1>1. SUFFICES ASSUME NEW e \in PlaceEdges PROVE PlaceWeight[e] \in Nat \ {0}
    OBVIOUS
  <1>2. e[1][1] \in Neighbors(e[2][1]) /\ PlaceWeight[e] = weight[{e[1][1], e[2][1]}]
    BY DEF PlaceEdges, PlaceWeight
  <1> QED BY <1>2, TourNeighbors

\* The reference for tours unrolls Bellman's equation on that graph.
LEMMA TourUnrolls ==
  ASSUME weight \in [Passage -> Weight]
  PROVE  Unrolls(Place, PlaceEdges, PlaceWeight, Infinity, PlaceSources, Tour)
  <1> DEFINE Body(f) ==
        [k \in Nat |->
           IF k = 0
           THEN [p \in Start \X SUBSET Stops |->
                   IF p[1] = start /\ p[2] \subseteq {start} THEN 0 ELSE Infinity]
           ELSE [p \in Start \X SUBSET Stops |->
                  Min({Tabulated(f[k - 1])[p]} \cup
                      {Tabulated(f[k - 1])[<<m, p[2] \ {p[1]}>>] + weight[{m, p[1]}] : m \in Neighbors(p[1])})]]
             U(f) == Unrolling(Place, PlaceEdges, PlaceWeight, Infinity, PlaceSources, f)
             Tab(v, p) == {Tabulated(v)[p]} \cup
                          {Tabulated(v)[<<m, p[2] \ {p[1]}>>] + weight[{m, p[1]}] : m \in Neighbors(p[1])}
             Old(v, p) == {v[p]} \cup {v[<<m, p[2] \ {p[1]}>>] + weight[{m, p[1]}] : m \in Neighbors(p[1])}
             New(v, p) == {v[p]} \cup
                          {v[x] + PlaceWeight[<<x, p>>] : x \in {y \in Place : <<y, p>> \in PlaceEdges}}
  <1>1. Infinity \in Nat /\ \A e \in PlaceEdges : PlaceWeight[e] \in Nat \ {0}
    BY InfinityIsNat, PlaceWeights
  <1>2. PICK B : B = U(B)
    <2>1. \A e \in PlaceEdges : PlaceWeight[e] \in Nat
      BY <1>1
    <2> QED BY <1>1, <2>1, UnrollingExists
  <1>3. ASSUME NEW v, NEW p \in Place PROVE Tab(v, p) = New(v, p)
    <2>1. Tab(v, p) = Old(v, p)
      <3>1. Tabulated(v) = v
        BY TabulatedIs
      <3> QED BY <3>1
    <2>2. PICK n \in Start, X \in SUBSET Stops : p = <<n, X>>
      BY DEF Place
    <2>3. p[1] = n /\ p[2] = X
      BY <2>2
    <2>4. /\ \A m \in Neighbors(n) :
               /\ <<m, X \ {n}>> \in Place /\ <<<<m, X \ {n}>>, p>> \in PlaceEdges
               /\ PlaceWeight[<<<<m, X \ {n}>>, p>>] = weight[{m, n}]
          /\ \A x \in Place : <<x, p>> \in PlaceEdges => x[1] \in Neighbors(n) /\ x = <<x[1], X \ {n}>>
      BY <2>2, PlaceNeighbors
    <2>5. ASSUME NEW y \in Old(v, p) PROVE y \in New(v, p)
      <3>1. CASE y = v[p]
        BY <3>1
      <3>2. CASE \E m \in Neighbors(n) : y = v[<<m, X \ {n}>>] + weight[{m, n}]
        <4>1. PICK m \in Neighbors(n) : y = v[<<m, X \ {n}>>] + weight[{m, n}]
          BY <3>2
        <4>2. /\ <<m, X \ {n}>> \in {z \in Place : <<z, p>> \in PlaceEdges}
              /\ PlaceWeight[<<<<m, X \ {n}>>, p>>] = weight[{m, n}]
          BY <2>4
        <4>3. y = v[<<m, X \ {n}>>] + PlaceWeight[<<<<m, X \ {n}>>, p>>]
          BY <4>1, <4>2
        <4> QED BY <4>2, <4>3
      <3> QED BY <2>3, <2>5, <3>1, <3>2
    <2>6. ASSUME NEW y \in New(v, p) PROVE y \in Old(v, p)
      <3>1. CASE y = v[p]
        BY <3>1
      <3>2. CASE \E x \in {z \in Place : <<z, p>> \in PlaceEdges} : y = v[x] + PlaceWeight[<<x, p>>]
        <4>1. PICK x \in {z \in Place : <<z, p>> \in PlaceEdges} : y = v[x] + PlaceWeight[<<x, p>>]
          BY <3>2
        <4> DEFINE m == x[1]
        <4>2. m \in Neighbors(n) /\ x = <<m, X \ {n}>>
          BY <2>4
        <4> HIDE DEF m
        <4>3. PlaceWeight[<<x, p>>] = weight[{m, n}]
          BY <2>4, <4>2
        <4>4. y = v[<<m, X \ {n}>>] + weight[{m, n}]
          BY <4>1, <4>2, <4>3
        <4> QED BY <2>3, <4>2, <4>4
      <3> QED BY <2>6, <3>1, <3>2
    <2> HIDE DEF Tab, Old, New
    <2> QED BY <2>1, <2>5, <2>6
  <1>4. ASSUME NEW v
        PROVE  [p \in Place |-> Min(Tab(v, p))] = Eased(Place, PlaceEdges, PlaceWeight, v)
    <2>1. Eased(Place, PlaceEdges, PlaceWeight, v) = [p \in Place |-> Min(New(v, p))]
      BY DEF Eased
    <2> HIDE DEF Tab, New
    <2> QED BY <1>3, <2>1
  <1>5. ASSUME NEW f PROVE U(f) = Body(f)
    <2>1. ASSUME NEW k \in Nat PROVE U(f)[k] = Body(f)[k]
      <3>1. CASE k = 0
        <4>1. U(f)[k] = [p \in Place |-> IF p \in PlaceSources THEN 0 ELSE Infinity]
          BY <3>1 DEF Unrolling, Sources
        <4>2. \A p \in Place : p \in PlaceSources <=> p[1] = start /\ p[2] \subseteq {start}
          BY DEF PlaceSources
        <4>3. Body(f)[k] = [p \in Place |-> IF p[1] = start /\ p[2] \subseteq {start} THEN 0 ELSE Infinity]
          BY <3>1 DEF Place
        <4> HIDE DEF U, Body
        <4> QED BY <4>1, <4>2, <4>3
      <3>2. CASE k # 0
        <4> DEFINE v == f[k - 1]
        <4>1. U(f)[k] = Eased(Place, PlaceEdges, PlaceWeight, v)
          BY <3>2 DEF Unrolling
        <4>2. Body(f)[k] = [p \in Place |-> Min(Tab(v, p))]
          BY <3>2 DEF Place
        <4> HIDE DEF v, U, Body, Tab
        <4> QED BY <1>4, <4>1, <4>2
      <3> QED BY <3>1, <3>2
    <2>2. U(f) = [k \in Nat |-> U(f)[k]]
      BY DEF Unrolling
    <2>3. Body(f) = [k \in Nat |-> Body(f)[k]]
      OBVIOUS
    <2> HIDE DEF U, Body
    <2> QED BY <2>1, <2>2, <2>3
  <1> HIDE DEF U, Tab, Old, New
  <1>6. B = Body(B)
    <2> HIDE DEF Body
    <2> QED BY <1>2, <1>5
  <1>7. Tour = Body(Tour)
    <2>1. Tour = CHOOSE f : f = Body(f)
      BY DEF Tour
    <2> HIDE DEF Body
    <2> QED BY <1>6, <2>1
  <1>8. Tour = U(Tour)
    <2> HIDE DEF Body
    <2> QED BY <1>5, <1>7
  <1> QED BY <1>1, <1>8, UnrollingUnrolls DEF U

\* Tour, room by room.
LEMMA TourIs ==
  ASSUME weight \in [Passage -> Weight]
  PROVE  /\ \A k \in Nat, n \in Start, X \in SUBSET Stops :
              /\ Tour[k][<<n, X>>] \in 0..Infinity
              /\ Tour[k + 1][<<n, X>>] <= Tour[k][<<n, X>>]
              /\ \A m \in Neighbors(n) :
                   Tour[k + 1][<<n, X>>] <= Tour[k][<<m, X \ {n}>>] + weight[{m, n}]
              /\ \/ Tour[k + 1][<<n, X>>] = Tour[k][<<n, X>>]
                 \/ \E m \in Neighbors(n) :
                      Tour[k + 1][<<n, X>>] = Tour[k][<<m, X \ {n}>>] + weight[{m, n}]
         /\ \A n \in Start, X \in SUBSET Stops :
              Tour[0][<<n, X>>] = IF n = start /\ X \subseteq {start} THEN 0 ELSE Infinity
  <1>1. Unrolls(Place, PlaceEdges, PlaceWeight, Infinity, PlaceSources, Tour)
    BY TourUnrolls
  <1>2. ASSUME NEW n \in Start, NEW X \in SUBSET Stops
        PROVE  Tour[0][<<n, X>>] = IF n = start /\ X \subseteq {start} THEN 0 ELSE Infinity
    <2>1. <<n, X>> \in Place /\ <<n, X>>[1] = n /\ <<n, X>>[2] = X
      BY DEF Place
    <2>2. <<n, X>> \in PlaceSources <=> n = start /\ X \subseteq {start}
      BY <2>1 DEF PlaceSources
    <2>3. Tour[0][<<n, X>>] = IF <<n, X>> \in PlaceSources THEN 0 ELSE Infinity
      BY <1>1, <2>1 DEF Unrolls
    <2> QED BY <2>2, <2>3
  <1>3. ASSUME NEW k \in Nat, NEW n \in Start, NEW X \in SUBSET Stops
        PROVE  /\ Tour[k][<<n, X>>] \in 0..Infinity
               /\ Tour[k + 1][<<n, X>>] <= Tour[k][<<n, X>>]
               /\ \A m \in Neighbors(n) :
                    Tour[k + 1][<<n, X>>] <= Tour[k][<<m, X \ {n}>>] + weight[{m, n}]
               /\ \/ Tour[k + 1][<<n, X>>] = Tour[k][<<n, X>>]
                  \/ \E m \in Neighbors(n) :
                       Tour[k + 1][<<n, X>>] = Tour[k][<<m, X \ {n}>>] + weight[{m, n}]
    <2> DEFINE p == <<n, X>>
    <2>1. /\ p \in Place
          /\ \A m \in Neighbors(n) :
               /\ <<m, X \ {n}>> \in Place /\ <<<<m, X \ {n}>>, p>> \in PlaceEdges
               /\ PlaceWeight[<<<<m, X \ {n}>>, p>>] = weight[{m, n}]
          /\ \A x \in Place : <<x, p>> \in PlaceEdges => x[1] \in Neighbors(n) /\ x = <<x[1], X \ {n}>>
      BY PlaceNeighbors
    <2> HIDE DEF p
    <2>2. /\ Tour[k] \in [Place -> 0..Infinity]
          /\ Tour[k + 1][p] <= Tour[k][p]
          /\ \A x \in Place : <<x, p>> \in PlaceEdges => Tour[k + 1][p] <= Tour[k][x] + PlaceWeight[<<x, p>>]
          /\ \/ Tour[k + 1][p] = Tour[k][p]
             \/ \E x \in Place : <<x, p>> \in PlaceEdges /\ Tour[k + 1][p] = Tour[k][x] + PlaceWeight[<<x, p>>]
      BY <1>1, <2>1 DEF Unrolls, Relaxed
    <2>3. ASSUME NEW m \in Neighbors(n)
          PROVE  Tour[k + 1][p] <= Tour[k][<<m, X \ {n}>>] + weight[{m, n}]
      BY <2>1, <2>2
    <2>4. ASSUME NEW x \in Place, <<x, p>> \in PlaceEdges, Tour[k + 1][p] = Tour[k][x] + PlaceWeight[<<x, p>>]
          PROVE  \E m \in Neighbors(n) : Tour[k + 1][p] = Tour[k][<<m, X \ {n}>>] + weight[{m, n}]
      <3> DEFINE m == x[1]
      <3>1. m \in Neighbors(n) /\ x = <<m, X \ {n}>>
        BY <2>1, <2>4
      <3> HIDE DEF m
      <3>2. PlaceWeight[<<x, p>>] = weight[{m, n}]
        BY <2>1, <3>1
      <3>3. Tour[k + 1][p] = Tour[k][<<m, X \ {n}>>] + weight[{m, n}]
        BY <2>4, <3>1, <3>2
      <3> QED BY <3>1, <3>3
    <2>5. Tour[k][p] \in 0..Infinity
      BY <2>1, <2>2
    <2> QED BY <2>2, <2>3, <2>4, <2>5 DEF p
  <1> QED BY <1>2, <1>3

\* All of its values are numbers.
LEMMA TourIsNat ==
  ASSUME weight \in [Passage -> Weight]
  PROVE  \A k \in Nat, n \in Start, X \in SUBSET Stops : Tour[k][<<n, X>>] \in Nat
  <1>1. \A k \in Nat, n \in Start, X \in SUBSET Stops : Tour[k][<<n, X>>] \in 0..Infinity
    BY TourIs
  <1>2. Infinity \in Nat
    BY InfinityIsNat
  <1>3. \A x \in 0..Infinity : x \in Nat
    BY <1>2
  <1> QED BY <1>1, <1>3

\* More rounds give no greater values.
LEMMA TourFalls ==
  ASSUME weight \in [Passage -> Weight], NEW n \in Start, NEW X \in SUBSET Stops, NEW k \in Nat
  PROVE  \A i \in Nat : Tour[k + i][<<n, X>>] <= Tour[k][<<n, X>>]
  <1> DEFINE Z == {i \in Nat : Tour[k + i][<<n, X>>] <= Tour[k][<<n, X>>]}
  <1>1. \A j \in Nat : Tour[j][<<n, X>>] \in Nat /\ Tour[j + 1][<<n, X>>] <= Tour[j][<<n, X>>]
    BY TourIs, InfinityIsNat
  <1>2. 0 \in Z
    <2>1. k + 0 = k /\ Tour[k][<<n, X>>] \in Nat
      BY <1>1
    <2> QED BY <2>1
  <1>3. ASSUME NEW i \in Nat, i \in Z PROVE i + 1 \in Z
    <2>1. (k + i) + 1 = k + (i + 1) /\ k + i \in Nat /\ k + (i + 1) \in Nat
      OBVIOUS
    <2>2. Tour[(k + i) + 1][<<n, X>>] <= Tour[k + i][<<n, X>>]
      BY <1>1, <2>1
    <2>3. Tour[k + i][<<n, X>>] <= Tour[k][<<n, X>>]
      BY <1>3
    <2>4. Tour[k + (i + 1)][<<n, X>>] \in Nat /\ Tour[k + i][<<n, X>>] \in Nat /\ Tour[k][<<n, X>>] \in Nat
      BY <1>1, <2>1
    <2>5. Tour[k + (i + 1)][<<n, X>>] <= Tour[k][<<n, X>>]
      BY <2>1, <2>2, <2>3, <2>4
    <2> QED BY <2>5
  <1> HIDE DEF Z
  <1>4. Nat \subseteq Z
    BY <1>2, <1>3, InductionSet
  <1> QED BY <1>4 DEF Z

\* A walk that has passed the rooms X is no shorter than Tour says.
LEMMA WalkAbove ==
  ASSUME weight \in [Passage -> Weight], start \in Start, NEW q, q \in Seq(Start), q # <<>>, q[1] = start,
         NEW o, Metered(q, o)
  PROVE  \A i \in Nat : i + 1 <= Len(q) =>
           \A X \in SUBSET Stops : X \subseteq {q[j] : j \in 1..(i + 1)} =>
             Tour[i][<<q[i + 1], X>>] <= o[i + 1]
  <1> DEFINE n == Len(q)
             Z == {i \in Nat : i + 1 <= n =>
                     \A X \in SUBSET Stops : X \subseteq {q[j] : j \in 1..(i + 1)} =>
                       Tour[i][<<q[i + 1], X>>] <= o[i + 1]}
  <1>1. n \in Nat \ {0} /\ \A i \in 1..n : q[i] \in Start
    BY EmptySeq, ElementOfSeq
  <1>2. /\ o \in [1..n -> Nat] /\ o[1] = 0
        /\ \A i \in 1..(n - 1) :
             q[i + 1] \in Neighbors(q[i]) /\ o[i + 1] = o[i] + weight[{q[i], q[i + 1]}]
    BY DEF Metered
  <1> HIDE DEF n
  <1>3. 0 \in Z
    <2>1. SUFFICES ASSUME NEW X \in SUBSET Stops, X \subseteq {q[j] : j \in 1..1}
                   PROVE  Tour[0][<<start, X>>] <= 0
      BY <1>2
    <2>2. X \subseteq {start}
      BY <2>1
    <2>3. Tour[0][<<start, X>>] = 0
      BY <2>2, TourIs
    <2> QED BY <2>3
  <1>4. ASSUME NEW i \in Nat, i \in Z PROVE i + 1 \in Z
    <2> DEFINE a == q[i + 1]
               b == q[(i + 1) + 1]
    <2>1. SUFFICES ASSUME (i + 1) + 1 <= n, NEW X \in SUBSET Stops, X \subseteq {q[j] : j \in 1..((i + 1) + 1)}
                   PROVE  Tour[i + 1][<<b, X>>] <= o[(i + 1) + 1]
      OBVIOUS
    <2>2. i + 1 \in 1..(n - 1) /\ i + 1 \in 1..n /\ (i + 1) + 1 \in 1..n /\ i + 1 <= n
      BY <1>1, <2>1
    <2>3. b \in Neighbors(a) /\ o[(i + 1) + 1] = o[i + 1] + weight[{a, b}] /\ a \in Start /\ b \in Start
      BY <1>1, <1>2, <2>2
    <2>4. a \in Neighbors(b) /\ weight[{a, b}] \in Nat
      BY <2>3, TourNeighbors
    <2>5. X \ {b} \subseteq {q[j] : j \in 1..(i + 1)} /\ X \ {b} \in SUBSET Stops
      <3>1. \A j \in 1..((i + 1) + 1) : j \in 1..(i + 1) \/ j = (i + 1) + 1
        OBVIOUS
      <3> QED BY <2>1, <3>1
    <2>6. Tour[i][<<a, X \ {b}>>] <= o[i + 1]
      BY <1>4, <2>2, <2>5
    <2>7. Tour[i + 1][<<b, X>>] <= Tour[i][<<a, X \ {b}>>] + weight[{a, b}]
      BY <2>3, <2>4, TourIs
    <2>8. Tour[i + 1][<<b, X>>] \in Nat /\ Tour[i][<<a, X \ {b}>>] \in Nat /\ o[i + 1] \in Nat
      <3>1. i + 1 \in Nat /\ X \in SUBSET Stops /\ a \in Start /\ b \in Start /\ X \ {b} \in SUBSET Stops
        BY <2>3, <2>5
      <3>2. o[i + 1] \in Nat
        BY <1>2, <2>2
      <3> HIDE DEF a, b
      <3> QED BY <3>1, <3>2, TourIsNat
    <2> HIDE DEF a, b
    <2> QED BY <2>3, <2>4, <2>6, <2>7, <2>8
  <1>5. Nat \subseteq Z
    <2> HIDE DEF Z
    <2> QED BY <1>3, <1>4, InductionSet
  <1> QED BY <1>5 DEF n

\* No answer is shorter than the reference.
LEMMA AnswerAbove ==
  ASSUME Asked, Stops \subseteq Node, NEW q, NEW v, Answer(q, v)
  PROVE  LeastTour <= v /\ v \in Nat
  <1> DEFINE n == Len(q)
             K == MaxStops * Cardinality(Node)
  <1>1. /\ weight \in [Passage -> Weight] /\ start \in Start
        /\ q \in Seq(Start) /\ q # <<>> /\ q[1] = start /\ Last(q) \in Stops /\ Stops \subseteq Range(q)
        /\ n <= 1 + K
    BY DEF Asked, Answer
  <1>2. PICK o : Metered(q, o) /\ o[n] = v
    BY DEF Answer, Measured
  <1>3. n \in Nat \ {0} /\ K \in Nat /\ Range(q) = {q[j] : j \in 1..n} /\ Last(q) = q[n]
    BY <1>1, EmptySeq, HeaviestIs, ProductNat, RangeEquality DEF Last
  <1>4. v \in Nat
    BY <1>2, <1>3 DEF Metered
  <1> HIDE DEF n, K
  <1>5. n - 1 \in Nat /\ (n - 1) + 1 = n /\ K - (n - 1) \in Nat /\ (n - 1) + (K - (n - 1)) = K
    BY <1>1, <1>3
  <1>6. Tour[n - 1][<<q[n], Stops>>] <= v
    <2>1. (n - 1) + 1 <= n
      BY <1>3
    <2>2. Stops \in SUBSET Stops /\ Stops \subseteq {q[j] : j \in 1..((n - 1) + 1)}
      BY <1>1, <1>3, <1>5
    <2>3. Tour[n - 1][<<q[(n - 1) + 1], Stops>>] <= o[(n - 1) + 1]
      BY <1>1, <1>2, <1>5, <2>1, <2>2, WalkAbove DEF n
    <2> QED BY <1>2, <1>5, <2>3
  <1>7. q[n] \in Node /\ q[n] \in Start
    BY <1>1, <1>3, StartIs
  <1>0. weight \in [Passage -> Weight] /\ Stops \in SUBSET Stops
    BY <1>1
  <1>8. Tour[(n - 1) + (K - (n - 1))][<<q[n], Stops>>] <= Tour[n - 1][<<q[n], Stops>>]
    BY <1>0, <1>5, <1>7, TourFalls
  <1>9. \A m \in Node : Tour[K][<<m, Stops>>] \in Nat
    BY <1>0, <1>3, TourIsNat, StartIs
  <1>10. Tour[n - 1][<<q[n], Stops>>] \in Nat
    BY <1>0, <1>5, <1>7, TourIsNat
  <1> DEFINE T == {Tour[K][<<m, Stops>>] : m \in Node}
  <1>11. T \subseteq Nat /\ T # {} /\ Tour[K][<<q[n], Stops>>] \in T
    BY <1>7, <1>9
  <1>12. LeastTour = Min(T)
    BY DEF LeastTour, K
  <1> HIDE DEF T
  <1>13. Min(T) \in T /\ Min(T) <= Tour[K][<<q[n], Stops>>]
    BY <1>11, MinIs
  <1>14. Tour[K][<<q[n], Stops>>] <= Tour[n - 1][<<q[n], Stops>>]
    BY <1>5, <1>8
  <1>15. Min(T) \in Nat /\ Tour[K][<<q[n], Stops>>] \in Nat
    BY <1>11, <1>13
  <1> QED BY <1>4, <1>6, <1>10, <1>12, <1>13, <1>14, <1>15

\* Where an order ends.
End(s) == IF s = <<>> THEN start ELSE Last(s)

\* Walking over the order s of X leg by leg and on to n takes no more than v.
Attains(s, X, n, v) ==
  OrderOf(s, X) /\ \E c : Costs(s, c) /\ c[Len(s)] + Delta(End(s))[n] <= v

\* What is said of an order makes sense.
LEMMA OrderIs ==
  ASSUME Asked, NEW s, NEW X, X \subseteq Node, OrderOf(s, X)
  PROVE  /\ s \in Seq(Node) /\ Len(s) \in Nat /\ (\A i \in 1..Len(s) : s[i] \in X /\ s[i] \in Node)
         /\ End(s) \in Start /\ \A n \in Start : Delta(End(s))[n] \in Nat
         /\ \A c : Costs(s, c) => c[Len(s)] \in Nat
  <1>1. s \in Seq(Node) /\ Len(s) \in Nat /\ X = {s[i] : i \in 1..Len(s)} /\ DOMAIN s = 1..Len(s)
    <2>1. s \in Seq(Stop) /\ Len(s) \in Nat /\ X = {s[i] : i \in 1..Len(s)} /\ DOMAIN s = 1..Len(s)
      BY LenProperties, RangeEquality DEF OrderOf
    <2>2. s \in [1..Len(s) -> Node]
      <3>1. s \in [1..Len(s) -> Stop]
        BY <2>1, LenProperties
      <3>2. \A i \in 1..Len(s) : s[i] \in Node
        BY <2>1
      <3> QED BY <3>1, <3>2
    <2> QED BY <2>1, <2>2, SeqDef
  <1>2. \A i \in 1..Len(s) : s[i] \in X /\ s[i] \in Node
    BY <1>1, ElementOfSeq
  <1>3. End(s) \in Start
    <2>1. CASE s = <<>>
      BY <2>1 DEF End, Asked
    <2>2. CASE s # <<>>
      <3>1. Len(s) \in 1..Len(s)
        BY <1>1, <2>2, EmptySeq
      <3> QED BY <1>2, <2>2, <3>1, StartIs DEF End, Last
    <2> QED BY <2>1, <2>2
  <1>4. \A n \in Start : Delta(End(s))[n] \in Nat
    <2>1. Delta(End(s)) \in [Start -> 0..Infinity] /\ Infinity \in Nat
      BY <1>3, DeltaIs, InfinityIsNat DEF Asked
    <2> QED BY <2>1
  <1>5. ASSUME NEW c, Costs(s, c) PROVE c[Len(s)] \in Nat
    <2>1. Len(s) \in 0..Len(s)
      BY <1>1
    <2> QED BY <1>5, <2>1 DEF Costs
  <1> QED BY <1>1, <1>2, <1>3, <1>4, <1>5

\* One step more, at its weight.
LEMMA AttainsNear ==
  ASSUME Asked, NEW s, NEW X, NEW m, NEW n, NEW v \in Nat,
         X \subseteq Node, Attains(s, X, m, v), m \in Neighbors(n)
  PROVE  Attains(s, X, n, v + weight[{m, n}])
  <1>1. PICK c : Costs(s, c) /\ c[Len(s)] + Delta(End(s))[m] <= v
    BY DEF Attains
  <1>2. OrderOf(s, X) /\ weight \in [Passage -> Weight]
    BY DEF Attains, Asked
  <1>3. m \in Start /\ n \in Start /\ weight[{m, n}] \in Nat
    BY <1>2, TourNeighbors, StartIs
  <1>4. /\ c[Len(s)] \in Nat /\ Delta(End(s))[m] \in Nat /\ Delta(End(s))[n] \in Nat
        /\ End(s) \in Start
    BY <1>1, <1>2, <1>3, OrderIs
  <1>5. Delta(End(s))[n] <= Delta(End(s))[m] + weight[{m, n}]
    BY <1>2, <1>4, DeltaIs
  <1>6. c[Len(s)] + Delta(End(s))[n] <= v + weight[{m, n}]
    BY <1>1, <1>3, <1>4, <1>5
  <1> QED BY <1>1, <1>2, <1>6 DEF Attains

\* A requested room that is come to for the first time ends a longer order.
LEMMA AttainsSeen ==
  ASSUME Asked, NEW s, NEW X, NEW n \in Node, NEW v \in Nat,
         X \subseteq Node, Attains(s, X, n, v), n \notin X
  PROVE  \E t : Attains(t, X \cup {n}, n, v)
  <1> DEFINE l == Len(s)
             t == Append(s, n)
  <1>1. PICK c : Costs(s, c) /\ c[l] + Delta(End(s))[n] <= v
    BY DEF Attains
  <1>2. OrderOf(s, X) /\ weight \in [Passage -> Weight] /\ n \in Start
    BY StartIs DEF Attains, Asked
  <1>3. /\ s \in Seq(Node) /\ l \in Nat /\ (\A i \in 1..l : s[i] \in X /\ s[i] \in Node)
        /\ c[l] \in Nat /\ Delta(End(s))[n] \in Nat
    BY <1>1, <1>2, OrderIs
  <1>4. /\ t \in Seq(Node) /\ t # <<>> /\ Len(t) = l + 1
        /\ (\A i \in 1..l : t[i] = s[i]) /\ t[l + 1] = n
    BY <1>3, AppendProperties
  <1>5. DOMAIN t = 1..(l + 1) /\ Range(t) = {t[i] : i \in 1..(l + 1)}
    BY <1>4, LenProperties, RangeEquality
  <1>6. /\ X = {s[i] : i \in 1..l} /\ \A i, j \in 1..l : s[i] = s[j] => i = j
    BY <1>2, <1>3, LenProperties, RangeEquality DEF OrderOf, IsInjective
  <1> DEFINE e == [i \in 0..(l + 1) |-> IF i = l + 1 THEN c[l] + Delta(End(s))[n] ELSE c[i]]
  <1>7. c \in [0..l -> Nat] /\ c[0] = 0
        /\ \A i \in 1..l : c[i] = c[i - 1] + Delta(IF i = 1 THEN start ELSE s[i - 1])[s[i]]
    BY <1>1 DEF Costs
  <1> HIDE DEF l, t
  <1>8. /\ e \in [0..(l + 1) -> Nat] /\ e[l + 1] = c[l] + Delta(End(s))[n]
        /\ \A i \in 0..l : e[i] = c[i]
    <2>1. \A i \in 0..l : i # l + 1 /\ i \in 0..(l + 1)
      BY <1>3
    <2>2. l + 1 \in 0..(l + 1) /\ \A i \in 0..(l + 1) : i = l + 1 \/ i \in 0..l
      BY <1>3
    <2> QED BY <1>3, <1>7, <2>1, <2>2
  <1> HIDE DEF e
  <1>9. End(s) = IF l + 1 = 1 THEN start ELSE t[(l + 1) - 1]
    <2>1. CASE l = 0
      <3>1. s = <<>>
        BY <1>3, <2>1, EmptySeq DEF l
      <3> QED BY <2>1, <3>1 DEF End
    <2>2. CASE l # 0
      <3>1. s # <<>> /\ l + 1 # 1 /\ (l + 1) - 1 = l /\ l \in 1..l
        BY <1>3, <2>2, EmptySeq DEF l
      <3>2. t[l] = s[l] /\ Last(s) = s[l]
        BY <1>4, <3>1 DEF Last, l
      <3> QED BY <3>1, <3>2 DEF End
    <2> QED BY <2>1, <2>2
  <1>10. ASSUME NEW i \in 1..(l + 1)
         PROVE  e[i] = e[i - 1] + Delta(IF i = 1 THEN start ELSE t[i - 1])[t[i]]
    <2>1. CASE i = l + 1
      <3>1. l \in 0..l /\ (l + 1) - 1 = l
        BY <1>3
      <3>2. e[(l + 1) - 1] = c[l]
        BY <1>8, <3>1
      <3> QED BY <1>4, <1>8, <1>9, <2>1, <3>2
    <2>2. CASE i # l + 1
      <3>1. i \in 1..l /\ i \in 0..l /\ i - 1 \in 0..l
        BY <1>3, <2>2
      <3>2. e[i] = c[i] /\ e[i - 1] = c[i - 1] /\ t[i] = s[i]
        BY <1>4, <1>8, <3>1
      <3>3. (IF i = 1 THEN start ELSE t[i - 1]) = (IF i = 1 THEN start ELSE s[i - 1])
        <4>1. i # 1 => i - 1 \in 1..l
          BY <3>1
        <4> QED BY <1>4, <4>1
      <3> QED BY <1>7, <3>1, <3>2, <3>3
    <2> QED BY <2>1, <2>2
  <1>11. Costs(t, e)
    <2>1. e[0] = 0
      <3>1. 0 \in 0..l
        BY <1>3
      <3> QED BY <1>7, <1>8, <3>1
    <2> QED BY <1>4, <1>8, <1>10, <2>1 DEF Costs
  <1>12. OrderOf(t, X \cup {n})
    <2>1. IsInjective(t)
      <3>1. SUFFICES ASSUME NEW i \in 1..(l + 1), NEW j \in 1..(l + 1), t[i] = t[j] PROVE i = j
        BY <1>5 DEF IsInjective
      <3>2. \A k \in 1..(l + 1) : k = l + 1 \/ k \in 1..l
        BY <1>3
      <3>3. \A k \in 1..l : t[k] = s[k] /\ t[k] # n
        BY <1>3, <1>4
      <3> QED BY <1>4, <1>6, <3>1, <3>2, <3>3
    <2>2. Range(t) = X \cup {n}
      <3>1. \A k \in 1..(l + 1) : k = l + 1 \/ k \in 1..l
        BY <1>3
      <3>2. l + 1 \in 1..(l + 1) /\ \A k \in 1..l : k \in 1..(l + 1)
        BY <1>3
      <3> QED BY <1>4, <1>5, <1>6, <3>1, <3>2
    <2>3. t \in Seq(Stop)
      BY <1>4, SeqMonotonic DEF Stop
    <2> QED BY <2>1, <2>2, <2>3 DEF OrderOf
  <1>13. End(t) = n
    BY <1>4 DEF End, Last
  <1>14. e[Len(t)] + Delta(End(t))[n] <= v
    <2>1. Delta(n)[n] = 0
      BY <1>2, DeltaIs
    <2> QED BY <1>1, <1>3, <1>4, <1>8, <1>13, <2>1
  <1>15. Attains(t, X \cup {n}, n, v)
    BY <1>11, <1>12, <1>14 DEF Attains
  <1> QED BY <1>15

\* Every length that Tour comes to is that of an order's legs and a last walk.
LEMMA OrderBelow ==
  ASSUME Asked, Stops \subseteq Node
  PROVE  \A k \in Nat : \A n \in Start, X \in SUBSET Stops :
           Tour[k][<<n, X>>] < Infinity => \E s : Attains(s, X, n, Tour[k][<<n, X>>])
  <1> DEFINE Z == {k \in Nat : \A n \in Start, X \in SUBSET Stops :
                     Tour[k][<<n, X>>] < Infinity => \E s : Attains(s, X, n, Tour[k][<<n, X>>])}
  <1>1. weight \in [Passage -> Weight] /\ start \in Start /\ Stops \subseteq Node
    BY DEF Asked
  <1>2. 0 \in Z
    <2>1. SUFFICES ASSUME NEW n \in Start, NEW X \in SUBSET Stops, Tour[0][<<n, X>>] < Infinity
                   PROVE  \E s : Attains(s, X, n, Tour[0][<<n, X>>])
      OBVIOUS
    <2>2. n = start /\ X \subseteq {start} /\ Tour[0][<<n, X>>] = 0
      BY <1>1, <2>1, TourIs, InfinityIsNat
    <2>3. Attains(<<>>, {}, start, 0)
      <3>1. <<>> \in Seq(Node) /\ Len(<<>>) = 0 /\ IsInjective(<<>>) /\ Range(<<>>) = {}
        BY EmptySeq DEF IsInjective, Range
      <3>2. Costs(<<>>, [i \in 0..0 |-> 0])
        BY <3>1 DEF Costs
      <3>3. End(<<>>) = start /\ Delta(start)[start] = 0
        BY <1>1, DeltaIs DEF End
      <3> QED BY <3>1, <3>2, <3>3 DEF Attains, OrderOf
    <2>4. CASE X = {}
      BY <2>2, <2>3, <2>4
    <2>5. CASE X # {}
      <3>1. X = {} \cup {start} /\ start \in Node
        BY <1>1, <2>2, <2>5
      <3>2. \E t : Attains(t, {} \cup {start}, start, 0)
        BY <2>3, <3>1, AttainsSeen
      <3> QED BY <2>2, <3>1, <3>2
    <2> QED BY <2>4, <2>5
  <1>3. ASSUME NEW k \in Nat, k \in Z PROVE k + 1 \in Z
    <2>1. SUFFICES ASSUME NEW n \in Start, NEW X \in SUBSET Stops, Tour[k + 1][<<n, X>>] < Infinity
                   PROVE  \E s : Attains(s, X, n, Tour[k + 1][<<n, X>>])
      OBVIOUS
    <2>2. \/ Tour[k + 1][<<n, X>>] = Tour[k][<<n, X>>]
          \/ \E m \in Neighbors(n) :
               Tour[k + 1][<<n, X>>] = Tour[k][<<m, X \ {n}>>] + weight[{m, n}]
      BY <1>1, TourIs
    <2>3. CASE Tour[k + 1][<<n, X>>] = Tour[k][<<n, X>>]
      BY <1>3, <2>1, <2>3
    <2>4. CASE \E m \in Neighbors(n) :
                 Tour[k + 1][<<n, X>>] = Tour[k][<<m, X \ {n}>>] + weight[{m, n}]
      <3>1. PICK m \in Neighbors(n) : Tour[k + 1][<<n, X>>] = Tour[k][<<m, X \ {n}>>] + weight[{m, n}]
        BY <2>4
      <3> DEFINE Y == X \ {n}
                 v == Tour[k][<<m, Y>>]
      <3>2. /\ m \in Start /\ n \in Node /\ weight[{m, n}] \in Nat
            /\ Y \in SUBSET Stops /\ Y \subseteq Node
        BY <1>1, TourNeighbors, StartIs
      <3> HIDE DEF Y
      <3>3. v \in Nat /\ v + weight[{m, n}] \in Nat
        <4>1. v \in Nat
          BY <1>1, <3>2, TourIsNat
        <4> QED BY <3>2, <4>1
      <3>4. Tour[k + 1][<<n, X>>] = v + weight[{m, n}]
        BY <3>1 DEF Y
      <3> HIDE DEF v
      <3>5. v < Infinity
        BY <2>1, <3>2, <3>3, <3>4, InfinityIsNat
      <3>6. PICK s : Attains(s, Y, m, v)
        BY <1>3, <3>2, <3>5 DEF v
      <3>7. Attains(s, Y, n, v + weight[{m, n}])
        BY <3>2, <3>3, <3>6, AttainsNear
      <3>8. CASE n \in X
        <4>1. X = Y \cup {n} /\ n \notin Y
          BY <3>8 DEF Y
        <4>2. \E t : Attains(t, Y \cup {n}, n, v + weight[{m, n}])
          BY <3>2, <3>3, <3>7, <4>1, AttainsSeen
        <4> QED BY <3>4, <4>1, <4>2
      <3>9. CASE n \notin X
        <4>1. X = Y
          BY <3>9 DEF Y
        <4> QED BY <3>4, <3>7, <4>1
      <3> QED BY <3>8, <3>9
    <2> QED BY <2>2, <2>3, <2>4
  <1>4. Nat \subseteq Z
    <2> HIDE DEF Z
    <2> QED BY <1>2, <1>3, InductionSet
  <1> QED BY <1>4

\* A walk's metre reading at its end is the sum that Walked takes.
LEMMA WalkedIs ==
  ASSUME weight \in [Passage -> Weight], NEW q, q \in Seq(Start), q # <<>>, NEW v, Measured(q, v)
  PROVE  Walked(q) = v
  <1> DEFINE n == Len(q) - 1
             f == [i \in 1..n |-> weight[{q[i], q[i + 1]}]]
  <1>1. PICK o : Metered(q, o) /\ o[Len(q)] = v
    BY DEF Measured
  <1>2. n \in Nat /\ n + 1 = Len(q)
    BY EmptySeq
  <1> HIDE DEF n
  <1>3. /\ o \in [1..(n + 1) -> Nat] /\ o[1] = 0
        /\ \A i \in 1..n : q[i + 1] \in Neighbors(q[i]) /\ o[i + 1] = o[i] + weight[{q[i], q[i + 1]}]
    <2>1. (n + 1) - 1 = n
      BY <1>2
    <2> QED BY <1>1, <1>2, <2>1 DEF Metered
  <1>4. \A i \in 1..n : f[i] \in Nat /\ o[i + 1] = o[i] + f[i]
    <2>1. ASSUME NEW i \in 1..n PROVE f[i] \in Nat /\ o[i + 1] = o[i] + f[i]
      <3>1. q[i + 1] \in Neighbors(q[i])
        BY <1>3
      <3>2. weight[{q[i + 1], q[i]}] \in Nat
        BY <3>1, TourNeighbors
      <3>3. {q[i + 1], q[i]} = {q[i], q[i + 1]} /\ f[i] = weight[{q[i], q[i + 1]}]
        OBVIOUS
      <3> QED BY <1>3, <3>2, <3>3
    <2> QED BY <2>1
  <1>5. f \in [1..n -> Nat]
    BY <1>4
  <1>6. \A i \in 1..(n + 1) : o[i] \in Nat
    BY <1>3
  <1>7. Walked(q) = Total(f)
    BY FoldIsTotal DEF Walked, n
  <1>8. \A i \in 1..n : o[i + 1] = o[i] + f[i]
    BY <1>4
  <1> HIDE DEF f
  <1>9. Total(f) \in Nat /\ o[n + 1] = o[1] + Total(f)
    BY <1>2, <1>5, <1>6, <1>8, Telescope
  <1> QED BY <1>1, <1>2, <1>3, <1>7, <1>9

\* Among the costed orders is one that is no longer than the least tour.
LEMMA AnswerBelow ==
  ASSUME Asked, Stops \subseteq Node, Best, perms = <<>>
  PROVE  shortestPath # <<>> /\ shortestDistance <= LeastTour
  <1> DEFINE K == MaxStops * Cardinality(Node)
             T == {Tour[K][<<m, Stops>>] : m \in Node}
  <1>1. /\ weight \in [Passage -> Weight] /\ start \in Start
        /\ nodes \in Seq(Stop) /\ nodes # <<>> /\ IsInjective(nodes)
    BY DEF Asked
  <1>2. /\ shortestDistance \in 0..Infinity
        /\ \A p : OrderOf(p, Stops) => shortestPath # <<>> /\ \A v : Priced(p, v) => shortestDistance <= v
    <2>1. \A p : p \notin Range(perms)
      BY EmptySeq DEF Range
    <2> QED BY <2>1 DEF Best
  <1>3. shortestPath # <<>>
    <2>1. OrderOf(nodes, Stops)
      BY <1>1 DEF OrderOf, Stops
    <2> QED BY <1>2, <2>1
  <1>4. K \in Nat /\ Stops \in SUBSET Stops /\ \A m \in Node : m \in Start
    BY HeaviestIs, ProductNat, StartIs, <1>1
  <1> HIDE DEF K
  <1>5. \A m \in Node : Tour[K][<<m, Stops>>] \in 0..Infinity /\ Tour[K][<<m, Stops>>] \in Nat
    BY <1>1, <1>4, TourIs, TourIsNat
  <1>6. T \subseteq Nat /\ T # {}
    <2>1. nodes[1] \in Node
      <3>1. 1 \in 1..Len(nodes) /\ Stops = {nodes[i] : i \in 1..Len(nodes)}
        BY <1>1, EmptySeq, RangeEquality DEF Stops
      <3> QED BY <3>1
    <2> QED BY <1>5, <2>1
  <1>7. LeastTour = Min(T)
    BY DEF LeastTour, K
  <1>8. PICK m \in Node : LeastTour = Tour[K][<<m, Stops>>]
    <2>1. Min(T) \in T
      <3> HIDE DEF T
      <3> QED BY <1>6, MinIs
    <2> QED BY <1>7, <2>1
  <1> DEFINE u == Tour[K][<<m, Stops>>]
  <1>9. u \in 0..Infinity /\ u \in Nat /\ shortestDistance \in Nat /\ Infinity \in Nat
    BY <1>2, <1>5, InfinityIsNat
  <1>10. CASE u < Infinity
    <2>1. PICK s : Attains(s, Stops, m, u)
      BY <1>4, <1>8, <1>10, OrderBelow
    <2>2. PICK c : Costs(s, c) /\ c[Len(s)] + Delta(End(s))[m] <= u
      BY <2>1 DEF Attains
    <2>3. OrderOf(s, Stops)
      BY <2>1 DEF Attains
    <2>4. c[Len(s)] \in Nat /\ Delta(End(s))[m] \in Nat
      BY <1>4, <1>8, <2>2, <2>3, OrderIs
    <2>5. shortestDistance <= c[Len(s)]
      BY <1>2, <2>2, <2>3 DEF Priced
    <2> HIDE DEF u
    <2>6. shortestDistance <= u
      BY <1>9, <2>2, <2>4, <2>5
    <2> QED BY <1>3, <1>8, <2>6 DEF u
  <1>11. CASE ~(u < Infinity)
    <2>1. shortestDistance <= u
      <3> HIDE DEF u
      <3> QED BY <1>2, <1>9, <1>11
    <2> QED BY <1>3, <1>8, <2>1 DEF u
  <1> QED BY <1>10, <1>11

\* The invariant of tsp.js and its reference: the answer is a shortest tour.
LEMMA TourShortest == TourInv => TourIsShortest
  <1>1. SUFFICES ASSUME TourInv, pc = "done", Stops \subseteq Node PROVE TourIsShortest
    BY DEF TourIsShortest
  <1>2. Asked /\ Best /\ perms = <<>> /\ weight \in [Passage -> Weight]
    BY <1>1 DEF TourInv, Searching, Asked
  <1>3. shortestPath # <<>> /\ shortestDistance <= LeastTour
    BY <1>1, <1>2, AnswerBelow
  <1>4. Answer(shortestPath, shortestDistance)
    BY <1>2, <1>3 DEF Best
  <1>5. LeastTour <= shortestDistance /\ shortestDistance \in Nat
    BY <1>1, <1>2, <1>4, AnswerAbove
  <1>6. /\ shortestPath \in Seq(Start) /\ shortestPath[1] = start
        /\ Last(shortestPath) \in Stops /\ Stops \subseteq Range(shortestPath)
        /\ Measured(shortestPath, shortestDistance)
    BY <1>4 DEF Answer
  <1>7. shortestDistance = LeastTour
    <2>1. LeastTour \in Nat
      <3> DEFINE T == {Tour[MaxStops * Cardinality(Node)][<<m, Stops>>] : m \in Node}
      <3>1. nodes[1] \in Node
        <4>1. 1 \in 1..Len(nodes) /\ Stops = {nodes[i] : i \in 1..Len(nodes)}
          BY <1>2, EmptySeq, RangeEquality DEF Stops, Asked
        <4> QED BY <1>1, <4>1
      <3>2. MaxStops * Cardinality(Node) \in Nat
        BY HeaviestIs, ProductNat, <1>2
      <3>3. T \subseteq Nat /\ T # {}
        <4>1. \A m \in Node : Tour[MaxStops * Cardinality(Node)][<<m, Stops>>] \in Nat
          <5> DEFINE K == MaxStops * Cardinality(Node)
          <5>1. K \in Nat /\ Stops \in SUBSET Stops
            BY <3>2
          <5> HIDE DEF K
          <5>2. \A m \in Node : Tour[K][<<m, Stops>>] \in Nat
            BY <1>2, <5>1, TourIsNat, StartIs
          <5> QED BY <5>2 DEF K
        <4> QED BY <3>1, <4>1
      <3>4. LeastTour = Min(T)
        BY DEF LeastTour
      <3> HIDE DEF T
      <3>5. Min(T) \in Nat
        BY <3>3, MinIs
      <3> QED BY <3>4, <3>5
    <2> QED BY <1>3, <1>5, <2>1
  <1>8. Walked(shortestPath) = shortestDistance
    BY <1>2, <1>3, <1>6, WalkedIs
  <1>9. Head(shortestPath) = start
    BY <1>3, <1>6, EmptySeq
  <1>10. \A i \in 1..(Len(shortestPath) - 1) : shortestPath[i + 1] \in Neighbors(shortestPath[i])
    BY <1>6 DEF Measured, Metered
  <1> QED BY <1>3, <1>6, <1>7, <1>8, <1>9, <1>10 DEF TourIsShortest

\* POST /tsp-path answers a shortest walk from the visitor through all requested
\* rooms (tsp.js), for every graph, weights, start and rooms in it: costing
\* the orders of the rooms leg by leg misses no shorter walk.
THEOREM TourIsAnswered == RoutingSpec => []TourAnswered
  <1>1. (call = "tour" => TourInv) => TourAnswered
    BY TourShortest DEF TourAnswered
  <1> QED BY <1>1, TourInvariant, PTL
=============================================================================
