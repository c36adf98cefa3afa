----------------------------- MODULE BleTagProofs -----------------------------
(***************************************************************************)
(* The reports of the first tag, for any beacons, cards and limits: the    *)
(* list of devices stays sound, the loop that averages a device's values   *)
(* and the loop that writes the report are followed turn by turn, and the  *)
(* invariants of the WiFi events and of the card reader join them.         *)
(***************************************************************************)
EXTENDS BleTag, FiniteSetTheorems, SequenceTheorems, TLAPS

\* What the list of devices holds.
Value == [value : (-128)..0, fresh : BOOLEAN]
DeviceInfo == [address : Beacons, rssi : Seq(Value)]

-----------------------------------------------------------------------------
(***************************************************************************)
(* Numbers, induction and loops.                                           *)
(***************************************************************************)
\* A nonempty set of numbers has a least element.
LEMMA LeastOf ==
  ASSUME NEW T, T \subseteq Nat, T # {}
  PROVE  \E x \in T : \A y \in T : x <= y
  <1> DEFINE R == OpToRel(<, Nat)
  <1>1. IsWellFoundedOn(R, Nat)
    BY NatLessThanWellFounded
  <1>2. \A x, y \in Nat : <<y, x>> \in R <=> y < x
    BY DEF OpToRel
  <1> HIDE DEF R
  <1>3. PICK x \in T : \A y \in T : ~ (<<y, x>> \in R)
    BY <1>1, WFMin
  <1>4. ASSUME NEW y \in T PROVE x <= y
    <2>1. x \in Nat /\ y \in Nat
      OBVIOUS
    <2>2. ~ (y < x)
      BY <1>2, <1>3, <2>1, Zenon
    <2> QED BY <2>1, <2>2
  <1> QED BY <1>3, <1>4

\* Induction, as a set that holds 0 and the successor of each member.
LEMMA InductionSet ==
  ASSUME NEW S, 0 \in S, \A n \in Nat : n \in S => n + 1 \in S
  PROVE  Nat \subseteq S
  <1> SUFFICES ASSUME Nat \ S # {} PROVE FALSE
    OBVIOUS
  <1>1. PICK x \in Nat \ S : \A y \in Nat \ S : x <= y
    BY LeastOf
  <1>2. x # 0
    OBVIOUS
  <1>3. x - 1 \in Nat /\ x - 1 \in S
    BY <1>1, <1>2
  <1> QED BY <1>3

\* f is the sequence v0, G[1][v0], G[2][G[1][v0]], ...
Loop(n, v0, G, f) == f = [k \in 0..n |-> IF k = 0 THEN v0 ELSE G[k][f[k - 1]]]

\* A loop of n turns can be run: what a recursive definition needs to have a value.
LEMMA LoopRuns ==
  ASSUME NEW n \in Nat, NEW V, NEW v0 \in V, NEW G \in [1..n -> [V -> V]]
  PROVE  \E f \in [0..n -> V] : Loop(n, v0, G, f)
  <1> DEFINE T == {m \in Nat : m <= n => \E f \in [0..m -> V] : Loop(m, v0, G, f)}
  <1>1. 0 \in T
    <2>1. [k \in 0..0 |-> v0] \in [0..0 -> V]
      OBVIOUS
    <2>2. Loop(0, v0, G, [k \in 0..0 |-> v0])
      BY DEF Loop
    <2> QED BY <2>1, <2>2
  <1>2. ASSUME NEW m \in Nat, m \in T PROVE m + 1 \in T
    <2>1. SUFFICES ASSUME m + 1 <= n PROVE \E f \in [0..(m + 1) -> V] : Loop(m + 1, v0, G, f)
      OBVIOUS
    <2>2. PICK f \in [0..m -> V] : Loop(m, v0, G, f)
      BY <1>2, <2>1
    <2> DEFINE g == [k \in 0..(m + 1) |-> IF k = m + 1 THEN G[m + 1][f[m]] ELSE f[k]]
    <2>3. f[m] \in V /\ m + 1 \in 1..n
      BY <2>1, <2>2
    <2>4. G[m + 1][f[m]] \in V
      BY <2>3
    <2>5. g \in [0..(m + 1) -> V]
      BY <2>2, <2>4
    <2>6. \A k \in 0..m : f[k] = IF k = 0 THEN v0 ELSE G[k][f[k - 1]]
      BY <2>2 DEF Loop
    <2>7. \A k \in 0..(m + 1) : g[k] = IF k = 0 THEN v0 ELSE G[k][g[k - 1]]
      <3>1. SUFFICES ASSUME NEW k \in 0..(m + 1)
                     PROVE  g[k] = IF k = 0 THEN v0 ELSE G[k][g[k - 1]]
        OBVIOUS
      <3>2. CASE k = m + 1
        <4>1. m \in 0..(m + 1) /\ m # m + 1 /\ k - 1 = m /\ k # 0
          BY <3>2
        <4>2. g[m] = f[m] /\ g[k] = G[m + 1][f[m]]
          BY <3>2, <4>1
        <4> HIDE DEF g
        <4> QED BY <3>2, <4>1, <4>2
      <3>3. CASE k \in 0..m
        <4>1. k # m + 1 /\ (k # 0 => k - 1 \in 0..(m + 1) /\ k - 1 # m + 1)
          BY <3>3
        <4>2. g[k] = f[k] /\ (k # 0 => g[k - 1] = f[k - 1])
          BY <4>1
        <4> HIDE DEF g
        <4> QED BY <2>6, <3>3, <4>2
      <3> QED BY <3>2, <3>3
    <2>8. g = [k \in 0..(m + 1) |-> g[k]]
      OBVIOUS
    <2> HIDE DEF g
    <2>9. Loop(m + 1, v0, G, g)
      BY <2>7, <2>8 DEF Loop
    <2> QED BY <2>5, <2>9
  <1> HIDE DEF T
  <1>3. Nat \subseteq T
    BY <1>1, <1>2, InductionSet
  <1> QED BY <1>3 DEF T

-----------------------------------------------------------------------------
(***************************************************************************)
(* The list of devices.                                                    *)
(***************************************************************************)
\* Looking for a device.
LEMMA DeviceIs ==
  ASSUME NEW list \in Seq(DeviceInfo), NEW bda
  PROVE  /\ Device(list, bda) \in 0..Len(list)
         /\ Device(list, bda) # 0 => list[Device(list, bda)].address = bda
         /\ Device(list, bda) = 0 => \A i \in 1..Len(list) : list[i].address # bda
  <1> DEFINE I == {i \in 1..Len(list) : list[i].address = bda}
  <1>1. Len(list) \in Nat
    OBVIOUS
  <1>2. Device(list, bda) = IF I # {} THEN Min(I) ELSE 0
    BY DEF Device, SelectInSeq
  <1>3. I # {} => Min(I) \in I
    <2>1. I \subseteq Nat
      BY <1>1
    <2> HIDE DEF I
    <2> QED BY <2>1, LeastOf DEF Min
  <1> QED BY <1>1, <1>2, <1>3
-----------------------------------------------------------------------------
(***************************************************************************)
(* The average of a device's values.                                       *)
(***************************************************************************)
\* A signal strength is a signed byte, and none is above 0 dBm.
LEMMA ValueIs ==
  ASSUME NEW v \in Value
  PROVE  v.value \in (-128)..0 /\ v.value \in Int
  BY DEF Value

\* A quotient is between the bounds of what is divided.
LEMMA DivBetween ==
  ASSUME NEW n \in Nat \ {0}, NEW a \in Int, NEW b \in Int, NEW s \in Int, n * a <= s, s <= n * b
  PROVE  a <= s \div n /\ s \div n <= b
  <1> DEFINE q == s \div n
  <1>1. q \in Int /\ q * n <= s /\ s < (q + 1) * n
    BY Z3
  <1> HIDE DEF q
  <1>2. ASSUME NEW x \in Int, NEW y \in Int, x < y PROVE (x + 1) * n <= y * n
    <2>1. y - (x + 1) \in Nat
      BY <1>2
    <2>2. PICK d \in Nat : y = x + 1 + d
      BY <2>1
    <2>3. d * n >= 0
      BY <2>2
    <2>4. y * n = (x + 1) * n + d * n
      BY <2>2
    <2>5. (x + 1) * n \in Int /\ d * n \in Int
      BY <2>2
    <2> QED BY <2>3, <2>4, <2>5
  <1>3. q * n \in Int /\ (q + 1) * n \in Int /\ a * n \in Int /\ (b + 1) * n \in Int /\ b * n \in Int
    BY <1>1
  <1>4. n * a = a * n /\ n * b = b * n
    OBVIOUS
  <1>5. ~(q < a)
    BY <1>1, <1>2, <1>3, <1>4
  <1>6. ~(b < q)
    <2>1. SUFFICES ASSUME b < q PROVE FALSE
      OBVIOUS
    <2>2. (b + 1) * n <= q * n
      BY <1>1, <1>2, <2>1
    <2>3. (b + 1) * n = b * n + n
      OBVIOUS
    <2> QED BY <1>1, <1>3, <1>4, <2>2, <2>3
  <1> QED BY <1>1, <1>5, <1>6 DEF q

\* The loop that adds the values up.
Summing(values, f) ==
  [j \in 0..Len(values) |-> IF j = 0 THEN 0 ELSE f[j - 1] + values[j].value]

\* It has a value, which is an integer after every turn.
LEMMA SumExists ==
  ASSUME NEW values \in Seq(Value)
  PROVE  \E f \in [0..Len(values) -> Int] : f = Summing(values, f)
  <1> DEFINE n == Len(values)
             G == [j \in 1..n |-> [x \in Int |-> x + values[j].value]]
  <1>1. n \in Nat /\ \A j \in 1..n : values[j].value \in Int
    <2>1. n \in Nat /\ \A j \in 1..n : values[j] \in Value
      BY LenProperties, ElementOfSeq
    <2> QED BY <2>1, ValueIs
  <1>2. G \in [1..n -> [Int -> Int]] /\ \A j \in 1..n, x \in Int : G[j][x] = x + values[j].value
    BY <1>1
  <1> HIDE DEF G
  <1>3. PICK f \in [0..n -> Int] : Loop(n, 0, G, f)
    <2>1. n \in Nat /\ 0 \in Int
      BY <1>1
    <2>2. G \in [1..n -> [Int -> Int]]
      BY <1>2
    <2> HIDE DEF n
    <2> QED BY ONLY <2>1, <2>2, LoopRuns
  <1>4. \A j \in 0..n : (IF j = 0 THEN 0 ELSE G[j][f[j - 1]]) = IF j = 0 THEN 0 ELSE f[j - 1] + values[j].value
    <2>1. \A j \in 0..n : j # 0 => j \in 1..n /\ f[j - 1] \in Int
      BY <1>1, <1>3
    <2> QED BY <1>2, <2>1
  <1>5. f = Summing(values, f)
    BY <1>3, <1>4 DEF Loop, Summing
  <1> QED BY <1>3, <1>5

\* Of some signal strengths one is the least and one the greatest.
LEMMA Extremes ==
  ASSUME NEW n \in Nat \ {0}, NEW w \in [1..n -> (-128)..0]
  PROVE  /\ \E a \in 1..n : \A j \in 1..n : w[a] <= w[j]
         /\ \E b \in 1..n : \A j \in 1..n : w[j] <= w[b]
  <1> DEFINE Up == {x \in Nat : \E j \in 1..n : x = w[j] + 128}
             Down == {x \in Nat : \E j \in 1..n : x = -w[j]}
  <1>1. \A j \in 1..n : w[j] \in Int /\ w[j] + 128 \in Up /\ -w[j] \in Down
    <2>1. \A j \in 1..n : w[j] \in (-128)..0
      OBVIOUS
    <2>2. \A v \in (-128)..0 : v \in Int /\ v + 128 \in Nat /\ -v \in Nat
      OBVIOUS
    <2>3. \A j \in 1..n : w[j] \in Int /\ w[j] + 128 \in Nat /\ -w[j] \in Nat
      BY <2>1, <2>2
    <2> QED BY <2>3
  <1>2. 1 \in 1..n
    OBVIOUS
  <1>3. PICK x \in Up : \A y \in Up : x <= y
    <2>1. Up \subseteq Nat /\ Up # {}
      BY <1>1, <1>2
    <2> HIDE DEF Up
    <2> QED BY <2>1, LeastOf
  <1>4. PICK z \in Down : \A y \in Down : z <= y
    <2>1. Down \subseteq Nat /\ Down # {}
      BY <1>1, <1>2
    <2> HIDE DEF Down
    <2> QED BY <2>1, LeastOf
  <1>5. PICK a \in 1..n : x = w[a] + 128
    BY <1>3
  <1>6. PICK b \in 1..n : z = -w[b]
    BY <1>4
  <1> HIDE DEF Up, Down
  <1>7. \A j \in 1..n : w[a] <= w[j]
    BY <1>1, <1>3, <1>5
  <1>8. \A j \in 1..n : w[j] <= w[b]
    BY <1>1, <1>4, <1>6
  <1> QED BY <1>7, <1>8

\* The average of a report is between two of the values it is taken of.
LEMMA AverageBetween ==
  ASSUME NEW values \in Seq(Value), values # <<>>
  PROVE  /\ average_rssi(values) \in (-128)..0
         /\ \E a, b \in DOMAIN values : average_rssi(values) \in values[a].value..values[b].value
  <1> DEFINE n == Len(values)
             f == CHOOSE g : g = Summing(values, g)
  <1>1. /\ n \in Nat \ {0} /\ DOMAIN values = 1..n
        /\ \A j \in 1..n : values[j].value \in (-128)..0
    <2>1. \A j \in 1..n : values[j] \in Value
      BY ElementOfSeq
    <2>2. n \in Nat \ {0} /\ DOMAIN values = 1..n
      BY LenProperties, EmptySeq
    <2> QED BY <2>1, <2>2, ValueIs
  <1>2. f = Summing(values, f)
    BY SumExists
  <1>3. average_rssi(values) = -((-f[n]) \div n)
    BY DEF average_rssi, Summing
  <1> HIDE DEF n, f
  <1> DEFINE w == [j \in 1..n |-> values[j].value]
  <1>0. w \in [1..n -> (-128)..0] /\ \A j \in 1..n : w[j] = values[j].value
    BY <1>1
  <1> HIDE DEF w
  <1>30. /\ \E a \in 1..n : \A j \in 1..n : w[a] <= w[j]
         /\ \E b \in 1..n : \A j \in 1..n : w[j] <= w[b]
    BY <1>0, <1>1, Extremes
  <1>4. PICK lo \in 1..n : \A j \in 1..n : values[lo].value <= values[j].value
    BY <1>0, <1>30
  <1>5. PICK hi \in 1..n : \A j \in 1..n : values[j].value <= values[hi].value
    BY <1>0, <1>30
  <1> DEFINE l == values[lo].value
             h == values[hi].value
             T == {m \in Nat : m <= n => f[m] \in Int /\ m * l <= f[m] /\ f[m] <= m * h}
  <1>6. l \in (-128)..0 /\ h \in (-128)..0 /\ \A j \in 1..n : l <= values[j].value /\ values[j].value <= h
    BY <1>1, <1>4, <1>5
  <1>7. \A j \in 0..n : f[j] = IF j = 0 THEN 0 ELSE f[j - 1] + values[j].value
    BY <1>2 DEF Summing, n
  <1> HIDE DEF l, h
  <1>8. 0 \in T
    <2>1. f[0] = 0
      BY <1>1, <1>7
    <2>2. 0 * l = 0 /\ 0 * h = 0
      BY <1>6
    <2> QED BY <2>1, <2>2
  <1>9. ASSUME NEW m \in Nat, m \in T PROVE m + 1 \in T
    <2>1. SUFFICES ASSUME m + 1 <= n
                   PROVE  f[m + 1] \in Int /\ (m + 1) * l <= f[m + 1] /\ f[m + 1] <= (m + 1) * h
      OBVIOUS
    <2>2. f[m] \in Int /\ m * l <= f[m] /\ f[m] <= m * h
      BY <1>1, <1>9, <2>1
    <2>3. m + 1 \in 0..n /\ m + 1 # 0 /\ m + 1 \in 1..n /\ (m + 1) - 1 = m
      BY <1>1, <2>1
    <2>4. f[m + 1] = f[m] + values[m + 1].value
      BY <1>7, <2>3
    <2>5. PICK v \in Int : v = values[m + 1].value
      BY <1>1, <2>3
    <2>6. l <= v /\ v <= h /\ l \in Int /\ h \in Int
      BY <1>6, <2>3, <2>5
    <2>7. (m + 1) * l = m * l + l /\ (m + 1) * h = m * h + h /\ m * l \in Int /\ m * h \in Int
      BY <2>6
    <2> QED BY <2>2, <2>4, <2>5, <2>6, <2>7
  <1> HIDE DEF T
  <1>10. n \in T
    BY <1>1, <1>8, <1>9, InductionSet
  <1>11. f[n] \in Int /\ n * l <= f[n] /\ f[n] <= n * h
    BY <1>1, <1>10 DEF T
  <1>12. l \in Int /\ h \in Int /\ -l \in Int /\ -h \in Int
    BY <1>6
  <1>13. n * (-h) <= -f[n] /\ -f[n] <= n * (-l)
    <2>1. n * (-h) = -(n * h) /\ n * (-l) = -(n * l) /\ n * h \in Int /\ n * l \in Int
      BY <1>1, <1>12
    <2> QED BY <1>11, <2>1
  <1>14. -h <= (-f[n]) \div n /\ (-f[n]) \div n <= -l
    <2>1. PICK s \in Int : s = -f[n]
      BY <1>11
    <2> QED BY <1>1, <1>12, <1>13, <2>1, DivBetween
  <1>15. (-f[n]) \div n \in Int
    BY <1>1, <1>11
  <1>16. average_rssi(values) \in l..h
    BY <1>3, <1>12, <1>14, <1>15
  <1>17. average_rssi(values) \in (-128)..0
    <2>1. PICK q : q = average_rssi(values)
      OBVIOUS
    <2>2. q \in l..h /\ l \in (-128)..0 /\ h \in (-128)..0
      BY <1>6, <1>16, <2>1
    <2>3. q \in (-128)..0
      BY ONLY <2>2
    <2> QED BY <2>1, <2>3
  <1>18. lo \in DOMAIN values /\ hi \in DOMAIN values
    BY <1>1
  <1> QED BY <1>16, <1>17, <1>18 DEF l, h
-----------------------------------------------------------------------------
(***************************************************************************)
(* What the handler keeps of a window.                                     *)
(***************************************************************************)
\* A list of devices as the handler keeps it: no beacon twice, and of each only
\* values of this window, as many as there is room for.
ListSound(list) ==
  /\ list \in Seq(DeviceInfo) /\ Len(list) <= MaxDevices
  /\ \A i, j \in 1..Len(list) : list[i].address = list[j].address => i = j
  /\ \A i \in 1..Len(list) :
       /\ Len(list[i].rssi) <= MaxValues
       /\ \A k \in 1..Len(list[i].rssi) : list[i].rssi[k].fresh

\* A beacon that is new, and for which there is room, gets the next place.
LEMMA FoundOrAdded ==
  ASSUME NEW list, ListSound(list), NEW bda \in Beacons
  PROVE  ListSound(FindOrAdd(list, bda))
  <1> DEFINE new == [address |-> bda, rssi |-> <<>>]
             found == FindOrAdd(list, bda)
             n == Len(list)
  <1>1. list \in Seq(DeviceInfo) /\ n \in Nat /\ n <= MaxDevices
    BY LenProperties DEF ListSound
  <1>2. CASE Device(list, bda) = 0 /\ n < MaxDevices
    <2>1. found = Append(list, new)
      BY <1>2 DEF FindOrAdd
    <2>2. new \in DeviceInfo
      BY EmptySeq DEF DeviceInfo
    <2>3. /\ found \in Seq(DeviceInfo) /\ Len(found) = n + 1
          /\ \A i \in 1..n : found[i] = list[i]
          /\ found[n + 1] = new
      BY <1>1, <2>1, <2>2, AppendProperties
    <2>4. \A i \in 1..n : list[i].address # bda
      BY <1>1, <1>2, DeviceIs
    <2>5. new.address = bda /\ Len(new.rssi) = 0
      BY EmptySeq
    <2> HIDE DEF new, found
    <2>6. ASSUME NEW i \in 1..(n + 1), NEW j \in 1..(n + 1), found[i].address = found[j].address
          PROVE  i = j
      <3>1. \A x \in 1..(n + 1) : x \in 1..n \/ x = n + 1
        BY <1>1
      <3> QED BY <2>3, <2>4, <2>5, <2>6, <3>1 DEF ListSound
    <2>7. ASSUME NEW i \in 1..(n + 1)
          PROVE  Len(found[i].rssi) <= MaxValues /\ \A k \in 1..Len(found[i].rssi) : found[i].rssi[k].fresh
      <3>1. CASE i \in 1..n
        BY <2>3, <3>1 DEF ListSound
      <3>2. CASE i = n + 1
        <4>1. Len(found[i].rssi) = 0
          BY <2>3, <2>5, <3>2
        <4> QED BY <4>1, BleAssumption DEF BleAssumption
      <3> QED BY <1>1, <3>1, <3>2
    <2>8. n + 1 <= MaxDevices
      BY <1>1, <1>2, BleAssumption DEF BleAssumption
    <2>9. ListSound(found)
      BY <2>3, <2>6, <2>7, <2>8 DEF ListSound
    <2> QED BY <2>9 DEF found
  <1>3. CASE ~(Device(list, bda) = 0 /\ n < MaxDevices)
    BY <1>3 DEF FindOrAdd
  <1> QED BY <1>2, <1>3

\* A result of the scan keeps the list sound.
LEMMA ResultStored ==
  ASSUME NEW list, ListSound(list), NEW bda \in Beacons, NEW v \in Value, v.fresh
  PROVE  ListSound(ScanResult(list, bda, v))
  <1> DEFINE found == FindOrAdd(list, bda)
             i == Device(found, bda)
             n == Len(found)
             r == [found EXCEPT ![i].rssi = Append(@, v)]
  <1>1. ListSound(found)
    BY FoundOrAdded
  <1>2. ScanResult(list, bda, v) = IF i # 0 /\ Len(found[i].rssi) < MaxValues THEN r ELSE found
    BY DEF ScanResult
  <1> HIDE DEF found
  <1>3. found \in Seq(DeviceInfo) /\ n \in Nat /\ DOMAIN found = 1..n /\ i \in 0..n
    BY <1>1, LenProperties, DeviceIs DEF ListSound
  <1>4. SUFFICES ASSUME i # 0, Len(found[i].rssi) < MaxValues PROVE ListSound(r)
    BY <1>1, <1>2
  <1> DEFINE e == [found[i] EXCEPT !.rssi = Append(@, v)]
             q == found[i].rssi
  <1>5. i \in 1..n /\ found[i] \in DeviceInfo /\ \A j \in 1..n : found[j] \in DeviceInfo
    BY <1>3, <1>4, ElementOfSeq
  <1>6. q \in Seq(Value) /\ Len(q) \in Nat
    BY <1>5, LenProperties DEF DeviceInfo
  <1>7. /\ Append(q, v) \in Seq(Value) /\ Len(Append(q, v)) = Len(q) + 1
        /\ \A k \in 1..Len(q) : Append(q, v)[k] = q[k]
        /\ Append(q, v)[Len(q) + 1] = v
    BY <1>6, AppendProperties
  <1>8. e \in DeviceInfo /\ e.address = found[i].address /\ e.rssi = Append(q, v)
    BY <1>5, <1>7 DEF DeviceInfo
  <1>9. r \in [1..n -> DeviceInfo] /\ r[i] = e /\ \A j \in 1..n : j # i => r[j] = found[j]
    <2> HIDE DEF i
    <2>1. r = [found EXCEPT ![i] = e]
      OBVIOUS
    <2> HIDE DEF e, r
    <2>2. found \in [1..n -> DeviceInfo]
      BY <1>3, <1>5
    <2> QED BY <1>5, <1>8, <2>1, <2>2
  <1> HIDE DEF i, e, r, q, n
  <1>10. r \in Seq(DeviceInfo) /\ Len(r) = n
    BY <1>3, <1>9
  <1>11. \A j \in 1..n : r[j].address = found[j].address
    BY <1>8, <1>9
  <1>12. \A j, k \in 1..n : found[j].address = found[k].address => j = k
    BY <1>1 DEF ListSound, n
  <1>13. ASSUME NEW j \in 1..n
         PROVE  Len(r[j].rssi) <= MaxValues /\ \A k \in 1..Len(r[j].rssi) : r[j].rssi[k].fresh
    <2>1. Len(found[j].rssi) <= MaxValues /\ \A k \in 1..Len(found[j].rssi) : found[j].rssi[k].fresh
      BY <1>1 DEF ListSound, n
    <2>2. CASE j = i
      <3>1. r[j].rssi = Append(q, v)
        BY <1>8, <1>9, <2>2
      <3>2. Len(q) < MaxValues /\ MaxValues \in Nat
        BY <1>4, BleAssumption DEF q, BleAssumption
      <3>3. \A k \in 1..Len(q) : q[k].fresh
        BY <2>1, <2>2 DEF q
      <3>4. \A k \in 1..(Len(q) + 1) : k \in 1..Len(q) \/ k = Len(q) + 1
        BY <1>6
      <3> QED BY <1>6, <1>7, <3>1, <3>2, <3>3, <3>4
    <2>3. CASE j # i
      BY <1>9, <2>1, <2>3
    <2> QED BY <2>2, <2>3
  <1>14. n <= MaxDevices
    BY <1>1 DEF ListSound, n
  <1> QED BY <1>10, <1>11, <1>12, <1>13, <1>14 DEF ListSound
-----------------------------------------------------------------------------
(***************************************************************************)
(* The report, entry by entry.                                             *)
(***************************************************************************)
\* An entry of the report, and the report with the characters it has.
Entry == [address : Beacons, rssi : Seq(Value), average : (-128)..0, whole : BOOLEAN]
Text == [entries : Seq(Entry), length : 0..(BufferSize - 1)]

\* Where an entry begins and where it would end.
StartOf(t) == IF t.entries = <<>> THEN 0 ELSE t.length + 2
EndOf(t, d) == StartOf(t) + Width(average_rssi(d.rssi))

NewEntry(t, d) ==
  [ address |-> d.address, rssi |-> d.rssi, average |-> average_rssi(d.rssi),
    whole |-> EndOf(t, d) < BufferSize ]

\* An entry is of 39 to 42 characters.
LEMMA WidthIs ==
  ASSUME NEW a \in (-128)..0
  PROVE  Width(a) \in 39..42
  BY DEF Width

\* What is added to a report.
LEMMA StrncatIs ==
  ASSUME NEW t \in Text, NEW d \in DeviceInfo, Len(d.rssi) >= MinValues
  PROVE  /\ NewEntry(t, d) \in Entry
         /\ StartOf(t) \in Nat /\ EndOf(t, d) \in (StartOf(t) + 39)..(StartOf(t) + 42)
         /\ strncat(t, d) \in Text
         /\ StartOf(t) < BufferSize - 1 =>
              strncat(t, d).entries = Append(t.entries, NewEntry(t, d))
         /\ ~(StartOf(t) < BufferSize - 1) => strncat(t, d).entries = t.entries
         /\ strncat(t, d).length = IF EndOf(t, d) < BufferSize THEN EndOf(t, d) ELSE BufferSize - 1
  <1> DEFINE a == average_rssi(d.rssi)
             s == StartOf(t)
             z == EndOf(t, d)
             e == NewEntry(t, d)
             new == IF s < BufferSize - 1 THEN Append(t.entries, e) ELSE t.entries
             len == IF z < BufferSize THEN z ELSE BufferSize - 1
  <1>1. d.rssi \in Seq(Value) /\ d.address \in Beacons /\ d.rssi # <<>>
    <2>1. d.rssi \in Seq(Value) /\ d.address \in Beacons
      BY DEF DeviceInfo
    <2>2. MinValues \in 1..MaxValues /\ MaxValues \in Nat
      BY BleAssumption DEF BleAssumption
    <2> QED BY <2>1, <2>2, EmptySeq
  <1>2. a \in (-128)..0
    BY <1>1, AverageBetween
  <1>3. Width(a) \in 39..42
    BY <1>2, WidthIs
  <1>4. t.entries \in Seq(Entry) /\ t.length \in 0..(BufferSize - 1) /\ BufferSize \in Nat \ {0, 1}
    BY BleAssumption DEF Text, BleAssumption
  <1>5. s \in Nat
    BY <1>4 DEF StartOf
  <1>6. z \in (s + 39)..(s + 42) /\ z \in Nat
    <2>1. z = s + Width(a)
      BY DEF EndOf
    <2> HIDE DEF a, s, z
    <2> QED BY <1>3, <1>5, <2>1
  <1>7. e \in Entry
    <2> HIDE DEF a
    <2>1. e = [address |-> d.address, rssi |-> d.rssi, average |-> a, whole |-> z < BufferSize]
      BY DEF NewEntry, a
    <2> QED BY <1>1, <1>2, <2>1 DEF Entry
  <1>8. new \in Seq(Entry)
    <2> HIDE DEF e
    <2> QED BY <1>4, <1>7, AppendProperties
  <1>9. len \in 0..(BufferSize - 1)
    <2> HIDE DEF z
    <2> QED BY <1>4, <1>6
  <1>10. strncat(t, d) = [entries |-> new, length |-> len]
    BY DEF strncat, StartOf, EndOf, NewEntry
  <1> HIDE DEF new, len, s, z, e
  <1>11. strncat(t, d) \in Text /\ strncat(t, d).entries = new /\ strncat(t, d).length = len
    BY <1>8, <1>9, <1>10 DEF Text
  <1> QED BY <1>5, <1>6, <1>7, <1>11 DEF new, len, s, z, e

\* An entry is of a device that was heard often enough.
EntryFor(e, d) ==
  /\ e.address = d.address /\ e.rssi = d.rssi
  /\ Len(d.rssi) >= MinValues /\ e.average = average_rssi(d.rssi)

\* A report of the first m devices: nothing is added behind an entry that is
\* cut, and an entry takes at most 44 characters with its comma.
ReportOf(list, m, t) ==
  /\ t \in Text /\ Len(t.entries) <= m
  /\ \A i \in 1..Len(t.entries) : \E j \in 1..m : EntryFor(t.entries[i], list[j])
  /\ \A i, j \in 1..Len(t.entries) : t.entries[i].address = t.entries[j].address => i = j
  /\ \A i \in 1..Len(t.entries) :
       i < Len(t.entries) \/ 44 * i <= BufferSize + 1 => t.entries[i].whole
  /\ t.entries # <<>> =>
       \/ t.length = BufferSize - 1
       \/ t.length + 2 <= 44 * Len(t.entries) /\ t.entries[Len(t.entries)].whole

\* One device more.
LEMMA EntryAdded ==
  ASSUME NEW list, ListSound(list), NEW m \in Nat, m + 1 <= Len(list),
         NEW t, ReportOf(list, m, t), Len(list[m + 1].rssi) >= MinValues
  PROVE  ReportOf(list, m + 1, strncat(t, list[m + 1]))
  <1> DEFINE d == list[m + 1]
             r == strncat(t, d)
             n == Len(t.entries)
             s == StartOf(t)
             z == EndOf(t, d)
             e == NewEntry(t, d)
             B == BufferSize
  <1>1. m + 1 \in 1..Len(list) /\ d \in DeviceInfo
    BY ElementOfSeq, LenProperties DEF ListSound
  <1>2. t \in Text /\ t.entries \in Seq(Entry) /\ n \in Nat /\ n <= m
        /\ t.length \in Nat /\ B \in Nat \ {0, 1}
    BY LenProperties, BleAssumption DEF ReportOf, Text, BleAssumption
  <1>3. /\ e \in Entry /\ s \in Nat /\ z \in (s + 39)..(s + 42) /\ r \in Text
        /\ s < B - 1 => r.entries = Append(t.entries, e)
        /\ ~(s < B - 1) => r.entries = t.entries
        /\ r.length = IF z < B THEN z ELSE B - 1
    BY <1>1, <1>2, StrncatIs
  <1>4. s = IF t.entries = <<>> THEN 0 ELSE t.length + 2
    BY DEF StartOf
  <1>5. EntryFor(e, d) /\ e.whole = (z < B) /\ e.address = d.address
    BY DEF EntryFor, NewEntry
  <1>6. /\ \A i \in 1..n : \E j \in 1..m : EntryFor(t.entries[i], list[j])
        /\ \A i, j \in 1..n : t.entries[i].address = t.entries[j].address => i = j
        /\ \A i \in 1..n : i < n \/ 44 * i <= B + 1 => t.entries[i].whole
        /\ t.entries # <<>> => t.length = B - 1 \/ (t.length + 2 <= 44 * n /\ t.entries[n].whole)
    BY DEF ReportOf
  <1>7. \A i \in 1..n : \E j \in 1..(m + 1) : EntryFor(t.entries[i], list[j])
    <2>1. \A j \in 1..m : j \in 1..(m + 1)
      OBVIOUS
    <2> QED BY <1>6, <2>1
  <1> HIDE DEF d, r, n, s, z, e, B
  <1>8. CASE ~(s < B - 1)
    <2>1. r.entries = t.entries
      BY <1>3, <1>8
    <2>2. t.entries # <<>>
      BY <1>2, <1>4, <1>8
    <2>3. r.length = B - 1
      BY <1>2, <1>3, <1>8
    <2>4. n <= m + 1
      BY <1>2
    <2> QED BY <1>3, <1>6, <1>7, <2>1, <2>3, <2>4 DEF ReportOf, r, n, B, d
  <1>9. CASE s < B - 1
    <2>1. /\ r.entries \in Seq(Entry) /\ Len(r.entries) = n + 1
          /\ \A i \in 1..n : r.entries[i] = t.entries[i]
          /\ r.entries[n + 1] = e
      <3>1. r.entries = Append(t.entries, e)
        BY <1>3, <1>9
      <3> QED BY <1>2, <1>3, <3>1, AppendProperties DEF n
    <2>2. s <= 44 * n /\ \A i \in 1..n : t.entries[i].whole
      <3>1. CASE t.entries = <<>>
        <4>1. n = 0
          BY <3>1, EmptySeq DEF n
        <4> QED BY <1>4, <3>1, <4>1
      <3>2. CASE t.entries # <<>>
        <4>1. t.length + 2 <= 44 * n /\ t.entries[n].whole
          BY <1>2, <1>4, <1>6, <1>9, <3>2
        <4>2. \A i \in 1..n : i < n \/ i = n
          BY <1>2
        <4> QED BY <1>4, <1>6, <3>2, <4>1, <4>2
      <3> QED BY <3>1, <3>2
    <2>3. \A i \in 1..(n + 1) : i \in 1..n \/ i = n + 1
      BY <1>2
    <2>4. n + 1 <= m + 1
      BY <1>2
    <2>5. ASSUME NEW i \in 1..(n + 1) PROVE \E j \in 1..(m + 1) : EntryFor(r.entries[i], list[j])
      <3>1. CASE i \in 1..n
        BY <1>7, <2>1, <3>1
      <3>2. CASE i = n + 1
        <4>1. m + 1 \in 1..(m + 1)
          OBVIOUS
        <4> QED BY <1>5, <2>1, <3>2, <4>1 DEF d
      <3> QED BY <2>3, <3>1, <3>2
    <2>6. \A i \in 1..n : t.entries[i].address # e.address
      <3>1. SUFFICES ASSUME NEW i \in 1..n PROVE t.entries[i].address # e.address
        OBVIOUS
      <3>2. PICK j \in 1..m : EntryFor(t.entries[i], list[j])
        BY <1>6, <3>1
      <3>3. j \in 1..Len(list) /\ j # m + 1
        BY <1>1
      <3>4. list[j].address # d.address
        BY <1>1, <3>3 DEF ListSound, d
      <3> QED BY <1>5, <3>2, <3>4 DEF EntryFor
    <2>7. ASSUME NEW i \in 1..(n + 1), NEW j \in 1..(n + 1), r.entries[i].address = r.entries[j].address
          PROVE  i = j
      BY <1>6, <2>1, <2>3, <2>6, <2>7
    <2>8. z <= 44 * (n + 1) - 2
      BY <1>2, <1>3, <2>2
    <2>9. ASSUME 44 * (n + 1) <= B + 1 PROVE e.whole
      <3>1. z < B
        BY <1>2, <1>3, <2>8, <2>9
      <3> QED BY <1>5, <3>1, Zenon
    <2>10. ASSUME NEW i \in 1..(n + 1), i < n + 1 \/ 44 * i <= B + 1
           PROVE  r.entries[i].whole
      BY <1>2, <2>1, <2>2, <2>3, <2>9, <2>10
    <2>11. r.length = B - 1 \/ (r.length + 2 <= 44 * (n + 1) /\ r.entries[n + 1].whole)
      <3>1. CASE z < B
        <4>1. r.length = z /\ e.whole
          BY <1>3, <1>5, <3>1
        <4> QED BY <1>2, <1>3, <2>1, <2>8, <4>1
      <3>2. CASE ~(z < B)
        BY <1>3, <3>2
      <3> QED BY <3>1, <3>2
    <2> QED BY <1>3, <2>1, <2>4, <2>5, <2>7, <2>10, <2>11 DEF ReportOf, r, B, d
  <1> QED BY <1>8, <1>9
\* One turn of the loop over the devices.
Turn(list, i, t) == IF Len(list[i].rssi) < MinValues THEN t ELSE strncat(t, list[i])

\* The loop that writes the report.
Writing(list, f) ==
  [i \in 0..Len(list) |->
     IF i = 0 THEN [entries |-> <<>>, length |-> 0]
     ELSE IF Len(list[i].rssi) < MinValues THEN f[i - 1]
     ELSE strncat(f[i - 1], list[i])]

\* A report begins empty.
LEMMA EmptyText ==
  /\ [entries |-> <<>>, length |-> 0] \in Text
  /\ \A list : ReportOf(list, 0, [entries |-> <<>>, length |-> 0])
  <1> DEFINE t == [entries |-> <<>>, length |-> 0]
  <1>1. <<>> \in Seq(Entry) /\ Len(<<>>) = 0 /\ 0 \in 0..(BufferSize - 1)
    BY EmptySeq, BleAssumption DEF BleAssumption
  <1>2. t.entries = <<>> /\ t.length = 0 /\ t \in Text
    BY <1>1 DEF Text
  <1> HIDE DEF t
  <1>3. Len(t.entries) = 0
    BY <1>1, <1>2
  <1>4. ASSUME NEW list PROVE ReportOf(list, 0, t)
    BY <1>2, <1>3 DEF ReportOf
  <1> QED BY <1>2, <1>4 DEF t

\* It has a value.
LEMMA WritingExists ==
  ASSUME NEW list \in Seq(DeviceInfo)
  PROVE  \E f : f = Writing(list, f)
  <1> DEFINE n == Len(list)
             t0 == [entries |-> <<>>, length |-> 0]
             G == [i \in 1..n |-> [t \in Text |-> Turn(list, i, t)]]
  <1>1. n \in Nat
    BY LenProperties
  <1>2. t0 \in Text
    BY EmptyText
  <1>3. ASSUME NEW i \in 1..n, NEW t \in Text PROVE Turn(list, i, t) \in Text
    <2>1. list[i] \in DeviceInfo
      BY ElementOfSeq
    <2>2. CASE Len(list[i].rssi) < MinValues
      BY <2>2 DEF Turn
    <2>3. CASE ~(Len(list[i].rssi) < MinValues)
      <3>1. Len(list[i].rssi) \in Nat /\ MinValues \in Int
        BY <2>1, LenProperties, BleAssumption DEF DeviceInfo, BleAssumption
      <3>2. Len(list[i].rssi) >= MinValues
        BY <2>3, <3>1
      <3>3. strncat(t, list[i]) \in Text
        BY <2>1, <3>2, StrncatIs
      <3> QED BY <2>3, <3>3 DEF Turn
    <2> QED BY <2>2, <2>3
  <1>4. G \in [1..n -> [Text -> Text]] /\ \A i \in 1..n, t \in Text : G[i][t] = Turn(list, i, t)
    BY <1>3
  <1> HIDE DEF G, n, t0
  <1>5. PICK f \in [0..n -> Text] : Loop(n, t0, G, f)
    <2>1. G \in [1..n -> [Text -> Text]]
      BY <1>4
    <2> QED BY ONLY <1>1, <1>2, <2>1, LoopRuns
  <1>6. \A i \in 0..n : (IF i = 0 THEN t0 ELSE G[i][f[i - 1]]) = IF i = 0 THEN t0 ELSE Turn(list, i, f[i - 1])
    <2>1. \A i \in 0..n : i # 0 => i \in 1..n /\ i - 1 \in 0..n
      BY <1>1
    <2>2. \A i \in 0..n : i # 0 => f[i - 1] \in Text
      BY <1>5, <2>1
    <2> QED BY <1>4, <2>1, <2>2
  <1>7. f = [i \in 0..n |-> IF i = 0 THEN t0 ELSE Turn(list, i, f[i - 1])]
    BY <1>5, <1>6 DEF Loop
  <1>8. f = Writing(list, f)
    BY <1>7 DEF Writing, Turn, n, t0
  <1> QED BY <1>8

\* The report of a sound list of devices.
LEMMA BufferIs ==
  ASSUME NEW list, ListSound(list)
  PROVE  \E t : ReportOf(list, Len(list), t) /\ t.entries = big_buffer(list)
  <1> DEFINE n == Len(list)
             f == CHOOSE g : g = Writing(list, g)
             T == {m \in Nat : m <= n => ReportOf(list, m, f[m])}
  <1>1. list \in Seq(DeviceInfo) /\ n \in Nat
    BY LenProperties DEF ListSound
  <1>2. f = Writing(list, f)
    BY <1>1, WritingExists
  <1>3. big_buffer(list) = f[n].entries
    BY DEF big_buffer, Writing
  <1> HIDE DEF f
  <1>4. /\ f[0] = [entries |-> <<>>, length |-> 0]
        /\ \A m \in Nat : m + 1 <= n => f[m + 1] = Turn(list, m + 1, f[m])
    <2>1. 0 \in 0..n /\ \A m \in Nat : m + 1 <= n => m + 1 \in 0..n /\ m + 1 # 0 /\ (m + 1) - 1 = m
      BY <1>1
    <2>2. \A i \in 0..n : f[i] = IF i = 0 THEN [entries |-> <<>>, length |-> 0] ELSE Turn(list, i, f[i - 1])
      BY <1>2 DEF Writing, Turn
    <2> HIDE DEF n
    <2> QED BY <2>1, <2>2
  <1> HIDE DEF n
  <1>5. 0 \in T
    BY <1>4, EmptyText
  <1>6. ASSUME NEW m \in Nat, m \in T PROVE m + 1 \in T
    <2>1. SUFFICES ASSUME m + 1 <= n PROVE ReportOf(list, m + 1, f[m + 1])
      OBVIOUS
    <2>2. ReportOf(list, m, f[m])
      BY <1>1, <1>6, <2>1
    <2>3. f[m + 1] = Turn(list, m + 1, f[m])
      BY <1>4, <2>1
    <2>4. list[m + 1] \in DeviceInfo
      <3>1. m + 1 \in 1..n
        BY <1>1, <2>1
      <3> QED BY <1>1, <3>1, ElementOfSeq DEF n
    <2>5. Len(list[m + 1].rssi) \in Nat /\ MinValues \in Int
      BY <2>4, LenProperties, BleAssumption DEF DeviceInfo, BleAssumption
    <2>6. CASE Len(list[m + 1].rssi) < MinValues
      <3>1. f[m + 1] = f[m]
        BY <2>3, <2>6 DEF Turn
      <3>2. ASSUME NEW t, ReportOf(list, m, t) PROVE ReportOf(list, m + 1, t)
        <4>1. Len(t.entries) <= m + 1
          BY <3>2, LenProperties DEF ReportOf, Text
        <4>2. \A j \in 1..m : j \in 1..(m + 1)
          OBVIOUS
        <4> QED BY <3>2, <4>1, <4>2 DEF ReportOf
      <3> QED BY <2>2, <3>1, <3>2
    <2>7. CASE ~(Len(list[m + 1].rssi) < MinValues)
      <3>1. f[m + 1] = strncat(f[m], list[m + 1])
        BY <2>3, <2>7 DEF Turn
      <3>2. Len(list[m + 1].rssi) >= MinValues
        BY <2>5, <2>7
      <3>3. m + 1 <= Len(list)
        BY <2>1 DEF n
      <3> QED BY <2>2, <3>1, <3>2, <3>3, EntryAdded
    <2> QED BY <2>6, <2>7
  <1> HIDE DEF T
  <1>7. n \in T
    BY <1>1, <1>5, <1>6, InductionSet
  <1>8. ReportOf(list, n, f[n])
    BY <1>1, <1>7 DEF T
  <1> QED BY <1>3, <1>8 DEF n

-----------------------------------------------------------------------------
(***************************************************************************)
(* What a report is.                                                       *)
(***************************************************************************)
\* What ReportsAreSound says of a report.
ReportSound(r) ==
  /\ Len(r) <= MaxDevices
  /\ \A i, j \in DOMAIN r : r[i].address = r[j].address => i = j
  /\ \A i \in DOMAIN r :
       /\ Len(r[i].rssi) \in MinValues..MaxValues
       /\ \A k \in DOMAIN r[i].rssi : r[i].rssi[k].fresh
       /\ r[i].whole => \E a, b \in DOMAIN r[i].rssi :
            r[i].average \in r[i].rssi[a].value..r[i].rssi[b].value
       /\ i < Len(r) \/ 44 * i <= BufferSize + 1 => r[i].whole

\* The report of a sound list is sound.
THEOREM BufferSound ==
  ASSUME NEW list, ListSound(list)
  PROVE  ReportSound(big_buffer(list))
  <1>1. PICK t : ReportOf(list, Len(list), t) /\ t.entries = big_buffer(list)
    BY BufferIs
  <1> DEFINE r == t.entries
             n == Len(r)
  <1>2. list \in Seq(DeviceInfo) /\ Len(list) \in Nat /\ Len(list) <= MaxDevices /\ MaxDevices \in Nat
    BY LenProperties, BleAssumption DEF ListSound, BleAssumption
  <1>3. r \in Seq(Entry) /\ n \in Nat /\ DOMAIN r = 1..n /\ n <= Len(list)
    BY <1>1, LenProperties DEF ReportOf, Text
  <1>4. n <= MaxDevices
    BY <1>2, <1>3
  <1>5. \A i, j \in 1..n : r[i].address = r[j].address => i = j
    BY <1>1 DEF ReportOf
  <1>6. ASSUME NEW i \in 1..n
        PROVE  /\ Len(r[i].rssi) \in MinValues..MaxValues
               /\ \A k \in DOMAIN r[i].rssi : r[i].rssi[k].fresh
               /\ \E a, b \in DOMAIN r[i].rssi :
                    r[i].average \in r[i].rssi[a].value..r[i].rssi[b].value
               /\ i < n \/ 44 * i <= BufferSize + 1 => r[i].whole
    <2>1. PICK j \in 1..Len(list) : EntryFor(r[i], list[j])
      BY <1>1 DEF ReportOf
    <2> DEFINE q == list[j].rssi
    <2>2. r[i].rssi = q /\ r[i].average = average_rssi(q) /\ Len(q) >= MinValues
      BY <2>1 DEF EntryFor
    <2>3. list[j] \in DeviceInfo
      BY <1>2, ElementOfSeq
    <2>4. q \in Seq(Value) /\ Len(q) \in Nat /\ DOMAIN q = 1..Len(q)
      BY <2>3, LenProperties DEF DeviceInfo
    <2>5. Len(q) <= MaxValues /\ \A k \in 1..Len(q) : q[k].fresh
      BY DEF ListSound
    <2>6. MinValues \in 1..MaxValues /\ MaxValues \in Nat
      BY BleAssumption DEF BleAssumption
    <2> HIDE DEF q
    <2>7. q # <<>>
      BY <2>2, <2>6, EmptySeq
    <2>8. \E a, b \in DOMAIN q : average_rssi(q) \in q[a].value..q[b].value
      BY <2>4, <2>7, AverageBetween
    <2>9. Len(q) \in MinValues..MaxValues
      BY <2>2, <2>4, <2>5, <2>6
    <2>10. i < n \/ 44 * i <= BufferSize + 1 => r[i].whole
      BY <1>1 DEF ReportOf
    <2> QED BY <2>2, <2>4, <2>5, <2>8, <2>9, <2>10
  <1>7. ReportSound(r)
    BY <1>3, <1>4, <1>5, <1>6 DEF ReportSound
  <1> QED BY <1>1, <1>7
-----------------------------------------------------------------------------
(***************************************************************************)
(* The inductive invariant.                                                *)
(***************************************************************************)
WifiEvent == {"START", "DISCONNECTED", "GOT_IP"}

\* The last event that is not handled says where the link is; without one
\* CONNECTED_BIT does.
WifiInv ==
  /\ main \in {"wifi", "ble", "create", "start", "done"}
  /\ wifi \in [link : {"off", "down", "trying", "up"}, bit : BOOLEAN, events : Seq(WifiEvent)]
  /\ main = "wifi" => wifi = Off.wifi
  /\ wifi.events = <<>> => (wifi.bit <=> wifi.link = "up")
  /\ wifi.events # <<>> =>
       LET last == wifi.events[Len(wifi.events)]
       IN  /\ last = "GOT_IP" <=> wifi.link = "up"
           /\ last = "START" => Len(wifi.events) = 1 /\ ~wifi.bit

\* The list of devices and the last report.
BtInv ==
  /\ bt \in [radio : {"off", "on", "failed"},
             pc : {"none", "dead", "params", "idle", "clearing", "sending"},
             devices : Seq(DeviceInfo)]
  /\ ListSound(bt.devices)
  /\ ReportSound(out)

Handle == [handle : {"none", "made", "freed"}, running : BOOLEAN, scanning : BOOLEAN,
           events : BOOLEAN, present : BOOLEAN, pc : {"none", "loop", "sending", "ended"},
           serial : Cards \cup {NoCard}]

CardInfo == [on : Cards \cup {NoCard}, reports : Nat, dropped : BOOLEAN,
             disturbed : Nat, fresh : BOOLEAN]

Known == IF reader.present THEN 1 ELSE 0      \* the card is known to be there
Pending == IF reader.pc = "sending" THEN 1 ELSE 0   \* a report waits to be sent

\* A card that was reported, or is being reported, is either still known to be
\* there, or a reading of it failed since.
CardInv ==
  /\ reader \in Handle
  /\ main \in {"wifi", "ble", "create"} => reader = NoHandle
  /\ card \in CardInfo
  /\ card.on = NoCard => card.reports = 0
  /\ reader.pc = "sending" => reader.present /\ reader.serial \in Cards
  /\ card.reports + Pending <= card.disturbed + Known

IInv == WifiInv /\ BtInv /\ CardInv

\* What the parts of the invariant read.
LEMMA WifiFixed == ASSUME WifiInv, UNCHANGED <<main, wifi>> PROVE WifiInv'
  BY DEF WifiInv

\* The list and the report.
LEMMA BtFixed == ASSUME BtInv, UNCHANGED <<bt, out>> PROVE BtInv'
  BY DEF BtInv

\* The reader and its card.
LEMMA CardFixed == ASSUME CardInv, UNCHANGED <<main, reader, card>> PROVE CardInv'
  BY DEF CardInv, Known, Pending

\* No report is a sound one.
LEMMA EmptyReport == ReportSound(<<>>)
  <1>1. <<>> \in Seq({}) /\ Len(<<>>) = 0 /\ DOMAIN <<>> = {}
    BY EmptySeq
  <1>2. MaxDevices >= 0
    BY BleAssumption DEF BleAssumption
  <1> QED BY <1>1, <1>2 DEF ReportSound

\* So is an empty list.
LEMMA EmptyList == ListSound(<<>>)
  <1>1. <<>> \in Seq(DeviceInfo) /\ Len(<<>>) = 0
    BY EmptySeq
  <1>2. MaxDevices >= 0
    BY BleAssumption DEF BleAssumption
  <1> QED BY <1>1, <1>2 DEF ListSound

\* What is left after clearing.
LEMMA ClearedIs == Stale(Cleared(bt.devices)) = <<>>
  BY EmptySeq DEF Stale, Cleared

\* It holds after the reset.
LEMMA InitInv == Init => IInv
  <1> SUFFICES ASSUME Init PROVE IInv
    OBVIOUS
  <1>1. WifiInv
    <2>1. wifi = [link |-> "off", bit |-> FALSE, events |-> <<>>] /\ main = "wifi" /\ wifi = Off.wifi
      BY DEF Init, Off
    <2>2. <<>> \in Seq(WifiEvent)
      BY EmptySeq
    <2>3. /\ wifi \in [link : {"off", "down", "trying", "up"}, bit : BOOLEAN, events : Seq(WifiEvent)]
          /\ wifi.events = <<>> /\ wifi.bit = FALSE /\ wifi.link = "off"
      BY <2>1, <2>2
    <2> QED BY <2>1, <2>3 DEF WifiInv
  <1>2. BtInv
    <2>1. bt = [radio |-> "off", pc |-> "none", devices |-> <<>>] /\ out = <<>>
      BY DEF Init, Off
    <2>2. <<>> \in Seq(DeviceInfo)
      BY EmptySeq
    <2> QED BY <2>1, <2>2, EmptyList, EmptyReport DEF BtInv
  <1>3. CardInv
    <2>1. reader = NoHandle /\ card = [on |-> NoCard, reports |-> 0, dropped |-> FALSE, disturbed |-> 0, fresh |-> TRUE]
      BY DEF Init
    <2>2. NoHandle \in Handle
      BY DEF NoHandle, Handle
    <2> QED BY <2>1, <2>2 DEF CardInv, CardInfo, Known, Pending, NoHandle
  <1> QED BY <1>1, <1>2, <1>3 DEF IInv

-----------------------------------------------------------------------------
(***************************************************************************)
(* WiFi.                                                                   *)
(***************************************************************************)
\* An event that is queued says where the link is, and the one before it no more.
LEMMA QueuedInv ==
  ASSUME WifiInv, main # "wifi", UNCHANGED main,
         NEW l \in {"off", "down", "trying", "up"}, NEW e \in {"DISCONNECTED", "GOT_IP"},
         e = "GOT_IP" <=> l = "up",
         wifi' = [wifi EXCEPT !.link = l, !.events = Append(@, e)]
  PROVE  WifiInv'
  <1> DEFINE q == wifi.events
  <1>1. /\ q \in Seq(WifiEvent) /\ e \in WifiEvent
        /\ main' # "wifi" /\ main' \in {"wifi", "ble", "create", "start", "done"}
    BY DEF WifiInv, WifiEvent
  <1>2. wifi'.link = l /\ wifi'.bit = wifi.bit /\ wifi'.events = Append(q, e)
    BY DEF WifiInv
  <1>3. wifi' \in [link : {"off", "down", "trying", "up"}, bit : BOOLEAN, events : Seq(WifiEvent)]
    <2>1. Append(q, e) \in Seq(WifiEvent)
      BY <1>1, AppendProperties
    <2> QED BY <2>1 DEF WifiInv
  <1>4. Append(q, e) # <<>> /\ Append(q, e)[Len(Append(q, e))] = e
    <2>1. /\ Append(q, e) # <<>> /\ Len(Append(q, e)) = Len(q) + 1
          /\ Append(q, e)[Len(q) + 1] = e
      BY <1>1, AppendProperties
    <2> QED BY <2>1
  <1> HIDE DEF q
  <1> QED BY <1>1, <1>2, <1>3, <1>4 DEF WifiInv

\* The connection is tried, which leaves it as far from up as it was.
LEMMA TriedIs ==
  ASSUME NEW w \in [link : {"off", "down", "trying", "up"}, bit : BOOLEAN, events : Seq(WifiEvent)]
  PROVE  \E l \in {"off", "down", "trying", "up"} :
           /\ esp_wifi_connect(w) = [w EXCEPT !.link = l]
           /\ l = "up" <=> w.link = "up"
  <1>1. CASE w.link = "down"
    BY <1>1 DEF esp_wifi_connect
  <1>2. CASE w.link # "down"
    <2>1. w = [w EXCEPT !.link = w.link]
      OBVIOUS
    <2> QED BY <1>2, <2>1 DEF esp_wifi_connect
  <1> QED BY <1>1, <1>2

\* Handling the first event.
LEMMA HandleEventInv == ASSUME WifiInv, HandleEvent PROVE WifiInv'
  <1> DEFINE W == [link : {"off", "down", "trying", "up"}, bit : BOOLEAN, events : Seq(WifiEvent)]
             q == wifi.events
             e == Head(q)
             h == event_handler(wifi)
  <1>1. wifi \in W /\ q \in Seq(WifiEvent) /\ q # <<>> /\ main' = main /\ main # "wifi"
    <2>1. q # <<>> /\ main' = main
      BY DEF HandleEvent, Only
    <2>2. main # "wifi"
      BY <2>1 DEF WifiInv, Off
    <2> QED BY <2>1, <2>2 DEF WifiInv
  <1>2. /\ e \in WifiEvent /\ e = q[1] /\ Len(q) \in Nat \ {0}
        /\ Tail(q) \in Seq(WifiEvent) /\ Len(Tail(q)) = Len(q) - 1
        /\ \A i \in 1..(Len(q) - 1) : Tail(q)[i] = q[i + 1]
    BY <1>1, HeadTailProperties, LenProperties, EmptySeq
  <1>3. PICK l \in {"off", "down", "trying", "up"} :
          esp_wifi_connect(wifi) = [wifi EXCEPT !.link = l] /\ (l = "up" <=> wifi.link = "up")
    BY <1>1, TriedIs
  <1>4. /\ h \in W /\ h.events = q /\ h.link \in {"off", "down", "trying", "up"}
        /\ h.link = "up" <=> wifi.link = "up"
        /\ h.bit = IF e = "START" THEN wifi.bit ELSE (e = "GOT_IP")
    <2>1. CASE e = "START"
      <3>1. h = [wifi EXCEPT !.link = l]
        BY <1>3, <2>1 DEF event_handler
      <3> QED BY <1>1, <1>3, <2>1, <3>1
    <2>2. CASE e = "DISCONNECTED"
      <3>1. h = [wifi EXCEPT !.link = l, !.bit = FALSE]
        BY <1>1, <1>3, <2>2 DEF event_handler
      <3> QED BY <1>1, <1>3, <2>2, <3>1
    <2>3. CASE e = "GOT_IP"
      <3>1. h = [wifi EXCEPT !.bit = TRUE]
        BY <2>3 DEF event_handler
      <3> QED BY <1>1, <2>3, <3>1
    <2> QED BY <1>2, <2>1, <2>2, <2>3 DEF WifiEvent
  <1>5. wifi' = [h EXCEPT !.events = Tail(q)]
    BY <1>4 DEF HandleEvent
  <1>6. wifi' \in W /\ wifi'.events = Tail(q) /\ wifi'.link = h.link /\ wifi'.bit = h.bit
    <2> HIDE DEF h
    <2> QED BY <1>2, <1>4, <1>5
  <1>7. /\ q[Len(q)] = "GOT_IP" <=> wifi.link = "up"
        /\ q[Len(q)] = "START" => Len(q) = 1 /\ ~wifi.bit
    BY <1>1 DEF WifiInv
  <1>8. q[Len(q)] \in WifiEvent
    BY <1>1, <1>2, ElementOfSeq
  <1> HIDE DEF h, q, e
  <1>9. Tail(q) = <<>> => (wifi'.bit <=> wifi'.link = "up")
    <2>1. SUFFICES ASSUME Tail(q) = <<>> PROVE wifi'.bit <=> wifi'.link = "up"
      OBVIOUS
    <2>2. Len(q) = 1
      BY <1>2, <2>1, EmptySeq
    <2>3. e = q[Len(q)]
      BY <1>2, <2>2
    <2> QED BY <1>1, <1>2, <1>4, <1>6, <1>7, <2>3 DEF WifiEvent
  <1>10. Tail(q) # <<>> =>
           /\ Tail(q)[Len(Tail(q))] = "GOT_IP" <=> wifi'.link = "up"
           /\ Tail(q)[Len(Tail(q))] = "START" => Len(Tail(q)) = 1 /\ ~wifi'.bit
    <2>1. SUFFICES ASSUME Tail(q) # <<>>
                   PROVE  /\ Tail(q)[Len(Tail(q))] = "GOT_IP" <=> wifi'.link = "up"
                          /\ Tail(q)[Len(Tail(q))] = "START" => Len(Tail(q)) = 1 /\ ~wifi'.bit
      OBVIOUS
    <2>2. Len(Tail(q)) # 0
      BY <1>2, <2>1, EmptySeq
    <2>3. Len(q) - 1 \in 1..(Len(q) - 1) /\ Len(q) # 1
      BY <1>2, <2>2
    <2>4. Tail(q)[Len(Tail(q))] = q[Len(q)]
      BY <1>2, <2>3
    <2> QED BY <1>4, <1>6, <1>7, <2>3, <2>4
  <1> QED BY <1>1, <1>6, <1>9, <1>10 DEF WifiInv

\* The program's own attempt at a connection.
LEMMA WifiConnectInv == ASSUME WifiInv, wifi_connect PROVE WifiInv'
  <1> DEFINE W == [link : {"off", "down", "trying", "up"}, bit : BOOLEAN, events : Seq(WifiEvent)]
  <1>1. main # "wifi" /\ main' = main /\ wifi \in W /\ wifi.link # "up"
        /\ wifi' = esp_wifi_connect(esp_wifi_disconnect(wifi))
    BY DEF wifi_connect, Only, WifiInv
  <1>2. CASE wifi.link = "trying"
    <2>1. esp_wifi_disconnect(wifi) = [wifi EXCEPT !.link = "down", !.events = Append(@, "DISCONNECTED")]
      BY <1>1, <1>2 DEF esp_wifi_disconnect, Queued
    <2>2. wifi' = [wifi EXCEPT !.link = "trying", !.events = Append(@, "DISCONNECTED")]
      BY <1>1, <2>1 DEF esp_wifi_connect
    <2> QED BY <1>1, <2>2, QueuedInv
  <1>3. CASE wifi.link # "trying"
    <2>1. esp_wifi_disconnect(wifi) = wifi
      BY <1>1, <1>3 DEF esp_wifi_disconnect
    <2>2. PICK l \in {"off", "down", "trying", "up"} :
            esp_wifi_connect(wifi) = [wifi EXCEPT !.link = l] /\ (l = "up" <=> wifi.link = "up")
      BY <1>1, TriedIs
    <2>3. /\ wifi' \in W /\ wifi'.events = wifi.events /\ wifi'.bit = wifi.bit
          /\ wifi'.link # "up"
      BY <1>1, <2>1, <2>2
    <2> QED BY <1>1, <2>3 DEF WifiInv
  <1> QED BY <1>2, <1>3

\* The link comes up and is lost.
LEMMA LinkInv == ASSUME WifiInv, Connects \/ LosesLink PROVE WifiInv'
  <1>1. main # "wifi" /\ main' = main
    BY DEF WifiInv, Off, Connects, LosesLink, Only
  <1>2. CASE Connects
    <2>1. wifi' = [wifi EXCEPT !.link = "up", !.events = Append(@, "GOT_IP")]
      BY <1>2 DEF Connects, Queued, WifiInv
    <2> QED BY <1>1, <2>1, QueuedInv
  <1>3. CASE LosesLink
    <2>1. wifi' = [wifi EXCEPT !.link = "down", !.events = Append(@, "DISCONNECTED")]
      BY <1>3 DEF LosesLink, Queued, WifiInv
    <2> QED BY <1>1, <2>1, QueuedInv
  <1> QED BY <1>2, <1>3

-----------------------------------------------------------------------------
(***************************************************************************)
(* Bluetooth and the card reader.                                          *)
(***************************************************************************)
\* A window that is started leaves the list alone.
LEMMA StartedInv ==
  ASSUME NEW b \in [radio : {"off", "on", "failed"},
                     pc : {"none", "dead", "params", "idle", "clearing", "sending"},
                     devices : Seq(DeviceInfo)],
         ListSound(b.devices), bt' \in esp_ble_gap_start_scanning(b), ReportSound(out')
  PROVE  BtInv'
  <1>1. PICK state \in {"on", "failed"} : bt' = [b EXCEPT !.radio = state, !.pc = "idle"]
    BY DEF esp_ble_gap_start_scanning
  <1>2. /\ bt' \in [radio : {"off", "on", "failed"},
                    pc : {"none", "dead", "params", "idle", "clearing", "sending"},
                    devices : Seq(DeviceInfo)]
        /\ bt'.devices = b.devices
    BY <1>1
  <1> QED BY <1>2 DEF BtInv

\* The Bluetooth task.
LEMMA BluetoothInv ==
  ASSUME BtInv, GapParamsSet \/ GapResult \/ GapComplete \/ GapSend \/ GapRestart
  PROVE  BtInv'
  <1> DEFINE B == [radio : {"off", "on", "failed"},
                   pc : {"none", "dead", "params", "idle", "clearing", "sending"},
                   devices : Seq(DeviceInfo)]
  <1>1. bt \in B /\ ListSound(bt.devices) /\ ReportSound(out)
    BY DEF BtInv
  <1>2. CASE GapParamsSet
    BY <1>1, <1>2, StartedInv DEF GapParamsSet
  <1>3. CASE GapResult
    <2>1. PICK bda \in Beacons, loss \in Losses :
            bt' = [bt EXCEPT !.devices = ScanResult(@, bda, [value |-> -loss, fresh |-> TRUE])]
      BY <1>3 DEF GapResult
    <2> DEFINE v == [value |-> -loss, fresh |-> TRUE]
    <2>2. v \in Value /\ v.fresh
      <3>1. loss \in 0..128
        BY BleAssumption DEF BleAssumption
      <3>2. -loss \in (-128)..0
        BY ONLY <3>1
      <3> QED BY <3>2 DEF Value
    <2>3. ListSound(ScanResult(bt.devices, bda, v))
      <3> HIDE DEF v
      <3> QED BY <1>1, <2>2, ResultStored
    <2>4. ScanResult(bt.devices, bda, v) \in Seq(DeviceInfo)
      BY <2>3 DEF ListSound
    <2>5. bt' = [bt EXCEPT !.devices = ScanResult(bt.devices, bda, v)]
      BY <2>1
    <2> HIDE DEF v
    <2>6. bt' \in B /\ bt'.devices = ScanResult(bt.devices, bda, v) /\ out' = out
      BY <1>1, <1>3, <2>4, <2>5 DEF GapResult
    <2> QED BY <1>1, <2>3, <2>6 DEF BtInv
  <1>4. CASE GapComplete
    <2>1. PICK socket \in BOOLEAN :
            bt' = [bt EXCEPT !.radio = "off",
                     !.pc = IF udp_send_msg(socket) = "sending" /\ big_buffer(bt.devices) # <<>>
                            THEN "sending" ELSE "clearing"]
      BY <1>4 DEF GapComplete
    <2>2. PICK p \in {"clearing", "sending"} : bt' = [bt EXCEPT !.radio = "off", !.pc = p]
      BY <2>1
    <2>3. bt' \in B /\ bt'.devices = bt.devices /\ out' = out
      BY <1>1, <1>4, <2>2 DEF GapComplete
    <2> QED BY <1>1, <2>3 DEF BtInv
  <1>5. CASE GapSend
    <2>1. bt' \in B /\ bt'.devices = bt.devices /\ out' = big_buffer(bt.devices)
      BY <1>1, <1>5 DEF GapSend
    <2>2. ReportSound(out')
      BY <1>1, <2>1, BufferSound
    <2> QED BY <1>1, <2>1, <2>2 DEF BtInv
  <1>6. CASE GapRestart
    <2> DEFINE b == [bt EXCEPT !.devices = <<>>]
    <2>1. bt' \in esp_ble_gap_start_scanning(b) /\ out' = <<>>
      <3>1. [bt EXCEPT !.devices = Stale(Cleared(@))] = b
        BY <1>1, ClearedIs
      <3> QED BY <1>6, <3>1 DEF GapRestart
    <2>2. b \in B /\ b.devices = <<>>
      BY <1>1, EmptySeq
    <2> HIDE DEF b
    <2>3. ListSound(b.devices) /\ ReportSound(out')
      BY <2>1, <2>2, EmptyList, EmptyReport
    <2> QED BY <2>1, <2>2, <2>3, StartedInv
  <1> QED BY <1>2, <1>3, <1>4, <1>5, <1>6

\* One round of the card reader: a report is of a card that was not known to be
\* there, and one that is there and was not read is not known any more.
LEMMA ScanCardInv == ASSUME CardInv, ScanCard PROVE CardInv'
  <1>1. PICK atqa \in Disturbed \cup {Reply(2)}, uid \in Disturbed \cup {Reply(5)}, socket \in BOOLEAN :
          LET got == card.on # NoCard /\ rc522_get_tag(atqa, uid)
              new == got /\ ~reader.present
              spoilt == card.on # NoCard /\ ~got
              h == IF new THEN rc522_dispatch_event(reader, card.on, socket) ELSE reader
          IN  /\ reader' = PresentNow(h, got)
              /\ card' = [card EXCEPT !.dropped = IF new THEN h.pc # "sending" ELSE got /\ @,
                                      !.disturbed = IF spoilt THEN @ + 1 ELSE @,
                                      !.fresh = @ \/ ~got]
    BY DEF ScanCard
  <1> DEFINE got == card.on # NoCard /\ rc522_get_tag(atqa, uid)
             new == got /\ ~reader.present
             spoilt == card.on # NoCard /\ ~got
             h == IF new THEN rc522_dispatch_event(reader, card.on, socket) ELSE reader
  <1>2. /\ reader \in Handle /\ card.reports \in Nat /\ card.disturbed \in Nat /\ reader.present \in BOOLEAN
        /\ card \in CardInfo /\ card.on \in Cards \cup {NoCard}
        /\ card.on = NoCard => card.reports = 0
        /\ card.reports + Pending <= card.disturbed + Known
    BY DEF CardInv, Handle, CardInfo
  <1>3. main' = main /\ main \notin {"wifi", "ble", "create"} /\ reader.pc = "loop"
    <2>1. main' = main /\ reader.pc = "loop"
      BY DEF ScanCard, Only
    <2> QED BY <2>1 DEF CardInv, NoHandle
  <1>4. /\ h \in Handle /\ h.pc \in {"loop", "sending"}
        /\ h.pc = "sending" => new /\ h.serial = card.on
    BY <1>2, <1>3 DEF Handle, rc522_dispatch_event
  <1>5. reader' = [h EXCEPT !.present = got] /\ got \in BOOLEAN
    BY <1>1 DEF PresentNow
  <1>6. card' = [card EXCEPT !.dropped = IF new THEN h.pc # "sending" ELSE got /\ @,
                             !.disturbed = IF spoilt THEN @ + 1 ELSE @,
                             !.fresh = @ \/ ~got]
    BY <1>1
  <1>7. /\ reader' \in Handle /\ reader'.present = got
        /\ reader'.pc = h.pc /\ reader'.serial = h.serial
    <2> HIDE DEF h, got
    <2> QED BY <1>4, <1>5 DEF Handle
  <1>8. new => got /\ ~reader.present
    OBVIOUS
  <1>9. card.on # NoCard <=> got \/ spoilt
    OBVIOUS
  <1>10. ~(got /\ spoilt)
    OBVIOUS
  <1>11. got /\ ~new => reader.present
    OBVIOUS
  <1> HIDE DEF h, got, new, spoilt
  <1>12. /\ card'.on = card.on /\ card'.reports = card.reports
         /\ card'.disturbed = IF spoilt THEN card.disturbed + 1 ELSE card.disturbed
         /\ card' \in CardInfo
    <2>1. PICK dro \in BOOLEAN : dro = IF new THEN h.pc # "sending" ELSE got /\ card.dropped
      BY <1>2, <1>5 DEF CardInfo
    <2>2. PICK dis \in Nat : dis = IF spoilt THEN card.disturbed + 1 ELSE card.disturbed
      BY <1>2
    <2>3. PICK fre \in BOOLEAN : fre = (card.fresh \/ ~got)
      BY <1>2, <1>5 DEF CardInfo
    <2>4. card' = [card EXCEPT !.dropped = dro, !.disturbed = dis, !.fresh = fre]
      BY <1>6, <2>1, <2>2, <2>3, Zenon
    <2> QED BY <1>2, <2>2, <2>4 DEF CardInfo
  <1>13. reader'.pc = "sending" => reader'.present /\ reader'.serial \in Cards
    BY <1>2, <1>4, <1>7, <1>8, <1>9
  <1>14. card'.reports + Pending' <= card'.disturbed + Known'
    <2>1. /\ Pending = 0 /\ Known = IF reader.present THEN 1 ELSE 0
          /\ Pending' = IF h.pc = "sending" THEN 1 ELSE 0
          /\ Known' = IF got THEN 1 ELSE 0
      BY <1>3, <1>7 DEF Pending, Known
    <2>2. CASE got
      BY <1>2, <1>4, <1>8, <1>10, <1>11, <1>12, <2>1, <2>2
    <2>3. CASE spoilt
      BY <1>2, <1>4, <1>8, <1>10, <1>12, <2>1, <2>3
    <2>4. CASE ~got /\ ~spoilt
      BY <1>2, <1>4, <1>8, <1>9, <1>12, <2>1, <2>4
    <2> QED BY <2>2, <2>3, <2>4
  <1>15. card'.on = NoCard => card'.reports = 0
    BY <1>2, <1>12
  <1> QED BY <1>3, <1>7, <1>12, <1>13, <1>14, <1>15 DEF CardInv

\* The other steps of the card reader, and of visitors: a card is told of once
\* for each reading that found it new.
LEMMA ReaderInv ==
  ASSUME CardInv, SendCard \/ EndTask \/ LayCard
  PROVE  CardInv'
  <1>1. /\ reader \in Handle /\ reader.present \in BOOLEAN
        /\ main \in {"wifi", "ble", "create"} => reader = NoHandle
        /\ card \in CardInfo /\ card.reports \in Nat /\ card.disturbed \in Nat
        /\ card.on = NoCard => card.reports = 0
        /\ reader.pc = "sending" => reader.present /\ reader.serial \in Cards
        /\ card.reports + Pending <= card.disturbed + Known
    BY DEF CardInv, Handle, CardInfo
  <1>2. CASE SendCard
    <2>1. /\ main' = main /\ reader.pc = "sending"
          /\ reader' = [reader EXCEPT !.pc = "loop", !.serial = NoCard]
          /\ card' = [card EXCEPT !.reports = IF card.on = reader.serial THEN @ + 1 ELSE @]
      BY <1>2 DEF SendCard, Only
    <2>2. main \notin {"wifi", "ble", "create"}
      BY <1>1, <2>1 DEF NoHandle
    <2>3. reader' \in Handle /\ reader'.present = reader.present /\ reader'.pc = "loop"
      BY <1>1, <2>1 DEF Handle
    <2>4. PICK rep \in Nat : rep = IF card.on = reader.serial THEN card.reports + 1 ELSE card.reports
      BY <1>1
    <2>5. card' = [card EXCEPT !.reports = rep]
      BY <2>1, <2>4, Zenon
    <2>6. card' \in CardInfo /\ card'.on = card.on /\ card'.reports = rep /\ card'.disturbed = card.disturbed
      BY <1>1, <2>5 DEF CardInfo
    <2>7. Pending = 1 /\ Pending' = 0 /\ Known' = Known /\ Known = 1
      BY <1>1, <2>1, <2>3 DEF Pending, Known
    <2>8. card'.reports + Pending' <= card'.disturbed + Known'
      BY <1>1, <2>4, <2>6, <2>7
    <2>9. card'.on = NoCard => card'.reports = 0
      BY <1>1, <2>1, <2>4, <2>6, BleAssumption DEF BleAssumption
    <2> QED BY <2>1, <2>2, <2>3, <2>6, <2>8, <2>9 DEF CardInv
  <1>3. CASE EndTask
    <2>1. main' = main /\ card' = card /\ reader.pc = "loop"
      BY <1>3 DEF EndTask, Only
    <2>2. main \notin {"wifi", "ble", "create"}
      BY <1>1, <2>1 DEF NoHandle
    <2>3. reader' \in Handle /\ reader'.present = reader.present /\ reader'.pc \in {"loop", "ended"}
      BY <1>1, <1>3, <2>1 DEF EndTask, Handle
    <2>4. Pending = 0 /\ Pending' = 0 /\ Known' = Known
      BY <2>1, <2>3 DEF Pending, Known
    <2> QED BY <1>1, <2>1, <2>2, <2>3, <2>4 DEF CardInv
  <1>4. CASE LayCard
    <2>1. PICK c \in (Cards \cup {NoCard}) \ {card.on} :
            card' = [on |-> c, reports |-> 0, dropped |-> FALSE, disturbed |-> 0,
                     fresh |-> card.on = NoCard /\ card.fresh]
      BY <1>4 DEF LayCard
    <2>2. main' = main /\ reader' = reader
      BY <1>4 DEF LayCard, Only
    <2>3. card' \in CardInfo /\ card'.reports = 0 /\ card'.disturbed = 0
      BY <1>1, <2>1 DEF CardInfo
    <2>4. Pending' = Pending /\ Known' = Known /\ Pending <= Known /\ Pending \in Nat /\ Known \in Nat
      BY <1>1, <2>2 DEF Pending, Known
    <2>5. card'.reports + Pending' <= card'.disturbed + Known'
      BY <2>3, <2>4
    <2> QED BY <1>1, <2>2, <2>3, <2>5 DEF CardInv
  <1> QED BY <1>2, <1>3, <1>4

-----------------------------------------------------------------------------
(***************************************************************************)
(* The program's start, and reboots.                                       *)
(***************************************************************************)
\* app_main, from reset to its end.
LEMMA AppMainInv == ASSUME IInv, AppMain PROVE IInv'
  <1>0. WifiInv /\ BtInv /\ CardInv
    BY DEF IInv
  <1>1. CASE main = "wifi"
    <2>1. /\ wifi' = initialise_wifi(wifi) /\ main' = "ble"
          /\ UNCHANGED <<bt, out>> /\ UNCHANGED <<reader, card>>
      BY <1>1 DEF AppMain
    <2>2. wifi = [link |-> "off", bit |-> FALSE, events |-> <<>>]
      BY <1>0, <1>1 DEF WifiInv, Off
    <2>3. wifi' = [link |-> "down", bit |-> FALSE, events |-> <<"START">>]
      <3>1. Append(<<>>, "START") = <<"START">>
        OBVIOUS
      <3> QED BY <2>1, <2>2, <3>1 DEF initialise_wifi, Queued
    <2>4. <<"START">> \in Seq(WifiEvent) /\ Len(<<"START">>) = 1 /\ <<"START">>[1] = "START"
      BY DEF WifiEvent
    <2>5. WifiInv'
      <3>1. /\ wifi' \in [link : {"off", "down", "trying", "up"}, bit : BOOLEAN, events : Seq(WifiEvent)]
            /\ wifi'.link = "down" /\ wifi'.bit = FALSE /\ wifi'.events = <<"START">> /\ wifi'.events # <<>>
        BY <2>3, <2>4
      <3> QED BY <2>1, <2>4, <3>1 DEF WifiInv
    <2>6. CardInv'
      BY <1>0, <1>1, <2>1 DEF CardInv, Known, Pending
    <2> QED BY <1>0, <2>1, <2>5, <2>6, BtFixed DEF IInv
  <1>2. CASE main = "ble"
    <2>1. PICK steps \in {3, 4} : bt' = ble_init(bt, steps)
      BY <1>2 DEF AppMain
    <2>2. main' = "create" /\ UNCHANGED <<wifi, reader, card, out>>
      BY <1>2 DEF AppMain
    <2>3. /\ bt' \in [radio : {"off", "on", "failed"},
                      pc : {"none", "dead", "params", "idle", "clearing", "sending"},
                      devices : Seq(DeviceInfo)]
          /\ bt'.devices = bt.devices
      BY <1>0, <2>1 DEF BtInv, ble_init
    <2>4. BtInv'
      BY <1>0, <2>2, <2>3 DEF BtInv
    <2>5. WifiInv' /\ CardInv'
      BY <1>0, <1>2, <2>2 DEF WifiInv, CardInv, Known, Pending
    <2> QED BY <2>4, <2>5 DEF IInv
  <1>3. CASE main = "create"
    <2>1. PICK driver \in BOOLEAN, loop \in BOOLEAN, task \in BOOLEAN :
            reader' = rc522_create(driver, loop, task)
      BY <1>3 DEF AppMain
    <2>2. main' = "start" /\ UNCHANGED <<wifi, bt, card, out>>
      BY <1>3 DEF AppMain
    <2>3. reader' \in Handle /\ reader'.present = FALSE /\ reader'.pc \in {"none", "loop"}
      BY <2>1 DEF rc522_create, NoHandle, Handle
    <2>4. reader.present = FALSE /\ reader.pc = "none"
      BY <1>0, <1>3 DEF CardInv, NoHandle
    <2>5. CardInv'
      BY <1>0, <2>2, <2>3, <2>4 DEF CardInv, Known, Pending
    <2>6. WifiInv' /\ BtInv'
      BY <1>0, <1>3, <2>2 DEF WifiInv, BtInv
    <2> QED BY <2>5, <2>6 DEF IInv
  <1>4. CASE main = "start"
    <2>1. PICK rw_test \in BOOLEAN : reader' = rc522_start(rc522_register_events(reader), rw_test)
      BY <1>4 DEF AppMain
    <2>2. main' = "done" /\ UNCHANGED <<wifi, bt, card, out>>
      BY <1>4 DEF AppMain
    <2> DEFINE h == rc522_register_events(reader)
    <2>3. h \in Handle /\ h.present = reader.present /\ h.pc = reader.pc /\ h.serial = reader.serial
      BY <1>0 DEF CardInv, rc522_register_events, Handle
    <2>4. /\ reader' \in Handle /\ reader'.present = h.present
          /\ reader'.pc = h.pc /\ reader'.serial = h.serial
      <3> HIDE DEF h
      <3> QED BY <2>1, <2>3 DEF rc522_start, rc522_destroy, rc522_pause, Handle, h
    <2>5. CardInv'
      BY <1>0, <2>2, <2>3, <2>4 DEF CardInv, Known, Pending
    <2>6. WifiInv' /\ BtInv'
      BY <1>0, <1>4, <2>2 DEF WifiInv, BtInv
    <2> QED BY <2>5, <2>6 DEF IInv
  <1> QED BY <1>1, <1>2, <1>3, <1>4 DEF AppMain

\* After a reboot only the card is as it was.
LEMMA ReadFailsInv == ASSUME IInv, ReadFails PROVE IInv'
  <1>1. /\ main' = "wifi" /\ wifi' = Off.wifi /\ wifi' = [link |-> "off", bit |-> FALSE, events |-> <<>>]
        /\ bt' = [radio |-> "off", pc |-> "none", devices |-> <<>>] /\ out' = <<>>
        /\ reader' = NoHandle /\ card' = [card EXCEPT !.reports = 0, !.dropped = FALSE, !.fresh = TRUE]
    BY DEF ReadFails, Off
  <1>2. WifiInv'
    <2>1. <<>> \in Seq(WifiEvent)
      BY EmptySeq
    <2>2. /\ wifi' \in [link : {"off", "down", "trying", "up"}, bit : BOOLEAN, events : Seq(WifiEvent)]
          /\ wifi'.events = <<>> /\ wifi'.bit = FALSE /\ wifi'.link = "off"
      BY <1>1, <2>1
    <2>3. wifi' = Off.wifi'
      BY <1>1 DEF Off
    <2> QED BY <1>1, <2>2, <2>3 DEF WifiInv
  <1>3. BtInv'
    <2>1. <<>> \in Seq(DeviceInfo)
      BY EmptySeq
    <2>2. /\ bt' \in [radio : {"off", "on", "failed"},
                      pc : {"none", "dead", "params", "idle", "clearing", "sending"},
                      devices : Seq(DeviceInfo)]
          /\ bt'.devices = <<>>
      BY <1>1, <2>1
    <2> QED BY <1>1, <2>2, EmptyList, EmptyReport DEF BtInv
  <1>4. CardInv'
    <2>1. card \in CardInfo
      BY DEF IInv, CardInv
    <2>2. /\ card' \in CardInfo
          /\ card'.reports = 0 /\ card'.disturbed \in Nat
      BY <1>1, <2>1 DEF CardInfo
    <2>3. NoHandle \in Handle /\ NoHandle.present = FALSE /\ NoHandle.pc = "none"
      BY DEF NoHandle, Handle
    <2>4. reader' = NoHandle' /\ reader' \in Handle /\ reader'.present = FALSE /\ reader'.pc = "none"
      BY <1>1, <2>3 DEF NoHandle
    <2> QED BY <2>2, <2>4 DEF CardInv, Known, Pending
  <1> QED BY <1>2, <1>3, <1>4 DEF IInv

\* Every step keeps the invariant.
LEMMA NextInv == IInv /\ [Next]_vars => IInv'
  <1> SUFFICES ASSUME IInv, [Next]_vars PROVE IInv'
    OBVIOUS
  <1>0. WifiInv /\ BtInv /\ CardInv
    BY DEF IInv
  <1>1. CASE AppMain
    BY <1>1, AppMainInv
  <1>2. CASE ReadFails
    BY <1>2, ReadFailsInv
  <1>3. CASE HandleEvent \/ wifi_connect \/ Connects \/ LosesLink
    <2>1. UNCHANGED <<main, reader, card>> /\ UNCHANGED <<bt, out>>
      BY <1>3 DEF HandleEvent, wifi_connect, Connects, LosesLink, Only
    <2> QED BY <1>0, <1>3, <2>1, HandleEventInv, WifiConnectInv, LinkInv, CardFixed, BtFixed DEF IInv
  <1>4. CASE GapParamsSet \/ GapResult \/ GapComplete \/ GapSend \/ GapRestart
    <2>1. UNCHANGED <<main, reader, card>> /\ UNCHANGED <<main, wifi>>
      BY <1>4 DEF GapParamsSet, GapResult, GapComplete, GapSend, GapRestart, Only
    <2> QED BY <1>0, <1>4, <2>1, BluetoothInv, CardFixed, WifiFixed DEF IInv
  <1>5. CASE ScanCard \/ SendCard \/ EndTask \/ LayCard
    <2>1. UNCHANGED <<bt, out>> /\ UNCHANGED <<main, wifi>>
      BY <1>5 DEF ScanCard, SendCard, EndTask, LayCard, Only
    <2> QED BY <1>0, <1>5, <2>1, ScanCardInv, ReaderInv, BtFixed, WifiFixed DEF IInv
  <1>6. CASE UNCHANGED vars
    BY <1>0, <1>6, WifiFixed, BtFixed, CardFixed DEF IInv, vars
  <1> QED BY <1>1, <1>2, <1>3, <1>4, <1>5, <1>6 DEF Next

\* A report of the first tag has each beacon once, with an average of enough
\* values of one window, and is cut at most in its last entry; a card is
\* reported again only after a reading of it failed; and CONNECTED_BIT follows
\* the link (gap_event_handler, rc522_task, event_handler).
THEOREM ReportsSound == Spec => []ReportsAreSound
  <1>1. IInv => ReportsAreSound
    <2> SUFFICES ASSUME IInv PROVE ReportsAreSound
      OBVIOUS
    <2>1. ReportSound(out)
      BY DEF IInv, BtInv
    <2>2. card.reports <= 1 + card.disturbed
      <3>1. /\ card.reports \in Nat /\ card.disturbed \in Nat
            /\ card.reports + Pending <= card.disturbed + Known
        BY DEF IInv, CardInv, CardInfo
      <3> QED BY <3>1 DEF Pending, Known
    <2>3. wifi.events = <<>> => (wifi.bit <=> wifi.link = "up")
      BY DEF IInv, WifiInv
    <2> QED BY <2>1, <2>2, <2>3 DEF ReportsAreSound, ReportSound
  <1> QED BY <1>1, InitInv, NextInv, PTL DEF Spec
=============================================================================
