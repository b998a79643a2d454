---------------------------- MODULE KMeansProofs ----------------------------
(***************************************************************************)
(* Theorems about KMeansClient, for any files, any number of mappers and   *)
(* any order of fields and of results: steps.json is complete and in       *)
(* order, the job is Lloyd's iteration, and a new round is fired only for  *)
(* centers that cost less.                                                 *)
(***************************************************************************)
EXTENDS KMeansClient, DataLemmas

-----------------------------------------------------------------------------
(* The cost falls: for each center, its points cost what they do at their  *)
(* mean, and as much more as the square of its distance to the mean, for   *)
(* each point.                                                             *)
Apart(x, y) == (x - y) * (x - y)

LEMMA MeanIsBest ==
  ASSUME NEW n \in Nat \ {0}, NEW c \in Int, NEW m \in Int, NEW q \in Int
  PROVE  /\ n * (m * m) - 2 * (m * (n * m)) + q
              <= n * (c * c) - 2 * (c * (n * m)) + q
         /\ m # c => n * (m * m) - 2 * (m * (n * m)) + q
                       < n * (c * c) - 2 * (c * (n * m)) + q
<1> DEFINE d == c - m
           e == d * d
<1>1. d \in Int
  OBVIOUS
<1>2. e \in Int /\ e >= 0 /\ (m # c => e > 0)
  <2>1. m # c => d # 0
    OBVIOUS
  <2> HIDE DEF d
  <2> QED BY <1>1, <2>1
<1>3. n * e \in Int /\ n * e >= 0 /\ (m # c => n * e > 0)
  <2> HIDE DEF e
  <2> QED BY <1>2
<1>4. n * (c * c) - 2 * (c * (n * m)) + q
        = (n * (m * m) - 2 * (m * (n * m)) + q) + n * e
  <2>1. e = c * c - 2 * (c * m) + m * m
    OBVIOUS
  <2>2. c * (n * m) = n * (c * m) /\ m * (n * m) = n * (m * m)
    OBVIOUS
  <2>3. n * (c * c - 2 * (c * m) + m * m)
          = n * (c * c) - 2 * (n * (c * m)) + n * (m * m)
    OBVIOUS
  <2> HIDE DEF e
  <2>4. n * e = n * (c * c) - 2 * (n * (c * m)) + n * (m * m)
    BY <2>1, <2>3
  <2> QED BY <2>2, <2>4
<1>5. n * (m * m) - 2 * (m * (n * m)) + q \in Int
  OBVIOUS
<1> DEFINE low == n * (m * m) - 2 * (m * (n * m)) + q
           high == n * (c * c) - 2 * (c * (n * m)) + q
           more == n * e
<1>6. high = low + more /\ low \in Int /\ more \in Int /\ more >= 0
      /\ (m # c => more > 0)
  BY <1>3, <1>4, <1>5
<1> HIDE DEF low, high, more
<1>7. low <= high /\ (m # c => low < high)
  BY <1>6
<1> QED BY <1>7 DEF low, high

LEMMA OneCenterFalls ==
  ASSUME NEW S, IsFiniteSet(S), S # {}, NEW p, \A i \in S : p[i] \in Int,
         NEW c \in Int, NEW m \in Int,
         SumFunctionOnSet(p, S) = Cardinality(S) * m,
         NEW f, \A i \in S : f[i] = Apart(c, p[i]),
         NEW g, \A i \in S : g[i] = Apart(m, p[i])
  PROVE  /\ SumFunctionOnSet(g, S) <= SumFunctionOnSet(f, S)
         /\ m # c => SumFunctionOnSet(g, S) < SumFunctionOnSet(f, S)
<1> DEFINE q == [i \in S |-> p[i] * p[i]]
           n == Cardinality(S)
           Q == SumFunctionOnSet(q, S)
<1>1. n \in Nat \ {0}
  BY FS_CardinalityType, FS_EmptySet
<1>2. \A i \in S : q[i] = p[i] * p[i]
  OBVIOUS
<1>3. Q \in Int
  <2>1. \A i \in S : q[i] \in Int
    OBVIOUS
  <2> HIDE DEF q
  <2> QED BY <2>1, SumStep
<1> HIDE DEF q
<1>4. SumFunctionOnSet(f, S) =
        n * (c * c) - 2 * (c * SumFunctionOnSet(p, S)) + Q
  BY <1>2, SumOfSquares DEF Apart
<1>5. SumFunctionOnSet(g, S) =
        n * (m * m) - 2 * (m * SumFunctionOnSet(p, S)) + Q
  BY <1>2, SumOfSquares DEF Apart
<1>6. SumFunctionOnSet(p, S) = n * m
  OBVIOUS
<1> HIDE DEF n, Q
<1> QED BY <1>1, <1>3, <1>4, <1>5, <1>6, MeanIsBest

OwnIn(D, a, k) == {i \in D : a[i] = k}
CostAt(D, p, a, c) ==
  SumFunctionOnSet([i \in D |-> Apart(c[a[i]], p[i])], D)

LEMMA EveryCenterFalls ==
  ASSUME NEW D, IsFiniteSet(D), NEW p, \A i \in D : p[i] \in Int,
         NEW n \in Nat, NEW a \in [D -> 0..(n - 1)],
         NEW c, \A k \in 0..(n - 1) : c[k] \in Int,
         NEW m, \A k \in 0..(n - 1) : m[k] \in Int,
         \A k \in 0..(n - 1) :
           IF OwnIn(D, a, k) = {} THEN m[k] = c[k]
           ELSE SumFunctionOnSet(p, OwnIn(D, a, k)) =
                  Cardinality(OwnIn(D, a, k)) * m[k],
         \E k \in 0..(n - 1) : OwnIn(D, a, k) # {} /\ m[k] # c[k]
  PROVE  CostAt(D, p, a, m) < CostAt(D, p, a, c)
<1> DEFINE f == [i \in D |-> Apart(c[a[i]], p[i])]
           g == [i \in D |-> Apart(m[a[i]], p[i])]
<1>a. \A i \in D : f[i] = Apart(c[a[i]], p[i]) /\ g[i] = Apart(m[a[i]], p[i])
  OBVIOUS
<1> HIDE DEF f, g
<1> DEFINE Below(j) == {i \in D : a[i] < j}
           F(S) == SumFunctionOnSet(f, S)
           G(S) == SumFunctionOnSet(g, S)
           Moved(j) == \E k \in 0..(n - 1) :
                         k < j /\ OwnIn(D, a, k) # {} /\ m[k] # c[k]
           Good == {j \in Nat : j <= n => /\ G(Below(j)) <= F(Below(j))
                                          /\ Moved(j) =>
                                               G(Below(j)) < F(Below(j))}
<1>0. \A i \in D : f[i] \in Int /\ g[i] \in Int
  <2>1. \A i \in D : a[i] \in 0..(n - 1)
    OBVIOUS
  <2>2. \A i \in D : c[a[i]] \in Int /\ m[a[i]] \in Int
    BY <2>1
  <2>3. \A x, y \in Int : Apart(x, y) \in Int
    BY DEF Apart
  <2> QED BY <1>a, <2>2, <2>3, ZenonT(40)
<1>1. \A S \in SUBSET D : F(S) \in Int /\ G(S) \in Int
  BY <1>0, SumsAdd
<1>2. \A S, T \in SUBSET D :
        S \cap T = {} => F(S \cup T) = F(S) + F(T) /\ G(S \cup T) = G(S) + G(T)
  BY <1>0, SumUnion
<1>3. ASSUME NEW k \in 0..(n - 1)
      PROVE  LET S == OwnIn(D, a, k)
             IN /\ G(S) <= F(S)
                /\ S # {} /\ m[k] # c[k] => G(S) < F(S)
  <2> DEFINE S == OwnIn(D, a, k)
  <2>1. CASE S = {}
    <3>1. F({}) = 0 /\ G({}) = 0
      BY SumEmpty
    <3> QED BY <2>1, <3>1
  <2>2. CASE S # {}
    <3>1. IsFiniteSet(S) /\ \A i \in S : i \in D /\ a[i] = k
      BY FS_Subset DEF OwnIn
    <3>2. SumFunctionOnSet(p, S) = Cardinality(S) * m[k]
      BY <2>2
    <3>3. c[k] \in Int /\ m[k] \in Int
      OBVIOUS
    <3>4. \A i \in S : /\ p[i] \in Int /\ f[i] = Apart(c[k], p[i])
                       /\ g[i] = Apart(m[k], p[i])
      BY <1>a, <3>1
    <3> DEFINE x == c[k]
               y == m[k]
    <3>5. /\ x \in Int /\ y \in Int
          /\ SumFunctionOnSet(p, S) = Cardinality(S) * y
          /\ \A i \in S : p[i] \in Int
          /\ \A i \in S : f[i] = Apart(x, p[i])
          /\ \A i \in S : g[i] = Apart(y, p[i])
      BY <3>2, <3>3, <3>4
    <3> HIDE DEF S, x, y
    <3>6. /\ SumFunctionOnSet(g, S) <= SumFunctionOnSet(f, S)
          /\ y # x => SumFunctionOnSet(g, S) < SumFunctionOnSet(f, S)
      BY <2>2, <3>1, <3>5, OneCenterFalls, SMTT(30)
    <3> QED BY <3>6 DEF S, x, y
  <2> QED BY <2>1, <2>2
<1> HIDE DEF F, G
<1>4. 0 \in Good
  <2>1. \A i \in D : a[i] \in 0..(n - 1)
    OBVIOUS
  <2>2. Below(0) = {} /\ ~Moved(0)
    <3>1. \A k \in 0..(n - 1) : ~(k < 0)
      OBVIOUS
    <3>2. \A i \in D : ~(a[i] < 0)
      BY <2>1, <3>1
    <3> QED BY <3>1, <3>2
  <2>3. F({}) = 0 /\ G({}) = 0
    BY SumEmpty DEF F, G
  <2>4. F(Below(0)) = 0 /\ G(Below(0)) = 0
    BY <2>2, <2>3
  <2> HIDE DEF Below, Moved
  <2> QED BY <2>2, <2>4
<1>5. ASSUME NEW j \in Nat, j \in Good
      PROVE  j + 1 \in Good
  <2> SUFFICES ASSUME j + 1 <= n
               PROVE  /\ G(Below(j + 1)) <= F(Below(j + 1))
                      /\ Moved(j + 1) => G(Below(j + 1)) < F(Below(j + 1))
    <3> HIDE DEF Below, Moved
    <3> QED OBVIOUS
  <2> DEFINE S == OwnIn(D, a, j)
             B == Below(j)
  <2>1. /\ S \in SUBSET D /\ B \in SUBSET D /\ S \cap B = {}
        /\ Below(j + 1) = B \cup S
    <3>1. \A i \in D : a[i] \in Int
      OBVIOUS
    <3>2. \A i \in D : a[i] < j + 1 <=> a[i] < j \/ a[i] = j
      BY <3>1
    <3>3. \A i \in D : ~(a[i] < j /\ a[i] = j)
      BY <3>1
    <3> QED BY <3>2, <3>3 DEF OwnIn
  <2>2. j \in 0..(n - 1) /\ j <= n
    OBVIOUS
  <2>3. G(S) <= F(S) /\ (S # {} /\ m[j] # c[j] => G(S) < F(S))
    BY <1>3, <2>2
  <2>4. G(B) <= F(B) /\ (Moved(j) => G(B) < F(B))
    BY <1>5, <2>2
  <2>5. Moved(j + 1) => Moved(j) \/ (S # {} /\ m[j] # c[j])
    OBVIOUS
  <2>6. F(B \cup S) = F(B) + F(S) /\ G(B \cup S) = G(B) + G(S)
    BY <1>2, <2>1
  <2>7. F(B) \in Int /\ F(S) \in Int /\ G(B) \in Int /\ G(S) \in Int
    BY <1>1, <2>1
  <2> DEFINE x == F(B)
             y == F(S)
             u == G(B)
             v == G(S)
  <2>8. /\ x \in Int /\ y \in Int /\ u \in Int /\ v \in Int
        /\ u <= x /\ v <= y
        /\ Moved(j + 1) => u < x \/ v < y
    BY <2>3, <2>4, <2>5, <2>7
  <2> HIDE DEF S, B, Below, Moved, x, y, u, v
  <2>9. u + v <= x + y /\ (Moved(j + 1) => u + v < x + y)
    BY <2>8
  <2> QED BY <2>1, <2>6, <2>9 DEF x, y, u, v
<1> HIDE DEF Good
<1>6. n \in Good
  BY <1>4, <1>5, UpFrom0
<1>7. Below(n) = D
  <2>1. \A i \in D : a[i] \in 0..(n - 1)
    OBVIOUS
  <2> QED BY <2>1
<1>8. Moved(n)
  OBVIOUS
<1> HIDE DEF Below, Moved
<1>9. G(D) < F(D)
  BY <1>6, <1>7, <1>8 DEF Good
<1> QED BY <1>9 DEF F, G, f, g, CostAt

-----------------------------------------------------------------------------
SumsDivide == \A i, n \in DOMAIN points : points[i] % n = 0

FilesOk ==
  /\ points \in Seq(Int) /\ points # <<>> /\ SumsDivide
  /\ kmeans_centers \in Seq(Int) /\ kmeans_centers # <<>>

Centers == [id : Ids, x : Int, y : {0}]

Listed(list) ==
  /\ list \in Seq(Centers)
  /\ \A i, j \in DOMAIN list : list[i].id = list[j].id => i = j

EveryCenter(list) ==
  /\ Listed(list)
  /\ \A k \in Ids : \E i \in DOMAIN list : list[i].id = k

LEMMA FileTypes ==
  ASSUME FilesOk
  PROVE  /\ NumCenters \in Nat \ {0} /\ IsFiniteSet(Ids)
         /\ Cardinality(Ids) = NumCenters /\ 0 \in Ids
         /\ Len(points) \in Nat \ {0} /\ DOMAIN points = 1..Len(points)
         /\ IsFiniteSet(DOMAIN points)
         /\ \A i \in DOMAIN points : points[i] \in Int
         /\ DOMAIN kmeans_centers = 1..NumCenters
         /\ \A i \in 1..NumCenters : kmeans_centers[i] \in Int
<1>1. /\ NumCenters \in Nat \ {0} /\ DOMAIN kmeans_centers = 1..NumCenters
      /\ \A i \in 1..NumCenters : kmeans_centers[i] \in Int
  BY DEF FilesOk, NumCenters
<1>2. /\ Len(points) \in Nat \ {0} /\ DOMAIN points = 1..Len(points)
      /\ \A i \in DOMAIN points : points[i] \in Int
  BY DEF FilesOk
<1>3. IsFiniteSet(Ids) /\ Cardinality(Ids) = NumCenters /\ 0 \in Ids
  BY <1>1, FS_Interval DEF Ids
<1>4. IsFiniteSet(DOMAIN points)
  BY <1>2, FS_Interval
<1> QED BY <1>1, <1>2, <1>3, <1>4

LEMMA ListTypes ==
  ASSUME NEW list, Listed(list)
  PROVE  /\ Len(list) \in Nat /\ DOMAIN list = 1..Len(list)
         /\ \A i \in DOMAIN list :
              /\ list[i] \in Centers
              /\ list[i].id \in Ids /\ list[i].x \in Int /\ list[i].y = 0
              /\ list[i] = Center(list[i].id, list[i].x)
<1>1. Len(list) \in Nat /\ DOMAIN list = 1..Len(list)
      /\ \A i \in DOMAIN list : list[i] \in Centers
  BY DEF Listed
<1>2. \A c \in Centers : /\ c.id \in Ids /\ c.x \in Int /\ c.y = 0
                         /\ c = Center(c.id, c.x)
  BY DEF Centers, Center
<1> QED BY <1>1, <1>2

LEMMA ListLength ==
  ASSUME FilesOk, NEW list, Listed(list)
  PROVE  /\ Len(list) <= NumCenters
         /\ EveryCenter(list) <=> Len(list) = NumCenters
<1> DEFINE D == DOMAIN list
           f == [i \in D |-> list[i].id]
<1>1. IsFiniteSet(D) /\ Cardinality(D) = Len(list)
  <2>1. D = 1..Len(list) /\ Len(list) \in Nat
    BY ListTypes
  <2>2. IsFiniteSet(1..Len(list)) /\ Cardinality(1..Len(list)) = Len(list)
    BY <2>1, UpToN
  <2> QED BY <2>1, <2>2
<1>2. f \in Injection(D, Ids)
  BY ListTypes DEF Listed, Injection, IsInjective
<1>3. /\ Cardinality(D) <= NumCenters
      /\ Cardinality(D) = NumCenters <=> f \in Surjection(D, Ids)
  BY <1>2, FileTypes, FS_Injection
<1>4. f \in Surjection(D, Ids) <=> EveryCenter(list)
  BY <1>2 DEF Surjection, Injection, EveryCenter
<1> QED BY <1>1, <1>3, <1>4

LEMMA DistanceType ==
  \A x, y \in Int : Distance(x, y) \in Nat
  BY DEF Distance

LEMMA Nearest ==
  ASSUME FilesOk, EveryCenter(previous_result), NEW p \in Int
  PROVE  \E i \in DOMAIN previous_result :
           /\ NearestCenter(p) = previous_result[i]
           /\ \A j \in DOMAIN previous_result :
                Distance(previous_result[i].x, p)
                  <= Distance(previous_result[j].x, p)
<1> DEFINE D == DOMAIN previous_result
           d == [j \in D |-> Distance(previous_result[j].x, p)]
           All == {d[j] : j \in D}
           Near == {i \in D : \A j \in D :
                      Distance(previous_result[i].x, p)
                        <= Distance(previous_result[j].x, p)}
<1>1. D = 1..Len(previous_result) /\ Len(previous_result) \in Nat
      /\ IsFiniteSet(D) /\ D # {} /\ D \in SUBSET Int
  <2>1. D = 1..Len(previous_result) /\ Len(previous_result) \in Nat
    BY ListTypes DEF EveryCenter
  <2>2. IsFiniteSet(D) /\ D \in SUBSET Int
    BY <2>1, FS_Interval
  <2>3. D # {}
    BY FileTypes DEF EveryCenter
  <2> QED BY <2>1, <2>2, <2>3
<1>2. \A j \in D : d[j] \in Int
  <2>1. \A j \in D : previous_result[j].x \in Int
    BY ListTypes DEF EveryCenter
  <2>2. \A j \in D : Distance(previous_result[j].x, p) \in Nat
    BY <2>1, DistanceType
  <2> QED BY <2>2
<1>3. All \in SUBSET Int /\ All # {} /\ IsFiniteSet(All)
  <2>1. d \in Surjection(D, All)
    <3> HIDE DEF D
    <3> QED BY DEF Surjection
  <2>2. IsFiniteSet(All)
    BY <1>1, <2>1, FS_Surjection
  <2> QED BY <1>1, <1>2, <2>2
<1>4. PICK i \in D : d[i] = Min(All) /\ \A e \in All : Min(All) <= e
  BY <1>3, Extremes
<1>5. Near # {} /\ Near \in SUBSET Int /\ IsFiniteSet(Near)
  <2>1. \A j \in D : d[i] <= d[j]
    BY <1>4
  <2>2. i \in Near
    BY <2>1
  <2>3. IsFiniteSet(Near)
    BY <1>1, FS_Subset
  <2> QED BY <1>1, <2>2, <2>3
<1>6. Min(Near) \in Near
  BY <1>5, Extremes
<1>7. NearestCenter(p) = previous_result[Min(Near)]
  BY DEF NearestCenter
<1> QED BY <1>6, <1>7

-----------------------------------------------------------------------------
FieldAt(i) == IF i = 1 THEN "id" ELSE IF i = 2 THEN "x" ELSE "y"
Text(c) == [i \in 1..3 |-> [name |-> FieldAt(i), value |-> c[FieldAt(i)]]]

LEMMA OneText ==
  ASSUME NEW order \in Orders, NEW c
  PROVE  orderjson(encode(c, order)) = Text(c)
<1> DEFINE e == encode(c, order)
<1>1. /\ order \in [1..3 -> {"id", "x", "y"}]
      /\ \A f \in {"id", "x", "y"} : \E i \in 1..3 : order[i] = f
  BY KMeansAssumption DEF FieldName
<1>2. /\ DOMAIN e = 1..3
      /\ \A i \in 1..3 : e[i] = [name |-> order[i], value |-> c[order[i]]]
  BY <1>1 DEF encode
<1>3. \A i \in 1..3 : NameRank[e[i].name] = IF order[i] = "id" THEN 1
                        ELSE IF order[i] = "x" THEN 2 ELSE 3
  BY <1>1, <1>2 DEF NameRank
<1> HIDE DEF e
<1>4. ASSUME NEW r \in 1..3
      PROVE  e[CHOOSE i \in DOMAIN e : NameRank[e[i].name] = r] =
               [name |-> FieldAt(r), value |-> c[FieldAt(r)]]
  <2>1. \A i \in 1..3 : NameRank[e[i].name] = r <=> order[i] = FieldAt(r)
    BY <1>1, <1>3 DEF FieldAt
  <2>2. PICK i \in 1..3 : order[i] = FieldAt(r)
    BY <1>1 DEF FieldAt
  <2> DEFINE j == CHOOSE l \in DOMAIN e : NameRank[e[l].name] = r
  <2>3. j \in 1..3 /\ order[j] = FieldAt(r)
    BY <1>2, <2>1, <2>2
  <2> QED BY <1>2, <2>3
<1>5. orderjson(e) = Text(c)
  BY <1>2, <1>4 DEF orderjson, Text
<1> QED BY <1>5 DEF e

LEMMA TextId ==
  ASSUME NEW c
  PROVE  decode(Text(c)).id = c.id
<1> DEFINE t == Text(c)
           I == {i \in 1..Len(t) : t[i].name = "id"}
<1>1. t \in Seq({t[i] : i \in 1..3}) /\ Len(t) = 3
  BY DEF Text
<1>2. t[1].name = "id" /\ t[1].value = c.id
      /\ t[2].name # "id" /\ t[3].name # "id"
  BY DEF Text, FieldAt
<1> HIDE DEF t
<1>3. I = {1}
  BY <1>1, <1>2
<1>4. SelectInSeq(t, LAMBDA field : field.name = "id") = 1
  <2>1. Min({1}) = 1
    BY DEF Min
  <2> QED BY <1>3, <2>1 DEF SelectInSeq
<1>5. decode(t)["id"] = t[1].value
  BY <1>4 DEF decode, FieldName
<1> QED BY <1>2, <1>5 DEF t

-----------------------------------------------------------------------------
(* What the round computes, for any list of centers: the point's center,   *)
(* the points of a center, and where they are on average.                  *)
CenterOf(i) == NearestCenter(points[i])
PairOf(i) == [key |-> Text(CenterOf(i)), point |-> i]
OwnOf(k) == {i \in DOMAIN points : CenterOf(i).id = k}
MeanOf(k) == SumFunctionOnSet(points, OwnOf(k)) \div Cardinality(OwnOf(k))
HasRun(i) == \E m \in mapped : i \in Share(m)

(* The reducers hold the pairs of the points mapped so far, but for those  *)
(* of centers that are through.                                            *)
BufferOk ==
  /\ \A d \in data_buff :
       \E i \in DOMAIN points : /\ HasRun(i) /\ d = PairOf(i)
                                /\ CenterOf(i).id \notin Recalculated
  /\ \A i \in DOMAIN points :
       HasRun(i) => PairOf(i) \in data_buff \/ CenterOf(i).id \in Recalculated

(* A result is the mean of all the points of its center, of which there    *)
(* is one at least.                                                        *)
ResultsOk ==
  /\ Listed(last_result)
  /\ last_result # <<>> => mapped = Mappers
  /\ \A r \in DOMAIN last_result :
       LET k == last_result[r].id
       IN OwnOf(k) # {} /\ last_result[r].x = MeanOf(k)

IdleOk == round_ = 0 /\ centersfile = <<>> /\ mapped = {} /\ data_buff = {}
          /\ last_result = <<>>

RunningOk == round_ = Len(centersfile) /\ mapped \subseteq Mappers
             /\ BufferOk /\ ResultsOk

KMeansInv ==
  /\ FilesOk /\ status \in {"idle", "running", "exited"}
  /\ round_ \in Nat /\ centersfile \in Seq([step : Nat, centers : Seq(Centers)])
  /\ status = "idle" => IdleOk
  /\ status = "running" => RunningOk
  /\ status # "idle" => EveryCenter(previous_result)
  /\ StepsInOrder

-----------------------------------------------------------------------------
LEMMA EveryPointMapped ==
  ASSUME FilesOk, mapped = Mappers
  PROVE  \A i \in DOMAIN points : HasRun(i)
<1> SUFFICES ASSUME NEW i \in DOMAIN points PROVE HasRun(i)
  OBVIOUS
<1> DEFINE pz == 1 + Len(points) \div NumMappers
           p == (i - 1) \div pz
<1>1. NumMappers \in Nat \ {0} /\ Len(points) \in Nat
      /\ i \in 1..Len(points)
  BY KMeansAssumption, FileTypes
<1>2. pz \in Nat \ {0}
  BY <1>1
<1> HIDE DEF pz
<1>3. p \in Nat
  <2>1. i - 1 \in Nat
    BY <1>1
  <2> QED BY <1>2, <2>1
<1> HIDE DEF p
<1>4. p % NumMappers \in 0..(NumMappers - 1)
  BY <1>1, <1>3
<1>5. i \in Share(p % NumMappers)
  BY DEF Share, PartitionOf, p, pz
<1> QED BY <1>4, <1>5 DEF HasRun, Mappers

LEMMA CenterTypes ==
  ASSUME FilesOk, EveryCenter(previous_result)
  PROVE  /\ \A i \in DOMAIN points :
              /\ CenterOf(i) \in Centers /\ CenterOf(i).id \in Ids
              /\ \E l \in DOMAIN previous_result :
                   CenterOf(i) = previous_result[l]
         /\ \A i, j \in DOMAIN points :
              CenterOf(i).id = CenterOf(j).id <=>
                Text(CenterOf(i)) = Text(CenterOf(j))
<1>1. ASSUME NEW i \in DOMAIN points
      PROVE  \E l \in DOMAIN previous_result :
               CenterOf(i) = previous_result[l]
  <2>1. points[i] \in Int
    BY FileTypes
  <2> QED BY <2>1, Nearest DEF CenterOf
<1>2. ASSUME NEW i \in DOMAIN points
      PROVE  CenterOf(i) \in Centers /\ CenterOf(i).id \in Ids
  BY <1>1, ListTypes DEF EveryCenter
<1>3. ASSUME NEW i \in DOMAIN points, NEW j \in DOMAIN points
      PROVE  CenterOf(i).id = CenterOf(j).id <=>
               Text(CenterOf(i)) = Text(CenterOf(j))
  <2>1. CenterOf(i).id = CenterOf(j).id => CenterOf(i) = CenterOf(j)
    BY <1>1 DEF EveryCenter, Listed
  <2>2. /\ decode(Text(CenterOf(i))).id = CenterOf(i).id
        /\ decode(Text(CenterOf(j))).id = CenterOf(j).id
    BY TextId
  <2> QED BY <2>1, <2>2
<1> QED BY <1>1, <1>2, <1>3

LEMMA MeanType ==
  ASSUME FilesOk, NEW k, OwnOf(k) # {}
  PROVE  MeanOf(k) \in Int
<1>1. IsFiniteSet(OwnOf(k)) /\ OwnOf(k) \subseteq DOMAIN points
  BY FileTypes, FS_Subset DEF OwnOf
<1>2. Cardinality(OwnOf(k)) \in Nat \ {0}
  BY <1>1, FS_CardinalityType, FS_EmptySet
<1>3. SumFunctionOnSet(points, OwnOf(k)) \in Int
  BY <1>1, FileTypes, SumStep
<1> QED BY <1>2, <1>3 DEF MeanOf

-----------------------------------------------------------------------------
LEMMA PickedList ==
  ASSUME NEW list, Listed(list), NEW S \in SUBSET DOMAIN list
  PROVE  /\ Listed(Picked(list, S))
         /\ ToSet(Picked(list, S)) = {list[i] : i \in S}
<1> DEFINE N == Cardinality(S)
           p == Picked(list, S)
<1>1. S \in SUBSET Int /\ IsFiniteSet(S)
  <2>1. DOMAIN list = 1..Len(list) /\ Len(list) \in Nat
    BY ListTypes
  <2>2. IsFiniteSet(1..Len(list))
    BY <2>1, UpToN
  <2> QED BY <2>1, <2>2, FS_Subset
<1>2. /\ N \in Nat
      /\ \A n \in 1..N : Nth(S, n) \in S
      /\ \A n, o \in 1..N : n < o => Nth(S, n) < Nth(S, o)
      /\ \A i \in S : \E n \in 1..N : Nth(S, n) = i
  BY <1>1, NthInOrder
<1>3. p = [n \in 1..N |-> list[Nth(S, n)]]
  BY DEF Picked
<1> HIDE DEF N, p
<1>4. DOMAIN p = 1..N /\ \A n \in 1..N : p[n] = list[Nth(S, n)]
  BY <1>3
<1>5. \A n \in 1..N : p[n] \in Centers
  BY <1>2, <1>4, ListTypes
<1>6. p \in Seq(Centers)
  BY <1>2, <1>3, <1>5
<1>7. ASSUME NEW n \in 1..N, NEW o \in 1..N, p[n].id = p[o].id
      PROVE  n = o
  <2>1. Nth(S, n) = Nth(S, o)
    BY <1>2, <1>4, <1>7 DEF Listed
  <2>2. Nth(S, n) \in Int /\ ~(n < o) /\ ~(o < n)
    BY <1>1, <1>2, <2>1
  <2> QED BY <1>2, <2>2
<1>8. ToSet(p) = {list[i] : i \in S}
  BY <1>2, <1>4 DEF ToSet
<1> QED BY <1>4, <1>6, <1>7, <1>8 DEF Listed, p

LEMMA JoinedLists ==
  ASSUME NEW a, NEW b, Listed(a), Listed(b),
         \A c \in ToSet(a), d \in ToSet(b) : c.id # d.id
  PROVE  /\ Listed(a \o b)
         /\ ToSet(a \o b) = ToSet(a) \cup ToSet(b)
<1>1. /\ Len(a) \in Nat /\ DOMAIN a = 1..Len(a)
      /\ Len(b) \in Nat /\ DOMAIN b = 1..Len(b)
      /\ a \in Seq(Centers) /\ b \in Seq(Centers)
  BY ListTypes DEF Listed
<1>2. /\ a \o b \in Seq(Centers) /\ Len(a \o b) = Len(a) + Len(b)
      /\ DOMAIN (a \o b) = 1..(Len(a) + Len(b))
  BY <1>1
<1>3. \A i \in 1..(Len(a) + Len(b)) :
        (a \o b)[i] = IF i <= Len(a) THEN a[i] ELSE b[i - Len(a)]
  BY <1>1
<1>4. \A i \in 1..(Len(a) + Len(b)) :
        IF i <= Len(a) THEN i \in DOMAIN a ELSE i - Len(a) \in DOMAIN b
  BY <1>1
<1>5. ToSet(a \o b) = ToSet(a) \cup ToSet(b)
  <2>1. \A i \in DOMAIN (a \o b) : (a \o b)[i] \in ToSet(a) \cup ToSet(b)
    BY <1>2, <1>3, <1>4 DEF ToSet
  <2>2. \A i \in DOMAIN a : a[i] \in ToSet(a \o b)
    <3>1. \A i \in DOMAIN a : i \in DOMAIN (a \o b) /\ a[i] = (a \o b)[i]
      BY <1>1, <1>2, <1>3
    <3> QED BY <3>1 DEF ToSet
  <2>3. \A i \in DOMAIN b : b[i] \in ToSet(a \o b)
    <3>1. \A i \in DOMAIN b : /\ i + Len(a) \in DOMAIN (a \o b)
                              /\ b[i] = (a \o b)[i + Len(a)]
      BY <1>1, <1>2, <1>3
    <3> QED BY <3>1 DEF ToSet
  <2> QED BY <2>1, <2>2, <2>3 DEF ToSet
<1>6. ASSUME NEW i \in DOMAIN (a \o b), NEW j \in DOMAIN (a \o b),
             (a \o b)[i].id = (a \o b)[j].id
      PROVE  i = j
  <2>1. i \in 1..(Len(a) + Len(b)) /\ j \in 1..(Len(a) + Len(b))
    BY <1>2
  <2>2. CASE i <= Len(a) /\ j <= Len(a)
    BY <1>3, <1>4, <1>6, <2>1, <2>2 DEF Listed
  <2>3. CASE i <= Len(a) /\ ~(j <= Len(a))
    BY <1>3, <1>4, <1>6, <2>1, <2>3 DEF ToSet
  <2>4. CASE ~(i <= Len(a)) /\ j <= Len(a)
    BY <1>3, <1>4, <1>6, <2>1, <2>4 DEF ToSet
  <2>5. CASE ~(i <= Len(a)) /\ ~(j <= Len(a))
    <3>1. i - Len(a) = j - Len(a)
      BY <1>3, <1>4, <1>6, <2>1, <2>5 DEF Listed
    <3> QED BY <1>1, <2>1, <3>1
  <2> QED BY <2>2, <2>3, <2>4, <2>5
<1> QED BY <1>2, <1>5, <1>6 DEF Listed

-----------------------------------------------------------------------------
XOf(list, k) == (CHOOSE c \in ToSet(list) : c.id = k).x

LEMMA XOfEntry ==
  ASSUME NEW list, Listed(list), NEW c \in ToSet(list)
  PROVE  XOf(list, c.id) = c.x
<1>1. \A d \in ToSet(list) : d.id = c.id => d = c
  BY DEF Listed, ToSet
<1> QED BY <1>1 DEF XOf

LEMMA XOfType ==
  ASSUME NEW list, EveryCenter(list), NEW k \in Ids
  PROVE  /\ XOf(list, k) \in Int
         /\ \E i \in DOMAIN list : list[i].id = k /\ list[i].x = XOf(list, k)
<1>1. PICK i \in DOMAIN list : list[i].id = k
  BY DEF EveryCenter
<1>2. list[i] \in ToSet(list) /\ list[i].x \in Int
  BY ListTypes DEF EveryCenter, ToSet
<1>3. XOf(list, k) = list[i].x
  BY <1>1, <1>2, XOfEntry DEF EveryCenter
<1> QED BY <1>1, <1>2, <1>3

LEMMA Combined ==
  ASSUME FilesOk, EveryCenter(previous_result), mapped = Mappers,
         data_buff = {}, BufferOk, ResultsOk
  PROVE  /\ EveryCenter(combine_results) /\ CountOK(combine_results)
         /\ \A k \in Ids :
              XOf(combine_results, k) =
                IF OwnOf(k) = {} THEN XOf(previous_result, k) ELSE MeanOf(k)
<1> DEFINE D == DOMAIN previous_result
           Missing == {i \in D : previous_result[i].id \notin Recalculated}
           rest == Picked(previous_result, Missing)
<1>1. Listed(previous_result) /\ Listed(last_result)
  BY DEF EveryCenter, ResultsOk
<1>2. Listed(rest) /\ ToSet(rest) = {previous_result[i] : i \in Missing}
  BY <1>1, PickedList
<1>3. \A k : k \in Recalculated <=> \E c \in ToSet(last_result) : c.id = k
  BY DEF Recalculated, ToSet
<1>4. combine_results = last_result \o rest
  BY DEF combine_results
<1> HIDE DEF rest
<1>5. \A c \in ToSet(last_result), d \in ToSet(rest) : c.id # d.id
  BY <1>2, <1>3
<1>6. /\ Listed(combine_results)
      /\ ToSet(combine_results) = ToSet(last_result) \cup ToSet(rest)
  BY <1>1, <1>2, <1>4, <1>5, JoinedLists
<1>7. ASSUME NEW k \in Ids
      PROVE  \E c \in ToSet(combine_results) : c.id = k
  <2>1. PICK i \in D : previous_result[i].id = k
    BY DEF EveryCenter
  <2>2. CASE k \in Recalculated
    BY <1>3, <1>6, <2>2
  <2>3. CASE k \notin Recalculated
    BY <1>2, <1>6, <2>1, <2>3
  <2> QED BY <2>2, <2>3
<1>8. EveryCenter(combine_results)
  BY <1>6, <1>7 DEF EveryCenter, ToSet
<1>9. CountOK(combine_results)
  BY <1>6, <1>8, ListLength DEF CountOK
<1>10. ASSUME NEW k \in Ids
       PROVE  k \in Recalculated <=> OwnOf(k) # {}
  <2>1. ASSUME k \in Recalculated PROVE OwnOf(k) # {}
    BY <2>1 DEF Recalculated, ResultsOk
  <2>2. ASSUME OwnOf(k) # {} PROVE k \in Recalculated
    <3>1. PICK i \in DOMAIN points : CenterOf(i).id = k
      BY <2>2 DEF OwnOf
    <3>2. HasRun(i)
      BY EveryPointMapped
    <3> QED BY <3>1, <3>2 DEF BufferOk
  <2> QED BY <2>1, <2>2
<1>11. ASSUME NEW k \in Ids
       PROVE  XOf(combine_results, k) =
                IF OwnOf(k) = {} THEN XOf(previous_result, k) ELSE MeanOf(k)
  <2>1. CASE OwnOf(k) = {}
    <3>1. PICK i \in D : previous_result[i].id = k
      BY DEF EveryCenter
    <3>2. /\ previous_result[i] \in ToSet(previous_result)
          /\ previous_result[i] \in ToSet(combine_results)
      BY <1>2, <1>6, <1>10, <2>1, <3>1 DEF ToSet
    <3>3. /\ XOf(previous_result, k) = previous_result[i].x
          /\ XOf(combine_results, k) = previous_result[i].x
      BY <1>1, <1>6, <3>1, <3>2, XOfEntry
    <3> QED BY <2>1, <3>3
  <2>2. CASE OwnOf(k) # {}
    <3>1. PICK r \in DOMAIN last_result : last_result[r].id = k
      BY <1>10, <2>2 DEF Recalculated
    <3>2. last_result[r].x = MeanOf(k)
      BY <3>1 DEF ResultsOk
    <3>3. last_result[r] \in ToSet(combine_results)
      BY <1>6 DEF ToSet
    <3>4. XOf(combine_results, k) = last_result[r].x
      BY <1>6, <3>1, <3>3, XOfEntry
    <3> QED BY <2>2, <3>2, <3>4
  <2> QED BY <2>1, <2>2
<1> QED BY <1>8, <1>9, <1>11

LEMMA Extracted ==
  ASSUME FilesOk, NEW list, EveryCenter(list)
  PROVE  extract_points(list) = [k \in 0..(NumCenters - 1) |-> XOf(list, k)]
<1> DEFINE at(idx) == {i \in 1..NumCenters : list[i].id % NumCenters = idx}
<1>1. Len(list) = NumCenters /\ DOMAIN list = 1..NumCenters
      /\ NumCenters \in Nat \ {0}
  BY ListLength, ListTypes, FileTypes DEF EveryCenter
<1>2. ASSUME NEW k \in Ids
      PROVE  at(k) # {} /\ list[Max(at(k))].x = XOf(list, k)
  <2>1. PICK i \in DOMAIN list : list[i].id = k /\ list[i].x = XOf(list, k)
    BY XOfType
  <2>2. \A l \in 1..NumCenters : list[l].id % NumCenters = list[l].id
    <3>1. \A l \in 1..NumCenters : list[l].id \in 0..(NumCenters - 1)
      BY <1>1, ListTypes DEF EveryCenter, Ids
    <3>2. \A n \in 0..(NumCenters - 1) : n % NumCenters = n
      BY <1>1
    <3> QED BY <3>1, <3>2
  <2>3. at(k) = {i}
    BY <1>1, <2>1, <2>2 DEF EveryCenter, Listed
  <2>4. Max({i}) = i
    BY <1>1 DEF Max
  <2> QED BY <2>1, <2>3, <2>4
<1>3. extract_points(list) =
        [k \in 0..(NumCenters - 1) |->
           IF at(k) = {} THEN 0 ELSE list[Max(at(k))].x]
  BY <1>1 DEF extract_points
<1> HIDE DEF at
<1> QED BY <1>2, <1>3 DEF Ids

LEMMA ErrorOf ==
  ASSUME FilesOk, NEW before, EveryCenter(before),
         NEW after, EveryCenter(after)
  PROVE  LET moved == SumFunctionOnSet(
                        [k \in Ids |-> Distance(XOf(before, k), XOf(after, k))],
                        Ids)
         IN kmeans_error(before, after) = <<moved, NumCenters>>
            /\ moved \in Int
<1> DEFINE d == [k \in Ids |-> Distance(XOf(before, k), XOf(after, k))]
<1>1. /\ Len(before) = NumCenters /\ Len(after) = NumCenters
      /\ NumCenters # 0
  BY ListLength, FileTypes DEF EveryCenter
<1>2. /\ extract_points(before) = [k \in Ids |-> XOf(before, k)]
      /\ extract_points(after) = [k \in Ids |-> XOf(after, k)]
  BY Extracted DEF Ids
<1>3. kmeans_error(before, after) =
        <<SumFunction([i \in Ids |-> Distance(extract_points(before)[i],
                                              extract_points(after)[i])]),
          NumCenters>>
  BY <1>1 DEF kmeans_error, Ids
<1>4. [i \in Ids |-> Distance(extract_points(before)[i],
                              extract_points(after)[i])] = d
  BY <1>2
<1>5. SumFunction(d) = SumFunctionOnSet(d, Ids)
  BY DEF SumFunction, SumFunctionOnSet
<1>6. \A k \in Ids : d[k] \in Int
  <2>1. \A k \in Ids : XOf(before, k) \in Int /\ XOf(after, k) \in Int
    BY XOfType
  <2> QED BY <2>1, DistanceType
<1> HIDE DEF d
<1>7. SumFunctionOnSet(d, Ids) \in Int
  BY <1>6, FileTypes, SumStep
<1>8. kmeans_error(before, after) = <<SumFunctionOnSet(d, Ids), NumCenters>>
  BY <1>3, <1>4, <1>5
<1> QED BY <1>7, <1>8 DEF d

-----------------------------------------------------------------------------
Steps == Seq([step : Nat, centers : Seq(Centers)])

LEMMA StepAdded ==
  ASSUME FilesOk, round_ \in Nat, round_ = Len(centersfile),
         centersfile \in Steps, StepsInOrder,
         NEW list, EveryCenter(list)
  PROVE  LET file == Append(centersfile, [step |-> round_, centers |-> list])
         IN /\ file \in Steps /\ Len(file) = round_ + 1
            /\ \A i \in DOMAIN file :
                 /\ file[i].step = i - 1
                 /\ Len(file[i].centers) = NumCenters
                 /\ {c.id : c \in ToSet(file[i].centers)} = Ids
<1> DEFINE entry == [step |-> round_, centers |-> list]
           file == Append(centersfile, entry)
<1>1. entry \in [step : Nat, centers : Seq(Centers)]
  BY DEF EveryCenter, Listed
<1>2. /\ file \in Steps /\ Len(file) = round_ + 1
      /\ DOMAIN file = 1..(round_ + 1)
      /\ \A i \in 1..round_ : file[i] = centersfile[i]
      /\ file[round_ + 1] = entry
  <2> HIDE DEF entry
  <2> QED BY <1>1 DEF Steps
<1>3. Len(list) = NumCenters
  BY ListLength DEF EveryCenter
<1>4. {c.id : c \in ToSet(list)} = Ids
  BY ListTypes DEF EveryCenter, ToSet
<1>5. DOMAIN centersfile = 1..round_
  BY DEF Steps
<1> HIDE DEF file
<1>6. ASSUME NEW i \in DOMAIN file
      PROVE  /\ file[i].step = i - 1
             /\ Len(file[i].centers) = NumCenters
             /\ {c.id : c \in ToSet(file[i].centers)} = Ids
  <2>1. CASE i \in 1..round_
    BY <1>2, <1>5, <2>1 DEF StepsInOrder
  <2>2. CASE i = round_ + 1
    BY <1>2, <1>3, <1>4, <2>2
  <2> QED BY <1>2, <2>1, <2>2
<1> QED BY <1>2, <1>6 DEF file

LEMMA KMeansInit == Init => KMeansInv
<1> SUFFICES ASSUME Init PROVE KMeansInv
  OBVIOUS
<1>1. FilesOk
  BY KMeansAssumption DEF Init, FilesOk, SumsDivide
<1>2. IdleOk /\ status = "idle" /\ round_ \in Nat
  BY DEF Init, IdleOk
<1>3. StepsInOrder /\ centersfile \in Seq([step : Nat, centers : Seq(Centers)])
  BY DEF Init, StepsInOrder
<1> QED BY <1>1, <1>2, <1>3 DEF KMeansInv

LEMMA FirstCenters ==
  ASSUME FilesOk
  PROVE  LET list == [i \in 1..NumCenters |-> Center(i - 1, kmeans_centers[i])]
         IN /\ EveryCenter(list)
            /\ \A k \in Ids : XOf(list, k) = kmeans_centers[k + 1]
<1> DEFINE list == [i \in 1..NumCenters |-> Center(i - 1, kmeans_centers[i])]
<1>1. \A i \in 1..NumCenters :
        /\ Center(i - 1, kmeans_centers[i]) \in Centers
        /\ Center(i - 1, kmeans_centers[i]).id = i - 1
        /\ Center(i - 1, kmeans_centers[i]).x = kmeans_centers[i]
  BY FileTypes DEF Center, Centers, Ids
<1>2. /\ list \in Seq(Centers) /\ DOMAIN list = 1..NumCenters
      /\ \A i \in 1..NumCenters : /\ list[i].id = i - 1
                                  /\ list[i].x = kmeans_centers[i]
  <2> DEFINE c(i) == Center(i - 1, kmeans_centers[i])
  <2>1. NumCenters \in Nat
    BY FileTypes
  <2>2. DOMAIN list = 1..NumCenters /\ \A i \in 1..NumCenters : list[i] = c(i)
    OBVIOUS
  <2>3. list \in [1..NumCenters -> Centers]
    BY <1>1
  <2>4. list \in Seq(Centers)
    <3> HIDE DEF list
    <3> QED BY <2>1, <2>3
  <2> HIDE DEF list
  <2> QED BY <1>1, <2>2, <2>4
<1> HIDE DEF list
<1>3. \A k \in Ids : k + 1 \in 1..NumCenters /\ list[k + 1].id = k
  BY <1>2, FileTypes DEF Ids
<1>4. EveryCenter(list)
  <2>1. \A i, j \in DOMAIN list : list[i].id = list[j].id => i = j
    BY <1>2, FileTypes
  <2> QED BY <1>2, <1>3, <2>1 DEF EveryCenter, Listed
<1>5. ASSUME NEW k \in Ids
      PROVE  XOf(list, k) = kmeans_centers[k + 1]
  <2>1. list[k + 1] \in ToSet(list)
    BY <1>2, <1>3 DEF ToSet
  <2>2. XOf(list, k) = list[k + 1].x
    BY <1>3, <1>4, <2>1, XOfEntry DEF EveryCenter
  <2> QED BY <1>2, <1>3, <2>2
<1> QED BY <1>4, <1>5 DEF list

LEMMA FilesStay ==
  ASSUME UNCHANGED files
  PROVE  /\ FilesOk' = FilesOk /\ NumCenters' = NumCenters /\ Ids' = Ids
         /\ Centers' = Centers
         /\ \A list : Listed(list)' = Listed(list)
         /\ \A list : EveryCenter(list)' = EveryCenter(list)
  BY DEF files, FilesOk, SumsDivide, NumCenters, Ids, Centers, Listed,
         EveryCenter

LEMMA FireKeeps ==
  ASSUME KMeansInv, fire_jobs
  PROVE  KMeansInv'
<1> DEFINE list == [i \in 1..NumCenters |-> Center(i - 1, kmeans_centers[i])]
<1>1. /\ status = "idle" /\ status' = "running" /\ previous_result' = list
      /\ centersfile' = Append(centersfile, [step |-> round_, centers |-> list])
      /\ round_' = 1 /\ mapped' = mapped /\ data_buff' = data_buff
      /\ last_result' = last_result /\ UNCHANGED files
  BY DEF fire_jobs, kmeans_output
<1>2. EveryCenter(list)
  BY FirstCenters DEF KMeansInv
<1> HIDE DEF list
<1>3. /\ round_ = 0 /\ centersfile = <<>> /\ mapped = {} /\ data_buff = {}
      /\ last_result = <<>>
  BY <1>1 DEF KMeansInv, IdleOk
<1>4. /\ centersfile' \in Steps /\ Len(centersfile') = 1
      /\ \A i \in DOMAIN centersfile' :
           /\ centersfile'[i].step = i - 1
           /\ Len(centersfile'[i].centers) = NumCenters
           /\ {c.id : c \in ToSet(centersfile'[i].centers)} = Ids
  <2>1. Len(centersfile) = round_ /\ centersfile \in Steps
    BY <1>3 DEF KMeansInv, Steps
  <2> QED BY <1>1, <1>2, <1>3, <2>1, StepAdded DEF KMeansInv
<1>5. StepsInOrder'
  BY <1>1, <1>4, FilesStay DEF StepsInOrder
<1>6. EveryCenter(previous_result)'
  BY <1>1, <1>2, FilesStay
<1>7. BufferOk'
  BY <1>1, <1>3 DEF BufferOk, HasRun
<1>8. ResultsOk'
  BY <1>1, <1>3 DEF ResultsOk, Listed
<1>9. RunningOk'
  BY <1>1, <1>3, <1>4, <1>7, <1>8 DEF RunningOk
<1>10. FilesOk' /\ centersfile' \in Seq([step : Nat, centers : Seq(Centers)])'
  BY <1>1, <1>4, FilesStay DEF KMeansInv, Steps
<1> QED BY <1>1, <1>5, <1>6, <1>9, <1>10 DEF KMeansInv

-----------------------------------------------------------------------------
LEMMA RoundStays ==
  ASSUME UNCHANGED files, UNCHANGED previous_result
  PROVE  /\ \A i : CenterOf(i)' = CenterOf(i) /\ PairOf(i)' = PairOf(i)
         /\ \A k : OwnOf(k)' = OwnOf(k) /\ MeanOf(k)' = MeanOf(k)
         /\ \A m : Share(m)' = Share(m)
<1>1. \A i : CenterOf(i)' = CenterOf(i)
  BY DEF CenterOf, NearestCenter, files
<1>2. \A i : PairOf(i)' = PairOf(i)
  BY <1>1 DEF PairOf
<1>3. \A k : OwnOf(k)' = OwnOf(k)
  BY <1>1 DEF OwnOf, files
<1>4. \A k : MeanOf(k)' = MeanOf(k)
  BY <1>3 DEF MeanOf, files
<1>5. \A m : Share(m)' = Share(m)
  BY DEF Share, PartitionOf, files
<1> QED BY <1>1, <1>2, <1>3, <1>4, <1>5

LEMMA MapperKeeps ==
  ASSUME KMeansInv, NEW m \in Mappers, NEW order \in Orders,
         MapperRuns(m, order)
  PROVE  KMeansInv'
<1>1. /\ status = "running" /\ m \notin mapped
      /\ mapped' = mapped \cup {m}
      /\ UNCHANGED files /\ previous_result' = previous_result
      /\ last_result' = last_result /\ round_' = round_
      /\ centersfile' = centersfile /\ status' = status
  BY DEF MapperRuns
<1>2. data_buff' = data_buff \cup {PairOf(i) : i \in Share(m)}
  <2>1. \A i : orderjson(encode(NearestCenter(points[i]), order)) =
                 Text(CenterOf(i))
    BY OneText DEF CenterOf
  <2>2. data_buff' = data_buff \cup
          {[key |-> orderjson(encode(NearestCenter(points[i]), order)),
            point |-> i] : i \in Share(m)}
    BY DEF MapperRuns
  <2> QED BY <2>1, <2>2 DEF PairOf
<1>3. /\ BufferOk /\ ResultsOk /\ round_ = Len(centersfile)
      /\ mapped \subseteq Mappers /\ last_result = <<>>
      /\ EveryCenter(previous_result) /\ FilesOk
  BY <1>1 DEF KMeansInv, RunningOk, ResultsOk
<1>4. Recalculated = {} /\ Recalculated' = {}
  BY <1>1, <1>3 DEF Recalculated
<1>5. \A i : HasRun(i)' <=> HasRun(i) \/ i \in Share(m)
  BY <1>1, RoundStays DEF HasRun
<1>6. \A i : CenterOf(i)' = CenterOf(i) /\ PairOf(i)' = PairOf(i)
  BY <1>1, RoundStays
<1>7. DOMAIN points' = DOMAIN points /\ Share(m) \subseteq DOMAIN points
  BY <1>1 DEF files, Share
<1>8. BufferOk'
  <2>1. ASSUME NEW d \in data_buff'
        PROVE  \E i \in DOMAIN points' :
                 HasRun(i)' /\ d = PairOf(i)' /\ CenterOf(i).id' \notin Recalculated'
    <3>1. CASE d \in data_buff
      BY <1>3, <1>4, <1>5, <1>6, <1>7, <3>1 DEF BufferOk
    <3>2. CASE d \notin data_buff
      BY <1>2, <1>4, <1>5, <1>6, <1>7, <3>2
    <3> QED BY <3>1, <3>2
  <2>2. ASSUME NEW i \in DOMAIN points', HasRun(i)'
        PROVE  PairOf(i)' \in data_buff'
    <3>1. CASE HasRun(i)
      BY <1>2, <1>3, <1>4, <1>6, <1>7, <3>1 DEF BufferOk
    <3>2. CASE i \in Share(m)
      BY <1>2, <1>6, <3>2
    <3> QED BY <1>5, <2>2, <3>1, <3>2
  <2> QED BY <2>1, <2>2 DEF BufferOk
<1>9. ResultsOk'
  BY <1>1, <1>3, FilesStay DEF ResultsOk
<1>10. RunningOk'
  <2>1. mapped' \subseteq Mappers'
    BY <1>1, <1>3 DEF Mappers
  <2> QED BY <1>1, <1>3, <1>8, <1>9, <2>1 DEF RunningOk
<1>11. StepsInOrder' /\ FilesOk' /\ EveryCenter(previous_result)'
       /\ centersfile' \in Seq([step : Nat, centers : Seq(Centers)])'
  BY <1>1, <1>3, FilesStay DEF KMeansInv, StepsInOrder
<1> QED BY <1>1, <1>10, <1>11 DEF KMeansInv

-----------------------------------------------------------------------------
LEMMA ResultKeeps ==
  ASSUME KMeansInv, NEW key \in {d.key : d \in data_buff}, Result(key)
  PROVE  KMeansInv'
<1> DEFINE pairs == {d \in data_buff : d.key = key}
           k == decode(key).id
           r == Center(k, MeanOf(k))
<1>1. /\ status = "running" /\ mapped = Mappers /\ mapped' = mapped
      /\ last_result' = Append(last_result,
                               baryCenter({d.point : d \in pairs}, k))
      /\ data_buff' = data_buff \ pairs
      /\ UNCHANGED files /\ previous_result' = previous_result
      /\ round_' = round_ /\ centersfile' = centersfile /\ status' = status
  BY DEF Result
<1>2. /\ BufferOk /\ ResultsOk /\ round_ = Len(centersfile)
      /\ EveryCenter(previous_result) /\ FilesOk
  BY <1>1 DEF KMeansInv, RunningOk
<1>3. PICK i0 \in DOMAIN points :
        /\ PairOf(i0) \in data_buff /\ key = Text(CenterOf(i0))
        /\ CenterOf(i0).id \notin Recalculated
  <2>1. PICK d \in data_buff : d.key = key
    OBVIOUS
  <2>2. PICK i \in DOMAIN points :
          d = PairOf(i) /\ CenterOf(i).id \notin Recalculated
    BY <1>2 DEF BufferOk
  <2> QED BY <2>1, <2>2 DEF PairOf
<1>4. k = CenterOf(i0).id /\ k \in Ids /\ k \notin Recalculated
  BY <1>2, <1>3, TextId, CenterTypes
<1>5. \A i \in DOMAIN points : PairOf(i).key = key <=> CenterOf(i).id = k
  BY <1>2, <1>3, <1>4, CenterTypes DEF PairOf
<1> HIDE DEF k
<1>6. {d.point : d \in pairs} = OwnOf(k)
  <2>1. ASSUME NEW d \in pairs PROVE d.point \in OwnOf(k)
    <3>1. PICK i \in DOMAIN points : d = PairOf(i)
      BY <1>2 DEF BufferOk
    <3>2. d.point = i /\ CenterOf(i).id = k
      BY <1>5, <3>1 DEF PairOf
    <3> QED BY <3>2 DEF OwnOf
  <2>2. ASSUME NEW i \in OwnOf(k) PROVE \E d \in pairs : d.point = i
    <3>1. i \in DOMAIN points /\ CenterOf(i).id = k
      BY DEF OwnOf
    <3>2. PairOf(i) \in data_buff
      BY <1>1, <1>2, <1>4, <3>1, EveryPointMapped DEF BufferOk
    <3>3. PairOf(i) \in pairs /\ PairOf(i).point = i
      BY <1>5, <3>1, <3>2 DEF PairOf
    <3> QED BY <3>3
  <2> QED BY <2>1, <2>2
<1>7. OwnOf(k) # {} /\ MeanOf(k) \in Int
  BY <1>2, <1>3, <1>4, MeanType DEF OwnOf
<1>8. last_result' = Append(last_result, r)
  BY <1>1, <1>6 DEF baryCenter, MeanOf
<1>9. r \in Centers /\ r.id = k /\ r.x = MeanOf(k)
  BY <1>4, <1>7 DEF Center, Centers
<1> HIDE DEF r, pairs
<1>10. /\ Len(last_result) \in Nat
       /\ DOMAIN last_result = 1..Len(last_result)
       /\ DOMAIN last_result' = 1..(Len(last_result) + 1)
       /\ last_result' \in Seq(Centers) /\ last_result' # <<>>
       /\ \A i \in DOMAIN last_result : last_result'[i] = last_result[i]
       /\ last_result'[Len(last_result) + 1] = r
  BY <1>2, <1>8, <1>9 DEF ResultsOk, Listed
<1>11. \A l : l \in Recalculated' <=> l \in Recalculated \/ l = k
  BY <1>9, <1>10 DEF Recalculated
<1>12. Listed(last_result')
  <2>1. \A i \in DOMAIN last_result : last_result[i].id # k
    BY <1>4 DEF Recalculated
  <2>2. \A i \in DOMAIN last_result' :
          i \in DOMAIN last_result \/ i = Len(last_result) + 1
    BY <1>10
  <2>3. \A i, j \in DOMAIN last_result' :
          last_result'[i].id = last_result'[j].id => i = j
    BY <1>2, <1>9, <1>10, <2>1, <2>2 DEF ResultsOk, Listed
  <2> QED BY <1>10, <2>3 DEF Listed
<1>13. /\ \A i : CenterOf(i)' = CenterOf(i) /\ PairOf(i)' = PairOf(i)
       /\ \A l : OwnOf(l)' = OwnOf(l) /\ MeanOf(l)' = MeanOf(l)
       /\ \A m : Share(m)' = Share(m)
       /\ \A i : HasRun(i)' = HasRun(i)
       /\ DOMAIN points' = DOMAIN points
  BY <1>1, RoundStays DEF HasRun, files
<1>14. ResultsOk'
  <2>1. ASSUME NEW i \in DOMAIN last_result'
        PROVE  /\ OwnOf(last_result'[i].id) # {}
               /\ last_result'[i].x = MeanOf(last_result'[i].id)
    <3>1. CASE i \in DOMAIN last_result
      BY <1>2, <1>10, <3>1 DEF ResultsOk
    <3>2. CASE i = Len(last_result) + 1
      BY <1>7, <1>9, <1>10, <3>2
    <3> QED BY <1>10, <3>1, <3>2
  <2>2. ASSUME NEW i \in DOMAIN last_result'
        PROVE  (LET l == last_result[i].id
                IN OwnOf(l) # {} /\ last_result[i].x = MeanOf(l))'
    <3>1. OwnOf(last_result[i].id)' = OwnOf(last_result'[i].id)
      BY <1>1, <1>13 DEF OwnOf
    <3>2. MeanOf(last_result[i].id)' = MeanOf(last_result'[i].id)
      BY <1>1, <3>1 DEF MeanOf, files
    <3> QED BY <2>1, <3>1, <3>2
  <2>3. Listed(last_result)'
    BY <1>1, <1>12, FilesStay DEF Listed
  <2>4. mapped' = Mappers'
    BY <1>1 DEF Mappers
  <2> QED BY <2>2, <2>3, <2>4 DEF ResultsOk
<1>15. BufferOk'
  <2>1. ASSUME NEW d \in data_buff'
        PROVE  \E i \in DOMAIN points' :
                 HasRun(i)' /\ d = PairOf(i)' /\ CenterOf(i).id' \notin Recalculated'
    <3>1. d \in data_buff /\ d.key # key
      BY <1>1 DEF pairs
    <3>2. PICK i \in DOMAIN points : HasRun(i) /\ d = PairOf(i)
                                     /\ CenterOf(i).id \notin Recalculated
      BY <1>2, <3>1 DEF BufferOk
    <3>3. CenterOf(i).id # k
      BY <1>5, <3>1, <3>2
    <3> QED BY <1>11, <1>13, <3>2, <3>3
  <2>2. ASSUME NEW i \in DOMAIN points', HasRun(i)'
        PROVE  PairOf(i)' \in data_buff' \/ CenterOf(i).id' \in Recalculated'
    <3>1. PairOf(i) \in data_buff \/ CenterOf(i).id \in Recalculated
      BY <1>2, <1>13, <2>2 DEF BufferOk
    <3>2. PairOf(i) \in pairs => CenterOf(i).id = k
      BY <1>5, <1>13 DEF pairs
    <3> QED BY <1>1, <1>11, <1>13, <3>1, <3>2
  <2> QED BY <2>1, <2>2 DEF BufferOk
<1>16. RunningOk'
  BY <1>1, <1>2, <1>14, <1>15 DEF RunningOk, Mappers
<1>17. StepsInOrder' /\ FilesOk' /\ EveryCenter(previous_result)'
       /\ centersfile' \in Seq([step : Nat, centers : Seq(Centers)])'
  BY <1>1, <1>2, FilesStay DEF KMeansInv, StepsInOrder
<1> QED BY <1>1, <1>16, <1>17 DEF KMeansInv

LEMMA RoundEnding ==
  ASSUME KMeansInv, RoundEnds
  PROVE  /\ status = "running" /\ FilesOk /\ UNCHANGED files
         /\ EveryCenter(previous_result)
         /\ round_ = Len(centersfile) /\ centersfile \in Steps
         /\ previous_result' = combine_results
         /\ EveryCenter(previous_result') /\ CountOK(previous_result')
         /\ \A k \in Ids :
              XOf(previous_result', k) =
                IF OwnOf(k) = {} THEN XOf(previous_result, k) ELSE MeanOf(k)
         /\ kerror_' = kmeans_error(previous_result, previous_result')
         /\ last_result' = <<>> /\ data_buff' = {}
<1>1. /\ status = "running" /\ mapped = Mappers /\ data_buff = {}
      /\ previous_result' = combine_results
      /\ kerror_' = kmeans_error(previous_result, combine_results)
      /\ last_result' = <<>> /\ data_buff' = data_buff /\ UNCHANGED files
  BY DEF RoundEnds
<1>2. /\ BufferOk /\ ResultsOk /\ round_ = Len(centersfile)
      /\ EveryCenter(previous_result) /\ FilesOk /\ centersfile \in Steps
  BY <1>1 DEF KMeansInv, RunningOk, Steps
<1>3. /\ EveryCenter(combine_results) /\ CountOK(combine_results)
      /\ \A k \in Ids :
           XOf(combine_results, k) =
             IF OwnOf(k) = {} THEN XOf(previous_result, k) ELSE MeanOf(k)
  BY <1>1, <1>2, Combined
<1> QED BY <1>1, <1>2, <1>3

LEMMA NextRoundKeeps ==
  ASSUME KMeansInv, fire_new_round
  PROVE  KMeansInv'
<1>1. RoundEnds
  BY DEF fire_new_round
<1>2. /\ centersfile' = Append(centersfile, [step |-> round_,
                                             centers |-> previous_result'])
      /\ round_' = round_ + 1 /\ mapped' = {} /\ status' = status
  BY DEF fire_new_round, kmeans_output
<1>3. /\ status = "running" /\ FilesOk /\ UNCHANGED files
      /\ round_ = Len(centersfile) /\ centersfile \in Steps
      /\ EveryCenter(previous_result')
      /\ last_result' = <<>> /\ data_buff' = {}
  BY <1>1, RoundEnding
<1>4. /\ centersfile' \in Steps /\ Len(centersfile') = round_ + 1
      /\ \A i \in DOMAIN centersfile' :
           /\ centersfile'[i].step = i - 1
           /\ Len(centersfile'[i].centers) = NumCenters
           /\ {c.id : c \in ToSet(centersfile'[i].centers)} = Ids
  BY <1>2, <1>3, StepAdded DEF KMeansInv
<1>5. StepsInOrder'
  BY <1>3, <1>4, FilesStay DEF StepsInOrder
<1>6. BufferOk' /\ ResultsOk'
  BY <1>2, <1>3 DEF BufferOk, HasRun, ResultsOk, Listed
<1>7. RunningOk'
  BY <1>2, <1>3, <1>4, <1>6 DEF RunningOk
<1>8. FilesOk' /\ EveryCenter(previous_result)'
      /\ centersfile' \in Seq([step : Nat, centers : Seq(Centers)])'
  BY <1>3, <1>4, FilesStay DEF Steps
<1> QED BY <1>2, <1>3, <1>5, <1>7, <1>8 DEF KMeansInv

LEMMA EndKeeps ==
  ASSUME KMeansInv, JobEnds
  PROVE  KMeansInv' /\ status' = "exited" /\ ~Moving(kerror_')
<1>1. RoundEnds
  BY DEF JobEnds
<1>2. /\ status = "running" /\ FilesOk /\ UNCHANGED files
      /\ round_ = Len(centersfile) /\ centersfile \in Steps
      /\ EveryCenter(previous_result') /\ CountOK(previous_result')
  BY <1>1, RoundEnding
<1>3. /\ centersfile' = Append(centersfile, [step |-> round_,
                                             centers |-> previous_result'])
      /\ round_' = round_ /\ status' = "exited" /\ ~Moving(kerror_')
  BY <1>2 DEF JobEnds, kmeans_output
<1>4. /\ centersfile' \in Steps
      /\ \A i \in DOMAIN centersfile' :
           /\ centersfile'[i].step = i - 1
           /\ Len(centersfile'[i].centers) = NumCenters
           /\ {c.id : c \in ToSet(centersfile'[i].centers)} = Ids
  BY <1>2, <1>3, StepAdded DEF KMeansInv
<1>5. StepsInOrder'
  BY <1>2, <1>4, FilesStay DEF StepsInOrder
<1>6. FilesOk' /\ EveryCenter(previous_result)'
      /\ centersfile' \in Seq([step : Nat, centers : Seq(Centers)])'
  BY <1>2, <1>4, FilesStay DEF Steps
<1> QED BY <1>2, <1>3, <1>5, <1>6 DEF KMeansInv

LEMMA KMeansNext == KMeansInv /\ [Next]_vars => KMeansInv'
<1> SUFFICES ASSUME KMeansInv, [Next]_vars PROVE KMeansInv'
  OBVIOUS
<1>1. CASE fire_jobs
  BY <1>1, FireKeeps
<1>2. ASSUME NEW m \in Mappers, NEW order \in Orders, MapperRuns(m, order)
      PROVE  KMeansInv'
  BY <1>2, MapperKeeps
<1>3. ASSUME NEW key \in {d.key : d \in data_buff}, Result(key)
      PROVE  KMeansInv'
  BY <1>3, ResultKeeps
<1>4. CASE fire_new_round
  BY <1>4, NextRoundKeeps
<1>5. CASE JobEnds
  BY <1>5, EndKeeps
<1>6. CASE UNCHANGED vars
  <2>1. /\ UNCHANGED files /\ previous_result' = previous_result
        /\ last_result' = last_result /\ round_' = round_ /\ mapped' = mapped
        /\ centersfile' = centersfile /\ status' = status
        /\ data_buff' = data_buff
    BY <1>6 DEF vars
  <2>2. /\ \A i : CenterOf(i)' = CenterOf(i) /\ PairOf(i)' = PairOf(i)
        /\ \A k : OwnOf(k)' = OwnOf(k) /\ MeanOf(k)' = MeanOf(k)
        /\ \A i : HasRun(i)' = HasRun(i)
        /\ DOMAIN points' = DOMAIN points
        /\ Recalculated' = Recalculated
    BY <2>1, RoundStays DEF HasRun, files, Recalculated
  <2>3. BufferOk' = BufferOk
    BY <2>1, <2>2 DEF BufferOk
  <2>4. ResultsOk' = ResultsOk
    BY <2>1, <2>2, FilesStay DEF ResultsOk, Mappers
  <2>5. RunningOk' = RunningOk /\ IdleOk' = IdleOk
    BY <2>1, <2>3, <2>4 DEF RunningOk, IdleOk, Mappers
  <2> QED BY <2>1, <2>5, FilesStay DEF KMeansInv, StepsInOrder
<1> QED BY <1>1, <1>2, <1>3, <1>4, <1>5, <1>6 DEF Next

(* steps.json has the steps 0, 1, 2, ..., each with every center once      *)
(* (kmeans_output, combine_results), for any files, any number of mappers  *)
(* and any order of fields and results.                                    *)
THEOREM StepsAreInOrder == Spec => []StepsInOrder
<1>1. KMeansInv => StepsInOrder
  BY DEF KMeansInv
<1> QED BY <1>1, KMeansInit, KMeansNext, PTL DEF Spec

-----------------------------------------------------------------------------
LEMMA ValuesFinite ==
  ASSUME NEW s \in Seq(Int)
  PROVE  IsFiniteSet(ToSet(s)) /\ ToSet(s) \in SUBSET Int
<1>1. DOMAIN s = 1..Len(s) /\ Len(s) \in Nat /\ \A i \in DOMAIN s : s[i] \in Int
  OBVIOUS
<1>2. IsFiniteSet(DOMAIN s)
  BY <1>1, UpToN
<1>3. [i \in DOMAIN s |-> s[i]] \in Surjection(DOMAIN s, ToSet(s))
  BY DEF Surjection, ToSet
<1>4. IsFiniteSet(ToSet(s))
  BY <1>2, <1>3, FS_Surjection
<1> QED BY <1>1, <1>4 DEF ToSet

LEMMA DiagonalType ==
  ASSUME FilesOk
  PROVE  diagonal_range \in Nat
<1> DEFINE seen == ToSet(points) \cup ToSet(kmeans_centers)
<1>1. IsFiniteSet(seen) /\ seen \in SUBSET Int
  BY ValuesFinite, FS_Union DEF FilesOk
<1>2. seen # {}
  <2>1. 1 \in DOMAIN points
    BY FileTypes
  <2> QED BY <2>1 DEF ToSet
<1>3. Min(seen) \in Int /\ Max(seen) \in Int /\ Min(seen) <= Max(seen)
  BY <1>1, <1>2, Extremes
<1> QED BY <1>3 DEF diagonal_range

LEMMA DiagonalStays ==
  ASSUME UNCHANGED files
  PROVE  diagonal_range' = diagonal_range
  BY DEF files, diagonal_range

LEMMA SameOperators ==
  /\ \A S : L!Cardinality(S) = Cardinality(S)
  /\ \A f, S : L!SumFunctionOnSet(f, S) = SumFunctionOnSet(f, S)
  /\ \A f : L!SumFunction(f) = SumFunctionOnSet(f, DOMAIN f)
<1>1. \A S : L!Cardinality(S) = Cardinality(S)
  BY DEF L!Cardinality, Cardinality
<1>2. \A f, S : L!SumFunctionOnSet(f, S) = SumFunctionOnSet(f, S)
  BY DEF SumFunctionOnSet, FoldFunctionOnSet, MapThenFoldSet,
         L!SumFunctionOnSet, L!FoldFunctionOnSet, L!MapThenFoldSet
<1>3. \A f : L!SumFunction(f) = L!SumFunctionOnSet(f, DOMAIN f)
  BY DEF L!SumFunction
<1> QED BY <1>1, <1>2, <1>3

LEMMA CentersMapped ==
  /\ status = "idle" => CentersById = [k \in Ids |-> kmeans_centers[k + 1]]
  /\ status # "idle" => CentersById = [k \in Ids |-> XOf(previous_result, k)]
  /\ L!Ids = Ids
<1>1. status # "idle" => CentersById = [k \in Ids |-> XOf(previous_result, k)]
  BY DEF CentersById, XOf
<1>2. status = "idle" => CentersById = [k \in Ids |-> kmeans_centers[k + 1]]
  BY DEF CentersById
<1> QED BY <1>1, <1>2 DEF L!Ids

LEMMA LloydInit == Init => L!Init
<1> SUFFICES ASSUME Init PROVE L!Init
  OBVIOUS
<1>1. FilesOk /\ status = "idle"
  BY KMeansInit DEF KMeansInv, Init
<1>2. diagonal_range \in Nat /\ points \in Seq(Int)
  BY <1>1, DiagonalType DEF FilesOk
<1>3. CentersById \in [Ids -> Int]
  <2>1. \A k \in Ids : kmeans_centers[k + 1] \in Int
    BY <1>1, FileTypes DEF Ids
  <2> QED BY <1>1, <2>1, CentersMapped
<1>4. (status = "exited") = FALSE
  BY <1>1
<1> QED BY <1>2, <1>3, <1>4, CentersMapped DEF L!Init

LEMMA NearestOf ==
  ASSUME FilesOk, EveryCenter(previous_result), status # "idle"
  PROVE  [i \in DOMAIN points |-> CenterOf(i).id] \in L!Assignments
<1> DEFINE a == [i \in DOMAIN points |-> CenterOf(i).id]
<1>1. a \in [DOMAIN points -> L!Ids]
  BY CenterTypes, CentersMapped
<1>2. ASSUME NEW i \in DOMAIN points
      PROVE  CenterOf(i).id \in L!Nearest(CentersById, points[i])
  <2> DEFINE p == points[i]
  <2>1. p \in Int
    BY FileTypes
  <2>2. PICK l \in DOMAIN previous_result :
          /\ CenterOf(i) = previous_result[l]
          /\ \A j \in DOMAIN previous_result :
               Distance(previous_result[l].x, p)
                 <= Distance(previous_result[j].x, p)
    BY <2>1, Nearest DEF CenterOf
  <2> DEFINE k == CenterOf(i).id
  <2>3. k \in Ids /\ CentersById[k] = previous_result[l].x
    <3>1. previous_result[l] \in ToSet(previous_result)
      BY DEF ToSet
    <3>2. k \in Ids /\ XOf(previous_result, k) = previous_result[l].x
      BY <2>2, <3>1, XOfEntry, CenterTypes DEF EveryCenter
    <3> QED BY <3>2, CentersMapped
  <2>4. ASSUME NEW j \in Ids
        PROVE  Distance(CentersById[k], p) <= Distance(CentersById[j], p)
    <3>1. PICK m \in DOMAIN previous_result :
            previous_result[m].x = XOf(previous_result, j)
      BY XOfType
    <3>2. CentersById[j] = previous_result[m].x
      BY <3>1, CentersMapped
    <3> QED BY <2>2, <2>3, <3>2
  <2>5. \A x, y : L!Distance(x, y) = Distance(x, y)
    BY DEF L!Distance, Distance
  <2> HIDE DEF k, p
  <2>6. k \in L!Nearest(CentersById, p)
    BY <2>3, <2>4, <2>5, CentersMapped DEF L!Nearest
  <2> QED BY <2>6 DEF k, p
<1> QED BY <1>1, <1>2 DEF L!Assignments

LEMMA SettledOr ==
  ASSUME FilesOk, NEW before, EveryCenter(before), NEW after, EveryCenter(after),
         CentersById = [k \in Ids |-> XOf(before, k)]
  PROVE  L!Settled(CentersById, [k \in Ids |-> XOf(after, k)])
           <=> ~Moving(kmeans_error(before, after))
<1> DEFINE d == [k \in Ids |-> Distance(XOf(before, k), XOf(after, k))]
           moved == SumFunctionOnSet(d, Ids)
           new == [k \in Ids |-> XOf(after, k)]
<1>1. kmeans_error(before, after) = <<moved, NumCenters>> /\ moved \in Int
  BY ErrorOf
<1>2. [k \in L!Ids |-> L!Distance(CentersById[k], new[k])] = d
  BY CentersMapped DEF L!Distance, Distance
<1>3. L!SumFunction(d) = moved
  BY SameOperators
<1> HIDE DEF d, moved, new
<1>4. L!Settled(CentersById, new) <=>
        moved * threshold_[2] <= threshold_[1] * diagonal_range * Cardinality(L!Ids)
  BY <1>2, <1>3, SameOperators DEF L!Settled
<1>5. Cardinality(L!Ids) = NumCenters /\ NumCenters \in Nat
  BY FileTypes, CentersMapped
<1>6. diagonal_range \in Nat
  BY DiagonalType
<1>7. L!Settled(CentersById, new) <=>
        moved * 1000 <= 1 * diagonal_range * NumCenters
  BY <1>4, <1>5 DEF threshold_
<1>8. Moving(kmeans_error(before, after)) <=>
        moved * 1000 > 1 * diagonal_range * NumCenters
  BY <1>1 DEF Moving, threshold_
<1>9. moved * 1000 \in Int /\ 1 * diagonal_range * NumCenters \in Int
  BY <1>1, <1>5, <1>6
<1> QED BY <1>7, <1>8, <1>9 DEF new

(* The end of a round is a step of Lloyd's iteration. *)
LEMMA LloydStep ==
  ASSUME KMeansInv, RoundEnds, status' # "idle",
         status' = "exited" <=> ~Moving(kerror_')
  PROVE  L!Step
<1>1. /\ status = "running" /\ FilesOk /\ UNCHANGED files
      /\ EveryCenter(previous_result) /\ EveryCenter(previous_result')
      /\ \A k \in Ids :
           XOf(previous_result', k) =
             IF OwnOf(k) = {} THEN XOf(previous_result, k) ELSE MeanOf(k)
      /\ kerror_' = kmeans_error(previous_result, previous_result')
  BY RoundEnding
<1> DEFINE a == [i \in DOMAIN points |-> CenterOf(i).id]
<1>2. CentersById = [k \in Ids |-> XOf(previous_result, k)] /\ L!Ids = Ids
  BY <1>1, CentersMapped
<1>3. CentersById' = [k \in Ids |-> XOf(previous_result', k)]
  BY <1>1, FilesStay DEF CentersById, XOf
<1>4. a \in L!Assignments
  BY <1>1, NearestOf
<1>5. \A k \in Ids : L!Barycenter(a, k) = XOf(previous_result', k)
  <2> SUFFICES ASSUME NEW k \in Ids
               PROVE  L!Barycenter(a, k) = XOf(previous_result', k)
    OBVIOUS
  <2>1. {i \in DOMAIN points : a[i] = k} = OwnOf(k)
    BY DEF OwnOf
  <2> HIDE DEF a
  <2>2. L!Barycenter(a, k) =
          IF OwnOf(k) = {} THEN CentersById[k]
          ELSE SumFunctionOnSet(points, OwnOf(k)) \div Cardinality(OwnOf(k))
    BY <2>1, SameOperators DEF L!Barycenter
  <2> QED BY <1>1, <1>2, <2>2 DEF MeanOf
<1>6. CentersById' = [k \in L!Ids |-> L!Barycenter(a, k)]
  BY <1>2, <1>3, <1>5
<1>7. L!Settled(CentersById, CentersById') <=> status' = "exited"
  BY <1>1, <1>2, <1>3, SettledOr
<1>8. (status' = "exited") = L!Settled(CentersById, CentersById')
  <2>1. L!Settled(CentersById, CentersById') \in BOOLEAN
    BY DEF L!Settled
  <2> QED BY <1>7, <2>1
<1>9. UNCHANGED <<points, diagonal_range>> /\ ~(status = "exited")
  BY <1>1, DiagonalStays DEF files
<1> HIDE DEF a
<1> QED BY <1>4, <1>6, <1>8, <1>9 DEF L!Step

LEMMA LloydGoesOn == KMeansInv /\ [Next]_vars => [L!Step]_(L!lloydVars)
<1> SUFFICES ASSUME KMeansInv, [Next]_vars
             PROVE  L!Step \/ UNCHANGED L!lloydVars
  OBVIOUS
<1>0. ASSUME UNCHANGED files, CentersById' = CentersById,
             (status' = "exited") = (status = "exited")
      PROVE  UNCHANGED L!lloydVars
  BY <1>0, DiagonalStays DEF L!lloydVars, files
<1>1. CASE fire_jobs
  <2> DEFINE list == [i \in 1..NumCenters |-> Center(i - 1, kmeans_centers[i])]
  <2>1. /\ status = "idle" /\ status' = "running" /\ UNCHANGED files
        /\ previous_result' = list
    BY <1>1 DEF fire_jobs
  <2>2. \A k \in Ids : XOf(list, k) = kmeans_centers[k + 1]
    BY FirstCenters DEF KMeansInv
  <2> HIDE DEF list
  <2>3. CentersById' = [k \in Ids |-> XOf(list, k)]
    BY <2>1, FilesStay DEF CentersById, XOf
  <2>4. CentersById' = CentersById
    BY <2>1, <2>2, <2>3, CentersMapped
  <2> QED BY <1>0, <2>1, <2>4
<1>2. ASSUME UNCHANGED files, previous_result' = previous_result,
             status' = status
      PROVE  UNCHANGED L!lloydVars
  <2>1. CentersById' = CentersById
    BY <1>2, FilesStay DEF CentersById, files
  <2> QED BY <1>0, <1>2, <2>1
<1>3. ASSUME NEW m \in Mappers, NEW order \in Orders, MapperRuns(m, order)
      PROVE  UNCHANGED L!lloydVars
  BY <1>2, <1>3 DEF MapperRuns
<1>4. ASSUME NEW key \in {d.key : d \in data_buff}, Result(key)
      PROVE  UNCHANGED L!lloydVars
  BY <1>2, <1>4 DEF Result
<1>5. CASE fire_new_round
  <2>1. RoundEnds /\ Moving(kerror_') /\ status' = status
    BY <1>5 DEF fire_new_round
  <2>2. status = "running"
    BY <2>1 DEF RoundEnds
  <2> QED BY <2>1, <2>2, LloydStep
<1>6. CASE JobEnds
  <2>1. RoundEnds /\ status' = "exited" /\ ~Moving(kerror_')
    BY <1>6, EndKeeps DEF JobEnds
  <2> QED BY <2>1, LloydStep
<1>7. CASE UNCHANGED vars
  BY <1>2, <1>7 DEF vars
<1> QED BY <1>1, <1>3, <1>4, <1>5, <1>6, <1>7 DEF Next

(* A k-means job is Lloyd's iteration (combine_results, extract_points,    *)
(* kmeans_error, fire_new_round), for any files whose sums divide evenly,  *)
(* any number of mappers and any order of fields and of results.           *)
THEOREM JobIsLloyds == Spec => ImplementsLloyd
<1>1. Init /\ [][Next]_vars => L!Init /\ [][L!Step]_(L!lloydVars)
  BY KMeansInit, KMeansNext, LloydInit, LloydGoesOn, PTL
<1> QED BY <1>1, PTL DEF Spec, ImplementsLloyd, L!Spec

-----------------------------------------------------------------------------
LEMMA Squares ==
  ASSUME NEW x \in Int, NEW p \in Int
  PROVE  /\ L!Distance(x, p) \in Nat
         /\ L!Square(L!Distance(x, p)) = Apart(x, p)
         /\ Apart(x, p) \in Int
         /\ \A y \in Int : L!Distance(x, p) <= L!Distance(y, p) =>
                             Apart(x, p) <= Apart(y, p)
<1>1. \A z \in Int : /\ L!Distance(z, p) \in Nat
                     /\ Apart(z, p) \in Int
                     /\ L!Distance(z, p) * L!Distance(z, p) = Apart(z, p)
  BY DEF L!Distance, Apart
<1>2. \A d, e \in Nat : d <= e => d * d <= e * e
  OBVIOUS
<1>3. ASSUME NEW y \in Int, L!Distance(x, p) <= L!Distance(y, p)
      PROVE  Apart(x, p) <= Apart(y, p)
  BY <1>1, <1>2, <1>3
<1> QED BY <1>1, <1>3 DEF L!Square

LEMMA CostOf ==
  ASSUME FilesOk, NEW c, \A k \in Ids : c[k] \in Int,
         NEW a, \A i \in DOMAIN points : a[i] \in Ids,
         NEW f, \A i \in DOMAIN points : f[i] = Apart(c[a[i]], points[i])
  PROVE  /\ L!Cost(c) \in Int
         /\ L!Cost(c) <= SumFunctionOnSet(f, DOMAIN points)
         /\ (\A i \in DOMAIN points : a[i] \in L!Nearest(c, points[i])) =>
              L!Cost(c) = SumFunctionOnSet(f, DOMAIN points)
<1> DEFINE k(i) == CHOOSE j \in L!Nearest(c, points[i]) : TRUE
           g == [i \in DOMAIN points |->
                   L!Square(L!Distance(c[k(i)], points[i]))]
<1>1. ASSUME NEW i \in DOMAIN points
      PROVE  /\ points[i] \in Int
             /\ k(i) \in L!Nearest(c, points[i]) /\ k(i) \in Ids
             /\ \A j \in Ids : L!Distance(c[k(i)], points[i])
                                 <= L!Distance(c[j], points[i])
  <2> DEFINE p == points[i]
             d == [j \in Ids |-> L!Distance(c[j], p)]
  <2>1. p \in Int
    BY FileTypes
  <2>2. \A j \in Ids : d[j] \in Int
    <3> HIDE DEF p
    <3>1. \A j \in Ids : L!Distance(c[j], p) \in Nat
      BY <2>1, Squares
    <3> QED BY <3>1
  <2>3. IsFiniteSet(Ids) /\ Ids # {}
    BY FileTypes
  <2>4. \E l \in Ids : \A j \in Ids : d[l] <= d[j]
    <3> HIDE DEF d
    <3> QED BY <2>2, <2>3, Smallest
  <2>5. L!Nearest(c, p) # {}
    BY <2>4, CentersMapped DEF L!Nearest
  <2>6. k(i) \in L!Nearest(c, p)
    BY <2>5
  <2> HIDE DEF k
  <2>7. k(i) \in Ids /\ \A j \in Ids : L!Distance(c[k(i)], p)
                                         <= L!Distance(c[j], p)
    BY <2>6, CentersMapped DEF L!Nearest
  <2> QED BY <2>1, <2>6, <2>7
<1> HIDE DEF k
<1>2. ASSUME NEW i \in DOMAIN points
      PROVE  /\ g[i] \in Int /\ f[i] \in Int /\ g[i] <= f[i]
             /\ a[i] \in L!Nearest(c, points[i]) => g[i] = f[i]
  <2> DEFINE p == points[i]
             x == c[k(i)]
             y == c[a[i]]
  <2>1. p \in Int /\ x \in Int /\ y \in Int /\ a[i] \in Ids
    BY <1>1
  <2>2. g[i] = Apart(x, p) /\ f[i] = Apart(y, p)
    BY <2>1, Squares
  <2>3. L!Distance(x, p) <= L!Distance(y, p)
    BY <1>1, <2>1
  <2>4. a[i] \in L!Nearest(c, p) => L!Distance(y, p) <= L!Distance(x, p)
    BY <1>1, CentersMapped DEF L!Nearest
  <2> HIDE DEF p, x, y, g
  <2>5. Apart(x, p) \in Int /\ Apart(y, p) \in Int /\ Apart(x, p) <= Apart(y, p)
    BY <2>1, <2>3, Squares
  <2>6. a[i] \in L!Nearest(c, p) => Apart(y, p) <= Apart(x, p)
    BY <2>1, <2>4, Squares
  <2> QED BY <2>2, <2>5, <2>6 DEF p
<1>3. L!Cost(c) = SumFunctionOnSet(g, DOMAIN points)
  BY SameOperators DEF L!Cost, k
<1> HIDE DEF g
<1>4. IsFiniteSet(DOMAIN points)
  BY FileTypes
<1>5. SumFunctionOnSet(g, DOMAIN points) \in Int
  BY <1>2, <1>4, SumStep
<1>6. SumFunctionOnSet(g, DOMAIN points) <= SumFunctionOnSet(f, DOMAIN points)
  BY <1>2, <1>4, SumBelow
<1>7. ASSUME \A i \in DOMAIN points : a[i] \in L!Nearest(c, points[i])
      PROVE  SumFunctionOnSet(g, DOMAIN points) =
               SumFunctionOnSet(f, DOMAIN points)
  BY <1>2, <1>4, <1>7, SumSame
<1> QED BY <1>3, <1>5, <1>6, <1>7

(* The mean of a center's points is exact, and the mapper's choice is one  *)
(* of Lloyd's assignments: the same points cost less at the means.         *)
LEMMA ExactMean ==
  ASSUME FilesOk, NEW k, OwnOf(k) # {}
  PROVE  SumFunctionOnSet(points, OwnOf(k)) =
           Cardinality(OwnOf(k)) * MeanOf(k)
<1> DEFINE S == OwnOf(k)
           n == Cardinality(S)
<1>1. IsFiniteSet(S) /\ S \in SUBSET DOMAIN points
  BY FileTypes, FS_Subset DEF OwnOf
<1>2. n \in Nat \ {0} /\ n \in DOMAIN points
  <2>1. n \in Nat \ {0}
    BY <1>1, FS_CardinalityType, FS_EmptySet
  <2>2. n <= Cardinality(DOMAIN points) /\ IsFiniteSet(DOMAIN points)
    BY <1>1, FileTypes, FS_Subset
  <2>3. Cardinality(DOMAIN points) = Len(points)
    BY FileTypes, UpToN
  <2> HIDE DEF n
  <2> QED BY <2>1, <2>2, <2>3, FileTypes
<1>3. \A i \in S : points[i] \in Int /\ points[i] % n = 0
  <2> HIDE DEF S, n
  <2> QED BY <1>1, <1>2, FileTypes DEF FilesOk, SumsDivide
<1> HIDE DEF S, n
<1>4. PICK q \in Int : SumFunctionOnSet(points, S) = n * q
  BY <1>1, <1>2, <1>3, SumMultiple
<1>5. (n * q) \div n = q
  <2>1. n \in Int /\ n > 0
    BY <1>2
  <2> QED BY <2>1, Divides
<1>6. MeanOf(k) = q
  BY <1>4, <1>5 DEF MeanOf, S, n
<1> QED BY <1>4, <1>6 DEF S, n

LEMMA SomeMove ==
  ASSUME FilesOk, NEW before, EveryCenter(before), NEW after, EveryCenter(after),
         Moving(kmeans_error(before, after))
  PROVE  \E k \in Ids : XOf(before, k) # XOf(after, k)
<1> SUFFICES ASSUME \A k \in Ids : XOf(before, k) = XOf(after, k)
             PROVE  FALSE
  OBVIOUS
<1> DEFINE d == [k \in Ids |-> Distance(XOf(before, k), XOf(after, k))]
           moved == SumFunctionOnSet(d, Ids)
<1>1. kmeans_error(before, after) = <<moved, NumCenters>>
  BY ErrorOf
<1>2. \A k \in Ids : d[k] = 0
  <2>1. \A k \in Ids : XOf(before, k) \in Int
    BY XOfType
  <2> QED BY <2>1 DEF Distance
<1> HIDE DEF d
<1>3. moved = 0
  BY <1>2, FileTypes, NoSum
<1> HIDE DEF moved
<1>4. ~(0 * 1000 > 1 * diagonal_range * NumCenters)
  <2>1. diagonal_range \in Nat /\ NumCenters \in Nat
    BY DiagonalType, FileTypes
  <2> QED BY <2>1
<1> QED BY <1>1, <1>3, <1>4 DEF Moving, threshold_

LEMMA NewRoundIsCheaper ==
  ASSUME KMeansInv, fire_new_round
  PROVE  L!Cost(CentersById') < L!Cost(CentersById)
<1> DEFINE D == DOMAIN points
           a == [i \in D |-> CenterOf(i).id]
           c == CentersById
           m == CentersById'
           f == [i \in D |-> Apart(c[a[i]], points[i])]
           g == [i \in D |-> Apart(m[a[i]], points[i])]
           n == NumCenters
<1>1. /\ status = "running" /\ FilesOk /\ UNCHANGED files
      /\ EveryCenter(previous_result) /\ EveryCenter(previous_result')
      /\ \A k \in Ids :
           XOf(previous_result', k) =
             IF OwnOf(k) = {} THEN XOf(previous_result, k) ELSE MeanOf(k)
      /\ kerror_' = kmeans_error(previous_result, previous_result')
  BY RoundEnding DEF fire_new_round
<1>2. status' = "running" /\ Moving(kerror_')
  BY <1>1 DEF fire_new_round
<1>3. c = [k \in Ids |-> XOf(previous_result, k)]
  BY <1>1, CentersMapped
<1>4. m = [k \in Ids |-> XOf(previous_result', k)]
  BY <1>1, <1>2, FilesStay DEF CentersById, XOf
<1>5. \A k \in Ids : c[k] \in Int /\ m[k] \in Int
  BY <1>1, <1>3, <1>4, XOfType
<1>6. \A i \in D : a[i] \in Ids /\ a[i] \in L!Nearest(c, points[i])
  <2>1. a \in L!Assignments
    BY <1>1, NearestOf
  <2>2. \A i \in D : a[i] \in Ids
    BY <1>1, CenterTypes
  <2> HIDE DEF a
  <2> QED BY <2>1, <2>2 DEF L!Assignments
<1>7. \A k \in Ids : OwnIn(D, a, k) = OwnOf(k)
  BY DEF OwnIn, OwnOf
<1>8. IsFiniteSet(D) /\ \A i \in D : points[i] \in Int
  BY <1>1, FileTypes
<1>9. n \in Nat /\ Ids = 0..(n - 1)
  BY <1>1, FileTypes DEF Ids
<1>10. \A k \in Ids :
         IF OwnIn(D, a, k) = {} THEN m[k] = c[k]
         ELSE SumFunctionOnSet(points, OwnIn(D, a, k)) =
                Cardinality(OwnIn(D, a, k)) * m[k]
  <2> SUFFICES ASSUME NEW k \in Ids
               PROVE  /\ OwnOf(k) = {} => m[k] = c[k]
                      /\ OwnOf(k) # {} =>
                           SumFunctionOnSet(points, OwnOf(k)) =
                             Cardinality(OwnOf(k)) * m[k]
    BY <1>7
  <2>1. /\ m[k] = XOf(previous_result', k)
        /\ c[k] = XOf(previous_result, k)
    BY <1>3, <1>4
  <2>2. m[k] = IF OwnOf(k) = {} THEN c[k] ELSE MeanOf(k)
    BY <1>1, <2>1
  <2> HIDE DEF m, c
  <2> QED BY <1>1, <2>2, ExactMean
<1>11. \E k \in Ids : OwnIn(D, a, k) # {} /\ m[k] # c[k]
  <2>1. PICK k \in Ids : XOf(previous_result, k) # XOf(previous_result', k)
    BY <1>1, <1>2, SomeMove
  <2>2. OwnOf(k) # {}
    BY <1>1, <2>1
  <2> QED BY <1>3, <1>4, <1>7, <2>1, <2>2
<1>12. /\ \A i \in D : f[i] = Apart(c[a[i]], points[i])
       /\ \A i \in D : g[i] = Apart(m[a[i]], points[i])
  OBVIOUS
<1>13. a \in [D -> 0..(n - 1)]
  BY <1>6, <1>9
<1> HIDE DEF D, a, c, m, f, g, n
<1>14. SumFunctionOnSet(g, D) < SumFunctionOnSet(f, D)
  <2> DEFINE K == 0..(n - 1)
  <2>1. /\ \A k \in K : c[k] \in Int
        /\ \A k \in K : m[k] \in Int
        /\ \A k \in K :
             IF OwnIn(D, a, k) = {} THEN m[k] = c[k]
             ELSE SumFunctionOnSet(points, OwnIn(D, a, k)) =
                    Cardinality(OwnIn(D, a, k)) * m[k]
        /\ \E k \in K : OwnIn(D, a, k) # {} /\ m[k] # c[k]
    BY <1>5, <1>9, <1>10, <1>11
  <2>2. n \in Nat /\ IsFiniteSet(D) /\ a \in [D -> K]
    BY <1>8, <1>9, <1>13
  <2>3. CostAt(D, points, a, m) < CostAt(D, points, a, c)
    BY <1>8, <2>1, <2>2, EveryCenterFalls
  <2> QED BY <2>3 DEF CostAt, f, g
<1>15. L!Cost(c) \in Int /\ L!Cost(c) = SumFunctionOnSet(f, D)
  BY <1>1, <1>5, <1>6, <1>12, CostOf DEF D
<1>16. L!Cost(m) \in Int /\ L!Cost(m) <= SumFunctionOnSet(g, D)
  BY <1>1, <1>5, <1>6, <1>12, CostOf DEF D
<1>17. L!Cost(m) < L!Cost(c)
  <2>1. SumFunctionOnSet(g, D) \in Int
    <3>1. \A i \in D : g[i] \in Int
      <4>1. \A i \in D : m[a[i]] \in Int
        BY <1>5, <1>6
      <4> QED BY <1>8, <1>12, <4>1 DEF Apart
    <3> QED BY <1>8, <3>1, SumStep
  <2> QED BY <1>14, <1>15, <1>16, <2>1
<1> QED BY <1>17 DEF c, m

(* A new round is fired only for centers strictly better than those of the *)
(* round before (fire_new_round), whatever the ties of kmeans_map.lua, for *)
(* any files whose sums divide evenly, any number of mappers and any order *)
(* of fields and results: no job goes round in circles.                    *)
THEOREM CostAlwaysFalls == Spec => CostFalls
<1>1. ASSUME KMeansInv, [Next]_vars, round_' > round_, round_ > 0
      PROVE  L!Cost(CentersById') < L!Cost(CentersById)
  <2>1. round_ \in Nat /\ status # "idle"
    BY <1>1 DEF KMeansInv, IdleOk
  <2>2. ~fire_jobs
    BY <2>1 DEF fire_jobs
  <2>3. round_' # round_
    BY <1>1, <2>1
  <2>4. \A m \in Mappers, order \in Orders : ~MapperRuns(m, order)
    BY <2>3 DEF MapperRuns
  <2>5. \A key : ~Result(key)
    BY <2>3 DEF Result
  <2>6. ~JobEnds /\ ~UNCHANGED vars
    BY <2>3 DEF JobEnds, vars
  <2>7. fire_new_round
    BY <1>1, <2>2, <2>4, <2>5, <2>6 DEF Next
  <2> QED BY <1>1, <2>7, NewRoundIsCheaper
<1>2. KMeansInv /\ [Next]_vars
        => [round_' > round_ /\ round_ > 0
              => L!Cost(CentersById') < L!Cost(CentersById)]_vars
  BY <1>1
<1> QED BY <1>2, KMeansInit, KMeansNext, PTL DEF Spec, CostFalls
=============================================================================
