--------------------------- MODULE FramingProofs ----------------------------
(***************************************************************************)
(* Theorems about Framing, for any characters, any number of pairs and     *)
(* texts of any length.                                                    *)
(***************************************************************************)
EXTENDS Framing, DataLemmas

-----------------------------------------------------------------------------
(* Texts without a separator, and what strtok makes of two and three of    *)
(* them with separators between.                                           *)
Plain(s) == \A i \in DOMAIN s : s[i] # pload_sep

Shape(s, t, k, v) ==
  /\ Len(s) = Len(k) + Len(v) + 3
  /\ s[1] = t /\ s[2] = pload_sep
  /\ \A i \in 1..Len(k) : s[i + 2] = k[i]
  /\ s[Len(k) + 3] = pload_sep
  /\ \A i \in 1..Len(v) : s[Len(k) + 3 + i] = v[i]

LEMMA PayloadShape ==
  ASSUME NEW C, NEW t \in C, pload_sep \in C, NEW k \in Seq(C), NEW v \in Seq(C)
  PROVE  Payload(t, k, v) \in Seq(C) /\ Shape(Payload(t, k, v), t, k, v)
<1> DEFINE a == <<t, pload_sep>>
           b == a \o k
           c == b \o <<pload_sep>>
           s == c \o v
<1>0. Len(k) \in Nat /\ Len(v) \in Nat
  OBVIOUS
<1>1. a \in Seq(C) /\ Len(a) = 2 /\ a[1] = t /\ a[2] = pload_sep
  OBVIOUS
<1> HIDE DEF a
<1>2. /\ b \in Seq(C) /\ Len(b) = Len(k) + 2
      /\ b[1] = t /\ b[2] = pload_sep
      /\ \A i \in 1..Len(k) : b[i + 2] = k[i]
  <2>1. /\ Len(b) = Len(a) + Len(k)
        /\ \A i \in 1..Len(a) : b[i] = a[i]
        /\ \A i \in 1..Len(k) : b[Len(a) + i] = k[i]
    <3>1. a \in Seq(C) /\ k \in Seq(C)
      BY <1>1
    <3> QED BY <3>1
  <2>2. b \in Seq(C)
    BY <1>1
  <2> HIDE DEF b
  <2> QED BY <1>0, <1>1, <2>1, <2>2
<1> HIDE DEF b
<1>3. /\ c \in Seq(C) /\ Len(c) = Len(k) + 3
      /\ \A i \in 1..(Len(k) + 2) : c[i] = b[i]
      /\ c[Len(k) + 3] = pload_sep
  <2>1. <<pload_sep>> \in Seq(C)
    OBVIOUS
  <2>2. c \in Seq(C)
    BY <1>2, <2>1
  <2>3. /\ Len(c) = Len(b) + 1
        /\ \A i \in 1..Len(b) : c[i] = b[i]
        /\ c[Len(b) + 1] = pload_sep
    BY <1>2
  <2> HIDE DEF c
  <2> QED BY <1>0, <1>2, <2>2, <2>3
<1> HIDE DEF c
<1>4. /\ s \in Seq(C) /\ Len(s) = Len(c) + Len(v)
      /\ \A i \in 1..Len(c) : s[i] = c[i]
      /\ \A i \in 1..Len(v) : s[Len(c) + i] = v[i]
  <2>1. s \in Seq(C)
    BY <1>3
  <2>2. /\ Len(s) = Len(c) + Len(v)
        /\ \A i \in 1..Len(c) : s[i] = c[i]
        /\ \A i \in 1..Len(v) : s[Len(c) + i] = v[i]
    BY <1>3
  <2> QED BY <2>1, <2>2
<1>5. Payload(t, k, v) = s
  BY DEF Payload, a, b, c
<1> HIDE DEF s
<1>6. /\ s \in Seq(C) /\ Len(s) = Len(k) + Len(v) + 3
      /\ s[1] = t /\ s[2] = pload_sep
      /\ \A i \in 1..Len(k) : s[i + 2] = k[i]
      /\ s[Len(k) + 3] = pload_sep
      /\ \A i \in 1..Len(v) : s[Len(k) + 3 + i] = v[i]
  <2>1. \A i \in 1..Len(k) : i + 2 \in 1..(Len(k) + 2) /\ i + 2 \in 1..Len(c)
    BY <1>0, <1>3
  <2>2. /\ 1 \in 1..(Len(k) + 2) /\ 2 \in 1..(Len(k) + 2)
        /\ 1 \in 1..Len(c) /\ 2 \in 1..Len(c) /\ Len(k) + 3 \in 1..Len(c)
    BY <1>0, <1>3
  <2> QED BY <1>0, <1>2, <1>3, <1>4, <2>1, <2>2
<1>7. s \in Seq(C) /\ Shape(s, t, k, v)
  BY <1>6 DEF Shape
<1> QED BY <1>5, <1>7

(* One, two and three fields. *)
LEMMA Tuples ==
  ASSUME NEW q
  PROVE  /\ q = [f \in 1..1 |-> q[f]] => q = <<q[1]>>
         /\ q = [f \in 1..2 |-> q[f]] => q = <<q[1], q[2]>>
         /\ q = [f \in 1..3 |-> q[f]] => q = <<q[1], q[2], q[3]>>
<1>1. q = [f \in 1..1 |-> q[f]] => q = <<q[1]>>
  OBVIOUS
<1>2. q = [f \in 1..2 |-> q[f]] => q = <<q[1], q[2]>>
  OBVIOUS
<1>3. q = [f \in 1..3 |-> q[f]] => q = <<q[1], q[2], q[3]>>
  OBVIOUS
<1> QED BY <1>1, <1>2, <1>3

(* A piece of a text is known by its length and what is at each place.     *)
LEMMA PieceIs ==
  ASSUME NEW C, NEW s \in Seq(C), NEW w \in Seq(C), NEW a \in Int, NEW z \in Int,
         1 <= a, z <= Len(s), Len(w) = z - a + 1,
         \A i \in 1..Len(w) : s[a + i - 1] = w[i]
  PROVE  SubSeq(s, a, z) = w
<1> DEFINE u == SubSeq(s, a, z)
<1>0. Len(s) \in Nat /\ Len(w) \in Nat
  OBVIOUS
<1>1. /\ u \in Seq(C) /\ Len(u) = Len(w)
      /\ \A i \in 1..Len(w) : u[i] = s[a + i - 1]
  BY <1>0
<1> HIDE DEF u
<1>2. \A i \in 1..Len(u) : u[i] = w[i]
  BY <1>1
<1>3. u = w
  BY <1>1, <1>2, SeqEqual
<1> QED BY <1>3 DEF u

LEMMA FirstIs ==
  ASSUME NEW C, NEW s \in Seq(C), Len(s) > 0
  PROVE  SubSeq(s, 1, 1) = <<s[1]>>
<1> DEFINE w == <<s[1]>>
<1>1. w \in Seq(C) /\ Len(w) = 1 /\ w[1] = s[1]
  OBVIOUS
<1> HIDE DEF w
<1>2. \A i \in 1..Len(w) : s[1 + i - 1] = w[i]
  BY <1>1
<1>3. 1 <= Len(s) /\ Len(w) = 1 - 1 + 1
  BY <1>1
<1>4. SubSeq(s, 1, 1) = w
  BY <1>1, <1>2, <1>3, PieceIs
<1> QED BY <1>4 DEF w

(* The fields of a text whose pieces are known: the n-th is at from[n] to  *)
(* upto[n].                                                                *)
Pieces(s, n, from, upto) ==
  /\ \A f \in 1..n : /\ from[f] \in 1..Len(s) /\ upto[f] \in from[f]..Len(s)
                     /\ \A i \in from[f]..upto[f] : s[i] # pload_sep
                     /\ from[f] = 1 \/ s[from[f] - 1] = pload_sep
                     /\ upto[f] = Len(s) \/ s[upto[f] + 1] = pload_sep
  /\ \A f, g \in 1..n : f < g => upto[f] < from[g]
  /\ \A i \in 1..Len(s) :
       s[i] # pload_sep => \E f \in 1..n : i \in from[f]..upto[f]

LEMMA SplitPieces ==
  ASSUME NEW C, NEW s \in Seq(C), NEW n \in Nat, NEW from, NEW upto,
         Pieces(s, n, from, upto)
  PROVE  split(s) = [f \in 1..n |-> SubSeq(s, from[f], upto[f])]
<1> DEFINE S == Starts(s)
<1>0. Len(s) \in Nat /\ DOMAIN s = 1..Len(s)
  OBVIOUS
<1>1. S \in SUBSET Int
  BY <1>0 DEF Starts
<1>2. \A f \in 1..n : /\ from[f] \in Int /\ upto[f] \in Int
                      /\ 1 <= from[f] /\ from[f] <= upto[f] /\ upto[f] <= Len(s)
  BY <1>0 DEF Pieces
<1>3. \A f \in 1..n : from[f] \in S
  <2>1. \A f \in 1..n : from[f] \in from[f]..upto[f]
    BY <1>2
  <2> QED BY <1>0, <2>1 DEF Pieces, Starts
<1>4. \A f, g \in 1..n : f < g => from[f] < from[g]
  BY <1>2 DEF Pieces
<1>5. ASSUME NEW i \in S
      PROVE  \E f \in 1..n : from[f] = i
  <2>1. i \in 1..Len(s) /\ s[i] # pload_sep
        /\ (i = 1 \/ s[i - 1] = pload_sep)
    BY <1>0 DEF Starts
  <2>2. PICK f \in 1..n : i \in from[f]..upto[f]
    BY <2>1 DEF Pieces
  <2>3. ASSUME from[f] # i PROVE FALSE
    <3>1. i - 1 \in from[f]..upto[f] /\ i # 1
      BY <1>2, <2>2, <2>3
    <3> QED BY <2>1, <3>1 DEF Pieces
  <2> QED BY <2>3
<1>6. Cardinality(S) = n /\ \A f \in 1..n : Nth(S, f) = from[f]
  <2>1. Enumerates(S, n, from)
    BY <1>3, <1>4, <1>5 DEF Enumerates
  <2> QED BY <1>1, <2>1, NthIs
<1>7. ASSUME NEW f \in 1..n
      PROVE  EndFrom(s, from[f]) = upto[f]
  <2> DEFINE J == {j \in SepIn(s) \cup {Len(s) + 1} : from[f] <= j}
             e == upto[f] + 1
  <2>1. e \in J
    <3>1. upto[f] = Len(s) \/ s[e] = pload_sep
      BY DEF Pieces
    <3>2. upto[f] # Len(s) => e \in 1..Len(s)
      BY <1>0, <1>2
    <3>3. e \in SepIn(s) \cup {Len(s) + 1}
      <4>1. CASE upto[f] = Len(s)
        BY <4>1
      <4>2. CASE upto[f] # Len(s)
        BY <1>0, <3>1, <3>2, <4>2 DEF SepIn
      <4> QED BY <4>1, <4>2
    <3>4. from[f] <= e
      BY <1>0, <1>2
    <3> QED BY <3>3, <3>4
  <2>2. \A j \in J : j \in Int /\ e <= j
    <3> SUFFICES ASSUME NEW j \in J PROVE j \in Int /\ e <= j
      OBVIOUS
    <3>1. CASE j = Len(s) + 1
      BY <1>0, <1>2, <3>1
    <3>2. CASE j \in SepIn(s)
      <4>1. j \in 1..Len(s) /\ s[j] = pload_sep /\ from[f] <= j
        BY <1>0, <3>2 DEF SepIn
      <4>2. j \notin from[f]..upto[f]
        BY <4>1 DEF Pieces
      <4> QED BY <1>0, <1>2, <4>1, <4>2
    <3> QED BY <3>1, <3>2
  <2> HIDE DEF J
  <2>3. e \in Int
    BY <1>2
  <2> HIDE DEF e
  <2>4. Min(J) = e
    <3>1. \A x \in J : (\A y \in J : x <= y) <=> x = e
      BY <2>1, <2>2, <2>3
    <3> QED BY <2>1, <3>1 DEF Min
  <2>5. EndFrom(s, from[f]) = Min(J) - 1
    BY DEF EndFrom, J
  <2> QED BY <1>2, <2>4, <2>5 DEF e
<1> HIDE DEF S
<1>8. split(s) = [f \in 1..n |-> SubSeq(s, Nth(S, f), EndFrom(s, Nth(S, f)))]
  BY <1>6 DEF split, S
<1> QED BY <1>6, <1>7, <1>8

(* A text of a type, a separator and more: the first field is the type, and*)
(* it is not the only one unless all the rest are separators.              *)
LEMMA TypeFirst ==
  ASSUME NEW C, NEW s \in Seq(C), Len(s) > 2,
         s[1] # pload_sep, s[2] = pload_sep
  PROVE  /\ Len(split(s)) \in Nat /\ Len(split(s)) > 0
         /\ split(s)[1] = <<s[1]>>
         /\ (\E j \in 3..Len(s) : s[j] # pload_sep) => Len(split(s)) > 1
<1> DEFINE S == Starts(s)
           n == Cardinality(S)
<1>0. Len(s) \in Nat /\ DOMAIN s = 1..Len(s)
  OBVIOUS
<1>1. S \in SUBSET Int /\ IsFiniteSet(S) /\ (\A i \in S : 1 <= i) /\ 1 \in S
  <2>1. S \subseteq 1..Len(s) /\ 1 \in S
    BY <1>0 DEF Starts
  <2>2. IsFiniteSet(1..Len(s))
    BY <1>0, FS_Interval
  <2>3. IsFiniteSet(S)
    BY <2>1, <2>2, FS_Subset
  <2> HIDE DEF S
  <2> QED BY <1>0, <2>1, <2>3
<1>2. /\ n \in Nat
      /\ \A f \in 1..n : Nth(S, f) \in S
      /\ \A f, g \in 1..n : f < g => Nth(S, f) < Nth(S, g)
      /\ \A i \in S : \E f \in 1..n : Nth(S, f) = i
  <2> HIDE DEF S
  <2> QED BY <1>1, NthInOrder
<1>3. ASSUME NEW j \in 3..Len(s), s[j] # pload_sep
      PROVE  \E i \in S : i >= 3
  <2> DEFINE T == {i \in 3..Len(s) : s[i] # pload_sep}
             c == Cardinality(T)
             x == Nth(T, 1)
  <2>1. T \in SUBSET Int /\ IsFiniteSet(T) /\ j \in T
    <3>1. IsFiniteSet(3..Len(s))
      BY <1>0, FS_Interval
    <3> QED BY <1>3, <3>1, FS_Subset
  <2>2. /\ c \in Nat
        /\ \A f \in 1..c : Nth(T, f) \in T
        /\ \A f, g \in 1..c : f < g => Nth(T, f) < Nth(T, g)
        /\ \A i \in T : \E f \in 1..c : Nth(T, f) = i
    <3> HIDE DEF T
    <3> QED BY <2>1, NthInOrder
  <2>3. 1 \in 1..c
    BY <2>1, <2>2
  <2>4. x \in T
    BY <2>2, <2>3
  <2>5. ASSUME NEW i \in T PROVE ~(i < x)
    <3>1. PICK f \in 1..c : Nth(T, f) = i
      BY <2>2
    <3>2. f = 1 \/ 1 < f
      BY <2>2
    <3> HIDE DEF c
    <3>3. i = x \/ x < i
      BY <2>2, <2>3, <3>1, <3>2
    <3>4. i \in Int /\ x \in Int
      BY <2>4
    <3> HIDE DEF x
    <3> QED BY <3>3, <3>4
  <2> HIDE DEF x
  <2>6. x = 3 \/ s[x - 1] = pload_sep
    <3>1. x - 1 \notin T
      BY <2>4, <2>5
    <3> QED BY <1>0, <2>4, <3>1
  <2>7. s[x - 1] = pload_sep
    BY <2>6
  <2>8. x \in S /\ x >= 3
    BY <1>0, <2>4, <2>7 DEF Starts
  <2> QED BY <2>8
<1> HIDE DEF S
<1> HIDE DEF n
<1>4. PICK f \in 1..n : Nth(S, f) = 1
  BY <1>1, <1>2
<1>5. f = 1
  <2>1. ASSUME f # 1 PROVE FALSE
    <3>1. 1 \in 1..n /\ 1 < f
      BY <1>2, <2>1
    <3>2. Nth(S, 1) < 1
      BY <1>2, <1>4, <3>1
    <3>3. Nth(S, 1) \in S
      BY <1>2, <3>1
    <3>4. Nth(S, 1) \in Int /\ 1 <= Nth(S, 1)
      BY <1>1, <3>3
    <3> QED BY <3>2, <3>4
  <2> QED BY <2>1
<1>6. n > 0 /\ ((\E j \in 3..Len(s) : s[j] # pload_sep) => n > 1)
  <2>1. n > 0
    BY <1>2, <1>4
  <2>2. ASSUME NEW j \in 3..Len(s), s[j] # pload_sep PROVE n > 1
    <3>1. PICK i \in S : i >= 3
      BY <1>3, <2>2
    <3>2. PICK g \in 1..n : Nth(S, g) = i
      BY <1>2
    <3>3. g # 1
      BY <1>4, <1>5, <3>1, <3>2
    <3> QED BY <1>2, <3>2, <3>3
  <2> QED BY <2>1, <2>2
<1>7. EndFrom(s, 1) = 1
  <2> DEFINE J == {j \in SepIn(s) \cup {Len(s) + 1} : 1 <= j}
  <2>0. SepIn(s) \subseteq 1..Len(s) /\ 1 \notin SepIn(s) /\ 2 \in SepIn(s)
    BY <1>0 DEF SepIn
  <2>1. 2 \in J /\ \A j \in J : j \in Int /\ 2 <= j
    BY <1>0, <2>0
  <2> HIDE DEF J
  <2>2. Min(J) = 2
    <3>1. \A x \in J : (\A y \in J : x <= y) <=> x = 2
      BY <2>1
    <3> QED BY <2>1, <3>1 DEF Min
  <2> QED BY <2>2 DEF EndFrom, J
<1>8. SubSeq(s, 1, 1) = <<s[1]>>
  BY <1>0, FirstIs
<1>9. /\ split(s) = [h \in 1..n |-> SubSeq(s, Nth(S, h), EndFrom(s, Nth(S, h)))]
  BY DEF split, S, n
<1>11. 1 \in 1..n
  BY <1>2, <1>6
<1> DEFINE w(h) == SubSeq(s, Nth(S, h), EndFrom(s, Nth(S, h)))
<1>12. w(1) = <<s[1]>>
  BY <1>4, <1>5, <1>7, <1>8
<1> HIDE DEF w
<1>13. split(s) = [h \in 1..n |-> w(h)]
  BY <1>9 DEF w
<1>14. Len(split(s)) = n /\ split(s)[1] = w(1)
  BY <1>2, <1>11, <1>13
<1>16. split(s)[1] = <<s[1]>>
  BY <1>12, <1>14
<1> QED BY <1>2, <1>6, <1>14, <1>16

(* A type and two texts without separators, of which the second may be     *)
(* empty, are read as they were written.                                   *)
LEMMA SplitPayload ==
  ASSUME NEW C, NEW t \in C, t # pload_sep, pload_sep \in C,
         NEW k \in Seq(C), NEW v \in Seq(C), Plain(k), Plain(v), k # <<>>
  PROVE  /\ Payload(t, k, v) \in Seq(C)
         /\ v # <<>> => split(Payload(t, k, v)) = << <<t>>, k, v>>
         /\ v = <<>> => split(Payload(t, k, v)) = << <<t>>, k>>
<1> DEFINE s == Payload(t, k, v)
           from == <<1, 3, Len(k) + 4>>
           upto == <<1, Len(k) + 2, Len(k) + Len(v) + 3>>
           n == IF v = <<>> THEN 2 ELSE 3
<1>0. s \in Seq(C) /\ Shape(s, t, k, v)
  BY PayloadShape
<1> HIDE DEF s
<1>1. /\ s \in Seq(C) /\ Len(k) \in Nat /\ Len(v) \in Nat
      /\ Len(s) = Len(k) + Len(v) + 3
      /\ s[1] = t /\ s[2] = pload_sep
      /\ \A i \in 1..Len(k) : s[i + 2] = k[i]
      /\ s[Len(k) + 3] = pload_sep
      /\ \A i \in 1..Len(v) : s[Len(k) + 3 + i] = v[i]
  BY <1>0 DEF Shape
<1>2. /\ Len(k) > 0 /\ (v = <<>> <=> Len(v) = 0)
      /\ DOMAIN k = 1..Len(k) /\ DOMAIN v = 1..Len(v)
  OBVIOUS
<1>3. /\ \A i \in 3..(Len(k) + 2) : s[i] # pload_sep
      /\ \A i \in (Len(k) + 4)..(Len(k) + Len(v) + 3) : s[i] # pload_sep
  <2>1. ASSUME NEW i \in 3..(Len(k) + 2) PROVE s[i] # pload_sep
    <3>1. i - 2 \in 1..Len(k) /\ (i - 2) + 2 = i
      BY <1>1
    <3>2. s[(i - 2) + 2] = k[i - 2]
      BY <1>1, <3>1
    <3> QED BY <1>2, <3>1, <3>2 DEF Plain
  <2>2. ASSUME NEW i \in (Len(k) + 4)..(Len(k) + Len(v) + 3)
        PROVE  s[i] # pload_sep
    <3> DEFINE j == i - Len(k) - 3
    <3>1. j \in 1..Len(v) /\ Len(k) + 3 + j = i
      BY <1>1
    <3> HIDE DEF j
    <3>2. s[Len(k) + 3 + j] = v[j]
      BY <1>1, <3>1
    <3> QED BY <1>2, <3>1, <3>2 DEF Plain
  <2> QED BY <2>1, <2>2
<1>4. /\ from[1] = 1 /\ upto[1] = 1
      /\ from[2] = 3 /\ upto[2] = Len(k) + 2
      /\ from[3] = Len(k) + 4 /\ upto[3] = Len(k) + Len(v) + 3
  OBVIOUS
<1>5. /\ n \in Nat /\ (n = 2 \/ n = 3) /\ 1..n \subseteq {1, 2, 3}
      /\ (3 \in 1..n => Len(v) > 0)
      /\ (n = 3 <=> Len(v) > 0) /\ 1 \in 1..n /\ 2 \in 1..n
      /\ v # <<>> => n = 3
      /\ v = <<>> => n = 2
  BY <1>1, <1>2
<1> HIDE DEF from, upto, n
<1>6. Pieces(s, n, from, upto)
  <2>1. ASSUME NEW f \in 1..n
        PROVE  /\ from[f] \in 1..Len(s) /\ upto[f] \in from[f]..Len(s)
               /\ \A i \in from[f]..upto[f] : s[i] # pload_sep
               /\ from[f] = 1 \/ s[from[f] - 1] = pload_sep
               /\ upto[f] = Len(s) \/ s[upto[f] + 1] = pload_sep
    <3>1. CASE f = 1
      <4>1. \A i \in 1..1 : s[i] # pload_sep
        BY <1>1
      <4> QED BY <1>1, <1>4, <3>1, <4>1
    <3>2. CASE f = 2
      <4>1. s[3 - 1] = pload_sep /\ s[(Len(k) + 2) + 1] = pload_sep
        BY <1>1
      <4>2. 3 \in 1..Len(s) /\ Len(k) + 2 \in 3..Len(s)
        BY <1>1, <1>2
      <4> QED BY <1>3, <1>4, <3>2, <4>1, <4>2
    <3>3. CASE f = 3
      <4>1. s[(Len(k) + 4) - 1] = pload_sep
        BY <1>1
      <4>2. Len(k) + 4 \in 1..Len(s)
            /\ Len(k) + Len(v) + 3 \in (Len(k) + 4)..Len(s)
        BY <1>1, <1>5, <3>3
      <4> QED BY <1>1, <1>3, <1>4, <3>3, <4>1, <4>2
    <3> QED BY <1>5, <3>1, <3>2, <3>3
  <2>2. \A f, g \in 1..n : f < g => upto[f] < from[g]
    BY <1>1, <1>2, <1>4, <1>5
  <2>3. ASSUME NEW i \in 1..Len(s), s[i] # pload_sep
        PROVE  \E f \in 1..n : i \in from[f]..upto[f]
    <3>1. i # 2 /\ i # Len(k) + 3
      BY <1>1, <2>3
    <3>2. \/ i \in 1..1 \/ i \in 3..(Len(k) + 2)
          \/ i \in (Len(k) + 4)..(Len(k) + Len(v) + 3) /\ Len(v) > 0
      BY <1>1, <3>1
    <3>3. CASE i \in 1..1
      BY <1>4, <1>5, <3>3
    <3>4. CASE i \in 3..(Len(k) + 2)
      BY <1>4, <1>5, <3>4
    <3>5. CASE i \in (Len(k) + 4)..(Len(k) + Len(v) + 3) /\ Len(v) > 0
      <4>1. 3 \in 1..n
        BY <1>5, <3>5
      <4> QED BY <1>4, <3>5, <4>1
    <3> QED BY <3>2, <3>3, <3>4, <3>5
  <2> QED BY <2>1, <2>2, <2>3 DEF Pieces
<1>7. split(s) = [f \in 1..n |-> SubSeq(s, from[f], upto[f])]
  BY <1>1, <1>5, <1>6, SplitPieces
<1>8. SubSeq(s, from[1], upto[1]) = <<t>>
  <2>1. Len(s) > 0
    BY <1>1
  <2>2. SubSeq(s, 1, 1) = <<s[1]>>
    BY <1>1, <2>1, FirstIs
  <2> QED BY <1>1, <1>4, <2>2
<1>9. SubSeq(s, from[2], upto[2]) = k
  <2> DEFINE a == 3
             z == Len(k) + 2
  <2>1. \A i \in 1..Len(k) : s[a + i - 1] = k[i]
    <3>1. \A i \in 1..Len(k) : a + i - 1 = i + 2
      BY <1>1
    <3> QED BY <1>1, <3>1
  <2>2. /\ a \in Int /\ z \in Int /\ 1 <= a /\ z <= Len(s)
        /\ Len(k) = z - a + 1
    BY <1>1
  <2>3. from[2] = a /\ upto[2] = z
    BY <1>4
  <2> HIDE DEF a, z
  <2>4. SubSeq(s, a, z) = k
    BY <1>1, <2>1, <2>2, PieceIs
  <2> QED BY <2>3, <2>4
<1>10. SubSeq(s, from[3], upto[3]) = v
  <2> DEFINE a == Len(k) + 4
  <2>1. \A i \in 1..Len(v) : s[a + i - 1] = v[i]
    <3>1. \A i \in 1..Len(v) : a + i - 1 = Len(k) + 3 + i
      BY <1>1
    <3> QED BY <1>1, <3>1
  <2> DEFINE z == Len(k) + Len(v) + 3
  <2>2. /\ a \in Int /\ z \in Int /\ 1 <= a /\ z <= Len(s)
        /\ Len(v) = z - a + 1
    BY <1>1
  <2>3. from[3] = a /\ upto[3] = z
    BY <1>4
  <2> HIDE DEF a, z
  <2>4. SubSeq(s, a, z) = v
    BY <1>1, <2>1, <2>2, PieceIs
  <2> QED BY <2>3, <2>4
<1> DEFINE q == split(s)
<1>11. v # <<>> => q = << <<t>>, k, v>>
  <2> SUFFICES ASSUME v # <<>> PROVE q = << <<t>>, k, v>>
    OBVIOUS
  <2>1. /\ q = [f \in 1..3 |-> SubSeq(s, from[f], upto[f])]
    BY <1>5, <1>7
  <2> HIDE DEF q
  <2>2. q[1] = <<t>> /\ q[2] = k /\ q[3] = v /\ q = [f \in 1..3 |-> q[f]]
    BY <1>8, <1>9, <1>10, <2>1
  <2>3. q = <<q[1], q[2], q[3]>>
    BY <2>2, Tuples
  <2> QED BY <2>2, <2>3
<1>12. v = <<>> => q = << <<t>>, k>>
  <2> SUFFICES ASSUME v = <<>> PROVE q = << <<t>>, k>>
    OBVIOUS
  <2>1. /\ q = [f \in 1..2 |-> SubSeq(s, from[f], upto[f])]
    BY <1>5, <1>7
  <2> HIDE DEF q
  <2>2. q[1] = <<t>> /\ q[2] = k /\ q = [f \in 1..2 |-> q[f]]
    BY <1>8, <1>9, <2>1
  <2>3. q = <<q[1], q[2]>>
    BY <2>2, Tuples
  <2> QED BY <2>2, <2>3
<1> QED BY <1>1, <1>11, <1>12 DEF s

(* With an empty first text the second is read as the only one.            *)
LEMMA SplitLone ==
  ASSUME NEW C, NEW t \in C, t # pload_sep, pload_sep \in C,
         NEW v \in Seq(C), Plain(v), v # <<>>
  PROVE  Len(split(Payload(t, <<>>, v))) = 2
<1> DEFINE s == Payload(t, <<>>, v)
           from == <<1, 4>>
           upto == <<1, Len(v) + 3>>
<1>1. /\ s \in Seq(C) /\ Len(v) \in Nat /\ Len(v) > 0 /\ DOMAIN v = 1..Len(v)
      /\ Len(s) = Len(v) + 3
      /\ s[1] = t /\ s[2] = pload_sep /\ s[3] = pload_sep
      /\ \A i \in 1..Len(v) : s[3 + i] = v[i]
  <2> DEFINE e == <<>>
  <2>1. e \in Seq(C) /\ Len(e) = 0
    OBVIOUS
  <2>2. s = Payload(t, e, v)
    OBVIOUS
  <2> HIDE DEF e, s
  <2>3. Payload(t, e, v) \in Seq(C) /\ Shape(Payload(t, e, v), t, e, v)
    BY <2>1, PayloadShape
  <2>4. Len(v) \in Nat /\ Len(v) > 0 /\ DOMAIN v = 1..Len(v)
    OBVIOUS
  <2> QED BY <2>1, <2>2, <2>3, <2>4 DEF Shape
<1> HIDE DEF s
<1>2. \A i \in 4..(Len(v) + 3) : s[i] # pload_sep
  <2> SUFFICES ASSUME NEW i \in 4..(Len(v) + 3) PROVE s[i] # pload_sep
    OBVIOUS
  <2> DEFINE j == i - 3
  <2>1. j \in 1..Len(v) /\ 3 + j = i
    BY <1>1
  <2> HIDE DEF j
  <2>2. s[3 + j] = v[j]
    BY <1>1, <2>1
  <2> QED BY <1>1, <2>1, <2>2 DEF Plain
<1>3. /\ from[1] = 1 /\ upto[1] = 1
      /\ from[2] = 4 /\ upto[2] = Len(v) + 3
  OBVIOUS
<1> HIDE DEF from, upto
<1>4. Pieces(s, 2, from, upto)
  <2>1. ASSUME NEW f \in 1..2
        PROVE  /\ from[f] \in 1..Len(s) /\ upto[f] \in from[f]..Len(s)
               /\ \A i \in from[f]..upto[f] : s[i] # pload_sep
               /\ from[f] = 1 \/ s[from[f] - 1] = pload_sep
               /\ upto[f] = Len(s) \/ s[upto[f] + 1] = pload_sep
    <3>1. CASE f = 1
      <4>1. \A i \in 1..1 : s[i] # pload_sep
        BY <1>1
      <4> QED BY <1>1, <1>3, <3>1, <4>1
    <3>2. CASE f = 2
      <4>1. s[4 - 1] = pload_sep /\ 4 \in 1..Len(s) /\ Len(v) + 3 \in 4..Len(s)
        BY <1>1
      <4> QED BY <1>1, <1>2, <1>3, <3>2, <4>1
    <3> QED BY <3>1, <3>2
  <2>2. \A f, g \in 1..2 : f < g => upto[f] < from[g]
    BY <1>3
  <2>3. ASSUME NEW i \in 1..Len(s), s[i] # pload_sep
        PROVE  \E f \in 1..2 : i \in from[f]..upto[f]
    <3>1. i \in 1..1 \/ i \in 4..(Len(v) + 3)
      BY <1>1, <2>3
    <3> QED BY <1>3, <3>1
  <2> QED BY <2>1, <2>2, <2>3 DEF Pieces
<1>5. split(s) = [f \in 1..2 |-> SubSeq(s, from[f], upto[f])]
  <2> DEFINE n == 2
  <2>1. n \in Nat /\ Pieces(s, n, from, upto)
    BY <1>4
  <2> HIDE DEF n
  <2>2. split(s) = [f \in 1..n |-> SubSeq(s, from[f], upto[f])]
    BY <1>1, <2>1, SplitPieces
  <2> QED BY <2>2 DEF n
<1> DEFINE w(f) == SubSeq(s, from[f], upto[f])
<1> HIDE DEF w
<1>6. split(s) = [f \in 1..2 |-> w(f)]
  BY <1>5 DEF w
<1>7. Len(split(s)) = 2
  BY <1>6
<1> QED BY <1>7 DEF s

LEMMA SplitMarker ==
  ASSUME NEW C, NEW t \in C, t # pload_sep, pload_sep \in C
  PROVE  /\ Payload(t, <<>>, <<>>) \in Seq(C)
         /\ split(Payload(t, <<>>, <<>>)) = << <<t>> >>
<1> DEFINE s == Payload(t, <<>>, <<>>)
           from == <<1>>
<1>1. s \in Seq(C) /\ Len(s) = 3 /\ s[1] = t /\ s[2] = pload_sep
      /\ s[3] = pload_sep
  <2> DEFINE e == <<>>
  <2>1. e \in Seq(C) /\ Len(e) = 0
    OBVIOUS
  <2>2. s = Payload(t, e, e)
    OBVIOUS
  <2> HIDE DEF e, s
  <2>3. Payload(t, e, e) \in Seq(C) /\ Shape(Payload(t, e, e), t, e, e)
    BY <2>1, PayloadShape
  <2> QED BY <2>1, <2>2, <2>3 DEF Shape
<1> HIDE DEF s
<1>2. Pieces(s, 1, from, from)
  BY <1>1 DEF Pieces
<1>3. split(s) = [f \in 1..1 |-> SubSeq(s, from[f], from[f])]
  BY <1>1, <1>2, SplitPieces, ZenonT(40)
<1>4. SubSeq(s, 1, 1) = <<t>>
  BY <1>1, FirstIs
<1>5. split(s) = << <<t>> >>
  <2> DEFINE q == split(s)
  <2>1. q = [f \in 1..1 |-> SubSeq(s, from[f], from[f])] /\ from[1] = 1
    BY <1>3
  <2> HIDE DEF q, from
  <2>0. q[1] = SubSeq(s, from[1], from[1]) /\ q = [f \in 1..1 |-> q[f]]
    <3> DEFINE w(f) == SubSeq(s, from[f], from[f])
    <3>1. q = [f \in 1..1 |-> w(f)]
      BY <2>1
    <3> HIDE DEF w
    <3>2. 1 \in 1..1 /\ \A f \in 1..1 : q[f] = w(f)
      BY <3>1
    <3>3. q[1] = w(1)
      BY <3>2
    <3>4. q = [f \in 1..1 |-> q[f]]
      BY <3>1
    <3> QED BY <3>3, <3>4 DEF w
  <2>2. q[1] = <<t>> /\ q = [f \in 1..1 |-> q[f]]
    BY <1>4, <2>0, <2>1
  <2>3. q = <<q[1]>>
    BY <2>2, Tuples
  <2>4. q = << <<t>> >>
    BY <2>2, <2>3
  <2> QED BY <2>4 DEF q
<1> QED BY <1>1, <1>5 DEF s

-----------------------------------------------------------------------------
(* The headers of requests. *)
Word ==
  Chars \cup {pload_sep, "{", "}", "0", "1", "2", "3", "4", "5", "7", "9",
              "M4", "R1", "S", "i", "=", "dst", "sid", "type"}

Extends4(r, q, a, b, c, d) ==
  /\ Len(q) \in Nat /\ Len(r) = Len(q) + 4
  /\ \A i \in 1..Len(q) : r[i] = q[i]
  /\ r[Len(q) + 1] = a /\ r[Len(q) + 2] = b
  /\ r[Len(q) + 3] = c /\ r[Len(q) + 4] = d

LEMMA Entered ==
  ASSUME NEW C, NEW q \in Seq(C), NEW a \in C, NEW b \in C, NEW c \in C, NEW d \in C
  PROVE  /\ q \o <<a, b, c, d>> \in Seq(C)
         /\ Extends4(q \o <<a, b, c, d>>, q, a, b, c, d)
<1> DEFINE e == <<a, b, c, d>>
           r == q \o e
<1>1. /\ e \in Seq(C) /\ Len(e) = 4
      /\ e[1] = a /\ e[2] = b /\ e[3] = c /\ e[4] = d
  OBVIOUS
<1> HIDE DEF e
<1>2. /\ r \in Seq(C) /\ Len(r) = Len(q) + Len(e) /\ Len(q) \in Nat
      /\ \A i \in 1..Len(q) : r[i] = q[i]
      /\ \A i \in 1..Len(e) : r[Len(q) + i] = e[i]
  <2>1. e \in Seq(C)
    BY <1>1
  <2> QED BY <2>1
<1> HIDE DEF r
<1>3. /\ r[Len(q) + 1] = a /\ r[Len(q) + 2] = b
      /\ r[Len(q) + 3] = c /\ r[Len(q) + 4] = d
  BY <1>1, <1>2
<1>4. Len(r) = Len(q) + 4
  BY <1>1, <1>2
<1>5. r \in Seq(C) /\ Extends4(r, q, a, b, c, d)
  BY <1>2, <1>3, <1>4 DEF Extends4
<1> QED BY <1>5 DEF r, e

Header(h, id, type) ==
  /\ h \in Seq(Word) /\ h # <<>> /\ Plain(h)
  /\ Worker(h) = id /\ ExtractedType(h) = type

LEMMA EveryFourth ==
  \A i \in 1..15 : i % 4 = 1 /\ i > 1 <=> i \in {5, 9, 13}
  OBVIOUS

LEMMA Headers ==
  ASSUME NEW id \in {"M4", "R1"}, NEW num \in {"1", "4"},
         NEW type \in {"1", "2", "3", "4"}
  PROVE  /\ Header(subheader(id, [sid |-> "9", type |-> type]), id, type)
         /\ Header(subheader(id, [dst |-> num, sid |-> "9", type |-> type]),
                   id, type)
<1> DEFINE q == <<"0", id, "S">>
<1>0. /\ q \in Seq(Word) /\ Len(q) = 3
      /\ q[1] = "0" /\ q[2] = id /\ q[3] = "S"
  <2>1. "0" \in Word /\ id \in Word /\ "S" \in Word
    BY DEF Word
  <2> QED BY <2>1
<1>1. /\ num \in Word /\ type \in Word
      /\ "i" \in Word /\ "=" \in Word /\ "9" \in Word
      /\ "dst" \in Word /\ "sid" \in Word /\ "type" \in Word
  BY DEF Word
<1> DEFINE ds == <<"i", "dst", "=", num>>
           ss == <<"i", "sid", "=", "9">>
           ts == <<"i", "type", "=", type>>
<1>2. Header(subheader(id, [sid |-> "9", type |-> type]), id, type)
  <2> DEFINE kv == [sid |-> "9", type |-> type]
             a == q \o <<>>
             b == a \o ss
             h == b \o ts
  <2>1. Entry(kv, "dst") = <<>> /\ Entry(kv, "sid") = ss /\ Entry(kv, "type") = ts
    BY DEF Entry
  <2>2. subheader(id, kv) = h
    BY <2>1 DEF subheader
  <2> HIDE DEF q, kv
  <2>3. a = q
    BY <1>0
  <2> HIDE DEF a
  <2>4. /\ b \in Seq(Word) /\ Len(b) = 7
        /\ b[1] = "0" /\ b[2] = id /\ b[3] = "S"
        /\ b[4] = "i" /\ b[5] = "sid" /\ b[6] = "=" /\ b[7] = "9"
    <3>1. b \in Seq(Word) /\ Extends4(b, q, "i", "sid", "=", "9")
      BY <1>0, <1>1, <2>3, Entered
    <3> QED BY <1>0, <3>1 DEF Extends4
  <2> HIDE DEF b
  <2>5. /\ h \in Seq(Word) /\ Len(h) = 11
        /\ h[1] = "0" /\ h[2] = id /\ h[3] = "S"
        /\ h[4] = "i" /\ h[5] = "sid" /\ h[6] = "=" /\ h[7] = "9"
        /\ h[8] = "i" /\ h[9] = "type" /\ h[10] = "=" /\ h[11] = type
    <3>1. h \in Seq(Word) /\ Extends4(h, b, "i", "type", "=", type)
      BY <1>1, <2>4, Entered
    <3> QED BY <2>4, <3>1 DEF Extends4
  <2> HIDE DEF h
  <2>6. Plain(h) /\ h # <<>> /\ DOMAIN h = 1..11
    <3>1. DOMAIN h = 1..11
      BY <2>5
    <3>2. h # <<>>
      <4>1. Len(h) # 0
        BY <2>5
      <4> QED BY <4>1
    <3>3. \A i \in 1..11 : h[i] # pload_sep
      <4>1. \A i \in 1..11 : \/ i = 1 \/ i = 2 \/ i = 3 \/ i = 4 \/ i = 5 \/ i = 6
                             \/ i = 7 \/ i = 8 \/ i = 9 \/ i = 10 \/ i = 11
        OBVIOUS
      <4> QED BY <2>5, <4>1 DEF pload_sep
    <3> QED BY <3>1, <3>2, <3>3 DEF Plain
  <2>7. ExtractedType(h) = type
    <3> DEFINE I == {i \in DOMAIN h : i % 4 = 1 /\ i > 1 /\ h[i] = "type"}
    <3>1. I = {9}
      <4>1. \A i \in 1..11 : i % 4 = 1 /\ i > 1 <=> i \in {5, 9}
        BY EveryFourth
      <4> QED BY <2>5, <2>6, <4>1
    <3> HIDE DEF I
    <3>2. Min(I) = 9
      BY <3>1 DEF Min
    <3>3. h[Min(I) + 2] = type
      BY <2>5, <3>2
    <3> QED BY <3>3 DEF ExtractedType, I
  <2>8. Worker(h) = id
    BY <2>5 DEF Worker
  <2>9. Header(h, id, type)
    BY <2>5, <2>6, <2>7, <2>8 DEF Header
  <2> QED BY <2>2, <2>9 DEF kv
<1>3. Header(subheader(id, [dst |-> num, sid |-> "9", type |-> type]), id, type)
  <2> DEFINE kv == [dst |-> num, sid |-> "9", type |-> type]
             a == q \o ds
             b == a \o ss
             h == b \o ts
  <2>1. Entry(kv, "dst") = ds /\ Entry(kv, "sid") = ss /\ Entry(kv, "type") = ts
    BY DEF Entry
  <2>2. subheader(id, kv) = h
    BY <2>1 DEF subheader
  <2> HIDE DEF q, kv
  <2>3. /\ a \in Seq(Word) /\ Len(a) = 7
        /\ a[1] = "0" /\ a[2] = id /\ a[3] = "S"
        /\ a[4] = "i" /\ a[5] = "dst" /\ a[6] = "=" /\ a[7] = num
    <3>1. a \in Seq(Word) /\ Extends4(a, q, "i", "dst", "=", num)
      BY <1>0, <1>1, Entered
    <3> QED BY <1>0, <3>1 DEF Extends4
  <2> HIDE DEF a
  <2>4. /\ b \in Seq(Word) /\ Len(b) = 11
        /\ b[1] = "0" /\ b[2] = id /\ b[3] = "S"
        /\ b[4] = "i" /\ b[5] = "dst" /\ b[6] = "=" /\ b[7] = num
        /\ b[8] = "i" /\ b[9] = "sid" /\ b[10] = "=" /\ b[11] = "9"
    <3>1. b \in Seq(Word) /\ Extends4(b, a, "i", "sid", "=", "9")
      BY <1>1, <2>3, Entered
    <3> QED BY <2>3, <3>1 DEF Extends4
  <2> HIDE DEF b
  <2>5. /\ h \in Seq(Word) /\ Len(h) = 15
        /\ h[1] = "0" /\ h[2] = id /\ h[3] = "S"
        /\ h[4] = "i" /\ h[5] = "dst" /\ h[6] = "=" /\ h[7] = num
        /\ h[8] = "i" /\ h[9] = "sid" /\ h[10] = "=" /\ h[11] = "9"
        /\ h[12] = "i" /\ h[13] = "type" /\ h[14] = "=" /\ h[15] = type
    <3>1. h \in Seq(Word) /\ Extends4(h, b, "i", "type", "=", type)
      BY <1>1, <2>4, Entered
    <3> QED BY <2>4, <3>1 DEF Extends4
  <2> HIDE DEF h
  <2>6. Plain(h) /\ h # <<>> /\ DOMAIN h = 1..15
    <3>1. DOMAIN h = 1..15
      BY <2>5
    <3>2. h # <<>>
      <4>1. Len(h) # 0
        BY <2>5
      <4> QED BY <4>1
    <3>3. \A i \in 1..15 : h[i] # pload_sep
      <4>1. \A i \in 1..15 : \/ i = 1 \/ i = 2 \/ i = 3 \/ i = 4 \/ i = 5 \/ i = 6
                             \/ i = 7 \/ i = 8 \/ i = 9 \/ i = 10 \/ i = 11
                             \/ i = 12 \/ i = 13 \/ i = 14 \/ i = 15
        OBVIOUS
      <4> QED BY <2>5, <4>1 DEF pload_sep
    <3> QED BY <3>1, <3>2, <3>3 DEF Plain
  <2>7. ExtractedType(h) = type
    <3> DEFINE I == {i \in DOMAIN h : i % 4 = 1 /\ i > 1 /\ h[i] = "type"}
    <3>1. I = {13}
      <4>1. \A i \in 1..15 : i % 4 = 1 /\ i > 1 <=> i \in {5, 9, 13}
        BY EveryFourth
      <4> QED BY <2>5, <2>6, <4>1
    <3> HIDE DEF I
    <3>2. Min(I) = 13
      BY <3>1 DEF Min
    <3>3. h[Min(I) + 2] = type
      BY <2>5, <3>2
    <3> QED BY <3>3 DEF ExtractedType, I
  <2>8. Worker(h) = id
    BY <2>5 DEF Worker
  <2>9. Header(h, id, type)
    BY <2>5, <2>6, <2>7, <2>8 DEF Header
  <2> QED BY <2>2, <2>9 DEF kv
<1> QED BY <1>2, <1>3

LEMMA RegisteredIs ==
  ASSUME NEW g, NEW h, NEW id, NEW code, NEW data, NEW types, NEW fs,
         Header(g, id, code), Header(h, id, data), fs = << <<"7">>, g, h>>
  PROVE  /\ code \in types \/ data \in types => Registered(fs, types) = {id}
         /\ code \notin types /\ data \notin types => Registered(fs, types) = {}
<1>1. /\ Len(fs) = 3 /\ 2..3 = {2, 3}
      /\ Worker(fs[2]) = id /\ Worker(fs[3]) = id
      /\ ExtractedType(fs[2]) = code /\ ExtractedType(fs[3]) = data
  BY DEF Header
<1> DEFINE F == {f \in {2, 3} : ExtractedType(fs[f]) \in types}
<1>2. Registered(fs, types) = {Worker(fs[f]) : f \in F}
  BY <1>1 DEF Registered
<1>3. \A f \in F : Worker(fs[f]) = id
  BY <1>1
<1>4. /\ 2 \in F <=> code \in types
      /\ 3 \in F <=> data \in types
      /\ \A f \in F : f = 2 \/ f = 3
  BY <1>1
<1> HIDE DEF F
<1> QED BY <1>2, <1>3, <1>4

RequestM == Request("M4", "4", "1", "3")
RequestR == Request("R1", "1", "2", "4")

LEMMA RequestIs ==
  ASSUME NEW id \in {"M4", "R1"}, NEW num \in {"1", "4"},
         NEW code \in {"1", "2", "3", "4"}, NEW data \in {"1", "2", "3", "4"}
  PROVE  LET m == Request(id, num, code, data)
         IN /\ m \in Seq(Word) /\ split(m)[1] = <<"7">>
            /\ \A types :
                 /\ code \in types \/ data \in types =>
                      Registered(split(m), types) = {id}
                 /\ code \notin types /\ data \notin types =>
                      Registered(split(m), types) = {}
<1> DEFINE m == Request(id, num, code, data)
           g == subheader(id, [sid |-> "9", type |-> code])
           h == subheader(id, [dst |-> num, sid |-> "9", type |-> data])
<1>1. Header(g, id, code) /\ Header(h, id, data)
  BY Headers
<1>2. m = Payload("7", g, h)
  BY DEF Request
<1> HIDE DEF m, g, h
<1>3. /\ g \in Seq(Word) /\ h \in Seq(Word) /\ Plain(g) /\ Plain(h)
      /\ g # <<>> /\ h # <<>>
  BY <1>1 DEF Header
<1>4. "7" \in Word /\ pload_sep \in Word /\ "7" # pload_sep
  BY DEF Word, pload_sep
<1>5. m \in Seq(Word) /\ split(m) = << <<"7">>, g, h>>
  BY <1>2, <1>3, <1>4, SplitPayload
<1>6. split(m)[1] = <<"7">>
  BY <1>5
<1>7. ASSUME NEW types
      PROVE  /\ code \in types \/ data \in types =>
                  Registered(split(m), types) = {id}
             /\ code \notin types /\ data \notin types =>
                  Registered(split(m), types) = {}
  BY <1>1, <1>5, RegisteredIs
<1> QED BY <1>5, <1>6, <1>7 DEF m

LEMMA Requests ==
  /\ RequestM \in Seq(Word) /\ split(RequestM)[1] = <<"7">>
  /\ Registered(split(RequestM), {"1", "3"}) = {"M4"}
  /\ Registered(split(RequestM), {"2", "4"}) = {}
  /\ RequestR \in Seq(Word) /\ split(RequestR)[1] = <<"7">>
  /\ Registered(split(RequestR), {"1", "3"}) = {}
  /\ Registered(split(RequestR), {"2", "4"}) = {"R1"}
<1>1. /\ "1" \in {"1", "3"} /\ "1" \notin {"2", "4"} /\ "3" \notin {"2", "4"}
      /\ "2" \in {"2", "4"} /\ "2" \notin {"1", "3"} /\ "4" \notin {"1", "3"}
  OBVIOUS
<1>2. "M4" \in {"M4", "R1"} /\ "4" \in {"1", "4"}
      /\ "1" \in {"1", "2", "3", "4"} /\ "3" \in {"1", "2", "3", "4"}
  OBVIOUS
<1>3. "R1" \in {"M4", "R1"} /\ "1" \in {"1", "4"}
      /\ "2" \in {"1", "2", "3", "4"} /\ "4" \in {"1", "2", "3", "4"}
  OBVIOUS
<1>4. /\ RequestM \in Seq(Word) /\ split(RequestM)[1] = <<"7">>
      /\ \A types :
           /\ "1" \in types \/ "3" \in types =>
                Registered(split(RequestM), types) = {"M4"}
           /\ "1" \notin types /\ "3" \notin types =>
                Registered(split(RequestM), types) = {}
  BY <1>2, RequestIs DEF RequestM
<1>5. /\ RequestR \in Seq(Word) /\ split(RequestR)[1] = <<"7">>
      /\ \A types :
           /\ "2" \in types \/ "4" \in types =>
                Registered(split(RequestR), types) = {"R1"}
           /\ "2" \notin types /\ "4" \notin types =>
                Registered(split(RequestR), types) = {}
  BY <1>3, RequestIs DEF RequestR
<1> QED BY <1>1, <1>4, <1>5

-----------------------------------------------------------------------------
(* What the reducer reads: strchr finds the first separator, which is not  *)
(* the one after the key if the key has one.                               *)
CutAt(s, m) ==
  /\ s[m] = pload_sep /\ \A j \in 1..Len(s) : s[j] = pload_sep => m <= j
  /\ Key(s) = SubSeq(s, 1, m - 1) /\ Rest(s) = SubSeq(s, m + 1, Len(s))
  /\ Len(Key(s)) = m - 1 /\ Len(Rest(s)) = Len(s) - m

LEMMA KeyRest ==
  ASSUME NEW C, NEW s \in Seq(C), NEW n \in 1..Len(s), s[n] = pload_sep
  PROVE  /\ Key(s) \in Seq(C) /\ Rest(s) \in Seq(C)
         /\ \E m \in 1..n : CutAt(s, m)
<1> DEFINE S == SepIn(s)
           m == Min(S)
<1>0. Len(s) \in Nat /\ DOMAIN s = 1..Len(s)
  OBVIOUS
<1>1. /\ S \in SUBSET (1..Len(s)) /\ n \in S
      /\ \A j \in 1..Len(s) : s[j] = pload_sep => j \in S
      /\ \A j \in S : s[j] = pload_sep
  BY <1>0 DEF SepIn
<1>2. IsFiniteSet(1..Len(s))
  BY <1>0, FS_Interval
<1>3. S \in SUBSET Int /\ IsFiniteSet(S) /\ S # {}
  BY <1>0, <1>1, <1>2, FS_Subset
<1> HIDE DEF S
<1>4. m \in S /\ \A i \in S : m <= i
  BY <1>3, Extremes
<1>5. Key(s) = SubSeq(s, 1, m - 1) /\ Rest(s) = SubSeq(s, m + 1, Len(s))
  BY DEF Key, Rest, m, S
<1> HIDE DEF m
<1>6. m \in 1..n /\ m \in 1..Len(s) /\ s[m] = pload_sep
  BY <1>0, <1>1, <1>4
<1>7. \A j \in 1..Len(s) : s[j] = pload_sep => m <= j
  BY <1>1, <1>4
<1>8. SubSeq(s, 1, m - 1) \in Seq(C) /\ Len(SubSeq(s, 1, m - 1)) = m - 1
  BY <1>0, <1>6
<1>9. /\ SubSeq(s, m + 1, Len(s)) \in Seq(C)
      /\ Len(SubSeq(s, m + 1, Len(s))) = Len(s) - m
  <2> DEFINE i == m + 1
             l == Len(s)
  <2>1. i \in Int /\ l \in Int /\ l - i + 1 = l - m /\ (i <= l \/ l - m = 0)
    <3>1. m \in Int /\ Len(s) \in Int /\ m <= Len(s)
      BY <1>0, <1>6
    <3> QED BY <3>1
  <2>2. \A j \in i..l : s[j] \in C
    BY <1>0, <1>6
  <2> HIDE DEF i, l
  <2>3. /\ SubSeq(s, i, l) \in Seq(C)
        /\ Len(SubSeq(s, i, l)) = IF i <= l THEN l - i + 1 ELSE 0
    BY <2>1, <2>2, SubSeqProperties
  <2>4. Len(SubSeq(s, i, l)) = l - m
    <3>1. i > l => l - m = 0
      BY <2>1
    <3> QED BY <2>1, <2>3, <3>1
  <2> QED BY <2>3, <2>4 DEF i, l
<1>10. CutAt(s, m)
  BY <1>5, <1>6, <1>7, <1>8, <1>9 DEF CutAt
<1> QED BY <1>5, <1>6, <1>8, <1>9, <1>10

Income(q) == SubSeq(q, 3, Len(q))

LEMMA IncomeRead ==
  ASSUME NEW C, NEW t \in C, pload_sep \in C, NEW k \in Seq(C), NEW v \in Seq(C)
  PROVE  LET x == Income(Payload(t, k, v))
         IN /\ Key(x) \in Seq(C) /\ Rest(x) \in Seq(C)
            /\ BothEmpty(Key(x), Rest(x)) <=> BothEmpty(k, v)
            /\ Plain(k) => Key(x) = k /\ Rest(x) = v
<1> DEFINE s == Payload(t, k, v)
           x == Income(s)
           n == Len(k) + 1
<1>0. s \in Seq(C) /\ Shape(s, t, k, v)
  BY PayloadShape
<1> HIDE DEF s
<1>1. /\ s \in Seq(C) /\ Len(k) \in Nat /\ Len(v) \in Nat
      /\ Len(s) = Len(k) + Len(v) + 3
      /\ \A i \in 1..Len(k) : s[i + 2] = k[i]
      /\ s[Len(k) + 3] = pload_sep
      /\ \A i \in 1..Len(v) : s[Len(k) + 3 + i] = v[i]
  BY <1>0 DEF Shape
<1>2. /\ x \in Seq(C) /\ Len(x) = Len(k) + Len(v) + 1
      /\ \A i \in 1..(Len(k) + Len(v) + 1) : x[i] = s[i + 2]
  BY <1>1 DEF Income
<1> HIDE DEF x
<1>3. /\ n \in 1..Len(x) /\ x[n] = pload_sep /\ n = Len(k) + 1
      /\ \A i \in 1..Len(k) : x[i] = k[i]
      /\ \A i \in 1..Len(v) : x[n + i] = v[i]
  <2>1. n \in 1..Len(x) /\ n \in 1..(Len(k) + Len(v) + 1) /\ n + 2 = Len(k) + 3
    BY <1>1, <1>2
  <2>2. x[n] = pload_sep
    <3>1. x[n] = s[n + 2]
      BY <1>2, <2>1
    <3> QED BY <1>1, <2>1, <3>1
  <2>3. ASSUME NEW i \in 1..Len(k) PROVE x[i] = k[i]
    <3>1. i \in 1..(Len(k) + Len(v) + 1)
      BY <1>1
    <3> QED BY <1>1, <1>2, <3>1
  <2>4. ASSUME NEW i \in 1..Len(v) PROVE x[n + i] = v[i]
    <3>1. n + i \in 1..(Len(k) + Len(v) + 1) /\ (n + i) + 2 = Len(k) + 3 + i
      BY <1>1
    <3>2. x[n + i] = s[(n + i) + 2]
      BY <1>2, <3>1
    <3> QED BY <1>1, <3>1, <3>2
  <2> QED BY <2>1, <2>2, <2>3, <2>4
<1> HIDE DEF n
<1>Cut. /\ Key(x) \in Seq(C) /\ Rest(x) \in Seq(C)
        /\ \E m \in 1..n : CutAt(x, m)
  BY <1>2, <1>3, KeyRest
<1>Pick. PICK m \in 1..n : CutAt(x, m)
  BY <1>Cut
<1>4. /\ x[m] = pload_sep /\ \A j \in 1..Len(x) : x[j] = pload_sep => m <= j
      /\ Key(x) = SubSeq(x, 1, m - 1) /\ Rest(x) = SubSeq(x, m + 1, Len(x))
      /\ Key(x) \in Seq(C) /\ Len(Key(x)) = m - 1
      /\ Rest(x) \in Seq(C) /\ Len(Rest(x)) = Len(x) - m
  BY <1>Cut, <1>Pick DEF CutAt
<1>5. BothEmpty(Key(x), Rest(x)) <=> BothEmpty(k, v)
  <2>1. \A q \in Seq(C) : q = <<>> <=> Len(q) = 0
    OBVIOUS
  <2>2. BothEmpty(Key(x), Rest(x)) <=> m - 1 = 0 /\ Len(x) - m = 0
    BY <1>4, <2>1 DEF BothEmpty
  <2>3. BothEmpty(k, v) <=> Len(k) = 0 /\ Len(v) = 0
    BY <2>1 DEF BothEmpty
  <2> QED BY <1>1, <1>2, <1>3, <2>2, <2>3
<1>6. ASSUME Plain(k)
      PROVE  Key(x) = k /\ Rest(x) = v
  <2>1. m = n
    <3>1. ASSUME m # n PROVE FALSE
      <4>1. m \in 1..Len(k)
        BY <1>1, <1>3, <3>1
      <4>2. k[m] # pload_sep
        BY <1>6, <4>1 DEF Plain
      <4> QED BY <1>3, <1>4, <4>1, <4>2
    <3> QED BY <3>1
  <2>2. Key(x) = k
    <3>1. \A i \in 1..Len(k) : x[1 + i - 1] = k[i]
      BY <1>1, <1>3
    <3>2. m - 1 \in Int /\ m - 1 <= Len(x) /\ Len(k) = (m - 1) - 1 + 1
      BY <1>1, <1>2, <1>3, <2>1
    <3>3. SubSeq(x, 1, m - 1) = k
      BY <1>2, <3>1, <3>2, PieceIs
    <3> QED BY <1>4, <3>3
  <2>3. Rest(x) = v
    <3> DEFINE a == m + 1
    <3>1. a \in Int /\ 1 <= a /\ Len(v) = Len(x) - a + 1 /\ Len(x) \in Int
      BY <1>1, <1>2, <1>3, <2>1
    <3>2. \A i \in 1..Len(v) : x[a + i - 1] = v[i]
      <4>1. \A i \in 1..Len(v) : a + i - 1 = n + i
        BY <1>1, <1>3, <2>1
      <4> QED BY <1>3, <4>1
    <3>3. Rest(x) = SubSeq(x, a, Len(x))
      BY <1>4
    <3> HIDE DEF a
    <3>4. SubSeq(x, a, Len(x)) = v
      BY <1>2, <3>1, <3>2, PieceIs
    <3> QED BY <3>3, <3>4
  <2> QED BY <2>2, <2>3
<1> QED BY <1>4, <1>5, <1>6 DEF x, s

LEMMA Between ==
  ASSUME NEW C, NEW l \in C, NEW r \in C, NEW k \in Seq(C)
  PROVE  LET o == <<l>> \o k \o <<r>>
         IN /\ o \in Seq(C) /\ o # <<>> /\ Len(o) \in Nat /\ Len(o) > 0
            /\ o[1] = l
            /\ Plain(k) /\ l # pload_sep /\ r # pload_sep => Plain(o)
<1> DEFINE a == <<l>>
           b == a \o k
           e == <<r>>
           o == b \o e
<1>1. a \in Seq(C) /\ Len(a) = 1 /\ a[1] = l
  OBVIOUS
<1>2. e \in Seq(C) /\ Len(e) = 1 /\ e[1] = r
  OBVIOUS
<1> HIDE DEF a, e
<1>3. /\ b \in Seq(C) /\ Len(b) = Len(a) + Len(k) /\ Len(k) \in Nat
      /\ \A i \in 1..Len(a) : b[i] = a[i]
      /\ \A i \in 1..Len(k) : b[Len(a) + i] = k[i]
  <2>1. a \in Seq(C)
    BY <1>1
  <2> QED BY <2>1
<1> HIDE DEF b
<1>4. /\ o \in Seq(C) /\ Len(o) = Len(b) + Len(e)
      /\ \A i \in 1..Len(b) : o[i] = b[i]
      /\ \A i \in 1..Len(e) : o[Len(b) + i] = e[i]
  <2>1. b \in Seq(C) /\ e \in Seq(C)
    BY <1>2, <1>3
  <2> QED BY <2>1
<1> HIDE DEF o
<1>5. /\ Len(a) = 1 /\ Len(e) = 1 /\ Len(b) = Len(k) + 1
      /\ Len(o) = Len(k) + 2
  BY <1>1, <1>2, <1>3, <1>4
<1>6. o[1] = l
  <2>1. 1 \in 1..Len(a) /\ 1 \in 1..Len(b)
    BY <1>3, <1>5
  <2>2. o[1] = b[1] /\ b[1] = a[1]
    BY <1>3, <1>4, <2>1
  <2> QED BY <1>1, <2>2
<1>7. o # <<>> /\ Len(o) \in Nat /\ Len(o) > 0
  <2>1. Len(o) \in Nat /\ Len(o) > 0
    BY <1>3, <1>5
  <2> QED BY <2>1
<1>8. ASSUME Plain(k), l # pload_sep, r # pload_sep
      PROVE  Plain(o)
  <2>1. DOMAIN o = 1..(Len(k) + 2) /\ DOMAIN k = 1..Len(k)
    BY <1>4, <1>5
  <2>2. ASSUME NEW i \in 1..(Len(k) + 2) PROVE o[i] # pload_sep
    <3>1. CASE i = 1
      BY <1>6, <1>8, <3>1
    <3>2. CASE i = Len(k) + 2
      <4>1. 1 \in 1..Len(e) /\ Len(b) + 1 = i
        BY <1>3, <1>5, <3>2
      <4>2. o[Len(b) + 1] = e[1]
        BY <1>4, <4>1
      <4> QED BY <1>2, <1>8, <4>1, <4>2
    <3>3. CASE i \in 2..(Len(k) + 1)
      <4> DEFINE j == i - 1
      <4>1. j \in 1..Len(k) /\ Len(a) + j = i /\ i \in 1..Len(b)
        BY <1>3, <1>5, <3>3
      <4> HIDE DEF j
      <4>2. o[i] = k[j]
        BY <1>3, <1>4, <4>1
      <4> QED BY <1>8, <2>1, <4>1, <4>2 DEF Plain
    <3>4. i = 1 \/ i = Len(k) + 2 \/ i \in 2..(Len(k) + 1)
      BY <1>3
    <3> QED BY <3>1, <3>2, <3>3, <3>4
  <2> QED BY <2>1, <2>2 DEF Plain
<1>9. /\ o \in Seq(C) /\ o # <<>> /\ Len(o) \in Nat /\ Len(o) > 0
      /\ o[1] = l
      /\ Plain(k) /\ l # pload_sep /\ r # pload_sep => Plain(o)
  BY <1>4, <1>6, <1>7, <1>8
<1> QED BY <1>9 DEF o, b, a, e

Open == "{"
Close == "}"

LEMMA InBraces ==
  ASSUME NEW C, Open \in C, Close \in C, NEW k \in Seq(C)
  PROVE  /\ orderjson(k) \in Seq(C) /\ orderjson(k) # <<>>
         /\ Len(orderjson(k)) \in Nat /\ Len(orderjson(k)) > 0
         /\ orderjson(k)[1] = Open
         /\ Plain(k) => Plain(orderjson(k))
<1>1. Open # pload_sep /\ Close # pload_sep
  BY DEF pload_sep, Open, Close
<1>2. orderjson(k) = <<Open>> \o k \o <<Close>>
  BY DEF orderjson, Open, Close
<1> QED BY <1>1, <1>2, Between

-----------------------------------------------------------------------------

LEMMA ReadOne ==
  ASSUME NEW S, NEW q \in Seq(S), q # <<>>
  PROVE  /\ Len(q) \in Nat /\ Len(q) > 0 /\ Head(q) = q[1] /\ Head(q) \in S
         /\ Tail(q) \in Seq(S) /\ Len(Tail(q)) = Len(q) - 1
         /\ \A i \in 1..Len(Tail(q)) :
              i + 1 \in 1..Len(q) /\ Tail(q)[i] = q[i + 1]
  OBVIOUS

LEMMA AddOne ==
  ASSUME NEW S, NEW q \in Seq(S), NEW x \in S
  PROVE  /\ Append(q, x) \in Seq(S) /\ Len(q) \in Nat
         /\ Len(Append(q, x)) = Len(q) + 1
         /\ \A i \in 1..Len(q) : Append(q, x)[i] = q[i]
         /\ Append(q, x)[Len(q) + 1] = x
  OBVIOUS

LEMMA AppendIs ==
  ASSUME NEW S, NEW q \in Seq(S), NEW r \in Seq(S), NEW x \in S,
         Len(r) = Len(q) + 1, \A i \in 1..Len(q) : r[i] = q[i],
         r[Len(q) + 1] = x
  PROVE  r = Append(q, x)
<1> DEFINE a == Append(q, x)
<1>1. /\ a \in Seq(S) /\ Len(q) \in Nat /\ Len(a) = Len(q) + 1
      /\ \A i \in 1..Len(q) : a[i] = q[i]
      /\ a[Len(q) + 1] = x
  BY AddOne
<1> HIDE DEF a
<1>2. ASSUME NEW i \in 1..Len(r) PROVE r[i] = a[i]
  <2>1. i \in 1..Len(q) \/ i = Len(q) + 1
    BY <1>1
  <2> QED BY <1>1, <2>1
<1>3. r = a
  BY <1>1, <1>2, SeqEqual
<1> QED BY <1>3 DEF a

-----------------------------------------------------------------------------
(* Entries picked from a sequence, and pairs grouped by their keys, when   *)
(* there is one more.                                                      *)
LEMMA SetOfPlaces ==
  ASSUME NEW n \in Nat, NEW S \in SUBSET (1..n)
  PROVE  IsFiniteSet(S) /\ S \in SUBSET Int /\ \A i \in S : i < n + 1
<1>1. IsFiniteSet(1..n)
  BY FS_Interval
<1>2. IsFiniteSet(S)
  BY <1>1, FS_Subset
<1> QED BY <1>2

LEMMA PickedSame ==
  ASSUME NEW S \in SUBSET Int, IsFiniteSet(S), NEW s, NEW r,
         \A i \in S : s[i] = r[i]
  PROVE  Picked(s, S) = Picked(r, S)
<1>1. \A f \in 1..Cardinality(S) : Nth(S, f) \in S
  BY NthInOrder
<1>2. \A f \in 1..Cardinality(S) : s[Nth(S, f)] = r[Nth(S, f)]
  BY <1>1
<1> QED BY <1>2 DEF Picked

LEMMA PickedMore ==
  ASSUME NEW S \in SUBSET Int, IsFiniteSet(S), NEW x \in Int,
         \A i \in S : i < x, NEW A, NEW s, \A i \in S : s[i] \in A, s[x] \in A
  PROVE  /\ Picked(s, S) \in Seq(A)
         /\ Picked(s, S \cup {x}) = Append(Picked(s, S), s[x])
<1> DEFINE T == S \cup {x}
           n == Cardinality(S)
           q == Picked(s, S)
           r == Picked(s, T)
<1>1. /\ n \in Nat /\ Cardinality(T) = n + 1
      /\ \A f \in 1..n : Nth(T, f) = Nth(S, f)
      /\ Nth(T, n + 1) = x
  BY NthMore
<1>2. \A f \in 1..n : Nth(S, f) \in S
  BY NthInOrder
<1>3. q = [f \in 1..n |-> s[Nth(S, f)]]
  BY DEF Picked
<1>4. r = [f \in 1..(n + 1) |-> s[Nth(T, f)]]
  BY <1>1 DEF Picked
<1> HIDE DEF q, r, n, T
<1>5. q \in Seq(A) /\ Len(q) = n
  <2>1. \A f \in 1..n : s[Nth(S, f)] \in A
    BY <1>2
  <2> QED BY <1>1, <1>3, <2>1
<1>6. \A f \in 1..(n + 1) : f \in 1..n \/ f = n + 1
  BY <1>1
<1>7. \A f \in 1..(n + 1) : s[Nth(T, f)] \in A
  BY <1>1, <1>2, <1>6
<1>8. r \in Seq(A) /\ Len(r) = n + 1
  BY <1>1, <1>4, <1>7
<1>9. \A f \in 1..n : r[f] = q[f]
  <2>1. \A f \in 1..n : f \in 1..(n + 1)
    BY <1>1
  <2> QED BY <1>1, <1>3, <1>4, <2>1
<1>10. r[n + 1] = s[x]
  <2>1. n + 1 \in 1..(n + 1)
    BY <1>1
  <2> QED BY <1>1, <1>4, <2>1
<1>11. r = Append(q, s[x])
  BY <1>5, <1>8, <1>9, <1>10, AppendIs
<1> QED BY <1>5, <1>11 DEF q, r, T

ValuesOf(q) == [i \in DOMAIN q |-> q[i][2]]
ValuesUnder(p, k) == ValuesOf(Picked(p, Under(p, k)))

LEMMA ValuesMore ==
  ASSUME NEW S, NEW q \in Seq(S), NEW x \in S
  PROVE  ValuesOf(Append(q, x)) = Append(ValuesOf(q), x[2])
<1> DEFINE B == {y[2] : y \in S}
           r == Append(q, x)
           u == ValuesOf(q)
           w == ValuesOf(r)
<1>1. /\ r \in Seq(S) /\ Len(q) \in Nat /\ Len(r) = Len(q) + 1
      /\ \A i \in 1..Len(q) : r[i] = q[i]
      /\ r[Len(q) + 1] = x
  BY AddOne
<1>2. u = [i \in 1..Len(q) |-> q[i][2]]
  BY DEF ValuesOf
<1> HIDE DEF r
<1>3. w = [i \in 1..Len(r) |-> r[i][2]]
  BY <1>1 DEF ValuesOf
<1> HIDE DEF u, w
<1>4. \A i \in 1..Len(q) : q[i][2] \in B
  OBVIOUS
<1>5. \A i \in 1..Len(r) : r[i][2] \in B
  BY <1>1
<1>6. u \in Seq(B) /\ Len(u) = Len(q)
  BY <1>1, <1>2, <1>4
<1>7. w \in Seq(B) /\ Len(w) = Len(u) + 1
  BY <1>1, <1>3, <1>5, <1>6
<1>8. \A i \in 1..Len(u) : w[i] = u[i]
  <2>1. \A i \in 1..Len(q) : i \in 1..Len(r)
    BY <1>1
  <2> QED BY <1>1, <1>2, <1>3, <1>6, <2>1
<1>9. w[Len(u) + 1] = x[2] /\ x[2] \in B
  <2>1. Len(q) + 1 \in 1..Len(r)
    BY <1>1
  <2>2. w[Len(q) + 1] = r[Len(q) + 1][2]
    BY <1>3, <2>1
  <2>3. x[2] \in B
    OBVIOUS
  <2> QED BY <1>1, <1>6, <2>2, <2>3
<1>10. w = Append(u, x[2])
  BY <1>6, <1>7, <1>8, <1>9, AppendIs
<1> QED BY <1>10 DEF u, w, r

LEMMA GroupedIs ==
  ASSUME NEW p
  PROVE  Grouped(p) =
           [k \in {p[i][1] : i \in DOMAIN p} |-> ValuesUnder(p, k)]
  BY DEF Grouped, ValuesUnder, ValuesOf

LEMMA NoneGrouped == Grouped(<<>>) = NoneYet
<1> DEFINE e == <<>>
<1>1. {e[i][1] : i \in DOMAIN e} = {}
  OBVIOUS
<1>2. Grouped(e) = [k \in {} |-> ValuesUnder(e, k)]
  <2> HIDE DEF e
  <2>1. Grouped(e) = [k \in {e[i][1] : i \in DOMAIN e} |-> ValuesUnder(e, k)]
    BY GroupedIs
  <2> QED BY <1>1, <2>1
<1> QED BY <1>2 DEF NoneYet

LEMMA GroupedMore ==
  ASSUME NEW A, NEW B, NEW p \in Seq(A \X B), NEW k \in A, NEW v \in B
  PROVE  Grouped(Append(p, <<k, v>>)) = Inserted(Grouped(p), k, v)
<1> DEFINE x == <<k, v>>
           r == Append(p, x)
           L == Len(p)
           D == {p[i][1] : i \in DOMAIN p}
           G == Grouped(p)
<1>0. x \in A \X B /\ x[1] = k /\ x[2] = v
  OBVIOUS
<1> HIDE DEF x
<1>1. /\ r \in Seq(A \X B) /\ L \in Nat /\ Len(r) = L + 1
      /\ \A i \in 1..L : r[i] = p[i]
      /\ r[L + 1] = x
  BY <1>0, AddOne
<1>2. DOMAIN p = 1..L
  OBVIOUS
<1> HIDE DEF r, L
<1>3. DOMAIN r = 1..(L + 1)
  BY <1>1
<1>4. \A i : i \in 1..(L + 1) <=> i \in 1..L \/ i = L + 1
  BY <1>1
<1>5. {r[i][1] : i \in DOMAIN r} = D \cup {k}
  BY <1>0, <1>1, <1>2, <1>3, <1>4
<1>6. Under(r, k) = Under(p, k) \cup {L + 1}
  BY <1>0, <1>1, <1>2, <1>3, <1>4 DEF Under
<1>7. \A j : j # k => Under(r, j) = Under(p, j)
  BY <1>0, <1>1, <1>2, <1>3, <1>4 DEF Under
<1>8. ASSUME NEW j
      PROVE  /\ Under(p, j) \in SUBSET Int /\ IsFiniteSet(Under(p, j))
             /\ \A i \in Under(p, j) :
                  i < L + 1 /\ r[i] = p[i] /\ p[i] \in A \X B
             /\ Picked(r, Under(p, j)) = Picked(p, Under(p, j))
             /\ Picked(p, Under(p, j)) \in Seq(A \X B)
             /\ Picked(r, Under(p, j) \cup {L + 1}) =
                  Append(Picked(p, Under(p, j)), x)
  <2> DEFINE S == Under(p, j)
  <2>1. S \in SUBSET (1..L)
    BY <1>2 DEF Under
  <2> HIDE DEF S
  <2>2. S \in SUBSET Int /\ IsFiniteSet(S) /\ \A i \in S : i < L + 1
    BY <1>1, <2>1, SetOfPlaces
  <2>3. \A i \in S : r[i] = p[i] /\ p[i] \in A \X B
    BY <1>1, <1>2, <2>1
  <2>4. Picked(r, S) = Picked(p, S)
    BY <2>2, <2>3, PickedSame
  <2>5. \A i \in S : r[i] \in A \X B
    BY <2>3
  <2>6. r[L + 1] \in A \X B /\ L + 1 \in Int
    BY <1>0, <1>1
  <2>7. /\ Picked(r, S) \in Seq(A \X B)
        /\ Picked(r, S \cup {L + 1}) = Append(Picked(r, S), r[L + 1])
    BY <2>2, <2>5, <2>6, PickedMore
  <2> QED BY <1>1, <2>2, <2>3, <2>4, <2>7 DEF S
<1>9. \A j : j # k => ValuesUnder(r, j) = ValuesUnder(p, j)
  BY <1>7, <1>8 DEF ValuesUnder
<1>10. ValuesUnder(r, k) = Append(ValuesUnder(p, k), v)
  <2> DEFINE q == Picked(p, Under(p, k))
  <2>1. Picked(r, Under(r, k)) = Append(q, x) /\ q \in Seq(A \X B)
    BY <1>6, <1>8
  <2> HIDE DEF q
  <2> DEFINE P == A \X B
  <2>2. q \in Seq(P) /\ x \in P
    BY <1>0, <2>1
  <2> HIDE DEF P
  <2>3. ValuesOf(Append(q, x)) = Append(ValuesOf(q), x[2])
    BY <2>2, ValuesMore
  <2> QED BY <1>0, <2>1, <2>3 DEF ValuesUnder, q
<1>11. k \notin D => ValuesUnder(r, k) = <<v>>
  <2> SUFFICES ASSUME k \notin D PROVE ValuesUnder(r, k) = <<v>>
    OBVIOUS
  <2>1. Under(p, k) = {}
    BY DEF Under
  <2>2. Picked(p, Under(p, k)) = <<>>
    BY <2>1, FS_EmptySet DEF Picked
  <2>3. ValuesUnder(p, k) = <<>>
    BY <2>2 DEF ValuesUnder, ValuesOf
  <2> QED BY <1>10, <2>3
<1>12. /\ Grouped(r) = [j \in D \cup {k} |-> ValuesUnder(r, j)]
       /\ G = [j \in D |-> ValuesUnder(p, j)]
  BY <1>5, GroupedIs
<1> HIDE DEF D, G
<1>13. ASSUME NEW j \in D \cup {k}
       PROVE  ValuesUnder(r, j) =
                IF j \in D THEN IF j = k THEN Append(G[j], v) ELSE G[j]
                           ELSE <<v>>
  <2>1. CASE j \in D /\ j = k
    BY <1>10, <1>12, <2>1
  <2>2. CASE j \in D /\ j # k
    BY <1>9, <1>12, <2>2
  <2>3. CASE j \notin D
    BY <1>11, <2>3
  <2> QED BY <2>1, <2>2, <2>3
<1>14. DOMAIN G = D
  BY <1>12
<1>15. Grouped(r) = Inserted(G, k, v)
  <2>1. Inserted(G, k, v) =
          [j \in D \cup {k} |->
             IF j \in D THEN IF j = k THEN Append(G[j], v) ELSE G[j] ELSE <<v>>]
    BY <1>14 DEF Inserted
  <2> QED BY <1>12, <1>13, <2>1
<1> QED BY <1>15 DEF r, x, G

(* Of the first m pairs, those of two texts. *)
FullUpTo(s, m) == {i \in 1..m : s[i][1] # <<>> /\ s[i][2] # <<>>}
Kept(s, m) == Picked(s, FullUpTo(s, m))

LEMMA KeptNone == ASSUME NEW s PROVE Kept(s, 0) = <<>>
<1>1. FullUpTo(s, 0) = {}
  BY DEF FullUpTo
<1>2. Cardinality({}) = 0 /\ 1..0 = {}
  BY FS_EmptySet
<1>3. Picked(s, {}) = <<>>
  BY <1>2 DEF Picked
<1> QED BY <1>1, <1>3 DEF Kept

KeptStep(s, m) ==
  /\ s[m + 1][1] # <<>> /\ s[m + 1][2] # <<>> =>
       Grouped(Kept(s, m + 1)) =
         Inserted(Grouped(Kept(s, m)), s[m + 1][1], s[m + 1][2])
  /\ s[m + 1][1] = <<>> \/ s[m + 1][2] = <<>> => Kept(s, m + 1) = Kept(s, m)

LEMMA KeptMore ==
  ASSUME NEW A, NEW B, NEW s \in Seq(A \X B), NEW m \in Nat, m + 1 <= Len(s)
  PROVE  KeptStep(s, m)
<1> DEFINE S == FullUpTo(s, m)
           T == FullUpTo(s, m + 1)
           x == m + 1
<1>1. \A i : i \in 1..(m + 1) <=> i \in 1..m \/ i = m + 1
  OBVIOUS
<1>2. CASE s[x][1] # <<>> /\ s[x][2] # <<>>
  <2>1. T = S \cup {x}
    BY <1>1, <1>2 DEF FullUpTo
  <2>2. S \in SUBSET (1..m)
    BY DEF FullUpTo
  <2> HIDE DEF S, T
  <2>3. S \in SUBSET Int /\ IsFiniteSet(S) /\ \A i \in S : i < m + 1
    BY <2>2, SetOfPlaces
  <2>4. \A i \in S : s[i] \in A \X B
    <3>1. \A i \in S : i \in 1..Len(s)
      BY <2>2
    <3> QED BY <3>1
  <2>5. s[m + 1] \in A \X B /\ m + 1 \in Int
    <3>1. m + 1 \in 1..Len(s)
      OBVIOUS
    <3> QED BY <3>1
  <2>6. /\ Picked(s, S) \in Seq(A \X B)
        /\ Picked(s, S \cup {m + 1}) = Append(Picked(s, S), s[m + 1])
    BY <2>3, <2>4, <2>5, PickedMore
  <2>7. s[m + 1] = <<s[m + 1][1], s[m + 1][2]>>
        /\ s[m + 1][1] \in A /\ s[m + 1][2] \in B
    BY <2>5
  <2>8. Kept(s, m + 1) = Append(Kept(s, m), <<s[m + 1][1], s[m + 1][2]>>)
        /\ Kept(s, m) \in Seq(A \X B)
    BY <2>1, <2>6, <2>7 DEF Kept, S, T
  <2>9. Grouped(Kept(s, m + 1)) =
          Inserted(Grouped(Kept(s, m)), s[m + 1][1], s[m + 1][2])
    <3> DEFINE q == Kept(s, m)
               k == s[m + 1][1]
               v == s[m + 1][2]
    <3>1. q \in Seq(A \X B) /\ k \in A /\ v \in B
      BY <2>7, <2>8
    <3> HIDE DEF q, k, v
    <3>2. Grouped(Append(q, <<k, v>>)) = Inserted(Grouped(q), k, v)
      BY <3>1, GroupedMore
    <3> QED BY <2>8, <3>2 DEF q, k, v
  <2> QED BY <1>2, <2>9 DEF KeptStep
<1>3. CASE ~(s[x][1] # <<>> /\ s[x][2] # <<>>)
  <2>1. T = S
    BY <1>1, <1>3 DEF FullUpTo
  <2> QED BY <1>3, <2>1 DEF Kept, KeptStep
<1> QED BY <1>2, <1>3

LEMMA KeptSame ==
  ASSUME NEW A, NEW s \in Seq(A), NEW x \in A, NEW m \in 0..Len(s)
  PROVE  Kept(Append(s, x), m) = Kept(s, m)
<1> DEFINE r == Append(s, x)
<1>1. \A i \in 1..m : r[i] = s[i]
  OBVIOUS
<1> HIDE DEF r
<1>2. FullUpTo(r, m) = FullUpTo(s, m)
  BY <1>1 DEF FullUpTo
<1> DEFINE S == FullUpTo(s, m)
<1>3. S \in SUBSET (1..m) /\ m \in Nat
  BY DEF FullUpTo
<1> HIDE DEF S
<1>4. S \in SUBSET Int /\ IsFiniteSet(S)
  BY <1>3, SetOfPlaces
<1>5. Picked(r, S) = Picked(s, S)
  <2>1. \A i \in S : r[i] = s[i]
    BY <1>1, <1>3
  <2> QED BY <1>4, <2>1, PickedSame
<1> QED BY <1>2, <1>5 DEF Kept, S, r

LEMMA KeptAll ==
  ASSUME NEW A, NEW s \in Seq(A)
  PROVE  Kept(s, Len(s)) = Picked(s, Full(s))
<1>1. Full(s) = FullUpTo(s, Len(s))
  BY DEF Full, FullUpTo
<1> QED BY <1>1 DEF Kept

-----------------------------------------------------------------------------
(* Results, whatever texts they are made of. *)
Texts == Seq(Word)
Pairs == Texts \X Texts
Marker(type) == Payload(type, <<>>, <<>>)
IsResult(m) == \E k \in Texts, v \in Texts : m = Payload("5", k, v)

LEMMA Letters ==
  /\ pload_sep \in Word /\ Open \in Word /\ Close \in Word
  /\ "4" \in Word /\ "5" \in Word
  /\ "4" # pload_sep /\ "5" # pload_sep /\ Open # pload_sep /\ Close # pload_sep
<1>1. pload_sep \in Word /\ Open \in Word /\ Close \in Word
      /\ "4" \in Word /\ "5" \in Word
  BY DEF Word, Open, Close
<1>2. "4" # pload_sep /\ "5" # pload_sep /\ Open # pload_sep /\ Close # pload_sep
  BY DEF pload_sep, Open, Close
<1> QED BY <1>1, <1>2

LEMMA PushedAre ==
  /\ \A k \in PushTexts : k \in Texts
  /\ \A k \in ReplyTexts : k \in Texts
<1>1. Chars \cup {pload_sep} \subseteq Word
  BY DEF Word
<1>2. ASSUME NEW x \in PushTexts \cup ReplyTexts PROVE x \in Texts
  <2>1. x \in Seq(Chars \cup {pload_sep})
    BY FramingAssumption
  <2> QED BY <1>1, <2>1, SeqMonotone DEF Texts
<1> QED BY <1>2

LEMMA MarkerIs ==
  /\ Marker("5") \in Texts /\ Marker("4") \in Texts /\ <<>> \in Texts
  /\ split(Marker("5")) = << <<"5">> >> /\ IsResult(Marker("5"))
<1>1. Marker("5") \in Texts /\ split(Marker("5")) = << <<"5">> >>
  BY Letters, SplitMarker DEF Marker, Texts
<1>2. Marker("4") \in Texts
  BY Letters, SplitMarker DEF Marker, Texts
<1>3. <<>> \in Texts
  BY DEF Texts
<1> QED BY <1>1, <1>2, <1>3 DEF IsResult, Marker

LEMMA PayloadIs ==
  ASSUME NEW k \in Texts, NEW v \in Texts
  PROVE  /\ Payload("4", k, v) \in Texts /\ Payload("5", k, v) \in Texts
         /\ <<k, v>> \in Pairs
  BY Letters, PayloadShape DEF Texts, Pairs

(* How the client reads a result. *)
LEMMA ResultFields ==
  ASSUME NEW k \in Texts, NEW v \in Texts
  PROVE  LET fs == split(Payload("5", k, v))
         IN /\ fs[1] = <<"5">> /\ Len(fs) \in Nat /\ Len(fs) > 0
            /\ ~Blank(<<k, v>>) => Len(fs) > 1
<1> DEFINE s == Payload("5", k, v)
           o == k \o v
<1>1. s \in Seq(Word) /\ Shape(s, "5", k, v)
  BY Letters, PayloadShape DEF Texts
<1> HIDE DEF s
<1>2. k \in Seq(Word) /\ v \in Seq(Word) /\ Len(k) \in Nat /\ Len(v) \in Nat
  BY DEF Texts
<1>3. s[1] # pload_sep /\ s[2] = pload_sep /\ s[1] = "5" /\ Len(s) > 2
      /\ Len(s) = Len(k) + Len(v) + 3
  BY <1>1, <1>2, Letters DEF Shape
<1>4. /\ Len(split(s)) \in Nat /\ Len(split(s)) > 0
      /\ split(s)[1] = <<s[1]>>
      /\ (\E j \in 3..Len(s) : s[j] # pload_sep) => Len(split(s)) > 1
  BY <1>1, <1>3, TypeFirst
<1>5. ASSUME ~Blank(<<k, v>>)
      PROVE  \E j \in 3..Len(s) : s[j] # pload_sep
  <2>1. SepIn(o) # DOMAIN o
    BY <1>5 DEF Blank
  <2>2. /\ Len(o) = Len(k) + Len(v) /\ DOMAIN o = 1..Len(o)
        /\ \A i \in 1..Len(k) : o[i] = k[i]
        /\ \A i \in 1..Len(v) : o[Len(k) + i] = v[i]
    BY <1>2
  <2> HIDE DEF o
  <2>3. PICK i \in 1..Len(o) : o[i] # pload_sep
    BY <2>1, <2>2 DEF SepIn
  <2>4. CASE i \in 1..Len(k)
    <3>1. s[i + 2] # pload_sep /\ i + 2 \in 3..Len(s)
      BY <1>1, <1>2, <1>3, <2>2, <2>3, <2>4 DEF Shape
    <3> QED BY <3>1
  <2>5. CASE i > Len(k)
    <3> DEFINE j == i - Len(k)
    <3>1. j \in 1..Len(v) /\ Len(k) + j = i /\ Len(k) + 3 + j \in 3..Len(s)
      BY <1>2, <1>3, <2>2, <2>5
    <3> HIDE DEF j
    <3>2. v[j] # pload_sep
      BY <2>2, <2>3, <3>1
    <3>3. s[Len(k) + 3 + j] = v[j]
      BY <1>1, <3>1 DEF Shape
    <3> QED BY <3>1, <3>2, <3>3
  <2> QED BY <1>2, <2>4, <2>5
<1> QED BY <1>3, <1>4, <1>5 DEF s

LEMMA CleanIs ==
  ASSUME NEW k \in Texts, NEW v \in Texts, Clean(<<k, v>>)
  PROVE  Plain(k) /\ Plain(v)
<1> DEFINE o == k \o v
<1>1. k \in Seq(Word) /\ v \in Seq(Word)
  BY DEF Texts
<1>2. /\ Len(o) = Len(k) + Len(v) /\ DOMAIN o = 1..Len(o)
      /\ Len(k) \in Nat /\ Len(v) \in Nat
      /\ \A i \in 1..Len(k) : o[i] = k[i]
      /\ \A i \in 1..Len(v) : o[Len(k) + i] = v[i]
      /\ DOMAIN k = 1..Len(k) /\ DOMAIN v = 1..Len(v)
  BY <1>1
<1>3. SepIn(o) = {}
  BY DEF Clean
<1> HIDE DEF o
<1>4. \A i \in 1..Len(o) : o[i] # pload_sep
  BY <1>2, <1>3 DEF SepIn
<1>5. ASSUME NEW i \in 1..Len(k) PROVE k[i] # pload_sep
  <2>1. i \in 1..Len(o)
    BY <1>2
  <2> QED BY <1>2, <1>4, <2>1
<1>6. ASSUME NEW i \in 1..Len(v) PROVE v[i] # pload_sep
  <2>1. Len(k) + i \in 1..Len(o)
    BY <1>2
  <2> QED BY <1>2, <1>4, <2>1
<1> QED BY <1>2, <1>5, <1>6 DEF Plain

LEMMA CleanFields ==
  ASSUME NEW k \in Texts, NEW v \in Texts, Clean(<<k, v>>), ~Blank(<<k, v>>)
  PROVE  LET fs == split(Payload("5", k, v))
         IN /\ k # <<>> /\ v # <<>> =>
                 Len(fs) = 3 /\ KeyAndValue(fs)[1] = k /\ KeyAndValue(fs)[2] = v
            /\ k = <<>> \/ v = <<>> => Len(fs) = 2
<1> DEFINE fs == split(Payload("5", k, v))
<1>1. k \in Seq(Word) /\ v \in Seq(Word) /\ Plain(k) /\ Plain(v)
  BY CleanIs DEF Texts
<1>2. ~(k = <<>> /\ v = <<>>)
  <2> SUFFICES ASSUME k = <<>>, v = <<>> PROVE FALSE
    OBVIOUS
  <2>1. SepIn(k \o v) = {} /\ DOMAIN (k \o v) = {}
    BY DEF SepIn
  <2> QED BY <2>1 DEF Blank
<1>3. CASE k # <<>>
  <2>1. /\ v # <<>> => fs = << <<"5">>, k, v>>
        /\ v = <<>> => fs = << <<"5">>, k>>
    BY <1>1, <1>3, Letters, SplitPayload
  <2> HIDE DEF fs
  <2>2. /\ v # <<>> => Len(fs) = 3 /\ fs[2] = k /\ fs[3] = v
        /\ v = <<>> => Len(fs) = 2
    BY <2>1
  <2>3. /\ v # <<>> =>
             Len(fs) = 3 /\ KeyAndValue(fs)[1] = k /\ KeyAndValue(fs)[2] = v
        /\ v = <<>> => Len(fs) = 2
    BY <2>2 DEF KeyAndValue
  <2> QED BY <1>3, <2>3 DEF fs
<1>4. CASE k = <<>>
  <2>1. Len(split(Payload("5", <<>>, v))) = 2
    BY <1>1, <1>2, <1>4, Letters, SplitLone
  <2> QED BY <1>4, <2>1
<1> QED BY <1>3, <1>4

-----------------------------------------------------------------------------
(* A queue of a others, of the pairs after the n-th and, if the round has  *)
(* ended, of its marker.                                                   *)
Queue(q, type, a, p, n, ended) ==
  /\ Len(q) = a + (Len(p) - n) + (IF ended THEN 1 ELSE 0)
  /\ \A i \in 1..(Len(p) - n) :
       q[a + i] = Payload(type, p[n + i][1], p[n + i][2])
  /\ ended => q[Len(q)] = Marker(type)

LEMMA QueueMore ==
  ASSUME NEW type, NEW a \in Nat, NEW p \in Seq(Pairs), NEW n \in 0..Len(p),
         NEW q \in Seq(Texts), Queue(q, type, a, p, n, FALSE),
         NEW k \in Texts, NEW v \in Texts, Payload(type, k, v) \in Texts
  PROVE  Queue(Append(q, Payload(type, k, v)), type, a, Append(p, <<k, v>>), n,
               FALSE)
<1> DEFINE m == Payload(type, k, v)
           x == <<k, v>>
           r == Append(q, m)
           s == Append(p, x)
<1>0. m \in Texts /\ x \in Pairs /\ x[1] = k /\ x[2] = v
  BY PayloadIs
<1> HIDE DEF m, x
<1>1. /\ Len(q) \in Nat /\ Len(r) = Len(q) + 1 /\ r[Len(q) + 1] = m
      /\ \A i \in 1..Len(q) : r[i] = q[i]
  BY <1>0, AddOne
<1>2. /\ Len(p) \in Nat /\ Len(s) = Len(p) + 1 /\ s[Len(p) + 1] = x
      /\ \A i \in 1..Len(p) : s[i] = p[i]
  BY <1>0, AddOne
<1> HIDE DEF r, s
<1>3. /\ Len(q) = a + (Len(p) - n)
      /\ \A i \in 1..(Len(p) - n) :
           q[a + i] = Payload(type, p[n + i][1], p[n + i][2])
  BY <1>1, <1>2 DEF Queue
<1>4. Len(r) = a + (Len(s) - n) + 0
  BY <1>1, <1>2, <1>3
<1>5. ASSUME NEW i \in 1..(Len(s) - n)
      PROVE  r[a + i] = Payload(type, s[n + i][1], s[n + i][2])
  <2>1. CASE i \in 1..(Len(p) - n)
    <3>1. a + i \in 1..Len(q) /\ n + i \in 1..Len(p)
      BY <1>2, <1>3, <2>1
    <3> QED BY <1>1, <1>2, <1>3, <2>1, <3>1
  <2>2. CASE i = Len(p) - n + 1
    <3>1. a + i = Len(q) + 1 /\ n + i = Len(p) + 1
      BY <1>2, <1>3, <2>2
    <3> QED BY <1>0, <1>1, <1>2, <3>1 DEF m
  <2> QED BY <1>2, <2>1, <2>2
<1>6. Queue(r, type, a, s, n, FALSE)
  BY <1>4, <1>5 DEF Queue
<1> QED BY <1>6 DEF r, s, m, x

LEMMA QueueEnd ==
  ASSUME NEW type, NEW a \in Nat, NEW p \in Seq(Pairs), NEW n \in 0..Len(p),
         NEW q \in Seq(Texts), Queue(q, type, a, p, n, FALSE),
         Marker(type) \in Texts
  PROVE  Queue(Append(q, Marker(type)), type, a, p, n, TRUE)
<1> DEFINE m == Marker(type)
           r == Append(q, m)
<1>0. m \in Texts
  OBVIOUS
<1> HIDE DEF m
<1>1. /\ Len(q) \in Nat /\ Len(r) = Len(q) + 1 /\ r[Len(q) + 1] = m
      /\ \A i \in 1..Len(q) : r[i] = q[i]
  BY <1>0, AddOne
<1>2. Len(p) \in Nat
  OBVIOUS
<1> HIDE DEF r
<1>3. /\ Len(q) = a + (Len(p) - n)
      /\ \A i \in 1..(Len(p) - n) :
           q[a + i] = Payload(type, p[n + i][1], p[n + i][2])
  BY <1>1, <1>2 DEF Queue
<1>4. Len(r) = a + (Len(p) - n) + 1 /\ r[Len(r)] = m
  BY <1>1, <1>2, <1>3
<1>5. \A i \in 1..(Len(p) - n) : r[a + i] = q[a + i]
  <2>1. \A i \in 1..(Len(p) - n) : a + i \in 1..Len(q)
    BY <1>2, <1>3
  <2> QED BY <1>1, <2>1
<1>6. Queue(r, type, a, p, n, TRUE)
  BY <1>3, <1>4, <1>5 DEF Queue, m
<1> QED BY <1>6 DEF r, m

(* The first of the others is taken. *)
LEMMA QueueShift ==
  ASSUME NEW type, NEW a \in Nat, NEW p \in Seq(Pairs), NEW n \in 0..Len(p),
         NEW e \in BOOLEAN, NEW q \in Seq(Texts), Queue(q, type, a, p, n, e),
         a > 0
  PROVE  Queue(Tail(q), type, a - 1, p, n, e)
<1> DEFINE r == Tail(q)
<1>1. Len(p) \in Nat
  OBVIOUS
<1>2. Len(q) = a + (Len(p) - n) + (IF e THEN 1 ELSE 0) /\ q # <<>>
  <2>1. Len(q) = a + (Len(p) - n) + (IF e THEN 1 ELSE 0)
    BY DEF Queue
  <2>2. Len(q) > 0
    BY <1>1, <2>1
  <2> QED BY <2>1, <2>2
<1>3. /\ Len(r) = Len(q) - 1 /\ Len(q) \in Nat
      /\ \A i \in 1..Len(r) : r[i] = q[i + 1]
  BY <1>2, ReadOne
<1> HIDE DEF r
<1>4. Len(r) = (a - 1) + (Len(p) - n) + (IF e THEN 1 ELSE 0)
  BY <1>1, <1>2, <1>3
<1>5. ASSUME NEW i \in 1..(Len(p) - n)
      PROVE  r[(a - 1) + i] = Payload(type, p[n + i][1], p[n + i][2])
  <2> DEFINE j == (a - 1) + i
  <2>1. j \in 1..Len(r) /\ j + 1 = a + i
    BY <1>1, <1>4
  <2>2. r[j] = q[j + 1]
    BY <1>3, <2>1
  <2> HIDE DEF j
  <2>3. r[j] = q[a + i]
    BY <2>1, <2>2
  <2> QED BY <2>3 DEF Queue, j
<1>6. ASSUME e PROVE r[Len(r)] = Marker(type)
  <2>1. Len(r) \in 1..Len(r) /\ Len(r) + 1 = Len(q)
    BY <1>1, <1>2, <1>3, <1>6
  <2>2. r[Len(r)] = q[Len(r) + 1]
    BY <1>3, <2>1
  <2> QED BY <1>6, <2>1, <2>2 DEF Queue
<1>7. Queue(r, type, a - 1, p, n, e)
  BY <1>4, <1>5, <1>6 DEF Queue
<1> QED BY <1>7 DEF r

(* The next pair is taken. *)
LEMMA QueueLess ==
  ASSUME NEW type, NEW p \in Seq(Pairs), NEW n \in Nat, n < Len(p),
         NEW e \in BOOLEAN, NEW q \in Seq(Texts), Queue(q, type, 0, p, n, e)
  PROVE  /\ q # <<>>
         /\ Head(q) = Payload(type, p[n + 1][1], p[n + 1][2])
         /\ Queue(Tail(q), type, 0, p, n + 1, e)
<1> DEFINE r == Tail(q)
<1>1. Len(p) \in Nat
  OBVIOUS
<1>2. Len(q) = (Len(p) - n) + (IF e THEN 1 ELSE 0) /\ q # <<>>
  <2>1. Len(q) = 0 + (Len(p) - n) + (IF e THEN 1 ELSE 0)
    BY DEF Queue
  <2>2. Len(q) = (Len(p) - n) + (IF e THEN 1 ELSE 0) /\ Len(q) > 0
    BY <1>1, <2>1
  <2> QED BY <2>2
<1>3. /\ Len(r) = Len(q) - 1 /\ Len(q) \in Nat /\ Head(q) = q[1]
      /\ \A i \in 1..Len(r) : r[i] = q[i + 1]
  BY <1>2, ReadOne
<1> HIDE DEF r
<1>4. \A i \in 1..(Len(p) - n) : q[i] = Payload(type, p[n + i][1], p[n + i][2])
  <2>1. \A i \in 1..(Len(p) - n) : 0 + i = i
    OBVIOUS
  <2> QED BY <2>1 DEF Queue
<1>5. Head(q) = Payload(type, p[n + 1][1], p[n + 1][2])
  <2>1. 1 \in 1..(Len(p) - n)
    BY <1>1
  <2> QED BY <1>3, <1>4, <2>1
<1>6. Len(r) = 0 + (Len(p) - (n + 1)) + (IF e THEN 1 ELSE 0)
  BY <1>1, <1>2, <1>3
<1>7. ASSUME NEW i \in 1..(Len(p) - (n + 1))
      PROVE  r[0 + i] = Payload(type, p[(n + 1) + i][1], p[(n + 1) + i][2])
  <2> DEFINE j == i + 1
  <2>1. 0 + i = i /\ i \in 1..Len(r) /\ j \in 1..(Len(p) - n)
        /\ n + j = (n + 1) + i
    BY <1>1, <1>6
  <2>2. r[i] = q[j]
    BY <1>3, <2>1
  <2> HIDE DEF j
  <2>3. q[j] = Payload(type, p[n + j][1], p[n + j][2])
    BY <1>4, <2>1
  <2> QED BY <2>1, <2>2, <2>3
<1>8. ASSUME e PROVE r[Len(r)] = Marker(type)
  <2>1. Len(r) \in 1..Len(r) /\ Len(r) + 1 = Len(q)
    BY <1>1, <1>2, <1>3, <1>8
  <2>2. r[Len(r)] = q[Len(r) + 1]
    BY <1>3, <2>1
  <2> QED BY <1>8, <2>1, <2>2 DEF Queue
<1>9. Queue(r, type, 0, p, n + 1, e)
  BY <1>6, <1>7, <1>8 DEF Queue
<1> QED BY <1>2, <1>5, <1>9 DEF r

(* Nothing is left but the marker. *)
LEMMA QueueLast ==
  ASSUME NEW type, NEW p \in Seq(Pairs), NEW e \in BOOLEAN,
         NEW q \in Seq(Texts), Queue(q, type, 0, p, Len(p), e), q # <<>>
  PROVE  e /\ Head(q) = Marker(type) /\ Tail(q) = <<>>
<1>1. Len(p) \in Nat
  OBVIOUS
<1>2. Len(q) = 0 + (Len(p) - Len(p)) + (IF e THEN 1 ELSE 0)
  BY DEF Queue
<1>3. /\ Len(q) \in Nat /\ Len(q) > 0 /\ Head(q) = q[1]
      /\ Tail(q) \in Seq(Texts) /\ Len(Tail(q)) = Len(q) - 1
  BY ReadOne
<1>4. e /\ Len(q) = 1
  BY <1>1, <1>2, <1>3
<1>5. Tail(q) = <<>>
  <2> DEFINE r == Tail(q)
  <2>1. r \in Seq(Texts) /\ Len(r) = 0
    BY <1>3, <1>4
  <2> HIDE DEF r
  <2>2. r = <<>>
    BY <2>1
  <2> QED BY <2>2 DEF r
<1>6. Head(q) = Marker(type)
  BY <1>3, <1>4 DEF Queue
<1> QED BY <1>4, <1>5, <1>6

(* What the reducer has collected of the first n pairs. *)
PlainKeys(p) == \A i \in 1..Len(p) : Plain(p[i][1])
Braced(x) == <<orderjson(x[1]), x[2]>>
FirstBraced(p, n) == [i \in 1..n |-> Braced(p[i])]
Collected(b, p, n) == PlainKeys(p) => b = Grouped(FirstBraced(p, n))

LEMMA CollectedNone == Collected(NoneYet, <<>>, 0)
<1> DEFINE e == <<>>
<1>1. FirstBraced(e, 0) = <<>>
  BY DEF FirstBraced
<1> QED BY <1>1, NoneGrouped DEF Collected

LEMMA CollectedPush ==
  ASSUME NEW b, NEW p \in Seq(Pairs), NEW n \in 0..Len(p), NEW x \in Pairs,
         Collected(b, p, n)
  PROVE  Collected(b, Append(p, x), n)
<1> DEFINE s == Append(p, x)
<1>1. /\ Len(p) \in Nat /\ Len(s) = Len(p) + 1
      /\ \A i \in 1..Len(p) : s[i] = p[i] /\ i \in 1..Len(s)
  <2>1. /\ Len(p) \in Nat /\ Len(s) = Len(p) + 1
        /\ \A i \in 1..Len(p) : s[i] = p[i]
    BY AddOne
  <2> HIDE DEF s
  <2> QED BY <2>1
<1> HIDE DEF s
<1>2. PlainKeys(s) => PlainKeys(p)
  BY <1>1 DEF PlainKeys
<1>3. FirstBraced(s, n) = FirstBraced(p, n)
  <2>1. \A i \in 1..n : s[i] = p[i]
    BY <1>1
  <2> QED BY <2>1 DEF FirstBraced
<1> QED BY <1>2, <1>3 DEF Collected, s

LEMMA CollectedMore ==
  ASSUME NEW b, NEW p \in Seq(Pairs), NEW n \in Nat, n < Len(p),
         Collected(b, p, n)
  PROVE  PlainKeys(p) => Plain(p[n + 1][1])
                         /\ Inserted(b, orderjson(p[n + 1][1]), p[n + 1][2]) =
                              Grouped(FirstBraced(p, n + 1))
<1> SUFFICES ASSUME PlainKeys(p)
             PROVE  /\ Plain(p[n + 1][1])
                    /\ Inserted(b, orderjson(p[n + 1][1]), p[n + 1][2]) =
                         Grouped(FirstBraced(p, n + 1))
  OBVIOUS
<1> DEFINE q == FirstBraced(p, n)
           r == FirstBraced(p, n + 1)
           k == orderjson(p[n + 1][1])
           v == p[n + 1][2]
<1>1. b = Grouped(q)
  BY DEF Collected
<1>2. ASSUME NEW i \in 1..(n + 1)
      PROVE  /\ i \in 1..Len(p) /\ orderjson(p[i][1]) \in Texts
             /\ p[i][2] \in Texts /\ Braced(p[i]) \in Pairs
  <2>1. i \in 1..Len(p)
    OBVIOUS
  <2>2. p[i] \in Texts \X Texts
    BY <2>1 DEF Pairs
  <2>3. p[i][1] \in Texts /\ p[i][2] \in Texts
    BY <2>2
  <2>4. orderjson(p[i][1]) \in Texts
    BY <2>3, Letters, InBraces DEF Texts
  <2> QED BY <2>1, <2>3, <2>4 DEF Braced, Pairs
<1>3. n + 1 \in 1..(n + 1) /\ \A i \in 1..n : i \in 1..(n + 1)
  OBVIOUS
<1>4. k \in Texts /\ v \in Texts /\ Plain(p[n + 1][1])
  BY <1>2, <1>3 DEF PlainKeys
<1>5. q \in Seq(Pairs) /\ Len(q) = n /\ \A i \in 1..n : q[i] = Braced(p[i])
  BY <1>2, <1>3 DEF FirstBraced
<1>6. /\ r \in Seq(Pairs) /\ Len(r) = n + 1
      /\ \A i \in 1..(n + 1) : r[i] = Braced(p[i])
  BY <1>2, <1>3 DEF FirstBraced
<1>7. Braced(p[n + 1]) = <<k, v>> /\ <<k, v>> \in Pairs
  BY <1>4 DEF Braced, Pairs
<1> HIDE DEF q, r, k, v
<1>8. r = Append(q, <<k, v>>)
  <2> DEFINE x == <<k, v>>
  <2>1. x \in Pairs /\ r[n + 1] = x /\ \A i \in 1..n : r[i] = q[i]
    BY <1>3, <1>5, <1>6, <1>7
  <2> HIDE DEF x
  <2>2. r = Append(q, x)
    BY <1>5, <1>6, <2>1, AppendIs
  <2> QED BY <2>2 DEF x
<1>9. Grouped(r) = Inserted(Grouped(q), k, v)
  <2>1. q \in Seq(Texts \X Texts)
    BY <1>5 DEF Pairs
  <2>2. Grouped(Append(q, <<k, v>>)) = Inserted(Grouped(q), k, v)
    BY <1>4, <2>1, GroupedMore
  <2> QED BY <1>8, <2>2
<1> QED BY <1>1, <1>4, <1>9 DEF q, r, k, v

(* What the client has made of the first m pairs. *)
Cleans(p) == \A i \in 1..Len(p) : Clean(p[i])
Took(l, p, m) == Cleans(p) => l = Grouped(Kept(p, m))

LEMMA TookNone == Took(NoneYet, <<>>, 0)
  BY KeptNone, NoneGrouped DEF Took

LEMMA TookPush ==
  ASSUME NEW l, NEW p \in Seq(Pairs), NEW m \in 0..Len(p), NEW x \in Pairs,
         Took(l, p, m)
  PROVE  Took(l, Append(p, x), m)
<1> DEFINE s == Append(p, x)
<1>1. /\ Len(p) \in Nat /\ Len(s) = Len(p) + 1
      /\ \A i \in 1..Len(p) : s[i] = p[i]
  BY AddOne
<1>2. Kept(s, m) = Kept(p, m)
  BY KeptSame
<1> HIDE DEF s
<1>3. ASSUME Cleans(s) PROVE Cleans(p)
  <2>1. \A i \in 1..Len(p) : i \in 1..Len(s)
    BY <1>1
  <2>2. \A i \in 1..Len(s) : Clean(s[i])
    BY <1>3 DEF Cleans
  <2>3. ASSUME NEW i \in 1..Len(p) PROVE Clean(p[i])
    <3>1. Clean(s[i]) /\ s[i] = p[i]
      BY <1>1, <2>1, <2>2
    <3> QED BY <3>1
  <2> QED BY <2>3 DEF Cleans
<1> QED BY <1>2, <1>3 DEF Took, s

LEMMA TookMore ==
  ASSUME NEW l, NEW p \in Seq(Pairs), NEW m \in Nat, m < Len(p), Took(l, p, m)
  PROVE  /\ p[m + 1][1] # <<>> /\ p[m + 1][2] # <<>> =>
              Took(Inserted(l, p[m + 1][1], p[m + 1][2]), p, m + 1)
         /\ p[m + 1][1] = <<>> \/ p[m + 1][2] = <<>> => Took(l, p, m + 1)
<1>1. m + 1 <= Len(p) /\ p \in Seq(Texts \X Texts)
  BY DEF Pairs
<1>3. KeptStep(p, m)
  BY <1>1, KeptMore
<1>2. /\ p[m + 1][1] # <<>> /\ p[m + 1][2] # <<>> =>
           Grouped(Kept(p, m + 1)) =
             Inserted(Grouped(Kept(p, m)), p[m + 1][1], p[m + 1][2])
      /\ p[m + 1][1] = <<>> \/ p[m + 1][2] = <<>> =>
           Kept(p, m + 1) = Kept(p, m)
  BY <1>3 DEF KeptStep
<1> QED BY <1>2 DEF Took

-----------------------------------------------------------------------------
(* Whatever scripts push, the requests, or what is left of them, come      *)
(* before all results.                                                     *)
Asked == IF mappers = {} THEN 2 ELSE IF reducers = {} THEN 1 ELSE 0
RequestsFirst ==
  /\ \/ mappers = {} /\ reducers = {}
     \/ mappers = {"M4"} /\ reducers = {}
     \/ mappers = {"M4"} /\ reducers = {"R1"}
  /\ Asked <= Len(toClient)
  /\ Asked = 2 => toClient[1] = RequestM
  /\ Asked > 0 => toClient[Asked] = RequestR
  /\ \A i \in 1..Len(toClient) : i > Asked => IsResult(toClient[i])

Typed ==
  /\ pushed \in Seq(Pairs) /\ reduced \in Seq(Pairs) /\ finished \in BOOLEAN
  /\ toReducer \in Seq(Texts) /\ toClient \in Seq(Texts)

AnyScript == Typed /\ RequestsFirst /\ (exited => Asked = 0)

LEMMA TypesDiffer == <<"5">> # <<"7">>
<1>1. <<"5">>[1] = "5" /\ <<"7">>[1] = "7" /\ "5" # "7"
  OBVIOUS
<1> QED BY <1>1

(* What the client reads: a request while it has asked, and then results.  *)
LEMMA HeadRead ==
  ASSUME Typed, RequestsFirst, toClient # <<>>
  PROVE  /\ Asked \in {0, 1, 2}
         /\ Asked > 0 <=> Fields[1] = <<"7">>
         /\ Asked = 0 <=> Fields[1] = <<"5">>
<1> DEFINE m == Head(toClient)
<1>1. m = toClient[1] /\ 1 \in 1..Len(toClient) /\ Len(toClient) \in Nat
  BY ReadOne DEF Typed
<1>2. Fields = split(m)
  BY DEF Fields
<1> HIDE DEF m
<1>3. Asked \in {0, 1, 2}
  BY DEF Asked
<1>4. CASE Asked > 0
  <2>1. m = RequestM \/ m = RequestR
    BY <1>1, <1>3, <1>4 DEF RequestsFirst
  <2>2. Fields[1] = <<"7">>
    BY <1>2, <2>1, Requests
  <2> QED BY <1>3, <1>4, <2>2, TypesDiffer
<1>5. CASE Asked = 0
  <2>1. IsResult(m)
    BY <1>1, <1>5 DEF RequestsFirst
  <2>2. PICK k \in Texts, v \in Texts : m = Payload("5", k, v)
    BY <2>1 DEF IsResult
  <2>3. Fields[1] = <<"5">>
    BY <1>2, <2>2, ResultFields
  <2> QED BY <1>3, <1>5, <2>3, TypesDiffer
<1> QED BY <1>3, <1>4, <1>5

(* Each step keeps AnyScript. *)
LEMMA AnyInit == Init => AnyScript
<1> SUFFICES ASSUME Init PROVE AnyScript
  OBVIOUS
<1>1. toClient = <<RequestM, RequestR>>
  BY DEF Init, RequestM, RequestR
<1>2. /\ toClient \in Seq(Texts) /\ Len(toClient) = 2
      /\ toClient[1] = RequestM /\ toClient[2] = RequestR
  BY <1>1, Requests DEF Texts
<1>3. Typed
  <2>1. <<>> \in Seq(Pairs) /\ <<>> \in Seq(Texts)
    OBVIOUS
  <2>2. /\ pushed = <<>> /\ finished = FALSE /\ toReducer = <<>> /\ reduced = <<>>
    BY DEF Init
  <2> QED BY <1>2, <2>1, <2>2 DEF Typed
<1>5. mappers = {} /\ reducers = {} /\ Asked = 2 /\ ~exited
  BY DEF Init, Asked
<1>6. RequestsFirst
  BY <1>2, <1>5 DEF RequestsFirst
<1> QED BY <1>3, <1>5, <1>6 DEF AnyScript

(* Steps that leave the client and what it is sent alone, and steps that   *)
(* send it a result.                                                       *)
LEMMA ClientSame ==
  ASSUME AnyScript, UNCHANGED <<toClient, mappers, reducers, exited>>
  PROVE  RequestsFirst' /\ (exited' => Asked' = 0)
<1>1. Asked' = Asked
  BY DEF Asked
<1>2. RequestsFirst'
  BY <1>1 DEF AnyScript, RequestsFirst, RequestM, RequestR
<1> QED BY <1>1, <1>2 DEF AnyScript

LEMMA ClientSent ==
  ASSUME AnyScript, NEW m \in Texts, IsResult(m),
         toClient' = Append(toClient, m), UNCHANGED <<mappers, reducers, exited>>
  PROVE  /\ toClient' \in Seq(Texts)
         /\ RequestsFirst' /\ (exited' => Asked' = 0)
<1>1. Asked' = Asked /\ Asked \in {0, 1, 2}
  BY DEF Asked
<1>2. RequestsFirst
  BY DEF AnyScript
<1>3. /\ toClient' \in Seq(Texts) /\ Len(toClient) \in Nat
      /\ Len(toClient') = Len(toClient) + 1 /\ toClient'[Len(toClient) + 1] = m
      /\ \A i \in 1..Len(toClient) : toClient'[i] = toClient[i]
  BY AddOne DEF AnyScript, Typed
<1>4. Asked <= Len(toClient)
  BY <1>2 DEF RequestsFirst
<1>5. /\ Asked' <= Len(toClient')
      /\ Asked' = 2 => toClient'[1] = RequestM
      /\ Asked' > 0 => toClient'[Asked'] = RequestR
  BY <1>1, <1>2, <1>3, <1>4 DEF RequestsFirst
<1>6. ASSUME NEW i \in 1..Len(toClient'), i > Asked'
      PROVE  IsResult(toClient'[i])
  <2>1. CASE i \in 1..Len(toClient)
    BY <1>1, <1>2, <1>3, <1>6, <2>1 DEF RequestsFirst
  <2>2. CASE i = Len(toClient) + 1
    BY <1>3, <2>2
  <2> QED BY <1>3, <2>1, <2>2
<1>7. RequestM' = RequestM /\ RequestR' = RequestR
  BY DEF RequestM, RequestR
<1>8. \/ mappers' = {} /\ reducers' = {}
      \/ mappers' = {"M4"} /\ reducers' = {}
      \/ mappers' = {"M4"} /\ reducers' = {"R1"}
  BY <1>2 DEF RequestsFirst
<1>9. RequestsFirst'
  BY <1>5, <1>6, <1>7, <1>8 DEF RequestsFirst
<1> QED BY <1>1, <1>3, <1>9 DEF AnyScript

(* The two processes before the client. *)
LEMMA AnyWorker ==
  ASSUME AnyScript,
         \/ \E k \in PushTexts, v \in PushTexts : Push(k, v)
         \/ \E k \in ReplyTexts, v \in ReplyTexts : start_process(k, v)
         \/ Finish \/ ReducerPair \/ ReducerMarker \/ EndRound
  PROVE  AnyScript'
<1>0. Typed
  BY DEF AnyScript
<1>1. ASSUME NEW k \in PushTexts, NEW v \in PushTexts, Push(k, v)
      PROVE  AnyScript'
  <2>1. /\ pushed' = Append(pushed, <<k, v>>)
        /\ toReducer' = Append(toReducer, Payload("4", k, v))
        /\ UNCHANGED <<finished, toClient, reduced, mappers, reducers, exited>>
    BY <1>1 DEF Push, clientVars
  <2>2. Payload("4", k, v) \in Texts /\ <<k, v>> \in Pairs
    BY PushedAre, PayloadIs
  <2>3. Typed'
    BY <1>0, <2>1, <2>2, AddOne DEF Typed
  <2> QED BY <2>1, <2>3, ClientSame DEF AnyScript
<1>2. ASSUME NEW k \in ReplyTexts, NEW v \in ReplyTexts, start_process(k, v)
      PROVE  AnyScript'
  <2> DEFINE m == Payload("5", k, v)
  <2>1. /\ reduced' = Append(reduced, <<k, v>>) /\ toClient' = Append(toClient, m)
        /\ UNCHANGED <<pushed, finished, toReducer, mappers, reducers, exited>>
    BY <1>2 DEF start_process, clientVars
  <2>2. m \in Texts /\ <<k, v>> \in Pairs /\ IsResult(m)
    BY PushedAre, PayloadIs DEF IsResult
  <2> HIDE DEF m
  <2>3. /\ toClient' \in Seq(Texts)
        /\ RequestsFirst' /\ (exited' => Asked' = 0)
    BY <2>1, <2>2, ClientSent
  <2>4. Typed'
    BY <1>0, <2>1, <2>2, <2>3, AddOne DEF Typed
  <2> QED BY <2>3, <2>4 DEF AnyScript
<1>3. CASE Finish
  <2> DEFINE m == Marker("4")
  <2>1. /\ finished' = TRUE /\ toReducer' = Append(toReducer, m)
        /\ UNCHANGED <<pushed, toClient, reduced, mappers, reducers, exited>>
    BY <1>3 DEF Finish, clientVars, Marker
  <2>2. m \in Texts
    BY MarkerIs
  <2> HIDE DEF m
  <2>3. Typed'
    BY <1>0, <2>1, <2>2, AddOne DEF Typed
  <2> QED BY <2>1, <2>3, ClientSame DEF AnyScript
<1>4. CASE ReducerPair \/ ReducerMarker
  <2>1. /\ toReducer # <<>> /\ toReducer' = Tail(toReducer)
        /\ UNCHANGED <<pushed, finished, toClient, reduced, mappers, reducers,
                       exited>>
    BY <1>4 DEF ReducerPair, ReducerMarker, ReducerReads, clientVars
  <2>2. Typed'
    BY <1>0, <2>1, ReadOne DEF Typed
  <2> QED BY <2>1, <2>2, ClientSame DEF AnyScript
<1>5. CASE EndRound
  <2> DEFINE m == Marker("5")
  <2>1. /\ toClient' = Append(toClient, m)
        /\ UNCHANGED <<pushed, finished, toReducer, reduced, mappers, reducers,
                       exited>>
    BY <1>5 DEF EndRound, clientVars, Marker
  <2>2. m \in Texts /\ IsResult(m)
    BY MarkerIs
  <2> HIDE DEF m
  <2>3. /\ toClient' \in Seq(Texts)
        /\ RequestsFirst' /\ (exited' => Asked' = 0)
    BY <2>1, <2>2, ClientSent
  <2>4. Typed'
    BY <1>0, <2>1, <2>3 DEF Typed
  <2> QED BY <2>3, <2>4 DEF AnyScript
<1> QED BY <1>1, <1>2, <1>3, <1>4, <1>5

LEMMA ClientTakes ==
  ASSUME AnyScript, ClientReads
  PROVE  /\ Typed' /\ toClient # <<>> /\ ~exited
         /\ toClient' = Tail(toClient)
         /\ toClient' \in Seq(Texts) /\ Len(toClient') = Len(toClient) - 1
         /\ Len(toClient) \in Nat
         /\ \A i \in 1..Len(toClient') :
              i + 1 \in 1..Len(toClient) /\ toClient'[i] = toClient[i + 1]
         /\ Len(toClient) > 0 /\ Head(toClient) = toClient[1]
<1>1. /\ toClient # <<>> /\ toClient' = Tail(toClient) /\ ~exited
      /\ UNCHANGED <<pushed, finished, toReducer, reduced>>
  BY DEF ClientReads
<1>2. Typed /\ toClient \in Seq(Texts)
  BY DEF AnyScript, Typed
<1>4. Typed'
  BY <1>1, <1>2, ReadOne DEF Typed
<1> QED BY <1>1, <1>2, <1>4, ReadOne

(* The client reads a request, and has one less to read. *)
LEMMA RequestRead ==
  ASSUME AnyScript, HandleRequest
  PROVE  /\ Asked \in {1, 2} /\ Asked' = Asked - 1
         /\ \/ /\ Asked = 2 /\ mappers' = {"M4"} /\ reducers' = {}
               /\ toClient[2] = RequestR
            \/ Asked = 1 /\ mappers' = {"M4"} /\ reducers' = {"R1"}
<1>1. /\ ClientReads /\ Fields[1] = <<"7">>
      /\ mappers' = mappers \cup Registered(Fields, {"1", "3"})
      /\ reducers' = reducers \cup Registered(Fields, {"2", "4"})
  BY DEF HandleRequest
<1>2. toClient # <<>> /\ Head(toClient) = toClient[1]
  BY <1>1, ClientTakes
<1>3. Asked \in {0, 1, 2} /\ Asked > 0
  BY <1>1, <1>2, HeadRead DEF AnyScript
<1>4. RequestsFirst
  BY DEF AnyScript
<1>5. \/ /\ Asked = 2 /\ mappers = {} /\ reducers = {}
         /\ mappers' = {"M4"} /\ reducers' = {}
         /\ toClient[1] = RequestM /\ toClient[2] = RequestR
      \/ /\ Asked = 1 /\ mappers = {"M4"} /\ reducers = {}
         /\ mappers' = {"M4"} /\ reducers' = {"R1"}
  <2>1. CASE mappers = {} /\ reducers = {}
    <3>1. Asked = 2
      BY <2>1 DEF Asked
    <3>2. toClient[1] = RequestM /\ toClient[2] = RequestR
      BY <1>4, <3>1 DEF RequestsFirst
    <3>3. Fields = split(RequestM)
      BY <1>2, <3>2 DEF Fields
    <3>4. mappers' = {"M4"} /\ reducers' = {}
      BY <1>1, <2>1, <3>3, Requests
    <3> QED BY <2>1, <3>1, <3>2, <3>4
  <2>2. CASE mappers = {"M4"} /\ reducers = {}
    <3>1. Asked = 1
      BY <2>2 DEF Asked
    <3>2. toClient[1] = RequestR
      BY <1>4, <3>1 DEF RequestsFirst
    <3>3. Fields = split(RequestR)
      BY <1>2, <3>2 DEF Fields
    <3>4. mappers' = {"M4"} /\ reducers' = {"R1"}
      BY <1>1, <2>2, <3>3, Requests
    <3> QED BY <2>2, <3>1, <3>4
  <2>3. ~(mappers = {"M4"} /\ reducers = {"R1"})
    BY <1>3 DEF Asked
  <2> QED BY <1>4, <2>1, <2>2, <2>3 DEF RequestsFirst
<1>6. Asked' = Asked - 1
  BY <1>5 DEF Asked
<1> QED BY <1>3, <1>5, <1>6

LEMMA AnyRequest ==
  ASSUME AnyScript, HandleRequest
  PROVE  AnyScript'
<1>1. ClientReads /\ exited' = exited
  BY DEF HandleRequest
<1>2. /\ Typed' /\ ~exited /\ Len(toClient) \in Nat
      /\ Len(toClient') = Len(toClient) - 1
      /\ \A i \in 1..Len(toClient') :
           i + 1 \in 1..Len(toClient) /\ toClient'[i] = toClient[i + 1]
  BY <1>1, ClientTakes
<1>3. /\ Asked \in {1, 2} /\ Asked' = Asked - 1
      /\ \/ /\ Asked = 2 /\ mappers' = {"M4"} /\ reducers' = {}
            /\ toClient[2] = RequestR
         \/ Asked = 1 /\ mappers' = {"M4"} /\ reducers' = {"R1"}
  BY RequestRead
<1>4. RequestsFirst /\ Asked <= Len(toClient)
  BY DEF AnyScript, RequestsFirst
<1>7. \A i \in 1..Len(toClient') : i > Asked' => IsResult(toClient'[i])
  <2> SUFFICES ASSUME NEW i \in 1..Len(toClient'), i > Asked'
               PROVE  IsResult(toClient[i + 1])
    BY <1>2
  <2>1. i + 1 \in 1..Len(toClient) /\ i + 1 > Asked
    BY <1>2, <1>3
  <2> QED BY <1>4, <2>1 DEF RequestsFirst
<1>8. RequestsFirst'
  <2>1. Asked' <= Len(toClient')
    BY <1>2, <1>3, <1>4
  <2>2. Asked' # 2
    BY <1>3
  <2>3. ASSUME Asked' > 0 PROVE toClient'[Asked'] = RequestR
    <3>1. Asked = 2 /\ Asked' = 1 /\ toClient[2] = RequestR
      BY <1>3, <2>3
    <3>2. 1 \in 1..Len(toClient')
      BY <1>2, <1>4, <3>1
    <3> QED BY <1>2, <3>1, <3>2
  <2>4. RequestR' = RequestR
    BY DEF RequestR
  <2>5. mappers' = {"M4"} /\ (reducers' = {} \/ reducers' = {"R1"})
    BY <1>3
  <2> QED BY <1>7, <2>1, <2>2, <2>3, <2>4, <2>5 DEF RequestsFirst
<1> QED BY <1>1, <1>2, <1>8 DEF AnyScript

(* A result is read when no request is left, and leaves the roles. *)
LEMMA ResultRead ==
  ASSUME AnyScript, HandleMarker \/ HandlePair \/ HandleOther
  PROVE  /\ ClientReads /\ UNCHANGED <<mappers, reducers>>
         /\ Asked = 0 /\ Asked' = 0 /\ reducers = {"R1"}
<1>1. ClientReads /\ Fields[1] = <<"5">> /\ UNCHANGED <<mappers, reducers>>
  BY DEF HandleMarker, HandlePair, HandleOther, Result
<1>2. toClient # <<>>
  BY <1>1, ClientTakes
<1>3. Asked = 0
  BY <1>1, <1>2, HeadRead DEF AnyScript
<1>4. Asked' = 0
  BY <1>1, <1>3 DEF Asked
<1>5. reducers = {"R1"}
  BY <1>3 DEF Asked, AnyScript, RequestsFirst
<1> QED BY <1>1, <1>3, <1>4, <1>5

LEMMA AnyResult ==
  ASSUME AnyScript, HandleMarker \/ HandlePair \/ HandleOther
  PROVE  AnyScript'
<1>1. /\ ClientReads /\ UNCHANGED <<mappers, reducers>>
      /\ Asked = 0 /\ Asked' = 0
  BY ResultRead
<1>2. /\ Typed' /\ Len(toClient) \in Nat /\ Len(toClient') = Len(toClient) - 1
      /\ Len(toClient) > 0
      /\ \A i \in 1..Len(toClient') :
           i + 1 \in 1..Len(toClient) /\ toClient'[i] = toClient[i + 1]
  BY <1>1, ClientTakes
<1>5. \A i \in 1..Len(toClient') : IsResult(toClient'[i])
  <2> SUFFICES ASSUME NEW i \in 1..Len(toClient')
               PROVE  IsResult(toClient[i + 1])
    BY <1>2
  <2>1. i + 1 \in 1..Len(toClient) /\ i + 1 > Asked
    BY <1>1, <1>2
  <2> QED BY <2>1 DEF AnyScript, RequestsFirst
<1>6. RequestsFirst'
  <2>1. Asked' <= Len(toClient') /\ ~(Asked' > 0) /\ Asked' # 2
    BY <1>1, <1>2
  <2>3. \/ mappers' = {} /\ reducers' = {}
        \/ mappers' = {"M4"} /\ reducers' = {}
        \/ mappers' = {"M4"} /\ reducers' = {"R1"}
    BY <1>1 DEF AnyScript, RequestsFirst
  <2> QED BY <1>5, <2>1, <2>3 DEF RequestsFirst
<1> QED BY <1>1, <1>2, <1>6 DEF AnyScript

LEMMA AnyNext == AnyScript /\ [Next]_vars => AnyScript'
<1> SUFFICES ASSUME AnyScript, [Next]_vars PROVE AnyScript'
  OBVIOUS
<1>1. CASE \/ \E k \in PushTexts, v \in PushTexts : Push(k, v)
           \/ \E k \in ReplyTexts, v \in ReplyTexts : start_process(k, v)
           \/ Finish \/ ReducerPair \/ ReducerMarker \/ EndRound
  BY <1>1, AnyWorker
<1>2. CASE HandleRequest
  BY <1>2, AnyRequest
<1>3. CASE HandleMarker \/ HandlePair \/ HandleOther
  BY <1>3, AnyResult
<1>4. CASE UNCHANGED vars
  <2>1. Typed' /\ UNCHANGED <<toClient, mappers, reducers, exited>>
    BY <1>4 DEF vars, AnyScript, Typed
  <2> QED BY <2>1, ClientSame DEF AnyScript
<1> QED BY <1>1, <1>2, <1>3, <1>4 DEF Next, ReducerStep, ClientStep

LEMMA AlwaysAny == Spec => []AnyScript
  BY AnyInit, AnyNext, PTL DEF Spec

(* Workers are registered in the role of their request, and the client     *)
(* does not end before it knows both.                                      *)
THEOREM RolesAreRead == Spec => []RolesRead
<1>1. AnyScript => RolesRead
  <2> SUFFICES ASSUME AnyScript PROVE RolesRead
    OBVIOUS
  <2>1. mappers \subseteq {"M4"} /\ reducers \subseteq {"R1"}
    BY DEF AnyScript, RequestsFirst
  <2>2. ASSUME exited PROVE mappers # {} /\ reducers # {}
    BY <2>2 DEF AnyScript, Asked
  <2> QED BY <2>1, <2>2 DEF RolesRead
<1> QED BY <1>1, AlwaysAny, PTL

-----------------------------------------------------------------------------
(* While the map script pushes no pair of two empty texts, the reducer     *)
(* reads pair after pair and then the end of the round, with nothing       *)
(* behind it; nothing is sent to the client before.                        *)
NoEmpty(p) == \A i \in 1..Len(p) : ~Empty(p[i])
NotBlank(p) == \A i \in 1..Len(p) : ~Blank(p[i])

Reading(n) ==
  /\ state = "EXPECT_DATA" /\ ~exited /\ reduced = <<>>
  /\ Collected(buff, pushed, n)
  /\ Queue(toReducer, "4", 0, pushed, n, finished)
  /\ Len(toClient) = Asked
AllRead ==
  /\ state # "EXPECT_DATA" /\ finished /\ toReducer = <<>>
  /\ Collected(buff, pushed, Len(pushed))
MapSide ==
  NoEmpty(pushed) => \/ \E n \in 0..Len(pushed) : Reading(n)
                     \/ AllRead

(* If no reply is of nothing but separators either, the client reads reply *)
(* after reply, and the end of the round last.                             *)
Answering(m) ==
  /\ ~exited /\ reducers_done = 0
  /\ Queue(toClient, "5", Asked, reduced, m, state = "WAIT_NEXT")
  /\ Took(last_result, reduced, m)
Over ==
  /\ exited /\ state = "WAIT_NEXT" /\ toClient = <<>>
  /\ Took(last_result, reduced, Len(reduced))
ReduceSide ==
  NoEmpty(pushed) /\ NotBlank(reduced) =>
    \/ \E m \in 0..Len(reduced) : Answering(m)
    \/ Over

LEMMA Fewer ==
  ASSUME NEW p \in Seq(Pairs), NEW x \in Pairs
  PROVE  /\ NoEmpty(Append(p, x)) => NoEmpty(p)
         /\ NotBlank(Append(p, x)) => NotBlank(p)
<1> DEFINE s == Append(p, x)
<1>1. \A i \in 1..Len(p) : i \in 1..Len(s) /\ s[i] = p[i]
  <2>1. /\ Len(p) \in Nat /\ Len(s) = Len(p) + 1
        /\ \A i \in 1..Len(p) : s[i] = p[i]
    BY AddOne
  <2> HIDE DEF s
  <2> QED BY <2>1
<1> HIDE DEF s
<1>2. ASSUME NoEmpty(s), NEW i \in 1..Len(p) PROVE ~Empty(p[i])
  <2>1. i \in 1..Len(s) /\ s[i] = p[i]
    BY <1>1
  <2>2. ~Empty(s[i])
    BY <1>2, <2>1 DEF NoEmpty
  <2> QED BY <2>1, <2>2
<1>3. ASSUME NotBlank(s), NEW i \in 1..Len(p) PROVE ~Blank(p[i])
  <2>1. i \in 1..Len(s) /\ s[i] = p[i]
    BY <1>1
  <2>2. ~Blank(s[i])
    BY <1>3, <2>1 DEF NotBlank
  <2> QED BY <2>1, <2>2
<1> QED BY <1>2, <1>3 DEF NoEmpty, NotBlank, s

LEMMA PairAt ==
  ASSUME NEW p \in Seq(Pairs), NEW i \in 1..Len(p)
  PROVE  p[i][1] \in Texts /\ p[i][2] \in Texts /\ p[i] = <<p[i][1], p[i][2]>>
<1>1. p[i] \in Texts \X Texts
  BY DEF Pairs
<1> QED BY <1>1

LEMMA SidesInit == Init => MapSide /\ ReduceSide
<1> SUFFICES ASSUME Init PROVE MapSide /\ ReduceSide
  OBVIOUS
<1>1. /\ pushed = <<>> /\ finished = FALSE /\ toReducer = <<>> /\ reduced = <<>>
      /\ state = "EXPECT_DATA" /\ buff = NoneYet /\ last_result = NoneYet
      /\ exited = FALSE /\ reducers_done = 0 /\ mappers = {}
      /\ toClient = <<RequestM, RequestR>>
  BY DEF Init, RequestM, RequestR
<1>2. Asked = 2 /\ Len(toClient) = 2
  BY <1>1 DEF Asked
<1>3. Queue(toReducer, "4", 0, pushed, 0, finished)
  BY <1>1 DEF Queue
<1>4. Queue(toClient, "5", Asked, reduced, 0, state = "WAIT_NEXT")
  BY <1>1, <1>2 DEF Queue
<1>5. Reading(0) /\ Answering(0)
  BY <1>1, <1>2, <1>3, <1>4, CollectedNone, TookNone DEF Reading, Answering
<1>6. 0 \in 0..Len(pushed) /\ 0 \in 0..Len(reduced)
  BY <1>1
<1> QED BY <1>5, <1>6 DEF MapSide, ReduceSide

(* The map script and the reader of its pairs. *)
LEMMA MapPush ==
  ASSUME AnyScript, MapSide, NEW k \in PushTexts, NEW v \in PushTexts, Push(k, v)
  PROVE  MapSide' /\ (NoEmpty(pushed') => NoEmpty(pushed))
<1> DEFINE x == Payload("4", k, v)
<1>1. /\ finished = FALSE /\ pushed' = Append(pushed, <<k, v>>)
      /\ toReducer' = Append(toReducer, x)
      /\ UNCHANGED <<finished, toClient, state, buff, reduced,
                     mappers, reducers, exited>>
  BY DEF Push, clientVars, AnyScript, Typed
<1>2. k \in Texts /\ v \in Texts /\ x \in Texts /\ <<k, v>> \in Pairs
  BY PushedAre, PayloadIs
<1>3. pushed \in Seq(Pairs) /\ toReducer \in Seq(Texts)
  BY DEF AnyScript, Typed
<1>4. NoEmpty(pushed') => NoEmpty(pushed)
  BY <1>1, <1>2, <1>3, Fewer
<1>5. Asked' = Asked
  BY <1>1 DEF Asked
<1>6. ASSUME NoEmpty(pushed') PROVE \E n \in 0..Len(pushed') : Reading(n)'
  <2>1. PICK n \in 0..Len(pushed) : Reading(n)
    BY <1>1, <1>4, <1>6 DEF MapSide, AllRead
  <2>2. Collected(buff, pushed', n)
    BY <1>1, <1>2, <1>3, <2>1, CollectedPush DEF Reading
  <2>3. Queue(toReducer', "4", 0, pushed', n, FALSE)
    <3>1. Queue(toReducer, "4", 0, pushed, n, FALSE)
      BY <1>1, <2>1 DEF Reading
    <3> QED BY <1>1, <1>2, <1>3, <3>1, QueueMore
  <2>4. Reading(n)'
    BY <1>1, <1>5, <2>1, <2>2, <2>3 DEF Reading
  <2>5. n \in 0..Len(pushed')
    <3>1. Len(pushed') = Len(pushed) + 1 /\ Len(pushed) \in Nat
      BY <1>1, <1>2, <1>3, AddOne
    <3> QED BY <3>1
  <2> QED BY <2>4, <2>5
<1> QED BY <1>4, <1>6 DEF MapSide

LEMMA MapFinish ==
  ASSUME AnyScript, MapSide, Finish
  PROVE  MapSide'
<1>1. /\ finished = FALSE /\ finished' = TRUE
      /\ toReducer' = Append(toReducer, Marker("4"))
      /\ UNCHANGED <<pushed, toClient, state, buff, reduced,
                     mappers, reducers, exited>>
  BY DEF Finish, clientVars, AnyScript, Typed, Marker
<1>2. pushed \in Seq(Pairs) /\ toReducer \in Seq(Texts)
  BY DEF AnyScript, Typed
<1>3. Asked' = Asked
  BY <1>1 DEF Asked
<1>4. ASSUME NoEmpty(pushed) PROVE \E n \in 0..Len(pushed) : Reading(n)'
  <2>1. PICK n \in 0..Len(pushed) : Reading(n)
    BY <1>1, <1>4 DEF MapSide, AllRead
  <2>2. Queue(toReducer', "4", 0, pushed, n, TRUE)
    <3>1. Queue(toReducer, "4", 0, pushed, n, FALSE)
      BY <1>1, <2>1 DEF Reading
    <3> QED BY <1>1, <1>2, <3>1, MarkerIs, QueueEnd
  <2>3. Reading(n)'
    BY <1>1, <1>3, <2>1, <2>2 DEF Reading
  <2> QED BY <2>3
<1> QED BY <1>1, <1>4 DEF MapSide

(* What the reducer makes of a pair, and of the end of a round. *)
ReadAs(x, k, v) ==
  /\ BothEmpty(Key(x), Rest(x)) <=> BothEmpty(k, v)
  /\ Plain(k) => Key(x) = k /\ Rest(x) = v

LEMMA PairRead ==
  ASSUME NEW k \in Texts, NEW v \in Texts
  PROVE  ReadAs(Income(Payload("4", k, v)), k, v)
<1>1. pload_sep \in Word /\ "4" \in Word
  BY Letters
<1>2. k \in Seq(Word) /\ v \in Seq(Word)
  BY DEF Texts
<1> QED BY <1>1, <1>2, IncomeRead DEF ReadAs

(* What the reducer reads is the next pair, or the end of the round. *)
LEMMA MapRead ==
  ASSUME AnyScript, MapSide, NoEmpty(pushed), ReducerPair \/ ReducerMarker
  PROVE  /\ state = "EXPECT_DATA" /\ MapSide'
         /\ (state' = "EXPECT_DATA" \/ state' = "start_process")
<1>1. /\ toReducer # <<>> /\ toReducer' = Tail(toReducer)
      /\ UNCHANGED <<pushed, finished, toClient, reduced, mappers, reducers,
                     exited>>
  BY DEF ReducerPair, ReducerMarker, ReducerReads, clientVars
<1>2. /\ pushed \in Seq(Pairs) /\ toReducer \in Seq(Texts)
      /\ Len(pushed) \in Nat /\ finished \in BOOLEAN
  BY DEF AnyScript, Typed
<1>3. PICK n \in 0..Len(pushed) : Reading(n)
  BY <1>1 DEF MapSide, AllRead
<1>4. /\ state = "EXPECT_DATA" /\ Collected(buff, pushed, n) /\ buffer = buff
      /\ Queue(toReducer, "4", 0, pushed, n, finished)
  BY <1>3 DEF Reading, buffer
<1>5. In = Income(Head(toReducer)) /\ Asked' = Asked
  BY <1>1 DEF In, Income, Asked
<1>6. CASE n < Len(pushed)
  <2> DEFINE x == pushed[n + 1]
  <2>1. /\ Head(toReducer) = Payload("4", x[1], x[2])
        /\ Queue(Tail(toReducer), "4", 0, pushed, n + 1, finished)
    BY <1>2, <1>4, <1>6, QueueLess
  <2>2. /\ x[1] \in Texts /\ x[2] \in Texts /\ x = <<x[1], x[2]>> /\ ~Empty(x)
        /\ n + 1 \in 0..Len(pushed)
    <3>1. n + 1 \in 1..Len(pushed)
      BY <1>2, <1>6
    <3> QED BY <1>2, <3>1, PairAt DEF NoEmpty
  <2>3. PlainKeys(pushed) => Plain(x[1])
                             /\ Inserted(buff, orderjson(x[1]), x[2]) =
                                  Grouped(FirstBraced(pushed, n + 1))
    BY <1>2, <1>4, <1>6, CollectedMore
  <2> HIDE DEF x
  <2>4. /\ BothEmpty(Key(In), Rest(In)) <=> BothEmpty(x[1], x[2])
        /\ Plain(x[1]) => Key(In) = x[1] /\ Rest(In) = x[2]
    <3>1. ReadAs(Income(Payload("4", x[1], x[2])), x[1], x[2])
      BY <2>2, PairRead
    <3> QED BY <1>5, <2>1, <3>1 DEF ReadAs
  <2>5. ~BothEmpty(Key(In), Rest(In))
    BY <2>2, <2>4 DEF BothEmpty, Empty
  <2>6. /\ buff' = Inserted(buff, orderjson(Key(In)), Rest(In))
        /\ state' = "EXPECT_DATA"
    BY <1>4, <2>5 DEF ReducerPair, ReducerMarker
  <2>7. Collected(buff', pushed, n + 1)
    BY <2>3, <2>4, <2>6 DEF Collected
  <2>8. Reading(n + 1)'
    BY <1>1, <1>3, <1>5, <2>1, <2>6, <2>7 DEF Reading
  <2>9. \E i \in 0..Len(pushed') : Reading(i)'
    BY <1>1, <2>2, <2>8
  <2> QED BY <1>4, <2>6, <2>9 DEF MapSide
<1>7. CASE n = Len(pushed)
  <2>1. finished /\ Head(toReducer) = Marker("4") /\ Tail(toReducer) = <<>>
    BY <1>1, <1>2, <1>4, <1>7, QueueLast
  <2>2. BothEmpty(Key(In), Rest(In))
    <3>1. ReadAs(Income(Payload("4", <<>>, <<>>)), <<>>, <<>>)
      BY MarkerIs, PairRead
    <3>2. BothEmpty(<<>>, <<>>)
      BY DEF BothEmpty
    <3> QED BY <1>5, <2>1, <3>1, <3>2 DEF Marker, ReadAs
  <2>3. buff' = buff /\ state' = "start_process"
    BY <1>4, <2>2 DEF ReducerPair, ReducerMarker
  <2>4. AllRead'
    BY <1>1, <1>4, <1>7, <2>1, <2>3 DEF AllRead
  <2> QED BY <1>4, <2>3, <2>4 DEF MapSide
<1> QED BY <1>2, <1>6, <1>7

(* The reduce script runs when all has been read. *)
LEMMA MapReduce ==
  ASSUME AnyScript, MapSide,
         EndRound \/ \E k \in ReplyTexts, v \in ReplyTexts : start_process(k, v)
  PROVE  MapSide'
<1>1. /\ state = "start_process" /\ state' # "EXPECT_DATA"
      /\ UNCHANGED <<pushed, finished, toReducer, buff>>
  BY DEF EndRound, start_process
<1>2. AllRead => AllRead'
  BY <1>1 DEF AllRead
<1>3. \A n : ~Reading(n)
  BY <1>1 DEF Reading
<1> QED BY <1>1, <1>2, <1>3 DEF MapSide

LEMMA MapClient ==
  ASSUME AnyScript, MapSide,
         HandleRequest \/ HandleMarker \/ HandlePair \/ HandleOther
  PROVE  MapSide'
<1>1. /\ ClientReads /\ ~exited
      /\ UNCHANGED <<pushed, finished, toReducer, state, buff, reduced>>
  BY DEF HandleRequest, HandleMarker, HandlePair, HandleOther, Result, ClientReads
<1>2. AllRead => AllRead'
  BY <1>1 DEF AllRead
<1>3. ASSUME NEW n \in 0..Len(pushed), Reading(n) PROVE Reading(n)'
  <2>1. Len(toClient) = Asked /\ Len(toClient) > 0
        /\ Len(toClient') = Len(toClient) - 1
    BY <1>1, <1>3, ClientTakes DEF Reading
  <2>2. HandleRequest
    BY <2>1, ResultRead
  <2>3. Asked' = Asked - 1 /\ exited' = exited
    BY <2>2, RequestRead DEF HandleRequest
  <2> QED BY <1>1, <1>3, <2>1, <2>3 DEF Reading
<1> QED BY <1>1, <1>2, <1>3 DEF MapSide

(* What the map script and the reader of its pairs do is nothing to the    *)
(* client.                                                                 *)
LEMMA AnswerMap ==
  ASSUME AnyScript, MapSide, ReduceSide,
         \/ \E k \in PushTexts, v \in PushTexts : Push(k, v)
         \/ Finish \/ ReducerPair \/ ReducerMarker
  PROVE  ReduceSide'
<1>1. UNCHANGED <<toClient, reduced, mappers, reducers, reducers_done,
                  last_result, exited>>
  BY DEF Push, Finish, ReducerPair, ReducerMarker, ReducerReads, clientVars
<1>2. NoEmpty(pushed') =>
        NoEmpty(pushed) /\ ((state' = "WAIT_NEXT") <=> (state = "WAIT_NEXT"))
  <2>1. CASE \E k \in PushTexts, v \in PushTexts : Push(k, v)
    BY <2>1, MapPush DEF Push
  <2>2. CASE Finish
    BY <2>2 DEF Finish
  <2>3. CASE ReducerPair \/ ReducerMarker
    <3>1. pushed' = pushed
      BY <2>3 DEF ReducerPair, ReducerMarker, ReducerReads
    <3> QED BY <2>3, <3>1, MapRead
  <2> QED BY <2>1, <2>2, <2>3
<1>3. Asked' = Asked
  BY <1>1 DEF Asked
<1>4. ASSUME NoEmpty(pushed'), NotBlank(reduced')
      PROVE  (\E m \in 0..Len(reduced') : Answering(m)') \/ Over'
  <2>1. (state' = "WAIT_NEXT") = (state = "WAIT_NEXT")
    BY <1>2, <1>4
  <2>2. ASSUME NEW m \in 0..Len(reduced), Answering(m) PROVE Answering(m)'
    BY <1>1, <1>3, <2>1, <2>2 DEF Answering
  <2>3. Over => Over'
    BY <1>1, <2>1 DEF Over
  <2> QED BY <1>1, <1>2, <1>4, <2>2, <2>3 DEF ReduceSide
<1> QED BY <1>4 DEF ReduceSide

(* A reply, and the end of the round. *)
LEMMA AnswerSent ==
  ASSUME AnyScript, ReduceSide,
         NEW k \in ReplyTexts, NEW v \in ReplyTexts, start_process(k, v)
  PROVE  ReduceSide'
<1> DEFINE x == Payload("5", k, v)
<1>1. /\ state = "start_process" /\ toClient' = Append(toClient, x)
      /\ reduced' = Append(reduced, <<k, v>>)
      /\ UNCHANGED <<pushed, state, mappers, reducers, reducers_done,
                     last_result, exited>>
  BY DEF start_process, clientVars
<1>2. k \in Texts /\ v \in Texts /\ x \in Texts /\ <<k, v>> \in Pairs
  BY PushedAre, PayloadIs
<1>3. reduced \in Seq(Pairs) /\ toClient \in Seq(Texts)
  BY DEF AnyScript, Typed
<1>4. /\ Asked' = Asked /\ Asked \in Nat /\ state # "WAIT_NEXT"
      /\ (state = "WAIT_NEXT") = FALSE /\ (state' = "WAIT_NEXT") = FALSE
  BY <1>1 DEF Asked
<1>5. NotBlank(reduced') => NotBlank(reduced)
  BY <1>1, <1>2, <1>3, Fewer
<1>6. ASSUME NEW m \in 0..Len(reduced), Answering(m)
      PROVE  Answering(m)' /\ m \in 0..Len(reduced')
  <2>1. Took(last_result, reduced', m)
    BY <1>1, <1>2, <1>3, <1>6, TookPush DEF Answering
  <2>2. Queue(toClient', "5", Asked, reduced', m, FALSE)
    <3>1. Queue(toClient, "5", Asked, reduced, m, FALSE)
      BY <1>4, <1>6 DEF Answering
    <3> QED BY <1>1, <1>2, <1>3, <1>4, <3>1, QueueMore
  <2>3. Len(reduced') = Len(reduced) + 1 /\ Len(reduced) \in Nat
    BY <1>1, <1>2, <1>3, AddOne
  <2>4. Queue(toClient', "5", Asked', reduced', m, state' = "WAIT_NEXT")
    BY <1>4, <2>2
  <2>5. Answering(m)'
    BY <1>1, <1>6, <2>1, <2>4 DEF Answering
  <2> QED BY <2>3, <2>5
<1>7. ~Over
  BY <1>4 DEF Over
<1> QED BY <1>1, <1>5, <1>6, <1>7 DEF ReduceSide

LEMMA AnswerEnds ==
  ASSUME AnyScript, ReduceSide, EndRound
  PROVE  ReduceSide'
<1>1. /\ state = "start_process" /\ state' = "WAIT_NEXT"
      /\ toClient' = Append(toClient, Marker("5"))
      /\ UNCHANGED <<pushed, reduced, mappers, reducers, reducers_done,
                     last_result, exited>>
  BY DEF EndRound, clientVars, Marker
<1>2. reduced \in Seq(Pairs) /\ toClient \in Seq(Texts)
  BY DEF AnyScript, Typed
<1>3. /\ Asked' = Asked /\ Asked \in Nat /\ state # "WAIT_NEXT"
      /\ (state = "WAIT_NEXT") = FALSE /\ (state' = "WAIT_NEXT") = TRUE
  BY <1>1 DEF Asked
<1>4. ASSUME NEW m \in 0..Len(reduced), Answering(m) PROVE Answering(m)'
  <2>1. Queue(toClient', "5", Asked, reduced, m, TRUE)
    <3>1. Queue(toClient, "5", Asked, reduced, m, FALSE)
      BY <1>3, <1>4 DEF Answering
    <3> QED BY <1>1, <1>2, <1>3, <3>1, MarkerIs, QueueEnd
  <2> QED BY <1>1, <1>3, <1>4, <2>1 DEF Answering
<1>5. ~Over
  BY <1>3 DEF Over
<1> QED BY <1>1, <1>4, <1>5 DEF ReduceSide

(* What the client reads: a request, a reply, or the end of the round. *)
LEMMA AnswerRequest ==
  ASSUME AnyScript, ReduceSide, HandleRequest
  PROVE  ReduceSide'
<1>1. /\ ClientReads /\ toClient' = Tail(toClient) /\ ~exited
      /\ UNCHANGED <<pushed, reduced, state, reducers_done, last_result, exited>>
  BY DEF HandleRequest, ClientReads
<1>2. Asked \in Nat /\ Asked > 0 /\ Asked' = Asked - 1
  BY RequestRead
<1>3. reduced \in Seq(Pairs) /\ toClient \in Seq(Texts)
  BY DEF AnyScript, Typed
<1>4. ASSUME NEW m \in 0..Len(reduced), Answering(m) PROVE Answering(m)'
  <2> DEFINE e == state = "WAIT_NEXT"
  <2>1. e \in BOOLEAN /\ e' = e
    BY <1>1
  <2>2. Queue(toClient, "5", Asked, reduced, m, e)
    BY <1>4 DEF Answering
  <2> HIDE DEF e
  <2>3. Queue(Tail(toClient), "5", Asked - 1, reduced, m, e)
    BY <1>2, <1>3, <2>1, <2>2, QueueShift
  <2>4. Queue(toClient', "5", Asked', reduced', m, e')
    BY <1>1, <1>2, <2>1, <2>3
  <2> QED BY <1>1, <1>4, <2>4 DEF Answering, e
<1>5. ~Over
  BY <1>1 DEF Over
<1> QED BY <1>1, <1>4, <1>5 DEF ReduceSide

LEMMA AnswerReply ==
  ASSUME AnyScript, NotBlank(reduced), NEW m \in 0..Len(reduced), Answering(m),
         m < Len(reduced), HandleMarker \/ HandlePair \/ HandleOther
  PROVE  Answering(m + 1)' /\ m + 1 \in 0..Len(reduced')
<1> DEFINE x == reduced[m + 1]
           e == state = "WAIT_NEXT"
<1>1. /\ toClient' = Tail(toClient) /\ ~exited /\ Asked = 0 /\ Asked' = 0
      /\ UNCHANGED <<pushed, reduced, state>>
  BY ResultRead DEF ClientReads
<1>2. /\ reduced \in Seq(Pairs) /\ toClient \in Seq(Texts)
      /\ Len(reduced) \in Nat
  BY DEF AnyScript, Typed
<1>3. /\ Head(toClient) = Payload("5", x[1], x[2])
      /\ Queue(toClient', "5", Asked', reduced', m + 1, e')
  <2>1. e \in BOOLEAN /\ e' = e /\ m \in Nat
    BY <1>1
  <2>2. Queue(toClient, "5", 0, reduced, m, e)
    BY <1>1 DEF Answering
  <2> HIDE DEF e
  <2>3. /\ Head(toClient) = Payload("5", x[1], x[2])
        /\ Queue(Tail(toClient), "5", 0, reduced, m + 1, e)
    BY <1>2, <2>1, <2>2, QueueLess
  <2> QED BY <1>1, <2>1, <2>3
<1>4. m + 1 \in 1..Len(reduced)
  BY <1>2
<1>5. x[1] \in Texts /\ x[2] \in Texts /\ x = <<x[1], x[2]>> /\ ~Blank(x)
  BY <1>2, <1>4, PairAt DEF NotBlank
<1>6. /\ x[1] # <<>> /\ x[2] # <<>> =>
           Took(Inserted(last_result, x[1], x[2]), reduced, m + 1)
      /\ x[1] = <<>> \/ x[2] = <<>> => Took(last_result, reduced, m + 1)
  <2>1. Took(last_result, reduced, m) /\ m \in Nat
    BY DEF Answering
  <2> QED BY <1>2, <2>1, TookMore
<1>7. Cleans(reduced) => Clean(x)
  BY <1>4 DEF Cleans
<1> HIDE DEF x
<1>8. Fields = split(Payload("5", x[1], x[2]))
  BY <1>3 DEF Fields
<1>9. Len(Fields) # 1
  <2> DEFINE n == Len(Fields)
  <2>1. n \in Nat /\ n > 1
    BY <1>5, <1>8, ResultFields
  <2> HIDE DEF n
  <2>2. n # 1
    BY <2>1
  <2> QED BY <2>2 DEF n
<1>10. /\ HandlePair \/ HandleOther
       /\ exited' = exited /\ reducers_done' = reducers_done
  <2>1. ~HandleMarker
    BY <1>9 DEF HandleMarker
  <2>2. HandlePair \/ HandleOther
    BY <2>1
  <2> QED BY <2>1, <2>2 DEF HandlePair, HandleOther
<1>11. Took(last_result', reduced, m + 1)
  <2> SUFFICES ASSUME Cleans(reduced)
               PROVE  Took(last_result', reduced, m + 1)
    BY DEF Took
  <2>1. /\ x[1] # <<>> /\ x[2] # <<>> =>
             /\ Len(Fields) = 3
             /\ KeyAndValue(Fields)[1] = x[1] /\ KeyAndValue(Fields)[2] = x[2]
        /\ x[1] = <<>> \/ x[2] = <<>> => Len(Fields) = 2
    BY <1>5, <1>7, <1>8, CleanFields
  <2>2. CASE x[1] # <<>> /\ x[2] # <<>>
    <3>1. Len(Fields) = 3
      BY <2>1, <2>2
    <3>2. ~HandleOther
      BY <3>1 DEF HandleOther
    <3>3. last_result' = Inserted(last_result, x[1], x[2])
      BY <1>10, <2>1, <2>2, <3>2 DEF HandlePair
    <3> QED BY <1>6, <2>2, <3>3
  <2>3. CASE x[1] = <<>> \/ x[2] = <<>>
    <3>1. Len(Fields) # 3
      BY <2>1, <2>3
    <3>2. ~HandlePair
      BY <3>1 DEF HandlePair
    <3>3. last_result' = last_result
      BY <1>10, <3>2 DEF HandleOther
    <3> QED BY <1>6, <2>3, <3>3
  <2> QED BY <2>2, <2>3
<1>12. m + 1 \in 0..Len(reduced')
  BY <1>1, <1>4
<1>13. ~exited' /\ reducers_done' = 0 /\ reduced' = reduced
  BY <1>1, <1>10 DEF Answering
<1> QED BY <1>3, <1>11, <1>12, <1>13 DEF Answering, e

LEMMA AnswerLast ==
  ASSUME AnyScript, Answering(Len(reduced)),
         HandleMarker \/ HandlePair \/ HandleOther
  PROVE  Over'
<1> DEFINE e == state = "WAIT_NEXT"
<1>1. /\ toClient # <<>> /\ toClient' = Tail(toClient) /\ Asked = 0
      /\ reducers = {"R1"} /\ UNCHANGED <<pushed, reduced, state>>
  BY ResultRead DEF ClientReads
<1>2. reduced \in Seq(Pairs) /\ toClient \in Seq(Texts)
  BY DEF AnyScript, Typed
<1>3. e /\ Head(toClient) = Marker("5") /\ Tail(toClient) = <<>>
  <2>1. e \in BOOLEAN
    OBVIOUS
  <2>2. Queue(toClient, "5", 0, reduced, Len(reduced), e)
    BY <1>1 DEF Answering
  <2> HIDE DEF e
  <2> QED BY <1>1, <1>2, <2>1, <2>2, QueueLast
<1>4. Len(Fields) = 1
  BY <1>3, MarkerIs DEF Fields
<1>5. /\ exited' = (reducers_done + 1 = Cardinality(reducers))
      /\ last_result' = last_result
  BY <1>4 DEF HandleMarker, HandlePair, HandleOther
<1>6. exited'
  <2>1. reducers_done = 0
    BY DEF Answering
  <2>2. Cardinality({"R1"}) = 1
    BY FS_Singleton
  <2>3. reducers_done + 1 = Cardinality(reducers)
    BY <1>1, <2>1, <2>2
  <2> QED BY <1>5, <2>3
<1>7. Took(last_result, reduced, Len(reduced))
  BY DEF Answering
<1> QED BY <1>1, <1>3, <1>5, <1>6, <1>7 DEF Over, e

LEMMA AnswerRead ==
  ASSUME AnyScript, ReduceSide, HandleMarker \/ HandlePair \/ HandleOther
  PROVE  ReduceSide'
<1>1. ~exited /\ UNCHANGED <<pushed, reduced>>
  BY ResultRead DEF ClientReads
<1>2. ASSUME NoEmpty(pushed), NotBlank(reduced)
      PROVE  (\E m \in 0..Len(reduced') : Answering(m)') \/ Over'
  <2>1. PICK m \in 0..Len(reduced) : Answering(m)
    BY <1>1, <1>2 DEF ReduceSide, Over
  <2>2. m < Len(reduced) \/ m = Len(reduced)
    BY DEF AnyScript, Typed
  <2> QED BY <1>2, <2>1, <2>2, AnswerReply, AnswerLast
<1> QED BY <1>1, <1>2 DEF ReduceSide

-----------------------------------------------------------------------------
Sides == AnyScript /\ MapSide /\ ReduceSide

LEMMA SidesNext == Sides /\ [Next]_vars => Sides'
<1> SUFFICES ASSUME Sides, [Next]_vars PROVE Sides'
  OBVIOUS
<1>0. AnyScript /\ MapSide /\ ReduceSide /\ AnyScript'
  BY AnyNext DEF Sides
<1> SUFFICES MapSide' /\ ReduceSide'
  BY <1>0 DEF Sides
<1>1. CASE \E k \in PushTexts, v \in PushTexts : Push(k, v)
  BY <1>0, <1>1, MapPush, AnswerMap
<1>2. CASE \E k \in ReplyTexts, v \in ReplyTexts : start_process(k, v)
  BY <1>0, <1>2, MapReduce, AnswerSent
<1>3. CASE Finish
  BY <1>0, <1>3, MapFinish, AnswerMap
<1>4. CASE ReducerPair \/ ReducerMarker
  <2>1. pushed' = pushed
    BY <1>4 DEF ReducerPair, ReducerMarker, ReducerReads
  <2>2. MapSide'
    BY <1>0, <1>4, <2>1, MapRead DEF MapSide
  <2> QED BY <1>0, <1>4, <2>2, AnswerMap
<1>5. CASE EndRound
  BY <1>0, <1>5, MapReduce, AnswerEnds
<1>6. CASE HandleRequest
  BY <1>0, <1>6, MapClient, AnswerRequest
<1>7. CASE HandleMarker \/ HandlePair \/ HandleOther
  BY <1>0, <1>7, MapClient, AnswerRead
<1>8. CASE UNCHANGED vars
  <2>1. UNCHANGED <<pushed, finished, toReducer, toClient, state, buff, reduced,
                    mappers, reducers, reducers_done, last_result, exited>>
    BY <1>8 DEF vars
  <2>2. Asked' = Asked
    BY <2>1 DEF Asked
  <2>3. MapSide'
    BY <1>0, <2>1, <2>2 DEF MapSide, Reading, AllRead
  <2>4. ReduceSide'
    BY <1>0, <2>1, <2>2 DEF ReduceSide, Answering, Over
  <2> QED BY <2>3, <2>4
<1> QED BY <1>1, <1>2, <1>3, <1>4, <1>5, <1>6, <1>7, <1>8
        DEF Next, ReducerStep, ClientStep

LEMMA AlwaysSides == Spec => []Sides
<1>1. Init => Sides
  BY AnyInit, SidesInit DEF Sides
<1> QED BY <1>1, SidesNext, PTL DEF Spec

(* What holds when the client has ended. *)
LEMMA Ended ==
  ASSUME Sides, exited, NoEmpty(pushed)
  PROVE  finished /\ (NotBlank(reduced) => Over)
<1>1. AllRead
  BY DEF Sides, MapSide, Reading
<1>2. NotBlank(reduced) => Over
  BY DEF Sides, ReduceSide, Answering
<1> QED BY <1>1, <1>2 DEF AllRead

(* Whatever is pushed, the client ends early only for a pair that reads    *)
(* like the end of a round.                                                *)
THEOREM NobodyEndsEarly == Spec => []NoEarlyEnd
<1>1. Sides => NoEarlyEnd
  <2> SUFFICES ASSUME Sides, exited, NoEmpty(pushed)
               PROVE  finished /\ (toClient = <<>> \/
                                   \E i \in DOMAIN reduced : Blank(reduced[i]))
    BY DEF NoEarlyEnd, NoEmpty, Sides, AnyScript, Typed
  <2>1. finished /\ (NotBlank(reduced) => Over)
    BY Ended
  <2> QED BY <2>1 DEF Over, NotBlank, Sides, AnyScript, Typed
<1> QED BY <1>1, AlwaysSides, PTL

(* The reduce script is given, by keys and in order, all that the map      *)
(* script pushed.                                                          *)
THEOREM PushedIsGiven == Spec => []GivenIsPushed
<1>1. Sides => GivenIsPushed
  <2> SUFFICES ASSUME Sides, state # "EXPECT_DATA",
                      \A i \in DOMAIN pushed :
                        SepIn(pushed[i][1]) = {} /\ ~Empty(pushed[i])
               PROVE  buff = Grouped([i \in DOMAIN pushed |->
                               <<orderjson(pushed[i][1]), pushed[i][2]>>])
    BY DEF GivenIsPushed
  <2>1. pushed \in Seq(Pairs) /\ DOMAIN pushed = 1..Len(pushed)
    BY DEF Sides, AnyScript, Typed
  <2>2. NoEmpty(pushed) /\ PlainKeys(pushed)
    BY <2>1 DEF NoEmpty, PlainKeys, Plain, SepIn
  <2>3. AllRead
    BY <2>2 DEF Sides, MapSide, Reading
  <2>4. buff = Grouped(FirstBraced(pushed, Len(pushed)))
    BY <2>2, <2>3 DEF AllRead, Collected
  <2>5. FirstBraced(pushed, Len(pushed)) =
          [i \in DOMAIN pushed |-> <<orderjson(pushed[i][1]), pushed[i][2]>>]
    BY <2>1 DEF FirstBraced, Braced
  <2> QED BY <2>4, <2>5
<1> QED BY <1>1, AlwaysSides, PTL

(* The client ends with what the reduce script pushed. *)
LEMMA CleanNotBlank ==
  ASSUME NEW k \in Texts, NEW v \in Texts, Clean(<<k, v>>), ~Empty(<<k, v>>)
  PROVE  ~Blank(<<k, v>>)
<1> DEFINE o == k \o v
<1>1. k # <<>> \/ v # <<>>
  BY DEF Empty
<1>2. Len(o) = Len(k) + Len(v) /\ DOMAIN o = 1..Len(o)
      /\ Len(k) \in Nat /\ Len(v) \in Nat
      /\ (k # <<>> => Len(k) > 0) /\ (v # <<>> => Len(v) > 0)
  BY DEF Texts
<1>3. SepIn(o) = {}
  BY DEF Clean
<1> HIDE DEF o
<1>4. 1 \in DOMAIN o
  BY <1>1, <1>2
<1>5. SepIn(o) # DOMAIN o
  BY <1>3, <1>4
<1> QED BY <1>5 DEF Blank, o

THEOREM ReducedReachesClient == Spec => []ReducedIsRead
<1>1. Sides => ReducedIsRead
  <2> SUFFICES ASSUME Sides, exited,
                      \A i \in DOMAIN pushed : ~Empty(pushed[i]),
                      \A i \in DOMAIN reduced :
                        Clean(reduced[i]) /\ ~Empty(reduced[i])
               PROVE  last_result = Grouped(Picked(reduced, Full(reduced)))
    BY DEF ReducedIsRead
  <2>1. /\ pushed \in Seq(Pairs) /\ DOMAIN pushed = 1..Len(pushed)
        /\ reduced \in Seq(Pairs) /\ DOMAIN reduced = 1..Len(reduced)
    BY DEF Sides, AnyScript, Typed
  <2>2. NoEmpty(pushed) /\ Cleans(reduced)
    BY <2>1 DEF NoEmpty, Cleans
  <2>3. NotBlank(reduced)
    <3>1. ASSUME NEW i \in 1..Len(reduced) PROVE ~Blank(reduced[i])
      <4>1. /\ reduced[i][1] \in Texts /\ reduced[i][2] \in Texts
            /\ reduced[i] = <<reduced[i][1], reduced[i][2]>>
        BY <2>1, PairAt
      <4>2. Clean(reduced[i]) /\ ~Empty(reduced[i])
        BY <2>1
      <4> QED BY <4>1, <4>2, CleanNotBlank
    <3> QED BY <3>1 DEF NotBlank
  <2>4. last_result = Grouped(Kept(reduced, Len(reduced)))
    BY <2>2, <2>3, Ended DEF Over, Took
  <2> QED BY <2>1, <2>4, KeptAll
<1> QED BY <1>1, AlwaysSides, PTL

=============================================================================
