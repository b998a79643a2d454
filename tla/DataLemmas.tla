----------------------------- MODULE DataLemmas -----------------------------
(***************************************************************************)
(* Facts about data that the proofs share: sequences and the queues made   *)
(* of them, sums over sets and along queues, the numbers of a set in       *)
(* order, and induction over numbers and finite sets, stated for a set of  *)
(* those that are good instead of a predicate.                             *)
(***************************************************************************)
EXTENDS Subsequence, SequencesExt, FiniteSetsExt, Functions,
        FiniteSetTheorems, SequenceTheorems, TLAPS

(* SetToSeq lists every element of a finite set. *)
LEMMA SetToSeqType ==
  ASSUME NEW S, IsFiniteSet(S)
  PROVE  SetToSeq(S) \in [1..Cardinality(S) -> S] /\ Cardinality(S) \in Nat
<1>1. PICK f \in Bijection(1..Cardinality(S), S) : TRUE
  BY FS_CardinalityType DEF ExistsBijection
<1>2. f \in [1..Cardinality(S) -> S] /\ IsInjective(f)
  BY <1>1 DEF Bijection, Injection, IsInjective
<1>3. QED  BY <1>2, FS_CardinalityType DEF SetToSeq

-----------------------------------------------------------------------------
(* A function on 1..n into S is a sequence over S. *)
LEMMA FunctionIsSeq ==
  ASSUME NEW S, NEW n \in Nat, NEW f \in [1..n -> S]
  PROVE  f \in Seq(S)
  OBVIOUS

LEMMA SeqMonotone ==
  ASSUME NEW T, NEW S \in SUBSET T, NEW q \in Seq(S)
  PROVE  q \in Seq(T)
  OBVIOUS

LEMMA Concatenation ==
  ASSUME NEW S, NEW p \in Seq(S), NEW q \in Seq(S)
  PROVE  /\ Len(p \o q) = Len(p) + Len(q)
         /\ \A i \in 1..Len(p) : (p \o q)[i] = p[i]
         /\ \A i \in 1..Len(q) : (p \o q)[Len(p) + i] = q[i]
  OBVIOUS

(* Queues and what is in them. *)
LEMMA ToSetQueue ==
  ASSUME NEW S, NEW q \in Seq(S)
  PROVE  /\ ToSet(q) \subseteq S
         /\ q # <<>> => ToSet(q) = {Head(q)} \cup ToSet(Tail(q))
         /\ \A p \in Seq(S) : ToSet(q \o p) = ToSet(q) \cup ToSet(p)
         /\ \A x \in S : ToSet(Append(q, x)) = ToSet(q) \cup {x}
<1>1. ToSet(q) \subseteq S
  BY DEF ToSet
<1>2. ASSUME q # <<>>
      PROVE  ToSet(q) = {Head(q)} \cup ToSet(Tail(q))
  <2>1. /\ Head(q) = q[1] /\ Len(q) \in Nat \ {0}
        /\ DOMAIN q = 1..Len(q) /\ DOMAIN Tail(q) = 1..(Len(q) - 1)
        /\ \A i \in 1..(Len(q) - 1) : Tail(q)[i] = q[i + 1]
    BY <1>2
  <2>2. ASSUME NEW i \in DOMAIN q
        PROVE  q[i] = q[1] \/ \E j \in DOMAIN Tail(q) : Tail(q)[j] = q[i]
    <3>1. CASE i = 1
      BY <3>1
    <3>2. CASE i # 1
      <4>1. i - 1 \in 1..(Len(q) - 1) /\ (i - 1) + 1 = i
        BY <2>1, <3>2
      <4>2. QED  BY <2>1, <4>1
    <3>3. QED  BY <3>1, <3>2
  <2>3. ASSUME NEW i \in DOMAIN Tail(q)
        PROVE  i + 1 \in DOMAIN q /\ Tail(q)[i] = q[i + 1]
    BY <2>1
  <2>4. ToSet(q) \subseteq {Head(q)} \cup ToSet(Tail(q))
    BY <2>1, <2>2 DEF ToSet
  <2>5. Head(q) \in ToSet(q) /\ ToSet(Tail(q)) \subseteq ToSet(q)
    BY <2>1, <2>3 DEF ToSet
  <2>6. QED  BY <2>4, <2>5
<1>3. ASSUME NEW p \in Seq(S)
      PROVE  ToSet(q \o p) = ToSet(q) \cup ToSet(p)
  <2>1. /\ Len(q) \in Nat /\ Len(p) \in Nat
        /\ DOMAIN q = 1..Len(q) /\ DOMAIN p = 1..Len(p)
        /\ DOMAIN (q \o p) = 1..(Len(q) + Len(p))
        /\ \A i \in 1..Len(q) : (q \o p)[i] = q[i]
        /\ \A i \in 1..Len(p) : (q \o p)[Len(q) + i] = p[i]
    BY Concatenation
  <2>2. ASSUME NEW i \in DOMAIN (q \o p)
        PROVE  (q \o p)[i] \in ToSet(q) \cup ToSet(p)
    <3>1. CASE i \in 1..Len(q)
      BY <2>1, <3>1 DEF ToSet
    <3>2. CASE i \notin 1..Len(q)
      <4>1. i - Len(q) \in 1..Len(p) /\ i = Len(q) + (i - Len(q))
        BY <2>1, <3>2
      <4>2. (q \o p)[i] = p[i - Len(q)]
        BY <2>1, <4>1
      <4>3. QED  BY <2>1, <4>1, <4>2 DEF ToSet
    <3>3. QED  BY <3>1, <3>2
  <2>3. ASSUME NEW i \in DOMAIN q
        PROVE  i \in DOMAIN (q \o p) /\ (q \o p)[i] = q[i]
    BY <2>1
  <2>4. ASSUME NEW i \in DOMAIN p
        PROVE  Len(q) + i \in DOMAIN (q \o p) /\ (q \o p)[Len(q) + i] = p[i]
    BY <2>1
  <2>5. ToSet(q) \subseteq ToSet(q \o p) /\ ToSet(p) \subseteq ToSet(q \o p)
    BY <2>3, <2>4 DEF ToSet
  <2>6. ToSet(q \o p) \subseteq ToSet(q) \cup ToSet(p)
    BY <2>2 DEF ToSet
  <2>7. QED  BY <2>5, <2>6
<1>4. ASSUME NEW x \in S
      PROVE  ToSet(Append(q, x)) = ToSet(q) \cup {x}
  <2>1. /\ DOMAIN q = 1..Len(q) /\ Len(q) \in Nat
        /\ DOMAIN Append(q, x) = 1..(Len(q) + 1)
        /\ \A i \in 1..Len(q) : Append(q, x)[i] = q[i]
        /\ Append(q, x)[Len(q) + 1] = x
    OBVIOUS
  <2>2. 1..(Len(q) + 1) = (1..Len(q)) \cup {Len(q) + 1}
    BY <2>1
  <2>3. QED  BY <2>1, <2>2 DEF ToSet
<1>5. QED  BY <1>1, <1>2, <1>3, <1>4

-----------------------------------------------------------------------------
(* The sum of a function, as the cardinality of a set; and the sum of a    *)
(* function along a queue.                                                 *)
Counts(P) == [P -> Nat]
Units(f) == UNION {{p} \X (1..f[p]) : p \in DOMAIN f}
Total(f) == Cardinality(Units(f))
Along(q, g) == Total([i \in DOMAIN q |-> g[q[i]]])

LEMMA InUnits ==
  ASSUME NEW f, NEW u
  PROVE  u \in Units(f) <=> \E p \in DOMAIN f : \E c \in 1..f[p] : u = <<p, c>>
  BY DEF Units

LEMMA ImageFinite ==
  ASSUME NEW S, IsFiniteSet(S), NEW f, f = [x \in S |-> f[x]]
  PROVE  IsFiniteSet({f[x] : x \in S})
<1> DEFINE T == {f[x] : x \in S}
<1>1. f \in [S -> T]
  OBVIOUS
<1>2. \A t \in T : \E x \in S : f[x] = t
  OBVIOUS
<1>3. f \in Surjection(S, T)
  BY <1>1, <1>2 DEF Surjection
<1>4. QED  BY <1>3, FS_Surjection

(* A sum is a number, and zero if all its terms are. *)
LEMMA TotalType ==
  ASSUME NEW P, IsFiniteSet(P), NEW f \in Counts(P)
  PROVE  /\ IsFiniteSet(Units(f)) /\ Total(f) \in Nat
         /\ Total(f) = 0 <=> \A p \in P : f[p] = 0
<1> DEFINE F == [p \in P |-> {p} \X (1..f[p])]
<1>1. IsFiniteSet({F[p] : p \in P})
  <2>1. F = [p \in P |-> F[p]]
    OBVIOUS
  <2> HIDE DEF F
  <2>2. QED  BY <2>1, ImageFinite
<1>2. ASSUME NEW p \in P
      PROVE  IsFiniteSet(F[p])
  <2>1. IsFiniteSet({p}) /\ IsFiniteSet(1..f[p])
    <3>1. f[p] \in Int /\ 1 \in Int
      BY DEF Counts
    <3>2. QED  BY <3>1, FS_Singleton, FS_Interval
  <2>2. IsFiniteSet({p} \X (1..f[p]))
    BY <2>1, FS_Product
  <2>3. QED  BY <2>2
<1>3. Units(f) = UNION {F[p] : p \in P}
  BY DEF Units, Counts
<1>4. IsFiniteSet(Units(f))
  <2> DEFINE S == {F[p] : p \in P}
  <2>1. \A T \in S : IsFiniteSet(T)
    BY <1>2
  <2>2. IsFiniteSet(S) /\ Units(f) = UNION S
    BY <1>1, <1>3
  <2> HIDE DEF S
  <2>3. QED  BY <2>1, <2>2, FS_UNION
<1>5. Units(f) = {} <=> \A p \in P : f[p] = 0
  <2>1. ASSUME Units(f) = {}, NEW p \in P, f[p] # 0
        PROVE  FALSE
    <3>1. 1 \in 1..f[p]
      BY <2>1 DEF Counts
    <3>2. <<p, 1>> \in Units(f)
      BY <3>1, InUnits DEF Counts
    <3>3. QED  BY <2>1, <3>2
  <2>2. ASSUME \A p \in P : f[p] = 0, NEW u \in Units(f)
        PROVE  FALSE
    <3>1. PICK p \in P : \E c \in 1..f[p] : u = <<p, c>>
      BY InUnits DEF Counts
    <3>2. QED  BY <2>2, <3>1
  <2>3. QED  BY <2>1, <2>2
<1>6. QED  BY <1>4, <1>5, FS_CardinalityType, FS_EmptySet DEF Total

(* A sum can be taken in two parts, and in any order. *)
LEMMA TotalSplit ==
  ASSUME NEW P, IsFiniteSet(P), NEW f \in Counts(P),
         NEW A, NEW B, A \cup B = P, A \cap B = {}
  PROVE  Total(f) = Total([p \in A |-> f[p]]) + Total([p \in B |-> f[p]])
<1> DEFINE g == [p \in A |-> f[p]]
           h == [p \in B |-> f[p]]
<1>1. g \in Counts(A) /\ h \in Counts(B)
      /\ (\A p \in A : g[p] = f[p]) /\ (\A p \in B : h[p] = f[p])
  BY DEF Counts
<1>2. IsFiniteSet(A) /\ IsFiniteSet(B)
  BY FS_Subset
<1> HIDE DEF g, h
<1>3. Units(f) = Units(g) \cup Units(h)
  <2>1. ASSUME NEW u
        PROVE  u \in Units(f) <=> u \in Units(g) \/ u \in Units(h)
    BY <1>1, InUnits DEF Counts
  <2>2. QED  BY <2>1
<1>4. Units(g) \cap Units(h) = {}
  <2>1. ASSUME NEW u, u \in Units(g), u \in Units(h)
        PROVE  FALSE
    <3>1. PICK p \in A : \E c \in 1..g[p] : u = <<p, c>>
      BY <1>1, <2>1, InUnits DEF Counts
    <3>2. PICK r \in B : \E c \in 1..h[r] : u = <<r, c>>
      BY <1>1, <2>1, InUnits DEF Counts
    <3>3. p = u[1] /\ r = u[1]
      BY <3>1, <3>2
    <3>4. QED  BY <3>3
  <2>2. QED  BY <2>1
<1>5. /\ IsFiniteSet(Units(g)) /\ IsFiniteSet(Units(h))
      /\ Total(g) \in Nat /\ Total(h) \in Nat
  BY <1>1, <1>2, TotalType
<1>6. Cardinality(Units(g) \cup Units(h))
        = Cardinality(Units(g)) + Cardinality(Units(h))
  <2> DEFINE U == Units(g)
             V == Units(h)
  <2>1. /\ IsFiniteSet(U) /\ IsFiniteSet(V) /\ U \cap V = {}
        /\ Cardinality(U) \in Nat /\ Cardinality(V) \in Nat
    BY <1>4, <1>5 DEF Total
  <2> HIDE DEF U, V
  <2>2. /\ Cardinality(U \cup V)
             = Cardinality(U) + Cardinality(V) - Cardinality(U \cap V)
        /\ Cardinality(U \cap V) = 0
    BY <2>1, FS_Union, FS_EmptySet
  <2>3. QED  BY <2>1, <2>2 DEF U, V
<1>7. QED  BY <1>3, <1>6 DEF Total, g, h

LEMMA TotalMap ==
  ASSUME NEW A, NEW B, IsFiniteSet(A), NEW h \in Bijection(A, B),
         NEW f \in Counts(A), NEW g \in Counts(B),
         \A a \in A : g[h[a]] = f[a]
  PROVE  Total(f) = Total(g)
<1> DEFINE m == [u \in Units(f) |-> <<h[u[1]], u[2]>>]
<1>1. /\ h \in [A -> B] /\ \A x, y \in A : h[x] = h[y] => x = y
      /\ \A y \in B : \E x \in A : h[x] = y
  BY DEF Bijection, Injection, Surjection, IsInjective
<1>2. ASSUME NEW u \in Units(f)
      PROVE  /\ u[1] \in A /\ u[2] \in 1..f[u[1]] /\ u = <<u[1], u[2]>>
             /\ <<h[u[1]], u[2]>> \in Units(g)
  <2>1. PICK p \in A : \E c \in 1..f[p] : u = <<p, c>>
    BY InUnits DEF Counts
  <2>2. PICK c \in 1..f[p] : u = <<p, c>>
    BY <2>1
  <2>3. u[1] = p /\ u[2] = c
    BY <2>2
  <2>4. h[p] \in B /\ c \in 1..g[h[p]]
    BY <1>1, <2>2
  <2>5. <<h[p], c>> \in Units(g)
    BY <2>4, InUnits DEF Counts
  <2>6. QED  BY <2>2, <2>3, <2>5
<1>3. m \in [Units(f) -> Units(g)]
  BY <1>2
<1>4. ASSUME NEW u \in Units(f), NEW v \in Units(f), m[u] = m[v]
      PROVE  u = v
  <2>1. h[u[1]] = h[v[1]] /\ u[2] = v[2]
    BY <1>4
  <2>2. u[1] = v[1]
    BY <1>1, <1>2, <2>1
  <2>3. QED  BY <1>2, <2>1, <2>2
<1>5. ASSUME NEW v \in Units(g)
      PROVE  \E u \in Units(f) : m[u] = v
  <2>1. PICK q \in B : \E c \in 1..g[q] : v = <<q, c>>
    BY InUnits DEF Counts
  <2>2. PICK c \in 1..g[q] : v = <<q, c>>
    BY <2>1
  <2>3. PICK p \in A : h[p] = q
    BY <1>1
  <2>4. <<p, c>> \in Units(f)
    BY <2>2, <2>3, InUnits DEF Counts
  <2>5. m[<<p, c>>] = v
    BY <2>2, <2>3, <2>4
  <2>6. QED  BY <2>4, <2>5
<1>6. m \in Bijection(Units(f), Units(g))
  BY <1>3, <1>4, <1>5 DEF Bijection, Injection, Surjection, IsInjective
<1>7. IsFiniteSet(Units(f))
  BY TotalType
<1>8. QED
  BY <1>6, <1>7, FS_Bijection DEF Total, ExistsBijection

(* The cardinality of a disjoint union is the sum of the cardinalities. *)
LEMMA TotalSets ==
  ASSUME NEW P, IsFiniteSet(P), NEW f \in Counts(P), NEW F, DOMAIN F = P,
         \A p \in P : IsFiniteSet(F[p]) /\ Cardinality(F[p]) = f[p]
  PROVE  Cardinality(UNION {{p} \X F[p] : p \in P}) = Total(f)
<1> DEFINE U == UNION {{p} \X F[p] : p \in P}
           h == [p \in P |-> CHOOSE b : b \in Bijection(1..f[p], F[p])]
           m == [u \in Units(f) |-> <<u[1], h[u[1]][u[2]]>>]
<1>1. ASSUME NEW p \in P
      PROVE  /\ h[p] \in [1..f[p] -> F[p]]
             /\ \A x, y \in 1..f[p] : h[p][x] = h[p][y] => x = y
             /\ \A y \in F[p] : \E x \in 1..f[p] : h[p][x] = y
  <2>1. \E b : b \in Bijection(1..f[p], F[p])
    BY FS_CardinalityType DEF ExistsBijection
  <2>2. h[p] \in Bijection(1..f[p], F[p])
    BY <2>1
  <2>3. QED  BY <2>2 DEF Bijection, Injection, Surjection, IsInjective
<1> HIDE DEF h
<1>2. \A u : u \in U <=> \E p \in P : \E y \in F[p] : u = <<p, y>>
  OBVIOUS
<1> HIDE DEF U
<1>3. ASSUME NEW u \in Units(f)
      PROVE  /\ u[1] \in P /\ u[2] \in 1..f[u[1]] /\ u = <<u[1], u[2]>>
             /\ <<u[1], h[u[1]][u[2]]>> \in U
  <2>1. PICK p \in P : \E c \in 1..f[p] : u = <<p, c>>
    BY InUnits DEF Counts
  <2>2. PICK c \in 1..f[p] : u = <<p, c>>
    BY <2>1
  <2>3. u[1] = p /\ u[2] = c
    BY <2>2
  <2>4. h[p][c] \in F[p]
    BY <1>1, <2>2
  <2>5. <<p, h[p][c]>> \in U
    BY <1>2, <2>4
  <2>6. QED  BY <2>2, <2>3, <2>5
<1>4. m \in [Units(f) -> U]
  BY <1>3
<1>5. ASSUME NEW u \in Units(f), NEW v \in Units(f), m[u] = m[v]
      PROVE  u = v
  <2>1. u[1] = v[1] /\ h[u[1]][u[2]] = h[v[1]][v[2]]
    BY <1>5
  <2> DEFINE p == u[1]
             c == u[2]
             d == v[2]
  <2>2. p \in P /\ c \in 1..f[p] /\ d \in 1..f[p] /\ h[p][c] = h[p][d]
    BY <1>3, <2>1
  <2> HIDE DEF p, c, d
  <2>3. c = d
    BY <1>1, <2>2
  <2>4. QED  BY <1>3, <2>1, <2>3 DEF p, c, d
<1>6. ASSUME NEW v \in U
      PROVE  \E u \in Units(f) : m[u] = v
  <2>1. PICK p \in P : \E y \in F[p] : v = <<p, y>>
    BY <1>2
  <2>2. PICK y \in F[p] : v = <<p, y>>
    BY <2>1
  <2>3. PICK c \in 1..f[p] : h[p][c] = y
    BY <1>1
  <2>4. <<p, c>> \in Units(f)
    BY <2>3, InUnits DEF Counts
  <2>5. m[<<p, c>>] = v
    BY <2>2, <2>3, <2>4
  <2>6. QED  BY <2>4, <2>5
<1>7. m \in Bijection(Units(f), U)
  BY <1>4, <1>5, <1>6 DEF Bijection, Injection, Surjection, IsInjective
<1>8. QED
  BY <1>7, TotalType, FS_Bijection DEF Total, ExistsBijection, U

(* One term; smaller terms; all terms but one; two terms that change. *)
LEMMA TotalOne ==
  ASSUME NEW p, NEW f \in Counts({p})
  PROVE  Total(f) = f[p]
<1> DEFINE h == [c \in 1..f[p] |-> <<p, c>>]
<1>1. h \in Bijection(1..f[p], Units(f))
  <2>1. \A u : u \in Units(f) <=> \E c \in 1..f[p] : u = <<p, c>>
    BY InUnits DEF Counts
  <2>2. h \in [1..f[p] -> Units(f)]
    BY <2>1
  <2>3. \A u \in Units(f) : \E c \in 1..f[p] : h[c] = u
    BY <2>1
  <2>4. \A c, d \in 1..f[p] : h[c] = h[d] => c = d
    OBVIOUS
  <2>5. QED
    BY <2>2, <2>3, <2>4 DEF Bijection, Injection, Surjection, IsInjective
<1>2. IsFiniteSet(1..f[p]) /\ Cardinality(1..f[p]) = f[p]
  BY FS_Interval DEF Counts
<1>3. QED  BY <1>1, <1>2, FS_Bijection DEF Total, ExistsBijection

LEMMA TotalBelow ==
  ASSUME NEW P, IsFiniteSet(P), NEW f \in Counts(P), NEW g \in Counts(P),
         \A p \in P : g[p] <= f[p]
  PROVE  Total(g) <= Total(f)
<1>1. Units(g) \subseteq Units(f)
  <2>1. ASSUME NEW u \in Units(g)
        PROVE  u \in Units(f)
    <3>1. PICK p \in P : \E c \in 1..g[p] : u = <<p, c>>
      BY InUnits DEF Counts
    <3>2. 1..g[p] \subseteq 1..f[p]
      BY DEF Counts
    <3>3. QED  BY <3>1, <3>2, InUnits DEF Counts
  <2>2. QED  BY <2>1
<1>2. QED  BY <1>1, TotalType, FS_Subset DEF Total

LEMMA TotalAt ==
  ASSUME NEW P, IsFiniteSet(P), NEW f \in Counts(P), NEW p \in P
  PROVE  Total(f) = f[p] + Total([q \in P \ {p} |-> f[q]])
<1>1. Total(f) = Total([q \in {p} |-> f[q]]) + Total([q \in P \ {p} |-> f[q]])
  BY TotalSplit
<1>2. Total([q \in {p} |-> f[q]]) = f[p]
  <2> DEFINE g == [q \in {p} |-> f[q]]
  <2>1. g \in Counts({p}) /\ g[p] = f[p]
    BY DEF Counts
  <2> HIDE DEF g
  <2>2. QED  BY <2>1, TotalOne DEF g
<1>3. QED  BY <1>1, <1>2

LEMMA TotalMoved ==
  ASSUME NEW P, IsFiniteSet(P), NEW f \in Counts(P), NEW g \in Counts(P),
         NEW p \in P, NEW q \in P, p # q,
         \A r \in P : r # p /\ r # q => g[r] = f[r]
  PROVE  Total(g) + f[p] + f[q] = Total(f) + g[p] + g[q]
<1> DEFINE R == P \ {p}
           fr == [r \in R |-> f[r]]
           gr == [r \in R |-> g[r]]
           fs == [r \in R \ {q} |-> fr[r]]
           gs == [r \in R \ {q} |-> gr[r]]
<1>1. IsFiniteSet(R) /\ IsFiniteSet(R \ {q}) /\ q \in R
  BY FS_RemoveElement
<1>2. fr \in Counts(R) /\ gr \in Counts(R) /\ fs = gs
  BY DEF Counts
<1>3. fs \in Counts(R \ {q}) /\ fr[q] = f[q] /\ gr[q] = g[q]
  BY <1>1 DEF Counts
<1>4. Total(f) = f[p] + Total(fr) /\ Total(g) = g[p] + Total(gr)
  BY TotalAt
<1> HIDE DEF fr, gr, R
<1>5. Total(fr) = fr[q] + Total(fs) /\ Total(gr) = gr[q] + Total(gs)
  BY <1>1, <1>2, TotalAt
<1>6. Total(fs) \in Nat
  BY <1>1, <1>3, TotalType
<1> HIDE DEF fs, gs
<1>7. f[p] \in Nat /\ f[q] \in Nat /\ g[p] \in Nat /\ g[q] \in Nat
  BY DEF Counts
<1>8. /\ Total(f) = f[p] + f[q] + Total(fs)
      /\ Total(g) = g[p] + g[q] + Total(fs)
  BY <1>2, <1>3, <1>4, <1>5, <1>6, <1>7
<1>9. QED  BY <1>6, <1>7, <1>8

LEMMA TotalOnly ==
  ASSUME NEW P, IsFiniteSet(P), NEW f \in Counts(P), NEW p \in P,
         \A q \in P : q # p => f[q] = 0
  PROVE  Total(f) = f[p]
<1> DEFINE R == P \ {p}
           fr == [r \in R |-> f[r]]
<1>1. IsFiniteSet(R) /\ fr \in Counts(R) /\ \A r \in R : fr[r] = 0
  BY FS_RemoveElement DEF Counts
<1>2. Total(fr) = 0
  BY <1>1, TotalType
<1>3. Total(f) = f[p] + Total(fr)
  BY TotalAt
<1>4. f[p] \in Nat
  BY DEF Counts
<1>5. QED  BY <1>2, <1>3, <1>4

(* Sums along queues, as queues grow and are read. *)
LEMMA AlongSteps ==
  ASSUME NEW X, NEW q \in Seq(X), NEW g \in Counts(X)
  PROVE  /\ Along(q, g) \in Nat
         /\ Along(q, g) = 0 <=> \A x \in ToSet(q) : g[x] = 0
         /\ \A p \in Seq(X) : Along(q \o p, g) = Along(q, g) + Along(p, g)
         /\ \A x \in X : Along(Append(q, x), g) = Along(q, g) + g[x]
         /\ q # <<>> => Along(q, g) = g[Head(q)] + Along(Tail(q), g)
<1> DEFINE f(r) == [i \in DOMAIN r |-> g[r[i]]]
<1>1. ASSUME NEW r \in Seq(X)
      PROVE  /\ Len(r) \in Nat /\ DOMAIN r = 1..Len(r) /\ IsFiniteSet(1..Len(r))
             /\ f(r) \in Counts(1..Len(r))
  <2>1. /\ Len(r) \in Nat /\ DOMAIN r = 1..Len(r)
        /\ \A i \in 1..Len(r) : r[i] \in X
    OBVIOUS
  <2>2. QED  BY <2>1, FS_Interval DEF Counts
<1>2. /\ Along(q, g) \in Nat
      /\ Along(q, g) = 0 <=> \A x \in ToSet(q) : g[x] = 0
  <2> DEFINE e == f(q)
  <2>1. /\ DOMAIN q = 1..Len(q) /\ IsFiniteSet(1..Len(q))
        /\ e \in Counts(1..Len(q)) /\ \A i \in DOMAIN q : e[i] = g[q[i]]
    BY <1>1
  <2> HIDE DEF e
  <2>2. Total(e) \in Nat /\ (Total(e) = 0 <=> \A i \in DOMAIN q : e[i] = 0)
    BY <2>1, TotalType
  <2>3. Along(q, g) = Total(e)
    BY DEF Along, e
  <2>4. (\A i \in DOMAIN q : e[i] = 0) <=> \A x \in ToSet(q) : g[x] = 0
    BY <2>1 DEF ToSet
  <2>5. QED  BY <2>2, <2>3, <2>4
<1>3. ASSUME NEW r \in Seq(X), NEW p \in Seq(X)
      PROVE  Along(r \o p, g) = Along(r, g) + Along(p, g)
  <2> DEFINE n == Len(r)
             k == Len(p)
             w == r \o p
             A == 1..n
             B == (n + 1)..(n + k)
             fb == [i \in B |-> f(w)[i]]
             h == [i \in 1..k |-> n + i]
  <2>1. /\ n \in Nat /\ k \in Nat /\ w \in Seq(X) /\ DOMAIN w = 1..(n + k)
        /\ DOMAIN r = 1..n /\ DOMAIN p = 1..k
        /\ \A i \in 1..n : w[i] = r[i]
        /\ \A i \in 1..k : w[n + i] = p[i]
    BY Concatenation
  <2>2. A \cup B = 1..(n + k) /\ A \cap B = {}
    BY <2>1
  <2>3. f(w) \in Counts(1..(n + k)) /\ IsFiniteSet(1..(n + k))
    BY <1>1, <2>1
  <2>4. Total(f(w)) = Total([i \in A |-> f(w)[i]]) + Total(fb)
    <3> DEFINE e == f(w)
               P == 1..(n + k)
    <3>1. e \in Counts(P) /\ IsFiniteSet(P) /\ A \cup B = P
          /\ A \cap B = {}
      BY <2>2, <2>3
    <3> HIDE DEF e, P, A, B, f, fb, h, w, n, k
    <3>2. Total(e) = Total([i \in A |-> e[i]]) + Total([i \in B |-> e[i]])
      BY <3>1, TotalSplit
    <3>3. QED  BY <3>2 DEF e, fb
  <2>5. [i \in A |-> f(w)[i]] = f(r)
    BY <2>1
  <2>6. Total(f(p)) = Total(fb)
    <3>1. h \in Bijection(1..k, B)
      <4>1. h \in [1..k -> B] /\ \A i, j \in 1..k : h[i] = h[j] => i = j
        BY <2>1
      <4>2. ASSUME NEW b \in B
            PROVE  \E i \in 1..k : h[i] = b
        <5>1. b - n \in 1..k /\ n + (b - n) = b
          BY <2>1
        <5>2. QED  BY <5>1
      <4>3. QED
        BY <4>1, <4>2 DEF Bijection, Injection, Surjection, IsInjective
    <3>2. f(p) \in Counts(1..k) /\ IsFiniteSet(1..k)
      BY <1>1
    <3>3. fb \in Counts(B)
      BY <2>2, <2>3 DEF Counts
    <3>4. ASSUME NEW i \in 1..k
          PROVE  fb[h[i]] = f(p)[i]
      <4>1. h[i] = n + i /\ n + i \in B /\ n + i \in 1..(n + k)
        BY <2>1
      <4>2. QED  BY <2>1, <4>1
    <3> DEFINE fp == f(p)
               J == 1..k
    <3>5. /\ fp \in Counts(J) /\ IsFiniteSet(J) /\ h \in Bijection(J, B)
          /\ \A i \in J : fb[h[i]] = fp[i]
      BY <3>1, <3>2, <3>4
    <3>6. Total(fp) = Total(fb)
      <4> HIDE DEF fp, J, fb, B, h, f, w, n, k
      <4>1. QED  BY <3>3, <3>5, TotalMap
    <3>7. QED  BY <3>6
  <2>7. Along(w, g) = Total(f(w)) /\ Along(r, g) = Total(f(r))
        /\ Along(p, g) = Total(f(p))
    BY DEF Along
  <2>8. QED  BY <2>4, <2>5, <2>6, <2>7
<1>4. ASSUME NEW x \in X
      PROVE  <<x>> \in Seq(X) /\ Along(<<x>>, g) = g[x]
  <2>1. f(<<x>>) \in Counts({1}) /\ f(<<x>>)[1] = g[x]
    <3>1. DOMAIN <<x>> = {1} /\ <<x>>[1] = x
      OBVIOUS
    <3>2. QED  BY <3>1 DEF Counts
  <2>2. Total(f(<<x>>)) = f(<<x>>)[1]
    BY <2>1, TotalOne
  <2>3. QED  BY <2>1, <2>2 DEF Along
<1>5. ASSUME NEW x \in X
      PROVE  Along(Append(q, x), g) = Along(q, g) + g[x]
  <2>1. Append(q, x) = q \o <<x>>
    OBVIOUS
  <2>2. QED  BY <1>3, <1>4, <2>1
<1>6. ASSUME q # <<>>
      PROVE  Along(q, g) = g[Head(q)] + Along(Tail(q), g)
  <2>1. Head(q) \in X /\ Tail(q) \in Seq(X) /\ q = <<Head(q)>> \o Tail(q)
    BY <1>6
  <2>2. QED  BY <1>3, <1>4, <2>1
<1>7. QED  BY <1>2, <1>3, <1>5, <1>6

LEMMA TotalFlags ==
  ASSUME NEW P, IsFiniteSet(P), NEW S \in SUBSET P
  PROVE  Total([p \in P |-> IF p \in S THEN 1 ELSE 0]) = Cardinality(S)
<1> DEFINE f == [p \in P |-> IF p \in S THEN 1 ELSE 0]
           h == [p \in S |-> <<p, 1>>]
<1>1. ASSUME NEW u
      PROVE  u \in Units(f) <=> \E p \in S : u = <<p, 1>>
  <2>1. \A p \in P : \A c : c \in 1..f[p] <=> p \in S /\ c = 1
    OBVIOUS
  <2>2. DOMAIN f = P
    OBVIOUS
  <2> HIDE DEF f
  <2>3. u \in Units(f) <=> \E p \in P : \E c \in 1..f[p] : u = <<p, c>>
    BY <2>2, InUnits
  <2>4. QED  BY <2>1, <2>3
<1> HIDE DEF f
<1>2. h \in Bijection(S, Units(f))
  <2>1. h \in [S -> Units(f)]
    BY <1>1
  <2>2. \A u \in Units(f) : \E p \in S : h[p] = u
    BY <1>1
  <2>3. \A p, q \in S : h[p] = h[q] => p = q
    OBVIOUS
  <2>4. QED
    BY <2>1, <2>2, <2>3 DEF Bijection, Injection, Surjection, IsInjective
<1>3. IsFiniteSet(S)
  BY FS_Subset
<1>4. QED
  BY <1>2, <1>3, FS_Bijection DEF Total, ExistsBijection, f

(* SetToSeq lists each element once, so that a sum along it is the sum. *)
LEMMA SetToSeqLists ==
  ASSUME NEW S, IsFiniteSet(S)
  PROVE  /\ SetToSeq(S) \in Bijection(1..Cardinality(S), S)
         /\ SetToSeq(S) \in Seq(S) /\ Len(SetToSeq(S)) = Cardinality(S)
         /\ ToSet(SetToSeq(S)) = S
<1> DEFINE n == Cardinality(S)
           s == SetToSeq(S)
<1>1. n \in Nat
  BY FS_CardinalityType
<1>2. s \in [1..n -> S] /\ IsInjective(s)
  <2>1. PICK f \in Bijection(1..n, S) : TRUE
    BY FS_CardinalityType DEF ExistsBijection
  <2>2. f \in [1..n -> S] /\ IsInjective(f)
    BY <2>1 DEF Bijection, Injection, IsInjective
  <2>3. QED  BY <2>2 DEF SetToSeq
<1>3. Cardinality(1..n) = n /\ IsFiniteSet(1..n)
  BY <1>1, FS_Interval
<1> HIDE DEF s, n
<1>4. s \in Injection(1..n, S)
  BY <1>2 DEF Injection, IsInjective
<1>5. s \in Surjection(1..n, S)
  BY <1>3, <1>4, FS_Injection DEF n
<1>6. s \in Bijection(1..n, S)
  BY <1>4, <1>5 DEF Bijection
<1>7. s \in Seq(S) /\ DOMAIN s = 1..n /\ Len(s) = n
  BY <1>1, <1>2
<1>8. ToSet(s) = S
  BY <1>5, <1>7 DEF ToSet, Surjection
<1>9. QED  BY <1>6, <1>7, <1>8 DEF s, n

LEMMA AlongSet ==
  ASSUME NEW S, IsFiniteSet(S), NEW f \in Counts(S)
  PROVE  Along(SetToSeq(S), f) = Total(f)
<1> DEFINE s == SetToSeq(S)
           I == 1..Cardinality(S)
           g == [i \in DOMAIN s |-> f[s[i]]]
<1>1. s \in Bijection(I, S) /\ s \in Seq(S) /\ Len(s) = Cardinality(S)
  BY SetToSeqLists
<1>2. IsFiniteSet(I)
  BY FS_CardinalityType, FS_Interval
<1> HIDE DEF s
<1>3. DOMAIN s = I /\ s \in [I -> S]
  BY <1>1
<1> HIDE DEF I
<1>4. g \in Counts(I) /\ \A i \in I : f[s[i]] = g[i]
  BY <1>3 DEF Counts
<1> HIDE DEF g
<1>5. Total(g) = Total(f)
  BY <1>1, <1>2, <1>4, TotalMap
<1>6. QED  BY <1>5 DEF Along, g, s

-----------------------------------------------------------------------------
LEMMA NthInOrder ==
  ASSUME NEW S \in SUBSET Int, IsFiniteSet(S)
  PROVE  /\ Cardinality(S) \in Nat
         /\ \A n \in 1..Cardinality(S) : Nth(S, n) \in S
         /\ \A n, o \in 1..Cardinality(S) : n < o => Nth(S, n) < Nth(S, o)
         /\ \A i \in S : \E n \in 1..Cardinality(S) : Nth(S, n) = i
<1> DEFINE Below(i) == {j \in S : j < i}
           rank == [i \in S |-> Cardinality(Below(i)) + 1]
           N == Cardinality(S)
<1>1. N \in Nat
  BY FS_CardinalityType
<1>2. ASSUME NEW i \in S
      PROVE  /\ IsFiniteSet(Below(i)) /\ Cardinality(Below(i)) \in Nat
             /\ rank[i] \in 1..N
  <2>1. IsFiniteSet(Below(i)) /\ Cardinality(Below(i)) <= N
    BY FS_Subset
  <2>2. Cardinality(Below(i)) \in Nat
    BY <2>1, FS_CardinalityType
  <2>3. i \notin Below(i)
    OBVIOUS
  <2>4. Cardinality(Below(i)) # N
    BY <2>3, FS_Subset
  <2> QED BY <1>1, <2>1, <2>2, <2>4
<1>0. rank \in [S -> 1..N]
  BY <1>2
<1>3. ASSUME NEW i \in S, NEW j \in S, i < j
      PROVE  rank[i] < rank[j]
  <2>1. Below(i) \in SUBSET Below(j) /\ i \in Below(j) /\ i \notin Below(i)
    <3>1. \A l \in S : l < i => l < j
      BY <1>3
    <3>2. i \in Int /\ ~(i < i)
      OBVIOUS
    <3> QED BY <1>3, <3>1, <3>2
  <2>2. Cardinality(Below(i)) <= Cardinality(Below(j))
        /\ Cardinality(Below(i)) # Cardinality(Below(j))
    BY <1>2, <2>1, FS_Subset
  <2> QED BY <1>2, <2>2
<1>4. rank \in Surjection(S, 1..N)
  <2>1. rank \in Injection(S, 1..N)
    <3> HIDE DEF rank
    <3>1. \A i, j \in S : i # j => rank[i] # rank[j]
      BY <1>0, <1>1, <1>3
    <3> QED BY <1>0, <3>1 DEF Injection, IsInjective
  <2>2. IsFiniteSet(1..N) /\ Cardinality(1..N) = N
    BY <1>1, FS_Interval
  <2> QED BY <2>1, <2>2, FS_Injection
<1>5. ASSUME NEW n \in 1..N
      PROVE  Nth(S, n) \in S /\ rank[Nth(S, n)] = n
  <2>1. PICK i \in S : rank[i] = n
    BY <1>4 DEF Surjection
  <2>2. Cardinality(Below(i)) = n - 1
    BY <1>1, <1>2, <2>1
  <2>3. Nth(S, n) \in S /\ Cardinality(Below(Nth(S, n))) = n - 1
    BY <2>2 DEF Nth
  <2> QED BY <1>1, <1>2, <2>3
<1> HIDE DEF rank, N
<1>6. ASSUME NEW i \in S
      PROVE  Nth(S, rank[i]) = i
  <2> DEFINE k == Nth(S, rank[i])
  <2>1. k \in S /\ rank[k] = rank[i] /\ rank[i] \in 1..N
    BY <1>0, <1>5
  <2> HIDE DEF k
  <2>2. ~(k < i) /\ ~(i < k)
    BY <1>1, <1>3, <2>1
  <2>3. k = i
    BY <2>1, <2>2
  <2> QED BY <2>3 DEF k
<1>7. ASSUME NEW n \in 1..N, NEW o \in 1..N, n < o
      PROVE  Nth(S, n) < Nth(S, o)
  <2> DEFINE k == Nth(S, n)
             l == Nth(S, o)
  <2>1. /\ k \in S /\ rank[k] = n
        /\ l \in S /\ rank[l] = o
    BY <1>5
  <2> HIDE DEF k, l
  <2>2. ~(l < k) /\ l # k
    BY <1>1, <1>3, <1>7, <2>1
  <2>3. k < l
    BY <2>1, <2>2
  <2> QED BY <2>3 DEF k, l
<1>8. \A i \in S : \E n \in 1..N : Nth(S, n) = i
  BY <1>0, <1>6
<1> QED BY <1>1, <1>5, <1>7, <1>8 DEF N

LEMMA Extremes ==
  ASSUME NEW S \in SUBSET Int, IsFiniteSet(S), S # {}
  PROVE  /\ Min(S) \in S /\ \A i \in S : Min(S) <= i
         /\ Max(S) \in S /\ \A i \in S : i <= Max(S)
<1> DEFINE N == Cardinality(S)
<1>1. N \in Nat /\ 1 \in 1..N /\ N \in 1..N
  <2>1. N \in Nat /\ N # 0
    BY FS_CardinalityType, FS_EmptySet
  <2> QED BY <2>1
<1>0. /\ \A n \in 1..N : Nth(S, n) \in S
      /\ \A n, o \in 1..N : n < o => Nth(S, n) < Nth(S, o)
      /\ \A i \in S : \E n \in 1..N : Nth(S, n) = i
  BY NthInOrder
<1> HIDE DEF N
<1>2. \A i \in S : Nth(S, 1) <= i /\ i <= Nth(S, N)
  <2> SUFFICES ASSUME NEW i \in S PROVE Nth(S, 1) <= i /\ i <= Nth(S, N)
    OBVIOUS
  <2>1. PICK n \in 1..N : Nth(S, n) = i
    BY <1>0
  <2>2. Nth(S, 1) \in Int /\ Nth(S, N) \in Int
    BY <1>0, <1>1
  <2>3. (n = 1 \/ 1 < n) /\ (n = N \/ n < N)
    BY <1>1
  <2> QED BY <1>0, <1>1, <2>1, <2>2, <2>3
<1>3. Nth(S, 1) \in S /\ Nth(S, N) \in S
  BY <1>0, <1>1
<1>4. Min(S) \in S /\ \A i \in S : Min(S) <= i
  BY <1>2, <1>3 DEF Min
<1>5. Max(S) \in S /\ \A i \in S : i <= Max(S)
  BY <1>2, <1>3 DEF Max
<1> QED BY <1>4, <1>5

LEMMA UpFrom0 ==
  ASSUME NEW S, 0 \in S, \A n \in Nat : n \in S => n + 1 \in S
  PROVE  Nat \subseteq S
<1> SUFFICES ASSUME NEW m \in Nat, m \notin S PROVE FALSE
  OBVIOUS
<1> DEFINE B == {n \in 0..m : n \notin S}
<1>1. B \in SUBSET Int /\ B # {} /\ IsFiniteSet(B)
  <2>1. IsFiniteSet(0..m) /\ B \in SUBSET (0..m)
    BY FS_Interval
  <2> QED BY <2>1, FS_Subset
<1>2. Min(B) \in B /\ \A i \in B : Min(B) <= i
  BY <1>1, Extremes
<1>3. Min(B) - 1 \in Nat /\ Min(B) - 1 \in 0..m /\ Min(B) - 1 \notin B
  BY <1>2
<1> QED BY <1>2, <1>3

LEMMA Smallest ==
  ASSUME NEW S, IsFiniteSet(S), S # {}, NEW d, \A i \in S : d[i] \in Int
  PROVE  \E i \in S : \A j \in S : d[i] <= d[j]
<1> DEFINE All == {d[j] : j \in S}
           e == [j \in S |-> d[j]]
<1>1. e \in Surjection(S, All)
  BY DEF Surjection
<1>2. All \in SUBSET Int /\ All # {} /\ IsFiniteSet(All)
  BY <1>1, FS_Surjection
<1>3. PICK i \in S : d[i] = Min(All) /\ \A x \in All : Min(All) <= x
  BY <1>2, Extremes
<1> QED BY <1>3

LEMMA UpToN ==
  \A n \in Nat : IsFiniteSet(1..n) /\ Cardinality(1..n) = n
<1> SUFFICES ASSUME NEW n \in Nat
             PROVE  IsFiniteSet(1..n) /\ Cardinality(1..n) = n
  OBVIOUS
<1> QED BY FS_Interval

-----------------------------------------------------------------------------
Chosen(s) == CHOOSE x \in s : TRUE
AddsUp(f, g, T) ==
  g = [s \in T |->
         IF s = {} THEN 0 ELSE f[Chosen(s)] + g[s \ {Chosen(s)}]]
Smaller(S, n) == {s \in SUBSET S : Cardinality(s) <= n}

LEMMA SumUnfolds ==
  ASSUME NEW f, NEW S
  PROVE  SumFunctionOnSet(f, S) = (CHOOSE g : AddsUp(f, g, SUBSET S))[S]
  BY DEF SumFunctionOnSet, FoldFunctionOnSet, MapThenFoldSet, AddsUp, Chosen

LEMMA SmallerSets ==
  ASSUME NEW S, IsFiniteSet(S)
  PROVE  /\ Cardinality(S) \in Nat
         /\ \A s \in SUBSET S : IsFiniteSet(s) /\ Cardinality(s) \in Nat
         /\ \A s \in SUBSET S : Cardinality(s) <= Cardinality(S)
         /\ \A s \in SUBSET S : (Cardinality(s) = 0) = (s = {})
         /\ \A s \in SUBSET S : \A x \in s :
              Cardinality(s \ {x}) = Cardinality(s) - 1
<1>1. \A s \in SUBSET S : IsFiniteSet(s) /\ Cardinality(s) <= Cardinality(S)
  BY FS_Subset
<1>2. \A s \in SUBSET S : Cardinality(s) \in Nat
  BY <1>1, FS_CardinalityType
<1>3. \A s \in SUBSET S : (Cardinality(s) = 0) = (s = {})
  BY <1>1, FS_EmptySet
<1>4. \A s \in SUBSET S : \A x \in s :
        Cardinality(s \ {x}) = Cardinality(s) - 1
  BY <1>1, FS_RemoveElement
<1> QED BY <1>1, <1>2, <1>3, <1>4

LEMMA SumsExist ==
  ASSUME NEW S, IsFiniteSet(S), NEW f, \A i \in S : f[i] \in Int
  PROVE  \E g \in [SUBSET S -> Int] : AddsUp(f, g, SUBSET S)
<1> DEFINE Good == {n \in Nat : \E g \in [Smaller(S, n) -> Int] :
                                   AddsUp(f, g, Smaller(S, n))}
<1>1. 0 \in Good
  <2> DEFINE g == [s \in Smaller(S, 0) |-> 0]
  <2>1. \A s \in Smaller(S, 0) : s = {}
    BY SmallerSets DEF Smaller
  <2>2. AddsUp(f, g, Smaller(S, 0))
    BY <2>1 DEF AddsUp
  <2>3. g \in [Smaller(S, 0) -> Int]
    OBVIOUS
  <2> QED BY <2>2, <2>3
<1>2. ASSUME NEW n \in Nat, n \in Good
      PROVE  n + 1 \in Good
  <2>1. PICK g \in [Smaller(S, n) -> Int] : AddsUp(f, g, Smaller(S, n))
    BY <1>2
  <2> DEFINE T == Smaller(S, n)
             U == Smaller(S, n + 1)
             h == [s \in U |->
                     IF s = {} THEN 0
                     ELSE f[Chosen(s)] + g[s \ {Chosen(s)}]]
  <2>2. \A s \in U : s # {} => Chosen(s) \in s /\ s \ {Chosen(s)} \in T
    <3> SUFFICES ASSUME NEW s \in U, s # {}
                 PROVE  Chosen(s) \in s /\ s \ {Chosen(s)} \in T
      OBVIOUS
    <3>1. Chosen(s) \in s
      BY DEF Chosen
    <3>2. s \in SUBSET S /\ Cardinality(s) <= n + 1
      BY DEF Smaller
    <3>3. /\ Cardinality(s \ {Chosen(s)}) = Cardinality(s) - 1
          /\ Cardinality(s) \in Nat
      BY <3>1, <3>2, SmallerSets
    <3> QED BY <3>1, <3>2, <3>3 DEF Smaller
  <2>3. \A s \in T : s \in U /\ h[s] = g[s]
    <3>1. T \subseteq U
      <4>1. \A s \in SUBSET S : Cardinality(s) \in Nat
        BY SmallerSets
      <4> QED BY <4>1 DEF Smaller
    <3>2. \A s \in T :
            g[s] = IF s = {} THEN 0
                   ELSE f[Chosen(s)] + g[s \ {Chosen(s)}]
      <4> HIDE DEF T
      <4> QED BY <2>1 DEF AddsUp, T
    <3> HIDE DEF T, U
    <3> QED BY <3>1, <3>2
  <2>4. h \in [U -> Int]
    <3> SUFFICES ASSUME NEW s \in U, s # {}
                 PROVE  f[Chosen(s)] + g[s \ {Chosen(s)}] \in Int
      OBVIOUS
    <3>1. Chosen(s) \in S
      BY <2>2 DEF Smaller
    <3>2. g[s \ {Chosen(s)}] \in Int
      BY <2>1, <2>2
    <3> QED BY <3>1, <3>2
  <2>5. AddsUp(f, h, U)
    <3>1. \A s \in U : h[s] = IF s = {} THEN 0
                              ELSE f[Chosen(s)] + h[s \ {Chosen(s)}]
      BY <2>2, <2>3
    <3> HIDE DEF U
    <3>2. h = [s \in U |-> h[s]]
      OBVIOUS
    <3> HIDE DEF h
    <3> QED BY <3>1, <3>2 DEF AddsUp
  <2> HIDE DEF h
  <2> QED BY <2>4, <2>5
<1>3. Cardinality(S) \in Good
  <2> HIDE DEF Good
  <2>1. Nat \subseteq Good
    BY <1>1, <1>2, UpFrom0
  <2> QED BY <2>1, SmallerSets
<1>4. Smaller(S, Cardinality(S)) = SUBSET S
  BY SmallerSets DEF Smaller
<1> QED BY <1>3, <1>4

LEMMA SumsAgree ==
  ASSUME NEW S, IsFiniteSet(S), NEW f, \A i \in S : f[i] \in Int,
         NEW T \in SUBSET S, NEW g, AddsUp(f, g, SUBSET S),
         NEW h, AddsUp(f, h, SUBSET T)
  PROVE  g[T] = h[T] /\ h[T] \in Int
<1> DEFINE Good == {n \in Nat : \A s \in SUBSET T :
                      Cardinality(s) <= n => g[s] = h[s] /\ h[s] \in Int}
<1>0. IsFiniteSet(T) /\ SUBSET T \subseteq SUBSET S
  BY FS_Subset
<1>1. /\ \A s \in SUBSET S :
           g[s] = IF s = {} THEN 0 ELSE f[Chosen(s)] + g[s \ {Chosen(s)}]
      /\ \A s \in SUBSET T :
           h[s] = IF s = {} THEN 0 ELSE f[Chosen(s)] + h[s \ {Chosen(s)}]
  BY DEF AddsUp
<1>2. 0 \in Good
  <2>1. \A s \in SUBSET T : Cardinality(s) <= 0 => s = {}
    BY <1>0, SmallerSets
  <2>2. g[{}] = 0 /\ h[{}] = 0
    BY <1>1
  <2>3. \A s \in SUBSET T : Cardinality(s) <= 0 => g[s] = 0 /\ h[s] = 0
    BY <2>1, <2>2
  <2> QED BY <2>3
<1>3. ASSUME NEW n \in Nat, n \in Good
      PROVE  n + 1 \in Good
  <2> SUFFICES ASSUME NEW s \in SUBSET T, Cardinality(s) <= n + 1
               PROVE  g[s] = h[s] /\ h[s] \in Int
    OBVIOUS
  <2>1. CASE s = {}
    <3>1. g[s] = 0 /\ h[s] = 0
      BY <1>0, <1>1, <2>1
    <3> QED BY <3>1
  <2>2. CASE s # {}
    <3> DEFINE x == Chosen(s)
    <3>1. x \in s
      BY <2>2 DEF Chosen
    <3>2. s \ {x} \in SUBSET T /\ Cardinality(s \ {x}) <= n
      <4>1. Cardinality(s \ {x}) = Cardinality(s) - 1 /\ Cardinality(s) \in Nat
        BY <1>0, <3>1, SmallerSets
      <4> QED BY <4>1
    <3>3. g[s \ {x}] = h[s \ {x}] /\ h[s \ {x}] \in Int
      BY <1>3, <3>2
    <3>4. g[s] = f[x] + g[s \ {x}] /\ h[s] = f[x] + h[s \ {x}]
      BY <1>0, <1>1, <2>2
    <3>5. f[x] \in Int
      BY <3>1
    <3> HIDE DEF x
    <3> QED BY <3>3, <3>4, <3>5
  <2> QED BY <2>1, <2>2
<1>4. Cardinality(T) \in Good
  <2> HIDE DEF Good
  <2>1. Nat \subseteq Good
    BY <1>2, <1>3, UpFrom0
  <2> QED BY <1>0, <2>1, SmallerSets
<1> QED BY <1>0, <1>4, SmallerSets

LEMMA SumEmpty == \A f : SumFunctionOnSet(f, {}) = 0
<1> SUFFICES ASSUME NEW f PROVE SumFunctionOnSet(f, {}) = 0
  OBVIOUS
<1>1. \E g \in [SUBSET {} -> Int] : AddsUp(f, g, SUBSET {})
  BY SumsExist, FS_EmptySet
<1>2. AddsUp(f, CHOOSE g : AddsUp(f, g, SUBSET {}), SUBSET {})
  BY <1>1
<1> QED BY <1>2, SumUnfolds DEF AddsUp

LEMMA SumStep ==
  ASSUME NEW S, IsFiniteSet(S), NEW f, \A i \in S : f[i] \in Int
  PROVE  /\ SumFunctionOnSet(f, S) \in Int
         /\ S # {} => /\ Chosen(S) \in S
                      /\ SumFunctionOnSet(f, S) =
                           f[Chosen(S)]
                             + SumFunctionOnSet(f, S \ {Chosen(S)})
<1> DEFINE G(T) == CHOOSE g : AddsUp(f, g, SUBSET T)
<1>1. ASSUME NEW T \in SUBSET S
      PROVE  /\ IsFiniteSet(T) /\ AddsUp(f, G(T), SUBSET T)
             /\ SumFunctionOnSet(f, T) = G(T)[T]
  <2>1. IsFiniteSet(T)
    BY FS_Subset
  <2>2. \E g \in [SUBSET T -> Int] : AddsUp(f, g, SUBSET T)
    BY <2>1, SumsExist
  <2> QED BY <2>1, <2>2, SumUnfolds
<1> HIDE DEF G
<1>2. SumFunctionOnSet(f, S) \in Int
  <2>1. S \in SUBSET S /\ AddsUp(f, G(S), SUBSET S)
    BY <1>1
  <2>2. G(S)[S] \in Int
    BY <2>1, SumsAgree
  <2> QED BY <1>1, <2>2
<1>3. ASSUME S # {}
      PROVE  /\ Chosen(S) \in S
             /\ SumFunctionOnSet(f, S) =
                  f[Chosen(S)] + SumFunctionOnSet(f, S \ {Chosen(S)})
  <2>1. Chosen(S) \in S
    BY <1>3 DEF Chosen
  <2>2. G(S)[S] = f[Chosen(S)] + G(S)[S \ {Chosen(S)}]
    BY <1>1, <1>3 DEF AddsUp
  <2>3. G(S)[S \ {Chosen(S)}] = G(S \ {Chosen(S)})[S \ {Chosen(S)}]
    <3> DEFINE T == S \ {Chosen(S)}
               g == G(S)
               h == G(T)
    <3>1. T \in SUBSET S
      OBVIOUS
    <3> HIDE DEF T
    <3>2. AddsUp(f, g, SUBSET S) /\ AddsUp(f, h, SUBSET T)
      BY <1>1, <3>1
    <3> HIDE DEF g, h
    <3>3. g[T] = h[T]
      BY <3>1, <3>2, SumsAgree
    <3> QED BY <3>3 DEF g, h, T
  <2> QED BY <1>1, <2>1, <2>2, <2>3
<1> QED BY <1>2, <1>3

-----------------------------------------------------------------------------
LEMMA OneByOne ==
  ASSUME NEW S, IsFiniteSet(S), NEW Good, {} \in Good,
         \A T \in SUBSET S : T \in Good => \A x \in S \ T : T \cup {x} \in Good
  PROVE  S \in Good
<1> DEFINE Sizes == {n \in Nat : \A T \in SUBSET S :
                                   Cardinality(T) = n => T \in Good}
<1>1. 0 \in Sizes
  BY SmallerSets
<1>2. ASSUME NEW n \in Nat, n \in Sizes
      PROVE  n + 1 \in Sizes
  <2> SUFFICES ASSUME NEW T \in SUBSET S, Cardinality(T) = n + 1
               PROVE  T \in Good
    OBVIOUS
  <2>1. PICK x \in T : TRUE
    <3>1. T # {}
      BY SmallerSets
    <3> QED BY <3>1
  <2> DEFINE U == T \ {x}
  <2>2. U \in SUBSET S /\ Cardinality(U) = n
    BY SmallerSets
  <2>3. U \in Good
    BY <1>2, <2>2
  <2>4. x \in S \ U /\ U \cup {x} = T
    BY <2>1
  <2> HIDE DEF U
  <2> QED BY <2>2, <2>3, <2>4
<1> HIDE DEF Sizes
<1>3. Nat \subseteq Sizes
  BY <1>1, <1>2, UpFrom0
<1> QED BY <1>3, SmallerSets DEF Sizes

LEMMA SumRemove ==
  ASSUME NEW S, IsFiniteSet(S), NEW f, \A i \in S : f[i] \in Int,
         NEW x \in S
  PROVE  SumFunctionOnSet(f, S) = f[x] + SumFunctionOnSet(f, S \ {x})
<1> DEFINE Sum(T) == SumFunctionOnSet(f, T)
           Good == {n \in Nat : \A T \in SUBSET S : Cardinality(T) <= n =>
                      \A y \in T : Sum(T) = f[y] + Sum(T \ {y})}
<1>1. 0 \in Good
  BY SmallerSets
<1>2. \A T \in SUBSET S :
        /\ Sum(T) \in Int
        /\ T # {} => /\ Chosen(T) \in T
                     /\ Sum(T) = f[Chosen(T)] + Sum(T \ {Chosen(T)})
  <2> SUFFICES ASSUME NEW T \in SUBSET S
               PROVE  /\ Sum(T) \in Int
                      /\ T # {} =>
                           /\ Chosen(T) \in T
                           /\ Sum(T) = f[Chosen(T)] + Sum(T \ {Chosen(T)})
    OBVIOUS
  <2>1. IsFiniteSet(T) /\ \A i \in T : f[i] \in Int
    BY FS_Subset
  <2> QED BY <2>1, SumStep
<1> HIDE DEF Sum
<1>3. ASSUME NEW n \in Nat, n \in Good
      PROVE  n + 1 \in Good
  <2> SUFFICES ASSUME NEW T \in SUBSET S, Cardinality(T) <= n + 1,
                      NEW y \in T
               PROVE  Sum(T) = f[y] + Sum(T \ {y})
    OBVIOUS
  <2> DEFINE z == Chosen(T)
  <2>1. z \in T /\ Sum(T) = f[z] + Sum(T \ {z})
    BY <1>2
  <2> HIDE DEF z
  <2>2. CASE z = y
    BY <2>1, <2>2
  <2>3. CASE z # y
    <3> DEFINE Tz == T \ {z}
               Ty == T \ {y}
    <3>1. /\ Tz \in SUBSET S /\ y \in Tz /\ Cardinality(Tz) <= n
          /\ Ty \in SUBSET S /\ z \in Ty /\ Cardinality(Ty) <= n
      <4>1. /\ Cardinality(Tz) = Cardinality(T) - 1
            /\ Cardinality(Ty) = Cardinality(T) - 1
            /\ Cardinality(T) \in Nat
        BY <2>1, SmallerSets
      <4> QED BY <2>1, <2>3, <4>1
    <3>2. Tz \ {y} = Ty \ {z} /\ Tz \ {y} \in SUBSET S
      OBVIOUS
    <3> HIDE DEF Tz, Ty
    <3>3. Sum(Tz) = f[y] + Sum(Tz \ {y}) /\ Sum(Ty) = f[z] + Sum(Ty \ {z})
      BY <1>3, <3>1
    <3>4. f[y] \in Int /\ f[z] \in Int /\ Sum(Tz \ {y}) \in Int
      BY <1>2, <2>1, <3>2
    <3>5. Sum(T) = f[z] + Sum(Tz)
      BY <2>1 DEF Tz
    <3>6. Sum(T) = f[y] + Sum(Ty)
      <4> DEFINE r == Sum(Tz \ {y})
      <4>1. Sum(Ty \ {z}) = r
        BY <3>2
      <4>2. r \in Int
        BY <3>4
      <4>3. Sum(Tz) = f[y] + r /\ Sum(Ty) = f[z] + r
        BY <3>3, <4>1
      <4>4. \A a, b \in Int : a + (b + r) = b + (a + r)
        <5> HIDE DEF r
        <5> QED BY <4>2
      <4> HIDE DEF r
      <4> QED BY <3>4, <3>5, <4>3, <4>4
    <3> QED BY <3>6 DEF Ty
  <2> QED BY <2>2, <2>3
<1> HIDE DEF Good
<1>4. Nat \subseteq Good
  BY <1>1, <1>3, UpFrom0
<1>5. Cardinality(S) \in Good
  BY <1>4, SmallerSets
<1>6. Sum(S) = f[x] + Sum(S \ {x})
  BY <1>5, SmallerSets DEF Good
<1> QED BY <1>6 DEF Sum

(* What a sum is, with one more number. *)
LEMMA SumAdd ==
  ASSUME NEW S, IsFiniteSet(S), NEW f, \A i \in S : f[i] \in Int,
         NEW T \in SUBSET S, NEW x \in S \ T
  PROVE  /\ SumFunctionOnSet(f, T) \in Int
         /\ SumFunctionOnSet(f, T \cup {x}) = f[x] + SumFunctionOnSet(f, T)
         /\ Cardinality(T \cup {x}) = Cardinality(T) + 1
<1> DEFINE U == T \cup {x}
<1>1. /\ IsFiniteSet(T) /\ \A i \in T : f[i] \in Int
      /\ IsFiniteSet(U) /\ \A i \in U : f[i] \in Int
  BY FS_Subset
<1>2. x \in U /\ U \ {x} = T
  OBVIOUS
<1>3. Cardinality(U) = Cardinality(T) + 1
  BY <1>1, FS_AddElement
<1> HIDE DEF U
<1>4. SumFunctionOnSet(f, U) = f[x] + SumFunctionOnSet(f, T)
  BY <1>1, <1>2, SumRemove
<1> QED BY <1>1, <1>3, <1>4, SumStep DEF U

LEMMA SumsAdd ==
  ASSUME NEW S, IsFiniteSet(S), NEW f, \A i \in S : f[i] \in Int
  PROVE  \A T \in SUBSET S :
           /\ SumFunctionOnSet(f, T) \in Int
           /\ \A x \in S \ T :
                SumFunctionOnSet(f, T \cup {x}) =
                  f[x] + SumFunctionOnSet(f, T)
<1>1. ASSUME NEW T \in SUBSET S
      PROVE  SumFunctionOnSet(f, T) \in Int
  <2>1. IsFiniteSet(T) /\ \A i \in T : f[i] \in Int
    BY FS_Subset
  <2> QED BY <2>1, SumStep
<1>2. ASSUME NEW T \in SUBSET S, NEW x \in S \ T
      PROVE  SumFunctionOnSet(f, T \cup {x}) = f[x] + SumFunctionOnSet(f, T)
  BY SumAdd
<1> QED BY <1>1, <1>2

LEMMA SumUnion ==
  ASSUME NEW S, IsFiniteSet(S), NEW f, \A i \in S : f[i] \in Int,
         NEW T \in SUBSET S, NEW U \in SUBSET S, T \cap U = {}
  PROVE  SumFunctionOnSet(f, T \cup U) =
           SumFunctionOnSet(f, T) + SumFunctionOnSet(f, U)
<1> DEFINE Sum(V) == SumFunctionOnSet(f, V)
           Good == {V \in SUBSET U : Sum(T \cup V) = Sum(T) + Sum(V)}
<1>1. \A V \in SUBSET S :
        Sum(V) \in Int /\ \A x \in S \ V : Sum(V \cup {x}) = f[x] + Sum(V)
  BY SumsAdd
<1> HIDE DEF Sum
<1>2. {} \in Good
  <2>1. Sum({}) = 0 /\ T \cup {} = T
    BY SumEmpty DEF Sum
  <2>2. Sum(T) \in Int
    BY <1>1
  <2> QED BY <2>1, <2>2
<1>3. ASSUME NEW V \in SUBSET U, V \in Good, NEW x \in U \ V
      PROVE  V \cup {x} \in Good
  <2> DEFINE W == T \cup V
  <2>0. V \in SUBSET S /\ W \in SUBSET S /\ x \in S \ V /\ x \in S \ W
    OBVIOUS
  <2>1. Sum(V \cup {x}) = f[x] + Sum(V) /\ Sum(W \cup {x}) = f[x] + Sum(W)
    BY <1>1, <2>0
  <2>2. f[x] \in Int /\ Sum(T) \in Int /\ Sum(V) \in Int
    BY <1>1, <2>0
  <2>3. Sum(W) = Sum(T) + Sum(V)
    BY <1>3
  <2>4. T \cup (V \cup {x}) = W \cup {x}
    OBVIOUS
  <2> HIDE DEF W
  <2>5. Sum(W \cup {x}) = Sum(T) + Sum(V \cup {x})
    BY <2>1, <2>2, <2>3
  <2> QED BY <2>4, <2>5
<1>4. IsFiniteSet(U)
  BY FS_Subset
<1> HIDE DEF Good
<1>5. U \in Good
  BY <1>2, <1>3, <1>4, OneByOne
<1> QED BY <1>5 DEF Good, Sum

LEMMA SumBelow ==
  ASSUME NEW S, IsFiniteSet(S), NEW f, \A i \in S : f[i] \in Int,
         NEW g, \A i \in S : g[i] \in Int, \A i \in S : f[i] <= g[i]
  PROVE  SumFunctionOnSet(f, S) <= SumFunctionOnSet(g, S)
<1> DEFINE Good == {T \in SUBSET S :
                      SumFunctionOnSet(f, T) <= SumFunctionOnSet(g, T)}
<1>1. {} \in Good
  BY SumEmpty
<1>2. ASSUME NEW T \in SUBSET S, T \in Good, NEW x \in S \ T
      PROVE  T \cup {x} \in Good
  <2>1. /\ SumFunctionOnSet(f, T \cup {x}) = f[x] + SumFunctionOnSet(f, T)
        /\ SumFunctionOnSet(g, T \cup {x}) = g[x] + SumFunctionOnSet(g, T)
        /\ SumFunctionOnSet(f, T) \in Int /\ SumFunctionOnSet(g, T) \in Int
    BY SumAdd
  <2>2. SumFunctionOnSet(f, T) <= SumFunctionOnSet(g, T)
    BY <1>2
  <2> QED BY <2>1, <2>2
<1> HIDE DEF Good
<1>3. S \in Good
  BY <1>1, <1>2, OneByOne
<1> QED BY <1>3 DEF Good

LEMMA SumSame ==
  ASSUME NEW S, IsFiniteSet(S), NEW f, \A i \in S : f[i] \in Int,
         NEW g, \A i \in S : f[i] = g[i]
  PROVE  SumFunctionOnSet(f, S) = SumFunctionOnSet(g, S)
<1>1. /\ SumFunctionOnSet(f, S) \in Int /\ SumFunctionOnSet(g, S) \in Int
  BY SumStep
<1>2. SumFunctionOnSet(f, S) <= SumFunctionOnSet(g, S)
  BY SumBelow
<1>3. SumFunctionOnSet(g, S) <= SumFunctionOnSet(f, S)
  BY SumBelow
<1> QED BY <1>1, <1>2, <1>3

LEMMA Divides ==
  ASSUME NEW a \in Int, NEW n \in Int, n > 0
  PROVE  /\ a % n = 0 => \E d \in Int : a = n * d
         /\ (n * a) \div n = a
<1>1. a % n = 0 => a = n * (a \div n)
  OBVIOUS
<1>2. (n * a) \div n = a
  OBVIOUS
<1>3. a \div n \in Int
  OBVIOUS
<1> QED BY <1>1, <1>2, <1>3

LEMMA SumMultiple ==
  ASSUME NEW S, IsFiniteSet(S), NEW f, \A i \in S : f[i] \in Int,
         NEW n \in Nat \ {0}, \A i \in S : f[i] % n = 0
  PROVE  \E q \in Int : SumFunctionOnSet(f, S) = n * q
<1> DEFINE Good == {T \in SUBSET S :
                      \E q \in Int : SumFunctionOnSet(f, T) = n * q}
<1>1. {} \in Good
  <2>1. SumFunctionOnSet(f, {}) = n * 0
    BY SumEmpty
  <2> QED BY <2>1
<1>0. \A T \in SUBSET S : \A x \in S \ T :
        SumFunctionOnSet(f, T \cup {x}) = f[x] + SumFunctionOnSet(f, T)
  BY SumsAdd, ZenonT(40)
<1>2. ASSUME NEW T \in SUBSET S, T \in Good, NEW x \in S \ T
      PROVE  T \cup {x} \in Good
  <2> DEFINE y == f[x]
  <2>1. SumFunctionOnSet(f, T \cup {x}) = y + SumFunctionOnSet(f, T)
    BY <1>0
  <2>2. PICK q \in Int : SumFunctionOnSet(f, T) = n * q
    BY <1>2
  <2>3. y \in Int /\ y % n = 0
    OBVIOUS
  <2> HIDE DEF y
  <2>4. PICK d \in Int : y = n * d
    <3>1. n \in Int /\ n > 0
      OBVIOUS
    <3> QED BY <2>3, <3>1, Divides
  <2>5. n * d + n * q = n * (d + q) /\ d + q \in Int
    OBVIOUS
  <2>6. SumFunctionOnSet(f, T \cup {x}) = n * (d + q)
    BY <2>1, <2>2, <2>4, <2>5
  <2> QED BY <2>5, <2>6
<1> HIDE DEF Good
<1>3. S \in Good
  BY <1>1, <1>2, OneByOne
<1> QED BY <1>3 DEF Good

LEMMA SumOfSquares ==
  ASSUME NEW S, IsFiniteSet(S), NEW p, \A i \in S : p[i] \in Int,
         NEW x \in Int,
         NEW f, \A i \in S : f[i] = (x - p[i]) * (x - p[i]),
         NEW q, \A i \in S : q[i] = p[i] * p[i]
  PROVE  SumFunctionOnSet(f, S) =
           Cardinality(S) * (x * x) - 2 * (x * SumFunctionOnSet(p, S))
             + SumFunctionOnSet(q, S)
<1> DEFINE Good == {T \in SUBSET S :
                      SumFunctionOnSet(f, T) =
                        Cardinality(T) * (x * x)
                          - 2 * (x * SumFunctionOnSet(p, T))
                          + SumFunctionOnSet(q, T)}
<1>0. \A i \in S : f[i] \in Int /\ q[i] \in Int
  OBVIOUS
<1>1. {} \in Good
  BY SumEmpty, FS_EmptySet
<1>3. \A T \in SUBSET S :
        /\ /\ SumFunctionOnSet(f, T) \in Int
           /\ \A y \in S \ T :
                SumFunctionOnSet(f, T \cup {y}) =
                  f[y] + SumFunctionOnSet(f, T)
        /\ /\ SumFunctionOnSet(p, T) \in Int
           /\ \A y \in S \ T :
                SumFunctionOnSet(p, T \cup {y}) =
                  p[y] + SumFunctionOnSet(p, T)
        /\ /\ SumFunctionOnSet(q, T) \in Int
           /\ \A y \in S \ T :
                SumFunctionOnSet(q, T \cup {y}) =
                  q[y] + SumFunctionOnSet(q, T)
  <2>1. \A T \in SUBSET S :
          /\ SumFunctionOnSet(f, T) \in Int
          /\ \A y \in S \ T :
               SumFunctionOnSet(f, T \cup {y}) = f[y] + SumFunctionOnSet(f, T)
    BY <1>0, SumsAdd
  <2>2. \A T \in SUBSET S :
          /\ SumFunctionOnSet(p, T) \in Int
          /\ \A y \in S \ T :
               SumFunctionOnSet(p, T \cup {y}) = p[y] + SumFunctionOnSet(p, T)
    BY SumsAdd
  <2>3. \A T \in SUBSET S :
          /\ SumFunctionOnSet(q, T) \in Int
          /\ \A y \in S \ T :
               SumFunctionOnSet(q, T \cup {y}) = q[y] + SumFunctionOnSet(q, T)
    BY <1>0, SumsAdd
  <2> QED BY <2>1, <2>2, <2>3
<1>2. ASSUME NEW T \in SUBSET S, T \in Good, NEW y \in S \ T
      PROVE  T \cup {y} \in Good
  <2> DEFINE F == SumFunctionOnSet(f, T)
             P == SumFunctionOnSet(p, T)
             Q == SumFunctionOnSet(q, T)
             n == Cardinality(T)
  <2>1. /\ F \in Int /\ SumFunctionOnSet(f, T \cup {y}) = f[y] + F
        /\ P \in Int /\ SumFunctionOnSet(p, T \cup {y}) = p[y] + P
        /\ Q \in Int /\ SumFunctionOnSet(q, T \cup {y}) = q[y] + Q
    BY <1>3
  <2>2. Cardinality(T \cup {y}) = n + 1
    <3>1. IsFiniteSet(T)
      BY FS_Subset
    <3> QED BY <3>1, FS_AddElement
  <2>4. n \in Nat
    BY SmallerSets
  <2>5. F = n * (x * x) - 2 * (x * P) + Q
    BY <1>2
  <2>6. p[y] \in Int /\ f[y] = (x - p[y]) * (x - p[y]) /\ q[y] = p[y] * p[y]
    OBVIOUS
  <2> HIDE DEF F, P, Q, n
  <2>7. f[y] + F = (n + 1) * (x * x) - 2 * (x * (p[y] + P)) + (q[y] + Q)
    <3>1. \A v \in Int : (x - v) * (x - v) = x * x - 2 * (x * v) + v * v
      OBVIOUS
    <3>2. x * (p[y] + P) = x * p[y] + x * P
      BY <2>1, <2>6
    <3>3. (n + 1) * (x * x) = n * (x * x) + x * x
      BY <2>4
    <3> QED BY <2>1, <2>4, <2>5, <2>6, <3>1, <3>2, <3>3
  <2> QED BY <2>1, <2>2, <2>7
<1> HIDE DEF Good
<1>4. S \in Good
  BY <1>1, <1>2, OneByOne
<1> QED BY <1>4 DEF Good

LEMMA NoSum ==
  ASSUME NEW S, IsFiniteSet(S), NEW f, \A i \in S : f[i] = 0
  PROVE  SumFunctionOnSet(f, S) = 0
<1> DEFINE Good == {T \in SUBSET S : SumFunctionOnSet(f, T) = 0}
<1>1. {} \in Good
  BY SumEmpty
<1>2. \A T \in SUBSET S : \A x \in S \ T :
        SumFunctionOnSet(f, T \cup {x}) = f[x] + SumFunctionOnSet(f, T)
  <2>1. \A i \in S : f[i] \in Int
    OBVIOUS
  <2>2. \A T \in SUBSET S :
          /\ SumFunctionOnSet(f, T) \in Int
          /\ \A x \in S \ T :
               SumFunctionOnSet(f, T \cup {x}) = f[x] + SumFunctionOnSet(f, T)
    BY <2>1, SumsAdd
  <2> QED BY <2>2
<1>3. ASSUME NEW T \in SUBSET S, T \in Good, NEW x \in S \ T
      PROVE  T \cup {x} \in Good
  BY <1>2, <1>3
<1> HIDE DEF Good
<1>4. S \in Good
  BY <1>1, <1>3, OneByOne
<1> QED BY <1>4 DEF Good
(* Numbers in increasing order are the first, the second, ... of their set. *)
Enumerates(S, n, e) ==
  /\ \A f \in 1..n : e[f] \in S
  /\ \A f, g \in 1..n : f < g => e[f] < e[g]
  /\ \A i \in S : \E f \in 1..n : e[f] = i

LEMMA NthIs ==
  ASSUME NEW S \in SUBSET Int, NEW n \in Nat, NEW e, Enumerates(S, n, e)
  PROVE  /\ IsFiniteSet(S) /\ Cardinality(S) = n
         /\ \A f \in 1..n : Nth(S, f) = e[f]
<1> DEFINE b == [f \in 1..n |-> e[f]]
<1> USE DEF Enumerates
<1>1. \A f \in 1..n : b[f] = e[f]
  OBVIOUS
<1>2. b \in Bijection(1..n, S)
  <2>1. b \in [1..n -> S]
    OBVIOUS
  <2> HIDE DEF b
  <2>2. ASSUME NEW f \in 1..n, NEW g \in 1..n, b[f] = b[g]
        PROVE  f = g
    <3>1. ~(e[f] < e[g]) /\ ~(e[g] < e[f])
      <4>1. e[f] \in Int /\ e[f] = e[g]
        BY <1>1, <2>2
      <4> QED BY <4>1
    <3> QED BY <3>1
  <2>3. \A i \in S : \E f \in 1..n : b[f] = i
    BY <1>1
  <2> QED BY <2>1, <2>2, <2>3
          DEF Bijection, Injection, Surjection, IsInjective
<1>3. IsFiniteSet(1..n) /\ Cardinality(1..n) = n
  BY UpToN
<1>4. IsFiniteSet(S) /\ Cardinality(S) = n
  <2> HIDE DEF b
  <2> QED BY <1>2, <1>3, FS_Bijection DEF ExistsBijection
<1>5. /\ \A f \in 1..n : Nth(S, f) \in S
      /\ \A f, g \in 1..n : f < g => Nth(S, f) < Nth(S, g)
      /\ \A i \in S : \E f \in 1..n : Nth(S, f) = i
  BY <1>4, NthInOrder
<1> DEFINE Good == {m \in Nat : \A f \in 1..n : f <= m => Nth(S, f) = e[f]}
<1>6. 0 \in Good
  OBVIOUS
<1>7. ASSUME NEW m \in Nat, m \in Good
      PROVE  m + 1 \in Good
  <2> SUFFICES ASSUME m + 1 \in 1..n
               PROVE  Nth(S, m + 1) = e[m + 1]
    BY <1>7
  <2> DEFINE x == Nth(S, m + 1)
             y == e[m + 1]
  <2>1. x \in Int /\ y \in Int
    BY <1>5
  <2>2. ASSUME x < y PROVE FALSE
    <3>1. PICK g \in 1..n : e[g] = x
      BY <1>5
    <3>2. ~(m + 1 < g) /\ g # m + 1
      <4>1. ~(y < x) /\ x # y
        BY <2>1, <2>2
      <4> QED BY <3>1, <4>1
    <3>3. g <= m /\ g < m + 1
      BY <3>2
    <3>4. Nth(S, g) = x /\ Nth(S, g) < x
      BY <1>5, <1>7, <3>1, <3>3
    <3> QED BY <2>1, <3>4
  <2>3. ASSUME y < x PROVE FALSE
    <3>1. PICK g \in 1..n : Nth(S, g) = y
      BY <1>5
    <3>2. ~(m + 1 < g) /\ g # m + 1
      <4>1. ~(x < y) /\ x # y
        BY <2>1, <2>3
      <4> QED BY <1>5, <3>1, <4>1
    <3>3. g <= m /\ g < m + 1
      BY <3>2
    <3>4. e[g] = y /\ e[g] < y
      BY <1>7, <3>1, <3>3
    <3> QED BY <2>1, <3>4
  <2> QED BY <2>1, <2>2, <2>3
<1> HIDE DEF Good
<1>8. n \in Good
  BY <1>6, <1>7, UpFrom0
<1> QED BY <1>4, <1>8 DEF Good

(* A number beyond all others comes last. *)
LEMMA NthMore ==
  ASSUME NEW S \in SUBSET Int, IsFiniteSet(S), NEW x \in Int,
         \A i \in S : i < x
  PROVE  LET n == Cardinality(S)
         IN /\ n \in Nat /\ Cardinality(S \cup {x}) = n + 1
            /\ \A f \in 1..n : Nth(S \cup {x}, f) = Nth(S, f)
            /\ Nth(S \cup {x}, n + 1) = x
<1> DEFINE n == Cardinality(S)
           T == S \cup {x}
           e == [f \in 1..(n + 1) |-> IF f = n + 1 THEN x ELSE Nth(S, f)]
<1>1. /\ n \in Nat
      /\ \A f \in 1..n : Nth(S, f) \in S
      /\ \A f, g \in 1..n : f < g => Nth(S, f) < Nth(S, g)
      /\ \A i \in S : \E f \in 1..n : Nth(S, f) = i
  BY NthInOrder
<1> HIDE DEF n
<1>2. /\ \A f \in 1..n : e[f] = Nth(S, f) /\ f \in 1..(n + 1)
      /\ e[n + 1] = x /\ n + 1 \in 1..(n + 1)
      /\ \A f \in 1..(n + 1) : f \in 1..n \/ f = n + 1
  BY <1>1
<1> HIDE DEF e
<1>3. \A f \in 1..(n + 1) : e[f] \in T
  BY <1>1, <1>2
<1>4. \A f, g \in 1..(n + 1) : f < g => e[f] < e[g]
  <2> SUFFICES ASSUME NEW f \in 1..(n + 1), NEW g \in 1..(n + 1), f < g
               PROVE  e[f] < e[g]
    OBVIOUS
  <2>1. f \in 1..n
    BY <1>1
  <2>2. CASE g \in 1..n
    BY <1>1, <1>2, <2>1, <2>2
  <2>3. CASE g = n + 1
    BY <1>1, <1>2, <2>1, <2>3
  <2> QED BY <1>2, <2>2, <2>3
<1>5. \A i \in T : \E f \in 1..(n + 1) : e[f] = i
  BY <1>1, <1>2
<1>6. T \in SUBSET Int /\ n + 1 \in Nat
  BY <1>1
<1> HIDE DEF T
<1>7. Cardinality(T) = n + 1 /\ \A f \in 1..(n + 1) : Nth(T, f) = e[f]
  <2>1. Enumerates(T, n + 1, e)
    BY <1>3, <1>4, <1>5 DEF Enumerates
  <2> QED BY <1>6, <2>1, NthIs
<1> QED BY <1>1, <1>2, <1>7 DEF T, n
=============================================================================
