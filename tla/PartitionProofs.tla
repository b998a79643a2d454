-------------------------- MODULE PartitionProofs ---------------------------
(***************************************************************************)
(* The loop of kmeans_preprocess cuts up every file for every number of    *)
(* mappers as it should.                                                   *)
(***************************************************************************)
EXTENDS PartitionLoop, SequenceTheorems, TLAPS

(* The j-th partition starts behind j - 1 full ones, and is full itself    *)
(* unless the loop is in the middle of it; the countdown tells how many    *)
(* points it has by then.                                                  *)
Count(j) == IF j < Len(partitions) \/ i = pz THEN pz ELSE pz - i
Cut(j) ==
  /\ Len(partitions[j].points) = Count(j)
  /\ \A l \in 1..Count(j) : partitions[j].points[l] = (j - 1) * pz + l
  /\ partitions[j].closed <=> (j < Len(partitions) \/ i = pz \/ finished)
Covered ==
  IF Len(partitions) = 0 THEN k = 0 /\ i = pz
  ELSE k = (Len(partitions) - 1) * pz + Count(Len(partitions))
LoopInv ==
  /\ LoopTypeOK
  /\ \A j \in 1..Len(partitions) : Cut(j)
  /\ Covered
  /\ finished => k = n

-----------------------------------------------------------------------------
(* The size of a partition is at least 1, and enough for m partitions to   *)
(* hold more points than there are.                                        *)
LEMMA Size ==
  ASSUME n \in Nat, m \in Nat \ {0}
  PROVE  pz \in Nat \ {0} /\ n < m * pz
<1> DEFINE q == n \div m
<1>1. q \in Nat /\ n = (m * q) + (n % m) /\ n % m \in 0..(m - 1)
  BY SMTT(30)
<1>2. m * (1 + q) = m + m * q
  BY <1>1, SMTT(30)
<1> QED BY <1>1, <1>2 DEF pz

(* Closing the last text changes nothing else. *)
LEMMA CloseText ==
  ASSUME NEW T, NEW ps \in Seq([points : T, closed : BOOLEAN]), Len(ps) > 0
  PROVE  /\ Closed(ps) \in Seq([points : T, closed : BOOLEAN])
         /\ Len(Closed(ps)) = Len(ps)
         /\ \A j \in 1..(Len(ps) - 1) : Closed(ps)[j] = ps[j]
         /\ Closed(ps)[Len(ps)].points = ps[Len(ps)].points
         /\ Closed(ps)[Len(ps)].closed = TRUE
<1> DEFINE P == [points : T, closed : BOOLEAN]
           L == Len(ps)
           last == [ps[L] EXCEPT !.closed = TRUE]
<1>1. L \in Nat \ {0} /\ ps[L] \in P
  <2>1. ps \in Seq(P)
    OBVIOUS
  <2> HIDE DEF P
  <2> QED BY <2>1
<1>2. last \in P /\ last.points = ps[L].points /\ last.closed = TRUE
  BY <1>1
<1>3. Closed(ps) = [ps EXCEPT ![L] = last]
  BY DEF Closed
<1> QED BY <1>1, <1>2, <1>3

LEMMA TextWithPoints ==
  ASSUME NEW A, NEW B, NEW r \in [points : A, closed : B], NEW e
  PROVE  [r EXCEPT !.points = e] = [points |-> e, closed |-> r.closed]
OBVIOUS

(* A point added to the last text changes nothing else. *)
LEMMA ExtendText ==
  ASSUME NEW T, NEW p \in T, Len(partitions) > 0,
         partitions \in Seq([points : Seq(T), closed : BOOLEAN])
  PROVE  LET L == Len(partitions)
             P == [points : Seq(T), closed : BOOLEAN]
         IN /\ Extended(p) \in Seq(P) /\ Len(Extended(p)) = L
            /\ \A j \in 1..(L - 1) : Extended(p)[j] = partitions[j]
            /\ Extended(p)[L].points = Append(partitions[L].points, p)
            /\ Extended(p)[L].closed = partitions[L].closed
<1> DEFINE P == [points : Seq(T), closed : BOOLEAN]
           L == Len(partitions)
           last == [partitions[L] EXCEPT !.points = Append(@, p)]
<1>1. L \in Nat \ {0} /\ partitions[L] \in P
  <2>1. partitions \in Seq(P)
    OBVIOUS
  <2> HIDE DEF P
  <2> QED BY <2>1
<1>2. /\ last \in P /\ last.points = Append(partitions[L].points, p)
      /\ last.closed = partitions[L].closed
  <2>1. partitions[L].points \in Seq(T) /\ partitions[L].closed \in BOOLEAN
    BY <1>1
  <2>2. last = [points |-> Append(partitions[L].points, p),
                closed |-> partitions[L].closed]
    <3> DEFINE r == partitions[L]
               e == Append(r.points, p)
    <3>1. r \in [points : Seq(T), closed : BOOLEAN]
      BY <1>1
    <3> HIDE DEF r, e
    <3>2. [r EXCEPT !.points = e] = [points |-> e, closed |-> r.closed]
      BY <3>1, TextWithPoints
    <3> QED BY <3>2 DEF r, e
  <2>3. Append(partitions[L].points, p) \in Seq(T)
    BY <2>1
  <2> QED BY <2>1, <2>2, <2>3
<1>3. Extended(p) = [partitions EXCEPT ![L] = last]
  BY DEF Extended
<1> QED BY <1>1, <1>2, <1>3

LEMMA InitLoop == ASSUME Init PROVE LoopInv
<1>1. n \in Nat /\ m \in Nat \ {0}
  BY LoopAssumption DEF Init
<1>2. pz \in Nat \ {0}
  BY <1>1, Size
<1>3. LoopTypeOK
  <2> DEFINE S == Seq([points : Seq(1..n), closed : BOOLEAN])
  <2>1. partitions \in S
    <3>1. <<>> \in S
      OBVIOUS
    <3> QED BY <3>1 DEF Init
  <2>2. k \in 0..n /\ i \in 1..pz
    BY <1>1, <1>2 DEF Init
  <2>3. finished \in BOOLEAN
    BY DEF Init
  <2> QED BY <2>1, <2>2, <2>3 DEF Init, LoopTypeOK
<1>4. 1..Len(partitions) = {}
  BY DEF Init
<1> QED BY <1>3, <1>4 DEF Init, LoopInv, Covered

-----------------------------------------------------------------------------
(* One turn of the loop.  The text that grows, or opens, is the last one,  *)
(* and the point it takes is the next one.                                 *)
LEMMA TurnLoop == ASSUME LoopInv, Turn PROVE LoopInv'
<1> DEFINE P == [points : Seq(1..n), closed : BOOLEAN]
<1> SUFFICES ASSUME NEW CONSTANT L, L = Len(partitions) PROVE LoopInv'
  OBVIOUS
<1>1. /\ n \in Nat /\ m \in Nat \ {0} /\ pz \in Nat \ {0}
      /\ n' = n /\ m' = m /\ pz' = pz
      /\ k \in 0..n /\ k < n /\ k' = k + 1 /\ i \in 1..pz
      /\ finished = FALSE /\ finished' = FALSE
      /\ partitions \in Seq(P) /\ L \in Nat
  BY Size, LoopAssumption DEF LoopInv, LoopTypeOK, Turn, pz
<1>5. \A j \in 1..L : partitions[j] \in P /\ Cut(j)
  <2>1. \A j \in 1..L : Cut(j)
    BY DEF LoopInv
  <2> HIDE DEF P
  <2> QED BY <1>1, <2>1
<1>2. i' \in 1..pz
  BY <1>1 DEF Turn
<1>3. CASE i = pz
  <2>1. /\ partitions' \in Seq(P) /\ Len(partitions') = L + 1
        /\ \A j \in 1..L : partitions'[j] = partitions[j]
        /\ partitions'[L + 1].points = <<k + 1>>
        /\ partitions'[L + 1].closed <=> i = 1
    <3>1. [points |-> <<k + 1>>, closed |-> FALSE] \in P
      BY <1>1
    <3>2. /\ Opened(k + 1) \in Seq(P) /\ Len(Opened(k + 1)) = L + 1
          /\ \A j \in 1..L : Opened(k + 1)[j] = partitions[j]
          /\ Opened(k + 1)[L + 1].points = <<k + 1>>
          /\ Opened(k + 1)[L + 1].closed = FALSE
      BY <1>1, <3>1 DEF Opened
    <3>3. partitions' = IF i = 1 THEN Closed(Opened(k + 1))
                        ELSE Opened(k + 1)
      BY <1>3 DEF Turn, FirstOfPartition, NotFirst, IsFirst
    <3>4. CASE i = 1
      <4> DEFINE ps == Opened(k + 1)
      <4>1. partitions' = Closed(ps)
        BY <3>3, <3>4
      <4>2. ps \in Seq(P) /\ Len(ps) = L + 1 /\ Len(ps) > 0
        BY <1>1, <3>2
      <4>3. /\ \A j \in 1..L : ps[j] = partitions[j]
            /\ ps[L + 1].points = <<k + 1>>
        BY <3>2
      <4> HIDE DEF ps
      <4>4. /\ Closed(ps) \in Seq(P) /\ Len(Closed(ps)) = Len(ps)
            /\ \A j \in 1..(Len(ps) - 1) : Closed(ps)[j] = ps[j]
            /\ Closed(ps)[Len(ps)].points = ps[Len(ps)].points
            /\ Closed(ps)[Len(ps)].closed = TRUE
        BY <4>2, CloseText
      <4> QED BY <1>1, <3>4, <4>1, <4>2, <4>3, <4>4
    <3>5. CASE i # 1
      BY <1>1, <3>2, <3>3, <3>5
    <3> QED BY <3>4, <3>5
  <2>2. /\ k = L * pz
        /\ \A j \in 1..L : Count(j) = pz
    <3>1. \A j \in 1..L : Count(j) = pz
      BY <1>3 DEF Count
    <3>2. CASE L = 0
      BY <1>1, <3>1, <3>2 DEF LoopInv, Covered
    <3>3. CASE L > 0
      <4>1. k = (L - 1) * pz + Count(L)
        BY <1>1, <3>3 DEF LoopInv, Covered
      <4>2. Count(L) = pz
        BY <1>1, <3>1, <3>3
      <4>3. (L - 1) * pz + pz = L * pz
        BY <1>1
      <4> QED BY <3>1, <4>1, <4>2, <4>3
    <3>4. L = 0 \/ L > 0
      BY <1>1
    <3> QED BY <3>1, <3>2, <3>3, <3>4
  <2>3. /\ \A j \in 1..L : Count(j)' = pz
        /\ Count(L + 1)' = 1
    BY <1>1, <1>3, <2>1 DEF Count, Turn
  <2>4. \A j \in 1..L : Cut(j)'
    <3> SUFFICES ASSUME NEW j \in 1..L PROVE Cut(j)'
      OBVIOUS
    <3>1. Cut(j) /\ Count(j) = pz /\ Count(j)' = pz
      BY <2>2, <2>3 DEF LoopInv
    <3>2. partitions'[j] = partitions[j] /\ j < L + 1
      BY <1>1, <2>1
    <3>3. partitions[j].closed
      BY <1>1, <1>3, <3>1 DEF Cut
    <3>4. /\ Len(partitions'[j].points) = Count(j)'
          /\ \A l \in 1..Count(j)' :
               partitions'[j].points[l] = (j - 1) * pz' + l
      BY <1>1, <3>1, <3>2 DEF Cut
    <3>5. partitions'[j].closed /\ j < Len(partitions')
      BY <2>1, <3>2, <3>3
    <3> QED BY <3>4, <3>5 DEF Cut
  <2>5. Cut(L + 1)'
    <3>1. k + 1 = L * pz + 1
      BY <1>1, <2>1, <2>2
    <3>2. i' = pz <=> i = 1
      BY <1>1, <1>3 DEF Turn
    <3>3. /\ Len(partitions'[L + 1].points) = 1
          /\ partitions'[L + 1].points[1] = k + 1
      BY <2>1
    <3> QED BY <1>1, <2>1, <2>3, <3>1, <3>2, <3>3 DEF Cut
  <2>6. Covered'
    BY <1>1, <2>1, <2>2, <2>3 DEF Covered
  <2>7. LoopTypeOK'
    <3>1. n' \in Sizes /\ m' \in MapperCounts
      BY <1>1 DEF LoopInv, LoopTypeOK
    <3>2. k' \in 0..n' /\ i' \in 1..pz'
      BY <1>1, <1>2
    <3>4. finished' \in BOOLEAN
      BY <1>1
    <3>3. partitions' \in Seq([points : Seq(1..n'), closed : BOOLEAN])
      BY <1>1, <2>1
    <3> QED BY <3>1, <3>2, <3>3, <3>4 DEF LoopTypeOK
  <2> QED BY <1>1, <2>1, <2>4, <2>5, <2>6, <2>7 DEF LoopInv
<1>4. CASE i # pz
  <2>1. /\ L > 0 /\ Count(L) = pz - i
        /\ k = (L - 1) * pz + Count(L)
    BY <1>1, <1>4 DEF LoopInv, Covered, Count
  <2>2. /\ partitions' \in Seq(P) /\ Len(partitions') = L
        /\ \A j \in 1..(L - 1) : partitions'[j] = partitions[j]
        /\ partitions'[L].points = Append(partitions[L].points, k + 1)
        /\ partitions'[L].closed <=> i = 1
    <3> DEFINE ps == Extended(k + 1)
    <3>1. /\ ps \in Seq(P) /\ Len(ps) = L
          /\ \A j \in 1..(L - 1) : ps[j] = partitions[j]
          /\ ps[L].points = Append(partitions[L].points, k + 1)
          /\ ps[L].closed = partitions[L].closed
      <4>1. /\ k + 1 \in 1..n /\ Len(partitions) > 0
            /\ partitions \in Seq([points : Seq(1..n), closed : BOOLEAN])
        BY <1>1, <2>1
      <4> QED BY <4>1, ExtendText
    <3>2. partitions[L].closed = FALSE
      <4>1. partitions[L] \in P /\ Cut(L)
        BY <1>1, <1>5, <2>1
      <4>2. partitions[L].closed \in BOOLEAN
        BY <4>1
      <4>3. ~(L < Len(partitions) \/ i = pz \/ finished)
        BY <1>1, <1>4
      <4> QED BY <4>1, <4>2, <4>3 DEF Cut
    <3>3. partitions' = IF i = 1 THEN Closed(ps) ELSE ps
      BY <1>4 DEF Turn, FirstOfPartition, NotFirst, IsFirst
    <3> HIDE DEF ps
    <3>4. CASE i = 1
      <4>1. /\ Closed(ps) \in Seq(P) /\ Len(Closed(ps)) = Len(ps)
            /\ \A j \in 1..(Len(ps) - 1) : Closed(ps)[j] = ps[j]
            /\ Closed(ps)[Len(ps)].points = ps[Len(ps)].points
            /\ Closed(ps)[Len(ps)].closed = TRUE
        BY <2>1, <3>1, CloseText
      <4> QED BY <3>1, <3>3, <3>4, <4>1
    <3>5. CASE i # 1
      BY <3>1, <3>2, <3>3, <3>5
    <3> QED BY <3>4, <3>5
  <2>3. /\ \A j \in 1..(L - 1) : Count(j)' = pz
        /\ Count(L)' = Count(L) + 1
    <3>1. /\ pz' = pz /\ Len(partitions') = L
          /\ i' = IF i = 1 THEN pz ELSE i - 1
      BY <1>1, <2>2 DEF Turn
    <3>2. L \in Nat /\ i \in 1..pz /\ pz \in Nat
      BY <1>1
    <3>3. \A j \in 1..(L - 1) : Count(j)' = pz
      BY <3>1, <3>2 DEF Count
    <3>4. Count(L)' = IF i = 1 THEN pz ELSE pz - (i - 1)
      BY <1>4, <3>1, <3>2 DEF Count
    <3> QED BY <2>1, <3>2, <3>3, <3>4
  <2>4. \A j \in 1..(L - 1) : Cut(j)'
    <3> SUFFICES ASSUME NEW j \in 1..(L - 1) PROVE Cut(j)'
      OBVIOUS
    <3>1. Cut(j) /\ Count(j) = pz /\ Count(j)' = pz
      BY <1>1, <2>1, <2>3 DEF LoopInv, Count
    <3>2. partitions'[j] = partitions[j] /\ j < L
      <4>1. j < L
        BY <1>1, <2>1
      <4> QED BY <2>2, <4>1
    <3>3. partitions[j].closed
      BY <1>1, <3>1, <3>2 DEF Cut
    <3>4. /\ Len(partitions'[j].points) = Count(j)'
          /\ \A l \in 1..Count(j)' :
               partitions'[j].points[l] = (j - 1) * pz' + l
      BY <1>1, <3>1, <3>2 DEF Cut
    <3>5. partitions'[j].closed /\ j < Len(partitions')
      BY <2>2, <3>2, <3>3
    <3> QED BY <3>4, <3>5 DEF Cut
  <2>5. Cut(L)'
    <3>1. /\ partitions[L].points \in Seq(1..n)
          /\ Len(partitions[L].points) = Count(L)
          /\ \A l \in 1..Count(L) :
               partitions[L].points[l] = (L - 1) * pz + l
      <4>1. partitions[L] \in P /\ Cut(L)
        BY <1>1, <1>5, <2>1
      <4> QED BY <4>1 DEF Cut
    <3>2. /\ Len(partitions'[L].points) = Count(L) + 1
          /\ \A l \in 1..Count(L) :
               partitions'[L].points[l] = partitions[L].points[l]
          /\ partitions'[L].points[Count(L) + 1] = k + 1
      <4> DEFINE own == partitions[L].points
      <4>1. own \in Seq(1..n) /\ Len(own) = Count(L)
        BY <3>1
      <4>2. k + 1 \in 1..n /\ partitions'[L].points = Append(own, k + 1)
        BY <1>1, <2>2
      <4> HIDE DEF own
      <4>3. /\ Len(Append(own, k + 1)) = Count(L) + 1
            /\ \A l \in 1..Count(L) : Append(own, k + 1)[l] = own[l]
            /\ Append(own, k + 1)[Count(L) + 1] = k + 1
        BY <4>1, <4>2
      <4> QED BY <4>2, <4>3 DEF own
    <3>3. k + 1 = (L - 1) * pz + (Count(L) + 1)
      BY <1>1, <2>1
    <3>4. \A l \in 1..(Count(L) + 1) :
            partitions'[L].points[l] = (L - 1) * pz' + l
      <4> SUFFICES ASSUME NEW l \in 1..(Count(L) + 1)
                   PROVE  partitions'[L].points[l] = (L - 1) * pz' + l
        OBVIOUS
      <4>1. l = Count(L) + 1 \/ l \in 1..Count(L)
        BY <1>1, <2>1
      <4> QED BY <1>1, <3>1, <3>2, <3>3, <4>1
    <3>5. i' = pz' <=> i = 1
      BY <1>1, <1>4 DEF Turn
    <3>6. partitions'[L].closed
            <=> (L < Len(partitions') \/ i' = pz' \/ finished')
      BY <1>1, <2>2, <3>5
    <3> QED BY <2>3, <3>2, <3>4, <3>6 DEF Cut
  <2>6. Covered'
    BY <1>1, <2>1, <2>2, <2>3 DEF Covered
  <2>7. LoopTypeOK'
    <3>1. n' \in Sizes /\ m' \in MapperCounts
      BY <1>1 DEF LoopInv, LoopTypeOK
    <3>2. k' \in 0..n' /\ i' \in 1..pz'
      BY <1>1, <1>2
    <3>4. finished' \in BOOLEAN
      BY <1>1
    <3>3. partitions' \in Seq([points : Seq(1..n'), closed : BOOLEAN])
      BY <1>1, <2>2
    <3> QED BY <3>1, <3>2, <3>3, <3>4 DEF LoopTypeOK
  <2> QED BY <1>1, <2>1, <2>2, <2>4, <2>5, <2>6, <2>7 DEF LoopInv
<1> QED BY <1>3, <1>4

-----------------------------------------------------------------------------
(* Closing what the loop leaves: a full last text is closed once more.     *)
LEMMA CloseLastLoop == ASSUME LoopInv, CloseLast PROVE LoopInv'
<1> DEFINE P == [points : Seq(1..n), closed : BOOLEAN]
<1> SUFFICES ASSUME NEW CONSTANT L, L = Len(partitions) PROVE LoopInv'
  OBVIOUS
<1>1. /\ n \in Nat \ {0} /\ m \in Nat \ {0} /\ pz \in Nat \ {0}
      /\ n' = n /\ m' = m /\ pz' = pz /\ k' = k /\ i' = i
      /\ k \in 0..n /\ i \in 1..pz /\ k = n
      /\ finished = FALSE /\ finished' = TRUE
      /\ partitions \in Seq(P) /\ L \in Nat
  BY Size, LoopAssumption DEF LoopInv, LoopTypeOK, CloseLast, pz
<1>2. L > 0
  BY <1>1 DEF LoopInv, Covered
<1>3. /\ partitions' \in Seq(P) /\ Len(partitions') = L
      /\ \A j \in 1..(L - 1) : partitions'[j] = partitions[j]
      /\ partitions'[L].points = partitions[L].points
      /\ partitions'[L].closed = TRUE
  BY <1>1, <1>2, CloseText DEF CloseLast
<1>4. \A j \in 1..L : Count(j)' = Count(j)
  BY <1>1, <1>3 DEF Count
<1>5. \A j \in 1..L : Cut(j)'
  <2> SUFFICES ASSUME NEW j \in 1..L PROVE Cut(j)'
    OBVIOUS
  <2>1. Cut(j) /\ Count(j)' = Count(j)
    BY <1>1, <1>4 DEF LoopInv
  <2>2. partitions'[j].points = partitions[j].points
    <3>1. j = L \/ j \in 1..(L - 1)
      BY <1>1
    <3> QED BY <1>3, <3>1
  <2>3. partitions'[j].closed
    <3>1. CASE j = L
      BY <1>3, <3>1
    <3>2. CASE j # L
      <4>1. j < L /\ partitions'[j] = partitions[j]
        BY <1>1, <1>3, <3>2
      <4> QED BY <2>1, <4>1 DEF Cut
    <3> QED BY <3>1, <3>2
  <2>4. /\ Len(partitions'[j].points) = Count(j)'
        /\ \A l \in 1..Count(j)' :
             partitions'[j].points[l] = (j - 1) * pz' + l
    BY <1>1, <2>1, <2>2 DEF Cut
  <2> QED BY <1>1, <2>3, <2>4 DEF Cut
<1>6. Covered'
  BY <1>1, <1>2, <1>3, <1>4 DEF LoopInv, Covered
<1>7. LoopTypeOK'
  <2>1. n' \in Sizes /\ m' \in MapperCounts
    BY <1>1 DEF LoopInv, LoopTypeOK
  <2>2. k' \in 0..n' /\ i' \in 1..pz'
    BY <1>1
  <2>3. finished' \in BOOLEAN
    BY <1>1
  <2>4. partitions' \in Seq([points : Seq(1..n'), closed : BOOLEAN])
    BY <1>1, <1>3
  <2> QED BY <2>1, <2>2, <2>3, <2>4 DEF LoopTypeOK
<1> QED BY <1>1, <1>3, <1>5, <1>6, <1>7 DEF LoopInv

LEMMA LoopInvariant == Spec => []LoopInv
<1>1. Init => LoopInv
  BY InitLoop
<1>2. LoopInv /\ [Next]_vars => LoopInv'
  <2> SUFFICES ASSUME LoopInv, [Next]_vars PROVE LoopInv'
    OBVIOUS
  <2>1. CASE Turn
    BY <2>1, TurnLoop
  <2>2. CASE CloseLast
    BY <2>2, CloseLastLoop
  <2>3. CASE UNCHANGED vars
    BY <2>3 DEF vars, LoopInv, LoopTypeOK, Cut, Count, Covered, pz
  <2> QED BY <2>1, <2>2, <2>3 DEF Next
<1> QED BY <1>1, <1>2, PTL DEF Spec

-----------------------------------------------------------------------------
(* Every partition has a point, so that L partitions hold more points than *)
(* L - 1 full ones.                                                        *)
LEMMA Facts ==
  ASSUME LoopInv
  PROVE  /\ n \in Nat \ {0} /\ m \in Nat \ {0} /\ pz \in Nat \ {0}
         /\ k \in 0..n /\ i \in 1..pz /\ Len(partitions) \in Nat
         /\ \A j \in 1..Len(partitions) : Count(j) \in Nat \ {0}
         /\ \A j \in 1..(Len(partitions) - 1) : Count(j) = pz
         /\ Len(partitions) > 0 => k > (Len(partitions) - 1) * pz
<1> DEFINE L == Len(partitions)
<1>1. /\ n \in Nat \ {0} /\ m \in Nat \ {0} /\ pz \in Nat \ {0}
      /\ k \in 0..n /\ i \in 1..pz /\ L \in Nat
  BY Size, LoopAssumption DEF LoopInv, LoopTypeOK
<1> HIDE DEF L
<1>2. \A j \in 1..L : Count(j) \in Nat \ {0}
  BY <1>1 DEF Count
<1>3. \A j \in 1..(L - 1) : Count(j) = pz
  BY <1>1 DEF Count, L
<1>4. ASSUME L > 0 PROVE k > (L - 1) * pz
  <2>1. k = (L - 1) * pz + Count(L)
    BY <1>1, <1>4 DEF LoopInv, Covered, L
  <2>2. (L - 1) * pz \in Int
    BY <1>1
  <2>3. Count(L) \in Nat \ {0}
    BY <1>1, <1>2, <1>4
  <2> DEFINE base == (L - 1) * pz
             last == Count(L)
  <2>4. k = base + last /\ base \in Int /\ last \in Nat \ {0}
    BY <2>1, <2>2, <2>3
  <2> HIDE DEF base, last
  <2>5. k > base
    BY <2>4
  <2> QED BY <2>5 DEF base
<1> QED BY <1>1, <1>2, <1>3, <1>4 DEF L

LEMMA InOrderHolds == ASSUME LoopInv PROVE InOrder
<1> DEFINE L == Len(partitions)
<1>1. partitions = <<>> <=> k = 0
  <2>1. CASE L = 0
    <3>1. partitions = <<>>
      BY <2>1, EmptySeq DEF LoopInv, LoopTypeOK
    <3> QED BY <2>1, <3>1 DEF LoopInv, Covered
  <2>2. CASE L > 0
    <3>1. partitions # <<>>
      BY <2>2
    <3>2. (L - 1) * pz >= 0
      BY <2>2, Facts, SMTT(30)
    <3>3. k > 0
      <4>1. (L - 1) * pz \in Int /\ k > (L - 1) * pz /\ k \in Int
        BY <2>2, Facts
      <4> QED BY <3>2, <4>1
    <3> QED BY <3>1, <3>3
  <2>3. L = 0 \/ L > 0
    BY Facts
  <2> QED BY <2>1, <2>2, <2>3
<1>2. ASSUME NEW j \in 1..L
      PROVE  /\ Len(partitions[j].points) \in Nat \ {0}
             /\ partitions[j].points[1] = (j - 1) * pz + 1
             /\ \A l \in 1..Len(partitions[j].points) :
                  partitions[j].points[l] = partitions[j].points[1] + l - 1
             /\ j = L => (j - 1) * pz + Len(partitions[j].points) = k
  <2>1. /\ Cut(j) /\ Count(j) \in Nat \ {0}
        /\ j \in Nat /\ pz \in Nat /\ k \in Nat
    BY Facts DEF LoopInv
  <2>2. Len(partitions[j].points) = Count(j)
    BY <2>1 DEF Cut
  <2>3. \A l \in 1..Count(j) : partitions[j].points[l] = (j - 1) * pz + l
    BY <2>1 DEF Cut
  <2>4. j = L => (j - 1) * pz + Count(j) = k
    BY <2>1 DEF LoopInv, Covered
  <2> DEFINE base == (j - 1) * pz
  <2>5. base \in Int
    BY <2>1
  <2> HIDE DEF base
  <2>6. \A l \in 1..Count(j) : partitions[j].points[l] = base + l
    BY <2>3 DEF base
  <2>7. partitions[j].points[1] = base + 1
    BY <2>1, <2>6
  <2>8. \A l \in 1..Count(j) :
          partitions[j].points[l] = partitions[j].points[1] + l - 1
    BY <2>1, <2>5, <2>6, <2>7
  <2> QED BY <2>1, <2>2, <2>4, <2>7, <2>8 DEF base
<1>3. ASSUME NEW j \in 1..L, j # 1
      PROVE  partitions[j].points[1] = partitions[j - 1].points[1]
                                         + Len(partitions[j - 1].points)
  <2>1. j - 1 \in 1..L /\ j - 1 \in 1..(L - 1)
    BY <1>3, Facts
  <2>2. Len(partitions[j - 1].points) = pz
    <3>1. Cut(j - 1) /\ Count(j - 1) = pz
      BY <2>1, Facts DEF LoopInv
    <3> QED BY <3>1 DEF Cut
  <2>3. /\ partitions[j - 1].points[1] = ((j - 1) - 1) * pz + 1
        /\ partitions[j].points[1] = (j - 1) * pz + 1
    BY <1>2, <2>1
  <2>4. (j - 1) * pz + 1 = (((j - 1) - 1) * pz + 1) + pz
    BY Facts
  <2> QED BY <2>2, <2>3, <2>4
<1>4. DOMAIN partitions = 1..L
  BY DEF LoopInv, LoopTypeOK
<1>5. ASSUME NEW j \in 1..L
      PROVE  /\ partitions[j].points # <<>>
             /\ DOMAIN partitions[j].points
                  = 1..Len(partitions[j].points)
             /\ j = 1 => partitions[j].points[1] = 1
             /\ j = L => partitions[j].points[1]
                          + Len(partitions[j].points) - 1 = k
  <2>1. partitions[j].points \in Seq(1..n)
    <3> DEFINE Text == [points : Seq(1..n), closed : BOOLEAN]
    <3>1. partitions \in Seq(Text)
      BY DEF LoopInv, LoopTypeOK
    <3> HIDE DEF Text
    <3>2. partitions[j] \in Text
      BY <3>1, ElementOfSeq
    <3>3. partitions[j] \in [points : Seq(1..n), closed : BOOLEAN]
      BY <3>2 DEF Text
    <3> QED BY <3>3
  <2>2. /\ partitions[j].points # <<>>
        /\ DOMAIN partitions[j].points = 1..Len(partitions[j].points)
    BY <1>2, <2>1
  <2> DEFINE base == (j - 1) * pz
             len == Len(partitions[j].points)
             first == partitions[j].points[1]
  <2>3. /\ base \in Int /\ len \in Nat /\ first = base + 1
        /\ j = 1 => base = 0
        /\ j = L => base + len = k
    <3>1. pz \in Nat /\ j \in Nat
      BY Facts
    <3>2. base \in Int /\ (j = 1 => base = 0)
      BY <3>1
    <3>3. len \in Nat /\ first = base + 1
      BY <1>2
    <3>4. j = L => base + len = k
      BY <1>2
    <3> QED BY <3>2, <3>3, <3>4
  <2> HIDE DEF base, len, first
  <2>4. (j = 1 => first = 1) /\ (j = L => first + len - 1 = k)
    BY <2>3
  <2> QED BY <2>2, <2>4 DEF len, first
<1> HIDE DEF L
<1>6. ASSUME NEW j \in DOMAIN partitions
      PROVE  LET own == partitions[j].points
             IN /\ own # <<>>
                /\ \A l \in DOMAIN own : own[l] = own[1] + l - 1
                /\ own[1] = IF j = 1 THEN 1
                            ELSE partitions[j - 1].points[1]
                                   + Len(partitions[j - 1].points)
                /\ j = Len(partitions) => own[1] + Len(own) - 1 = k
  <2>1. j \in 1..L
    BY <1>4
  <2>2. L = Len(partitions)
    BY DEF L
  <2> QED BY <2>1, <2>2, <1>2, <1>3, <1>5
<1> QED BY <1>1, <1>6 DEF InOrder

LEMMA AllClosedHolds == ASSUME LoopInv PROVE AllClosed
<1>1. DOMAIN partitions = 1..Len(partitions)
  BY DEF LoopInv, LoopTypeOK
<1> QED BY <1>1 DEF LoopInv, AllClosed, Cut

LEMMA OnePerMapperHolds == ASSUME LoopInv PROVE OnePerMapper
<1> DEFINE L == Len(partitions)
<1>1. SUFFICES ASSUME L > m PROVE FALSE
  BY Facts DEF OnePerMapper
<1>2. k > (L - 1) * pz /\ n < m * pz /\ k <= n
  BY <1>1, Facts, Size
<1>3. (L - 1) * pz >= m * pz
  <2>1. L - 1 >= m /\ L \in Nat /\ m \in Nat /\ pz \in Nat
    BY <1>1, Facts
  <2> HIDE DEF L
  <2> QED BY <2>1, SMTT(30)
<1>4. k \in Int /\ n \in Int /\ (L - 1) * pz \in Int /\ m * pz \in Int
  BY Facts
<1> QED BY <1>2, <1>3, <1>4

(* The closed form: L partitions hold more points than L - 1 full ones, so *)
(* that there are as many as n points need, and each is as long as what it *)
(* starts behind leaves.                                                   *)
LEMMA Quotient ==
  ASSUME NEW q \in Nat, NEW d \in Nat \ {0}, NEW r \in 0..(d - 1)
  PROVE  (q * d + r) \div d = q
<1> DEFINE a == q * d + r
           e == a \div d
<1>1. a \in Nat /\ q * d \in Nat
  BY SMTT(30)
<1>2. e \in Nat /\ a = (d * e) + (a % d) /\ a % d \in 0..(d - 1)
  <2> HIDE DEF a
  <2> QED BY <1>1, SMTT(30) DEF e
<1> HIDE DEF e
<1>3. ~(e > q)
  <2> SUFFICES ASSUME e >= q + 1 PROVE FALSE
    BY <1>2
  <2>1. d * e >= d * (q + 1)
    BY <1>2, SMTT(30)
  <2>2. d * (q + 1) = q * d + d
    BY SMTT(30)
  <2> DEFINE x == d * e
             y == q * d
             z == a % d
  <2>3. x \in Int /\ y \in Nat /\ z \in 0..(d - 1)
    BY <1>1, <1>2
  <2>4. x >= y + d /\ y + r = x + z
    BY <1>2, <2>1, <2>2 DEF a
  <2> HIDE DEF x, y, z
  <2> QED BY <2>3, <2>4
<1>4. ~(e < q)
  <2> SUFFICES ASSUME e + 1 <= q PROVE FALSE
    BY <1>2
  <2>1. d * (e + 1) <= d * q
    BY <1>2, SMTT(30)
  <2>2. d * (e + 1) = d * e + d /\ d * q = q * d
    BY <1>2, SMTT(30)
  <2> DEFINE x == d * e
             y == q * d
             z == a % d
  <2>3. x \in Int /\ y \in Nat /\ z \in 0..(d - 1)
    BY <1>1, <1>2
  <2>4. x + d <= y /\ y + r = x + z
    BY <1>2, <2>1, <2>2 DEF a
  <2> HIDE DEF x, y, z
  <2> QED BY <2>3, <2>4
<1> QED BY <1>2, <1>3, <1>4 DEF e

LEMMA ClosedFormHolds == ASSUME LoopInv PROVE ClosedForm
<1> SUFFICES ASSUME finished
             PROVE  [j \in DOMAIN partitions |-> partitions[j].points]
                      = Direct!Partitions([l \in 1..n |-> <<l>>], m)
  BY DEF ClosedForm
<1> DEFINE L == Len(partitions)
           c == Count(L)
           full == (L - 1) * pz
           lines == [l \in 1..n |-> <<l>>]
           size(j) == IF j * pz <= n THEN pz ELSE n - (j - 1) * pz
<1>1. /\ n \in Nat \ {0} /\ m \in Nat \ {0} /\ pz \in Nat \ {0}
      /\ L \in Nat \ {0} /\ DOMAIN partitions = 1..L
      /\ i \in 1..pz /\ k = n
  BY Facts DEF LoopInv, LoopTypeOK, Covered
<1>2. n = full + c /\ c \in 1..pz /\ full \in Nat
  <2>1. k = (L - 1) * pz + Count(L)
    BY <1>1 DEF LoopInv, Covered
  <2>2. Count(L) \in 1..pz
    <3>1. Count(L) \in Nat \ {0} /\ (Count(L) = pz \/ Count(L) = pz - i)
      BY <1>1, Facts DEF Count
    <3> QED BY <1>1, <3>1
  <2>3. L - 1 \in Nat /\ (L - 1) * pz \in Nat
    BY <1>1, SMTT(30)
  <2> QED BY <1>1, <2>1, <2>2, <2>3
<1>3. L * pz = full + pz
  BY <1>1
<1> HIDE DEF L, c, full
<1>4. (n + pz - 1) \div pz = L
  <2>1. n + pz - 1 = L * pz + (c - 1) /\ c - 1 \in 0..(pz - 1)
    BY <1>1, <1>2, <1>3
  <2> QED BY <1>1, <2>1, Quotient
<1>5. ASSUME NEW j \in 1..L
      PROVE  size(j) = Count(j) /\ Count(j) \in 1..pz
             /\ (j - 1) * pz \in Nat /\ (j - 1) * pz + Count(j) <= n
  <2>1. CASE j = L
    BY <1>1, <1>2, <1>3, <2>1 DEF c, full
  <2>2. CASE j # L
    <3>1. j \in 1..(L - 1) /\ Count(j) = pz
      <4>1. j \in 1..(L - 1) /\ j < L
        BY <1>1, <2>2
      <4> QED BY <4>1 DEF Count, L
    <3>2. j * pz <= full /\ (j - 1) * pz \in Nat /\ j * pz \in Nat
      <4>1. j - 1 \in Nat /\ j \in Nat /\ j <= L - 1 /\ L - 1 \in Nat
        BY <1>1, <3>1
      <4> QED BY <1>1, <4>1, SMTT(30) DEF full
    <3>3. j * pz = (j - 1) * pz + pz
      BY <1>1
    <3> QED BY <1>1, <1>2, <3>1, <3>2, <3>3
  <2> QED BY <2>1, <2>2
<1>6. ASSUME NEW j \in 1..L
      PROVE  partitions[j].points
               = [l \in 1..size(j) |-> lines[(j - 1) * pz + l][1]]
  <2> DEFINE own == partitions[j].points
             base == (j - 1) * pz
  <2>1. own \in Seq(1..n)
    <3> DEFINE Text == [points : Seq(1..n), closed : BOOLEAN]
    <3>1. partitions \in Seq(Text)
      BY DEF LoopInv, LoopTypeOK
    <3> HIDE DEF Text
    <3>2. partitions[j] \in Text
      BY <3>1, ElementOfSeq DEF L
    <3>3. partitions[j] \in [points : Seq(1..n), closed : BOOLEAN]
      BY <3>2 DEF Text
    <3> QED BY <3>3
  <2>2. Len(own) = Count(j) /\ \A l \in 1..Count(j) : own[l] = base + l
    BY DEF LoopInv, Cut, L
  <2>3. size(j) = Count(j) /\ base \in Nat /\ base + Count(j) <= n
        /\ Count(j) \in 1..pz
    BY <1>5
  <2> HIDE DEF own, base, size
  <2>4. ASSUME NEW l \in 1..Count(j)
        PROVE  lines[base + l][1] = base + l
    <3>1. base + l \in 1..n
      BY <1>1, <2>3
    <3> QED BY <3>1
  <2> HIDE DEF lines
  <2>5. own = [l \in 1..Count(j) |-> own[l]]
    BY <2>1, <2>2
  <2>6. own = [l \in 1..size(j) |-> lines[base + l][1]]
    BY <2>2, <2>3, <2>4, <2>5
  <2> QED BY <2>6 DEF own, base
<1>7. Direct!Partitions(lines, m)
        = [j \in 1..L |-> [l \in 1..size(j) |-> lines[(j - 1) * pz + l][1]]]
  <2>1. Len(lines) = n
    BY <1>1
  <2> HIDE DEF lines
  <2> QED BY <1>4, <2>1 DEF Direct!Partitions, Direct!PartitionSize, pz
<1> HIDE DEF size, lines
<1>8. [j \in 1..L |-> partitions[j].points] = Direct!Partitions(lines, m)
  BY <1>6, <1>7
<1> QED BY <1>1, <1>8 DEF lines

(* The countdown of kmeans_preprocess never leaves 1..pz, and the points   *)
(* it appends are points of the file.                                      *)
THEOREM LoopTypeCorrect == Spec => []LoopTypeOK
<1>1. LoopInv => LoopTypeOK
  BY DEF LoopInv
<1> QED BY <1>1, LoopInvariant, PTL

(* For every file that is not empty and every number of mappers, the loop  *)
(* of kmeans_preprocess puts every point into a partition, once and in     *)
(* order.                                                                  *)
THEOREM PointsInOrder == Spec => []InOrder
BY LoopInvariant, InOrderHolds, PTL

(* No partition reaches a mapper with its bracket open. *)
THEOREM PartitionsClosed == Spec => []AllClosed
BY LoopInvariant, AllClosedHolds, PTL

(* There are never more partitions than mappers. *)
THEOREM NoMoreThanMappers == Spec => []OnePerMapper
BY LoopInvariant, OnePerMapperHolds, PTL

(* What the rest of the model sends for a file of points (FireKMeans) is   *)
(* what the countdown of kmeans_preprocess computes, for every file that   *)
(* is not empty and every number of mappers.                               *)
THEOREM LoopComputesPartitions == Spec => []ClosedForm
BY LoopInvariant, ClosedFormHolds, PTL
=============================================================================
