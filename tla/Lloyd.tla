------------------------------- MODULE Lloyd --------------------------------
(***************************************************************************)
(* What k-means promises: Lloyd's iteration on points of a line.  Each     *)
(* step assigns every point to one of its nearest centers, moves every     *)
(* center to the barycenter of its points, and leaves a center without     *)
(* points where it is; the iteration ends when the centers have moved, on  *)
(* average, no further than a share of the diagonal of the data.           *)
(***************************************************************************)
EXTENDS Integers, Sequences, FiniteSets, Functions

CONSTANT Threshold  \* the share of the diagonal, a fraction <<n, d>>

VARIABLES
  points,    \* the positions of the points
  diagonal,  \* how far points and first centers are spread
  centers,   \* where each center is, by its id
  done

lloydVars == <<points, diagonal, centers, done>>

Ids == DOMAIN centers

Init ==
  /\ points \in Seq(Int) /\ diagonal \in Nat
  /\ centers \in [Ids -> Int]
  /\ done = FALSE

Distance(x, y) == IF x < y THEN y - x ELSE x - y

Nearest(c, p) ==
  {k \in Ids : \A j \in Ids : Distance(c[k], p) <= Distance(c[j], p)}

Assignments ==
  LET near == [i \in DOMAIN points |-> Nearest(centers, points[i])]
  IN {a \in [DOMAIN points -> Ids] : \A i \in DOMAIN points : a[i] \in near[i]}

(* The barycenter of the points assigned to center k, if there are any. *)
Barycenter(assigned, k) ==
  LET own == {i \in DOMAIN points : assigned[i] = k}
  IN IF own = {} THEN centers[k]
     ELSE SumFunctionOnSet(points, own) \div Cardinality(own)

(* The mean of the distances is at most the share of the diagonal. *)
Settled(before, after) ==
  LET moved == SumFunction([k \in Ids |-> Distance(before[k], after[k])])
  IN moved * Threshold[2] <= Threshold[1] * diagonal * Cardinality(Ids)

Step ==
  /\ ~done
  /\ \E assigned \in Assignments :
       centers' = [k \in Ids |-> Barycenter(assigned, k)]
  /\ done' = Settled(centers, centers')
  /\ UNCHANGED <<points, diagonal>>

Spec == Init /\ [][Step]_lloydVars

(* The sum of the squared distances of the points to their nearest center. *)
Square(d) == d * d
Cost(c) ==
  SumFunction([i \in DOMAIN points |->
                 LET k == CHOOSE j \in Nearest(c, points[i]) : TRUE
                 IN Square(Distance(c[k], points[i]))])
=============================================================================
