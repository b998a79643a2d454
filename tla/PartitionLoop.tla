--------------------------- MODULE PartitionLoop ----------------------------
(***************************************************************************)
(* The loop of kmeans_preprocess (client_protocol.cpp) that groups the     *)
(* points of a file into one partition per mapper.  It counts i down from  *)
(* the size pz of a partition, opens one when i is pz and closes it when i *)
(* reaches 0; what it leaves open is closed after the loop.  Points are    *)
(* known by their number in the file.                                      *)
(***************************************************************************)
EXTENDS Integers, Sequences

CONSTANTS
  Sizes,        \* numbers of points a file may have
  MapperCounts  \* numbers of mappers that may have registered

(* With no point, back() of the empty vector is undefined; with no mapper, *)
(* the size of a partition.                                                *)
ASSUME LoopAssumption ==
  Sizes \subseteq Nat \ {0} /\ MapperCounts \subseteq Nat \ {0}

VARIABLES
  n, m,        \* points, mappers
  k,           \* points read so far
  i,           \* the countdown
  partitions,  \* each a text: its points, and whether its bracket is closed
  finished

vars == <<n, m, k, i, partitions, finished>>

pzRoundedDown == n \div m
pz == 1 + n \div m

Init ==
  /\ n \in Sizes /\ m \in MapperCounts
  /\ k = 0 /\ i = pz /\ partitions = <<>> /\ finished = FALSE

Opened(p) == Append(partitions, [points |-> <<p>>, closed |-> FALSE])
ExtendedAtFront(p) ==
  [partitions EXCEPT ![Len(partitions)].points = <<p>> \o @]
Extended(p) ==
  [partitions EXCEPT ![Len(partitions)].points = Append(@, p)]
Closed(ps) == [ps EXCEPT ![Len(ps)].closed = TRUE]

(* One turn of the loop: i is tested, decremented, and tested again. *)
IsFirstDecremented == i = pz - 1 \/ partitions = <<>>
IsFirst == i = pz
FirstOfPartition ==
  /\ IsFirst
  /\ partitions' = IF i = 1 THEN Closed(Opened(k + 1)) ELSE Opened(k + 1)
NotFirst ==
  /\ ~IsFirst
  /\ partitions' = IF i = 1 THEN Closed(Extended(k + 1)) ELSE Extended(k + 1)

Turn ==
  /\ k < n
  /\ k' = k + 1
  /\ i' = IF i = 1 THEN pz ELSE i - 1
  /\ FirstOfPartition \/ NotFirst
  /\ UNCHANGED <<n, m, finished>>

(* After the loop. *)
CloseLast ==
  /\ k = n /\ ~finished
  /\ partitions' = Closed(partitions)
  /\ finished' = TRUE
  /\ UNCHANGED <<n, m, k, i>>

Next == Turn \/ CloseLast

Spec == Init /\ [][Next]_vars

-----------------------------------------------------------------------------
LoopTypeOK ==
  /\ n \in Sizes /\ m \in MapperCounts
  /\ k \in 0..n /\ i \in 1..pz
  /\ partitions \in Seq([points : Seq(1..n), closed : BOOLEAN])
  /\ finished \in BOOLEAN

(* The points read so far are in the partitions, once each and in order:   *)
(* partitions are intervals that follow on each other from 1 to k.         *)
InOrder ==
  /\ partitions = <<>> <=> k = 0
  /\ \A j \in DOMAIN partitions :
       LET own == partitions[j].points
       IN /\ own # <<>>
          /\ \A l \in DOMAIN own : own[l] = own[1] + l - 1
          /\ own[1] = IF j = 1 THEN 1
                      ELSE partitions[j - 1].points[1]
                             + Len(partitions[j - 1].points)
          /\ j = Len(partitions) => own[1] + Len(own) - 1 = k

(* No partition but the last is left open, and none once the loop is over: *)
(* an open one is a list the map script cannot parse.                      *)
AllClosed ==
  \A j \in DOMAIN partitions :
    finished \/ j < Len(partitions) => partitions[j].closed

(* There are no more partitions than mappers: none gets a second one while *)
(* another has none.  (Some may get none: 4 points make 2 partitions for   *)
(* any of 2, 3 or 4 mappers.)                                              *)
OnePerMapper == Len(partitions) <= m

(* When the loop is over, its partitions are those by which module         *)
(* Partition computes what ClientProtocol sends (FireKMeans): the points   *)
(* of the file, pz at a time.                                              *)
Direct == INSTANCE Partition WITH
            Items <- {}, Lines <- <<>>, KeyIds <- {}, KeyOf <- <<>>,
            HashOf <- <<>>, MapperIds <- {}, ReducerIds <- {},
            HasCombine <- FALSE, App <- "KMEANS", MaxRounds <- 1

ClosedForm ==
  finished =>
    [j \in DOMAIN partitions |-> partitions[j].points]
      = Direct!Partitions([l \in 1..n |-> <<l>>], m)
=============================================================================
