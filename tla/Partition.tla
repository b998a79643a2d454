----------------------------- MODULE Partition ------------------------------
(***************************************************************************)
(* How the client splits the input among mappers: kmeans_preprocess and    *)
(* senddata_mappers (client_protocol.cpp).                                 *)
(***************************************************************************)
EXTENDS MRProtocol

(* kmeans_preprocess: points grouped into partitions of pz, the last one   *)
(* shorter.  A point is a line of one item.                                *)
PartitionSize(n, m) == 1 + n \div m
PartitionsFullOnly(lines, m) ==
  LET pz == PartitionSize(Len(lines), m)
  IN [j \in 1..(Len(lines) \div pz) |->
        [i \in 1..pz |-> lines[(j - 1) * pz + i][1]]]
Partitions(lines, m) ==
  LET n == Len(lines)
      pz == PartitionSize(n, m)
      size(j) == IF j * pz <= n THEN pz ELSE n - (j - 1) * pz
  IN [j \in 1..((n + pz - 1) \div pz) |->
        [i \in 1..size(j) |-> lines[(j - 1) * pz + i][1]]]

(* senddata_mappers: line i goes to mapper i % n under the payload header  *)
(* h, then every mapper is told that the round's data are complete.        *)
DataBurst(mappers, lines, h) ==
  LET ms == SetToSeq(mappers)
      n == Cardinality(mappers)
  IN [i \in 1..Len(lines) |->
        Pub(MAP_DATATYPE, ms[((i - 1) % n) + 1][2], LineOf(h, lines[i]))]
     \o [i \in 1..n |-> Pub(MAP_DATATYPE, ms[i][2], EndOfRound)]
=============================================================================
