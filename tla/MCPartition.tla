---------------------------- MODULE MCPartition -----------------------------
(* Instances of PartitionLoop for TLC. *)
EXTENDS PartitionLoop, TLC

ToTwelve == 1..12
ToFive == 1..5
=============================================================================
