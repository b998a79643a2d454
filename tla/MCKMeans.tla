------------------------------ MODULE MCKMeans ------------------------------
(* Instances of KMeansClient for TLC: all files over a few coordinates.    *)
EXTENDS KMeansClient

(* Ties, and centers that coincide; any movement is more than a thousandth *)
(* of the diagonal.                                                        *)
Ties == [points : [1..3 -> {-6, 0, 6, 12}], centers : [1..2 -> {-6, 0, 3, 12}]]
(* Centers without points, and movements below, at and above a thousandth  *)
(* of the diagonal: one center moves by 6, by 18, or more.                 *)
Spread == [points : [1..3 -> {0, 6, 6000}], centers : [1..3 -> {0, 18, 6000}]]
TiesAndSpread == Ties \cup Spread

TwoOrders == {<<"id", "x", "y">>, <<"y", "x", "id">>}
=============================================================================
