---------------------------- MODULE MCMapReduce -----------------------------
(***************************************************************************)
(* Instances of MapReduce for TLC: input files, scripts and numbers of     *)
(* workers, chosen by the configurations.                                  *)
(***************************************************************************)
EXTENDS MapReduce, TLC

CONSTANTS a, b, c  \* items

OneId == {0}
TwoIds == {0, 1}
ElevenIds == 0..10

ItemsA == {a}
ItemsAB == {a, b}
ItemsABC == {a, b, c}

(* Lines with an item in common, and keys for both reducers. *)
LinesWords == <<<<a, b>>, <<b>>>>
LinesOne == <<<<a>>>>
(* k-means: one point a line. *)
LinesPoints == <<<<a>>, <<b>>, <<c>>>>
LinesTwoPoints == <<<<a>>, <<b>>>>

(* Word count: an item's key is its word. *)
Keys12 == {1, 2}
KeysWords == [r \in 1..MaxRounds |-> a :> 1 @@ b :> 2]
KeysOneWord == [r \in 1..MaxRounds |-> a :> 10]
HashWords == 1 :> 0 @@ 2 :> 1
Key10 == {10}
HashTen == 10 :> 10

(* k-means: centers 0 and 1; point b changes center after round 1 and      *)
(* center 1 is left without points in round 2 of the second script.        *)
Keys01 == {0, 1}
HashId == 0 :> 0 @@ 1 :> 1
KeysMoving == [r \in 1..MaxRounds |->
  IF r = 1 THEN a :> 0 @@ b :> 1 @@ c :> 1 ELSE a :> 0 @@ b :> 0 @@ c :> 1]
KeysEmptied == [r \in 1..MaxRounds |->
  IF r = 1 THEN a :> 0 @@ b :> 1 ELSE a :> 0 @@ b :> 0]
=============================================================================
