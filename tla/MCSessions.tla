----------------------------- MODULE MCSessions -----------------------------
(***************************************************************************)
(* Instances of Sessions for TLC.  What workers compute is not modelled    *)
(* there: input and scripts are the smallest there are.                    *)
(***************************************************************************)
EXTENDS Sessions

CONSTANT x  \* the only item

OneId == {0}
OneItem == {x}
OneLine == <<<<x>>>>
OneKey == {0}
OneKeyOf == [r \in 1..MaxRounds |-> [i \in Items |-> 0]]
OneHash == [k \in KeyIds |-> 0]

(* A session id the mapper, and one the reducer, would be handed.          *)
Ids1and2 == <<15, 27>>
Ids1and2and9 == <<15, 27, 93>>
=============================================================================
