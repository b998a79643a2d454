---------------------------- MODULE Subsequence -----------------------------
(***************************************************************************)
(* Entries picked from a sequence by their places, in the order in which   *)
(* they stand.                                                             *)
(***************************************************************************)
EXTENDS Integers, FiniteSets

(* The n-th smallest of a finite set of numbers. *)
Nth(S, n) == CHOOSE i \in S : Cardinality({j \in S : j < i}) = n - 1

(* The entries of s at the places in S. *)
Picked(s, S) == [n \in 1..Cardinality(S) |-> s[Nth(S, n)]]
=============================================================================
