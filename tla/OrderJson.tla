----------------------------- MODULE OrderJson ------------------------------
(***************************************************************************)
(* The text of a center: a JSON object, the sequence of its fields, each   *)
(* with its name and its value.  cjson.encode puts the fields of a Lua     *)
(* table in no particular order, so that two mappers may write one center  *)
(* in two ways; orderjson (enclaved_reducer.cpp) brings them together.     *)
(***************************************************************************)
EXTENDS Naturals, Sequences, SequencesExt

FieldName == {"id", "x", "y"}

(* cjson.encode of a center, its fields in the given order. *)
encode(center, order) ==
  [i \in DOMAIN order |-> [name |-> order[i], value |-> center[order[i]]]]

(* cjson.decode; also what combine_results and extract_points do, which    *)
(* look for each field by its name.                                        *)
decode(text) ==
  [f \in FieldName |->
     text[SelectInSeq(text, LAMBDA field : field.name = f)].value]

(* orderjson: the fields as an ordered multiset of strings.  Strings that  *)
(* start with different names compare as the names do, and each name is    *)
(* there once.                                                             *)
NameRank == [id |-> 1, x |-> 2, y |-> 3]
orderjsonAsIs(key) == key
orderjson(key) ==
  [r \in DOMAIN key |->
     key[CHOOSE i \in DOMAIN key : NameRank[key[i].name] = r]]
=============================================================================
