----------------------------- MODULE MRProtocol -----------------------------
(***************************************************************************)
(* The vocabulary of the lightweight MapReduce protocol: who takes part,   *)
(* what is computed, and the messages that travel through the             *)
(* publish/subscribe engine (mrprotocol.h, scbrmsg.h, enclaved_common.h).  *)
(*                                                                         *)
(* Data are abstracted to what correctness tells apart.  The input file is *)
(* a sequence of lines, a line a sequence of items (word occurrences, or   *)
(* one point).  The map script pushes one pair per item; a pair's value    *)
(* records how many times each item is accounted for in it, so an item     *)
(* lost or counted twice anywhere on its way is visible in the result.     *)
(***************************************************************************)
EXTENDS Integers, Sequences, FiniteSets, SequencesExt

CONSTANTS
  MapperIds, ReducerIds, \* ids the workers are started with (worker -m / -r)
  Items,                 \* the units of input the map script works on
  Lines,                 \* the data file, split at newlines
  KeyIds,                \* words, or ids of k-means centers
  KeyOf,                 \* what the map script answers: round, item -> key
  HashOf,                \* the script's hash function before its "% count"
  HasCombine,            \* does the map script define combine?
  App,                   \* "WORDCOUNT" or "KMEANS" (client -k)
  MaxRounds              \* bound: k-means rounds explored

ASSUME ProtocolAssumption ==
  /\ MapperIds \in SUBSET Nat /\ IsFiniteSet(MapperIds)
  /\ ReducerIds \in SUBSET Nat /\ IsFiniteSet(ReducerIds)
  /\ IsFiniteSet(Items) /\ IsFiniteSet(KeyIds)
  /\ Lines \in Seq(Seq(Items)) /\ Lines # <<>>
  /\ MaxRounds \in Nat \ {0}
  /\ KeyOf \in [1..MaxRounds -> [Items -> KeyIds]]
  /\ HashOf \in [KeyIds -> Nat]
  /\ HasCombine \in BOOLEAN
  /\ App \in {"WORDCOUNT", "KMEANS"}
  /\ App = "KMEANS" => \A i \in DOMAIN Lines : Len(Lines[i]) = 1

(* A node is named by its role letter and its id, as in "M0" and "R1".     *)
Mapper  == {"M"} \X MapperIds
Reducer == {"R"} \X ReducerIds
Worker  == Mapper \cup Reducer
Client  == <<"Client", 1>>
Node    == Worker \cup {Client}

-----------------------------------------------------------------------------
(* enum MsgType *)
MAP_CODETYPE    == 1
REDUCE_CODETYPE == 2
MAP_DATATYPE    == 3
REDUCE_DATATYPE == 4
RESULT_DATATYPE == 5
JOB_ADVERTISE   == 6
JOB_REQUEST     == 7
MsgType == 1..7

(* enum State of a worker's protocol automaton *)
State == {"EXPECT_CODE", "EXPECT_DATA", "WAIT_NEXT"}

-----------------------------------------------------------------------------
(* Values count how often each item is accounted for. *)
Value == [Items -> Nat]
Zero == [x \in Items |-> 0]
One(x) == [y \in Items |-> IF y = x THEN 1 ELSE 0]
Plus(v, w) == [x \in Items |-> v[x] + w[x]]

(* A key carries the round whose list of centers (or, in word count, the   *)
(* only round) the map script was given with the item.                     *)
Key == (1..MaxRounds) \X KeyIds
NoPairs == [k \in Key |-> Zero]
MapKey(h, x) == <<h, KeyOf[h][x]>>

-----------------------------------------------------------------------------
(* Subscriptions and publications.  A header field that is absent is NoDst.*)
NoDst == -1
BadDst == -2             \* a one-character dst that is no decimal digit
Dst == Nat \cup {NoDst, BadDst}

Sub(n, t, d) == [op |-> "sub", node |-> n, type |-> t, dst |-> d]
Pub(t, d, b) == [op |-> "pub", type |-> t, dst |-> d, body |-> b]

(* Payloads: the session id, the subscriptions a worker asks for, the      *)
(* number of workers sent along with code, a line under the header of its  *)
(* round, a key/value pair, and the empty pair that closes a round.        *)
Session == [sid |-> 1]
Wanted(ss) == [subs |-> ss]
CountOf(n) == [count |-> n]
LineOf(h, l) == [end |-> FALSE, header |-> h, line |-> l]
Pair(k, v) == [end |-> FALSE, key |-> k, value |-> v]
EndOfRound == [end |-> TRUE]

(* A worker asks for the subscriptions of its role. *)
WorkerSub ==
  [op : {"sub"}, node : Mapper, type : {MAP_CODETYPE, MAP_DATATYPE}, dst : Dst]
  \cup [op : {"sub"}, node : Reducer,
        type : {REDUCE_CODETYPE, REDUCE_DATATYPE}, dst : Dst]
Subscription == [op : {"sub"}, node : Node, type : MsgType, dst : Dst]
InputPair  == [end : {FALSE}, header : 1..MaxRounds, line : Seq(Items)]
OutputPair == [end : {FALSE}, key : Key, value : Value]
Publication ==
  [op : {"pub"}, type : {JOB_ADVERTISE}, dst : {NoDst}, body : {Session}]
  \cup [op : {"pub"}, type : {JOB_REQUEST}, dst : {NoDst},
        body : [subs : Seq(WorkerSub)]]
  \cup [op : {"pub"}, type : {MAP_CODETYPE, REDUCE_CODETYPE}, dst : {NoDst},
        body : [count : Nat]]
  \cup [op : {"pub"}, type : {MAP_DATATYPE}, dst : Nat,
        body : InputPair \cup {EndOfRound}]
  \cup [op : {"pub"}, type : {REDUCE_DATATYPE}, dst : Dst,
        body : OutputPair \cup {EndOfRound}]
  \cup [op : {"pub"}, type : {RESULT_DATATYPE}, dst : {NoDst},
        body : OutputPair \cup {EndOfRound}]
Message == Subscription \cup Publication
=============================================================================
