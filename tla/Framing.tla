------------------------------ MODULE Framing -------------------------------
(***************************************************************************)
(* How messages are put into text and told apart again.  A payload is a    *)
(* type, a separator and two texts with a separator between; the texts are *)
(* whatever a script pushes, and nothing is escaped.  The enclave cuts a   *)
(* payload at its first separator (strchr), the client into the fields     *)
(* strtok finds, and both know the end of a round by texts that are empty. *)
(*                                                                         *)
(* One mapper, one reducer and one client; both scripts push any pairs.    *)
(* data_buff_ and last_result_ are maps from keys to the values inserted   *)
(* under them, in that order.  In which order keys are walked is left out: *)
(* the reduce script, called for one key after the other, may push         *)
(* anything for any of them.                                               *)
(***************************************************************************)
EXTENDS Sequences, SequencesExt, FiniteSetsExt, Subsequence

CONSTANTS
  Chars,       \* characters other than the separator
  PushTexts,   \* bound: texts the map script pushes
  ReplyTexts,  \* bound: texts the reduce script pushes
  MaxPairs,    \* bound: pairs the map script pushes
  MaxReplies   \* bound: pairs the reduce script pushes

pload_sep == "|"
ASSUME FramingAssumption ==
  /\ Chars \cap {pload_sep, "{", "}", ","} = {}
  /\ PushTexts \subseteq Seq(Chars \cup {pload_sep})
  /\ ReplyTexts \subseteq Seq(Chars \cup {pload_sep})
  /\ MaxPairs \in Nat /\ MaxReplies \in Nat

VARIABLES
  pushed,    \* history: what the map script pushed
  finished,  \* has the mapper closed the round?
  toReducer, toClient,  \* payloads on their way
  state,     \* the reducer's state_, or start_process while that runs
  buff,      \* the reducer's data_buff_
  reduced,   \* history: what the reduce script pushed
  mappers, reducers, reducers_done, last_result,
  exited     \* has the client printed its result and exited?

vars == <<pushed, finished, toReducer, toClient, state, buff, reduced,
          mappers, reducers, reducers_done, last_result, exited>>

(* A std::map of vectors, or a std::multimap: insert adds behind what is   *)
(* there under the key.                                                    *)
NoneYet == [k \in {} |-> <<>>]
Replaced(map, key, value) ==
  [k \in DOMAIN map \cup {key} |-> IF k = key THEN <<value>> ELSE map[k]]
Inserted(map, key, value) ==
  [k \in DOMAIN map \cup {key} |->
     IF k \in DOMAIN map
     THEN IF k = key THEN Append(map[k], value) ELSE map[k]
     ELSE <<value>>]

-----------------------------------------------------------------------------
(* strtok: fields are the longest pieces without a separator, so that none *)
(* is empty.                                                               *)
SepIn(s) == {i \in DOMAIN s : s[i] = pload_sep}
EveryStart(s) == {1} \cup {i + 1 : i \in SepIn(s)}
Starts(s) ==
  {i \in DOMAIN s : s[i] # pload_sep /\ (i = 1 \/ s[i - 1] = pload_sep)}
EndFrom(s, i) == Min({j \in SepIn(s) \cup {Len(s) + 1} : i <= j}) - 1
split(s) ==
  [f \in 1..Cardinality(Starts(s)) |->
     LET i == Nth(Starts(s), f) IN SubSeq(s, i, EndFrom(s, i))]

(* strchr *)
Key(s) == SubSeq(s, 1, Min(SepIn(s)) - 1)
Rest(s) == SubSeq(s, Min(SepIn(s)) + 1, Len(s))

(* outputpair *)
Payload(type, k, v) == <<type, pload_sep>> \o k \o <<pload_sep>> \o v

(* A subscription header is a text of words; its fields, which a std::map  *)
(* holds, come in the order of their names.                                *)
Entry(kv, key) ==
  IF key \in DOMAIN kv THEN <<"i", key, "=", kv[key]>> ELSE <<>>
subheader(id, kv) ==
  <<"0", id, "S">> \o Entry(kv, "dst") \o Entry(kv, "sid") \o Entry(kv, "type")

(* extractwt looks at every fourth word, and for requests finds a type: it *)
(* is in every header of a worker.                                         *)
Worker(h) == h[2]
FirstField(h) == h[7]
ExtractedType(h) ==
  h[Min({i \in DOMAIN h : i % 4 = 1 /\ i > 1 /\ h[i] = "type"}) + 2]

(* startsession *)
Request(id, num, code, data) ==
  Payload("7", subheader(id, [sid |-> "9", type |-> code]),
               subheader(id, [dst |-> num, sid |-> "9", type |-> data]))

-----------------------------------------------------------------------------
Init ==
  /\ pushed = <<>> /\ finished = FALSE /\ toReducer = <<>>
  /\ toClient = <<Request("M4", "4", "1", "3"), Request("R1", "1", "2", "4")>>
  /\ state = "EXPECT_DATA" /\ buff = NoneYet /\ reduced = <<>>
  /\ mappers = {} /\ reducers = {} /\ reducers_done = 0
  /\ last_result = NoneYet /\ exited = FALSE

clientVars == <<mappers, reducers, reducers_done, last_result, exited>>

(* The map script pushes a pair *)
Push(k, v) ==
  /\ ~finished /\ Len(pushed) < MaxPairs
  /\ pushed' = Append(pushed, <<k, v>>)
  /\ toReducer' = Append(toReducer, Payload("4", k, v))
  /\ UNCHANGED <<finished, toClient, state, buff, reduced, clientVars>>

(* finish_round *)
Finish ==
  /\ ~finished /\ finished' = TRUE
  /\ toReducer' = Append(toReducer, Payload("4", <<>>, <<>>))
  /\ UNCHANGED <<pushed, toClient, state, buff, reduced, clientVars>>

(* The reducer: income_data, which is given what follows "4|". *)
EitherEmpty(k, v) == k = <<>> \/ v = <<>>
BothEmpty(k, v) == k = <<>> /\ v = <<>>
In == SubSeq(Head(toReducer), 3, Len(Head(toReducer)))
buffer == IF state = "WAIT_NEXT" THEN NoneYet ELSE buff

ReducerReads ==
  /\ state # "start_process" /\ toReducer # <<>>
  /\ toReducer' = Tail(toReducer)
  /\ UNCHANGED <<pushed, finished, toClient, reduced, clientVars>>

(* orderjson puts a key into braces, whether it is a list of fields or not. *)
orderjson(k) == <<"{">> \o k \o <<"}">>
ReducerPair ==
  /\ ReducerReads /\ ~BothEmpty(Key(In), Rest(In))
  /\ buff' = Inserted(buffer, orderjson(Key(In)), Rest(In))
  /\ state' = "EXPECT_DATA"

ReducerMarker ==
  /\ ReducerReads /\ BothEmpty(Key(In), Rest(In))
  /\ buff' = buffer /\ state' = "start_process"

(* start_process: the reduce script is called for every key there is.  What *)
(* it pushes is sent as it comes, the end of the round when all is done.    *)
start_process(k, v) ==
  /\ state = "start_process" /\ DOMAIN buff # {} /\ Len(reduced) < MaxReplies
  /\ reduced' = Append(reduced, <<k, v>>)
  /\ toClient' = Append(toClient, Payload("5", k, v))
  /\ UNCHANGED <<pushed, finished, toReducer, state, buff, clientVars>>

EndRound ==
  /\ state = "start_process" /\ state' = "WAIT_NEXT"
  /\ toClient' = Append(toClient, Payload("5", <<>>, <<>>))
  /\ UNCHANGED <<pushed, finished, toReducer, buff, reduced, clientVars>>

(* The client: handle_msg, by the number of fields. *)
Fields == split(Head(toClient))
ClientReads ==
  /\ ~exited /\ toClient # <<>>
  /\ toClient' = Tail(toClient)
  /\ UNCHANGED <<pushed, finished, toReducer, state, buff, reduced>>

Registered(fs, types) ==
  {Worker(fs[f]) : f \in {g \in 2..Len(fs) : ExtractedType(fs[g]) \in types}}
HandleRequest ==
  /\ ClientReads /\ Fields[1] = <<"7">>
  /\ mappers' = mappers \cup Registered(Fields, {"1", "3"})
  /\ reducers' = reducers \cup Registered(Fields, {"2", "4"})
  /\ UNCHANGED <<reducers_done, last_result, exited>>

Result == ClientReads /\ Fields[1] = <<"5">> /\ UNCHANGED <<mappers, reducers>>

HandleMarker ==
  /\ Result /\ Len(Fields) = 1
  /\ reducers_done' = reducers_done + 1
  /\ exited' = (reducers_done + 1 = Cardinality(reducers))
  /\ UNCHANGED last_result

TypeAndKey(fs) == <<fs[1], fs[2]>>
KeyAndValue(fs) == <<fs[2], fs[3]>>
HandlePair ==
  /\ Result /\ Len(Fields) = 3
  /\ last_result' = Inserted(last_result, KeyAndValue(Fields)[1],
                                          KeyAndValue(Fields)[2])
  /\ UNCHANGED <<reducers_done, exited>>

HandleOther ==
  /\ Result /\ Len(Fields) \notin {1, 3}
  /\ UNCHANGED <<reducers_done, last_result, exited>>

ReducerStep == ReducerPair \/ ReducerMarker \/ EndRound
ClientStep == HandleRequest \/ HandleMarker \/ HandlePair \/ HandleOther

Next ==
  \/ \E k \in PushTexts, v \in PushTexts : Push(k, v)
  \/ \E k \in ReplyTexts, v \in ReplyTexts : start_process(k, v)
  \/ Finish \/ ReducerStep \/ ClientStep

Spec == Init /\ [][Next]_vars

(* Both scripts end, and every process reads on while there is something   *)
(* for it to read.                                                         *)
FairSpec ==
  /\ Spec /\ WF_vars(Finish) /\ WF_vars(EndRound)
  /\ WF_toReducer(ReducerReads) /\ WF_toClient(ClientReads)

-----------------------------------------------------------------------------
Clean(p) == SepIn(p[1] \o p[2]) = {}
Empty(p) == p = <<<<>>, <<>>>>
Blank(p) == SepIn(p[1] \o p[2]) = DOMAIN (p[1] \o p[2])

(* The values of pairs, by keys and in order. *)
Under(pairs, k) == {i \in DOMAIN pairs : pairs[i][1] = k}
Grouped(pairs) ==
  [k \in {pairs[i][1] : i \in DOMAIN pairs} |->
     LET own == Picked(pairs, Under(pairs, k)) IN [i \in DOMAIN own |-> own[i][2]]]

(* When the reducer starts, it gives the reduce script what the map        *)
(* script pushed: under each key, in braces, all its values and in order,  *)
(* empty ones and ones with separators included.  Keys must not hold the   *)
(* separator, and no pair be of two empty texts.                           *)
GivenIsPushed ==
  state # "EXPECT_DATA" /\ (\A i \in DOMAIN pushed :
                              SepIn(pushed[i][1]) = {} /\ ~Empty(pushed[i]))
    => buff = Grouped([i \in DOMAIN pushed |->
                         <<orderjson(pushed[i][1]), pushed[i][2]>>])

(* The client ends with what the reduce script pushed, as it pushed it:    *)
(* nothing is cut elsewhere, taken for a marker or lost, but pairs with an *)
(* empty text.  The pairs must not hold the separator, and neither script  *)
(* push a pair of two empty texts.                                         *)
Full(pairs) == {i \in DOMAIN pairs : pairs[i][1] # <<>> /\ pairs[i][2] # <<>>}
ReducedIsRead ==
  exited /\ (\A i \in DOMAIN pushed : ~Empty(pushed[i]))
         /\ (\A i \in DOMAIN reduced : Clean(reduced[i]) /\ ~Empty(reduced[i]))
    => last_result = Grouped(Picked(reduced, Full(reduced)))

(* Whatever scripts push, separators included, the client ends before the  *)
(* mapper has, or leaves results unread, only for a pair of two empty      *)
(* texts, or one of the reduce script of nothing but separators.           *)
NoEarlyEnd ==
  exited =>
    \/ finished /\ toClient = <<>>
    \/ \E i \in DOMAIN pushed : Empty(pushed[i])
    \/ finished /\ \E i \in DOMAIN reduced : Blank(reduced[i])

(* Workers are registered in the role their request is made in. *)
RolesRead ==
  /\ mappers \subseteq {"M4"} /\ reducers \subseteq {"R1"}
  /\ exited => mappers # {} /\ reducers # {}

(* No payload, whatever is in it, keeps the client from its result. *)
Ends == <>exited
=============================================================================
