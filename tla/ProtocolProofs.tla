--------------------------- MODULE ProtocolProofs ---------------------------
(***************************************************************************)
(* Workers, client and router together: every variable keeps its type; no  *)
(* barrier's counter passes what it is compared with; nothing is published *)
(* before its receivers have subscribed, by the order in which the client  *)
(* writes and in which the router reads; no worker ever refuses a message, *)
(* as its code comes first, with a count it takes, and nothing but its     *)
(* data follows; and the end markers keep rounds apart.                    *)
(***************************************************************************)
EXTENDS MapReduce, DataLemmas

-----------------------------------------------------------------------------
(* Roles do not overlap, and nobody is the client but the client. *)
LEMMA Roles ==
  /\ Mapper \cap Reducer = {}
  /\ Client \notin Worker
  /\ \A w \in Worker : w[2] \in Nat
  /\ Mapper \subseteq Node /\ Reducer \subseteq Node
  /\ Worker \subseteq Node /\ Client \in Node
  BY ProtocolAssumption DEF Mapper, Reducer, Worker, Client, Node

LEMMA RolesFinite == IsFiniteSet(Mapper) /\ IsFiniteSet(Reducer)
  BY ProtocolAssumption, FS_Product, FS_Singleton DEF Mapper, Reducer

(* A node reads its queue, or adds to it. *)
LEMMA ReadQueue ==
  ASSUME NEW S, down \in [Node -> Seq(S)], NEW n \in Node, Receive(n)
  PROVE  /\ down' \in [Node -> Seq(S)]
         /\ down[n] \in Seq(S) /\ down[n] # <<>> /\ Head(down[n]) \in S
         /\ down'[n] = Tail(down[n])
         /\ ToSet(down[n]) = {Head(down[n])} \cup ToSet(down'[n])
         /\ \A m \in Node : m # n => down'[m] = down[m]
<1>1. /\ down[n] \in Seq(S) /\ down[n] # <<>>
      /\ down'[n] = Tail(down[n])
      /\ \A m \in Node : m # n => down'[m] = down[m]
  BY DEF Receive
<1>2. ToSet(down[n]) = {Head(down[n])} \cup ToSet(Tail(down[n]))
  BY <1>1, ToSetQueue
<1>3. Head(down[n]) \in S /\ Tail(down[n]) \in Seq(S)
  BY <1>1
<1>4. down' \in [Node -> Seq(S)]
  BY <1>3 DEF Receive
<1>5. QED  BY <1>1, <1>2, <1>3, <1>4

LEMMA FillQueue ==
  ASSUME NEW S, up \in [Node -> Seq(S)], NEW n \in Node,
         NEW out \in Seq(S), Send(n, out)
  PROVE  /\ up' \in [Node -> Seq(S)] /\ up'[n] = up[n] \o out
         /\ ToSet(up'[n]) = ToSet(up[n]) \cup ToSet(out)
         /\ \A m \in Node : m # n => up'[m] = up[m]
<1>1. /\ up[n] \in Seq(S) /\ up'[n] = up[n] \o out
      /\ \A m \in Node : m # n => up'[m] = up[m]
  BY DEF Send
<1>2. ToSet(up[n] \o out) = ToSet(up[n]) \cup ToSet(out)
  BY <1>1, ToSetQueue
<1>3. up[n] \o out \in Seq(S)
  BY <1>1
<1>4. up' \in [Node -> Seq(S)]
  BY <1>3 DEF Send
<1>5. QED  BY <1>1, <1>2, <1>4

(* The router takes the first message of a node. *)
LEMMA PopQueue ==
  ASSUME NEW S, up \in [Node -> Seq(S)], NEW n \in Node, up[n] # <<>>,
         up' = [up EXCEPT ![n] = Tail(@)]
  PROVE  /\ up' \in [Node -> Seq(S)]
         /\ up[n] \in Seq(S) /\ Head(up[n]) \in S
         /\ up'[n] = Tail(up[n])
         /\ ToSet(up[n]) = {Head(up[n])} \cup ToSet(up'[n])
         /\ \A m \in Node : m # n => up'[m] = up[m]
<1>1. /\ up[n] \in Seq(S)
      /\ up'[n] = Tail(up[n])
      /\ \A m \in Node : m # n => up'[m] = up[m]
  OBVIOUS
<1>2. ToSet(up[n]) = {Head(up[n])} \cup ToSet(Tail(up[n]))
  BY <1>1, ToSetQueue
<1>3. Head(up[n]) \in S /\ Tail(up[n]) \in Seq(S)
  BY <1>1
<1>4. up' \in [Node -> Seq(S)]
  BY <1>3
<1>5. QED  BY <1>1, <1>2, <1>3, <1>4

-----------------------------------------------------------------------------
(* The types of what each operator of the model returns, in particular of  *)
(* the messages a step sends.                                              *)
LEMMA KeyFinite == IsFiniteSet(Key)
<1>1. IsFiniteSet(1..MaxRounds)
  BY ProtocolAssumption, FS_Interval
<1>2. QED  BY <1>1, ProtocolAssumption, FS_Product DEF Key

(* Values are closed under what is done with them. *)
LEMMA ValueTypes ==
  /\ Zero \in Value
  /\ \A x : One(x) \in Value
  /\ \A v, w \in Value : Plus(v, w) \in Value
  /\ NoPairs \in [Key -> Value]
  BY DEF Zero, One, Plus, NoPairs, Value

LEMMA MapKeyType ==
  ASSUME NEW h \in 1..MaxRounds, NEW x \in Items
  PROVE  MapKey(h, x) \in Key
  BY ProtocolAssumption DEF MapKey, Key

-----------------------------------------------------------------------------
(* What is well formed on the wire, by type of message. *)
LEMMA PubTypes ==
  /\ Pub(JOB_ADVERTISE, NoDst, Session) \in Publication
  /\ \A ss \in Seq(WorkerSub) :
       Pub(JOB_REQUEST, NoDst, Wanted(ss)) \in Publication
  /\ \A t \in {MAP_CODETYPE, REDUCE_CODETYPE}, n \in Nat :
       Pub(t, NoDst, CountOf(n)) \in Publication
  /\ \A d \in Nat, b \in InputPair \cup {EndOfRound} :
       Pub(MAP_DATATYPE, d, b) \in Publication
  /\ \A d \in Dst, b \in OutputPair \cup {EndOfRound} :
       Pub(REDUCE_DATATYPE, d, b) \in Publication
  /\ \A b \in OutputPair \cup {EndOfRound} :
       Pub(RESULT_DATATYPE, NoDst, b) \in Publication
  BY DEF Pub, Publication, Session, Wanted, CountOf

LEMMA PairTypes ==
  /\ \A h \in 1..MaxRounds, l \in Seq(Items) : LineOf(h, l) \in InputPair
  /\ \A k \in Key, v \in Value : Pair(k, v) \in OutputPair
  BY DEF LineOf, InputPair, Pair, OutputPair

(* What a reader finds in a message, by its type. *)
LEMMA BodyTypes ==
  ASSUME NEW m \in Publication
  PROVE  /\ m.type = JOB_REQUEST => m.body.subs \in Seq(WorkerSub)
         /\ m.type \in {MAP_CODETYPE, REDUCE_CODETYPE} => m.body.count \in Nat
         /\ m.type = MAP_DATATYPE => m.body \in InputPair \cup {EndOfRound}
         /\ m.type \in {REDUCE_DATATYPE, RESULT_DATATYPE} =>
              m.body \in OutputPair \cup {EndOfRound}
<1>1. m.type = JOB_REQUEST => m.body.subs \in Seq(WorkerSub)
  BY DEF Publication, JOB_ADVERTISE, JOB_REQUEST, MAP_CODETYPE,
         REDUCE_CODETYPE, MAP_DATATYPE, REDUCE_DATATYPE, RESULT_DATATYPE
<1>2. m.type \in {MAP_CODETYPE, REDUCE_CODETYPE} => m.body.count \in Nat
  BY DEF Publication, JOB_ADVERTISE, JOB_REQUEST, MAP_CODETYPE,
         REDUCE_CODETYPE, MAP_DATATYPE, REDUCE_DATATYPE, RESULT_DATATYPE
<1>3. m.type = MAP_DATATYPE => m.body \in InputPair \cup {EndOfRound}
  BY DEF Publication, JOB_ADVERTISE, JOB_REQUEST, MAP_CODETYPE,
         REDUCE_CODETYPE, MAP_DATATYPE, REDUCE_DATATYPE, RESULT_DATATYPE
<1>4. m.type = REDUCE_DATATYPE => m.body \in OutputPair \cup {EndOfRound}
  BY DEF Publication, JOB_ADVERTISE, JOB_REQUEST, MAP_CODETYPE,
         REDUCE_CODETYPE, MAP_DATATYPE, REDUCE_DATATYPE, RESULT_DATATYPE
<1>5. m.type = RESULT_DATATYPE => m.body \in OutputPair \cup {EndOfRound}
  BY DEF Publication, JOB_ADVERTISE, JOB_REQUEST, MAP_CODETYPE,
         REDUCE_CODETYPE, MAP_DATATYPE, REDUCE_DATATYPE, RESULT_DATATYPE
<1>6. QED  BY <1>1, <1>2, <1>3, <1>4, <1>5

LEMMA PairBody ==
  /\ \A b \in InputPair \cup {EndOfRound} :
       ~b.end => b.header \in 1..MaxRounds /\ b.line \in Seq(Items)
  /\ \A b \in OutputPair \cup {EndOfRound} :
       ~b.end => b.key \in Key /\ b.value \in Value
<1>1. EndOfRound.end
  BY DEF EndOfRound
<1>2. \A b \in InputPair : b.header \in 1..MaxRounds /\ b.line \in Seq(Items)
  BY DEF InputPair
<1>3. \A b \in OutputPair : b.key \in Key /\ b.value \in Value
  BY DEF OutputPair
<1>4. QED  BY <1>1, <1>2, <1>3

-----------------------------------------------------------------------------
(* Queues: whatever is true of all that is sent is true of all that is     *)
(* queued.                                                                 *)
LEMMA ReceiveTypes ==
  ASSUME down \in [Node -> Seq(Publication)], NEW n \in Node, Receive(n)
  PROVE  /\ down' \in [Node -> Seq(Publication)]
         /\ Head(down[n]) \in Publication
  BY DEF Receive

LEMMA SendTypes ==
  ASSUME NEW S, up \in [Node -> Seq(S)], NEW n \in Node,
         NEW out \in Seq(S), Send(n, out)
  PROVE  up' \in [Node -> Seq(S)]
  BY DEF Send

(* What each process sends once it has a job: pairs and markers with a     *)
(* destination below the count of reducers; results; code with the count   *)
(* of the other role, and data for registered mappers.                     *)
MapperMessage(w) == {p \in Publication :
  /\ p.type = REDUCE_DATATYPE
  /\ reducer_count[w] <= 10 => p.dst \in 0..(reducer_count[w] - 1)}
ReducerMessage == {p \in Publication : p.type = RESULT_DATATYPE}
DataMessage(M) ==
  {p \in Publication : p.type = MAP_DATATYPE /\ p.dst \in {w[2] : w \in M}}
CodeMessage == {p \in Publication :
  \/ p.type = MAP_CODETYPE /\ p.body.count = Cardinality(reducers)
  \/ p.type = REDUCE_CODETYPE /\ p.body.count = Cardinality(mappers)}
ClientMessage == CodeMessage \cup DataMessage(mappers)

LEMMA SentAreMessages ==
  /\ \A w \in Mapper : \A q \in Seq(MapperMessage(w)) : q \in Seq(Message)
  /\ \A q \in Seq(ReducerMessage) : q \in Seq(Message)
  /\ \A q \in Seq(ClientMessage) : q \in Seq(Message)
<1>1. /\ \A w \in Mapper : MapperMessage(w) \subseteq Message
      /\ ReducerMessage \subseteq Message
      /\ ClientMessage \subseteq Message
  BY DEF Message, MapperMessage, ReducerMessage, ClientMessage, CodeMessage,
    DataMessage
<1>2. QED  BY <1>1, SeqMonotone

-----------------------------------------------------------------------------
(* What a mapper sends. *)
LEMMA ToReducerType ==
  ASSUME reducer_count \in [Mapper -> Nat],
         NEW w \in Mapper, reducer_count[w] > 0,
         NEW k \in Key, NEW v \in Value
  PROVE  ToReducer(w, k, v) \in MapperMessage(w)
<1>1. HashOf[k[2]] % reducer_count[w] \in 0..(reducer_count[w] - 1)
  BY ProtocolAssumption DEF Key
<1>2. /\ getdestination(w, k) \in Dst
      /\ reducer_count[w] <= 10 =>
           getdestination(w, k) \in 0..(reducer_count[w] - 1)
  BY <1>1 DEF getdestination, CharDst, Dst, BadDst
<1>3. ToReducer(w, k, v) \in Publication
  BY <1>2, PubTypes, PairTypes DEF ToReducer
<1>4. QED
  BY <1>2, <1>3 DEF MapperMessage, ToReducer, Pub

LEMMA MapOutputType ==
  ASSUME reducer_count \in [Mapper -> Nat],
         NEW w \in Mapper, reducer_count[w] > 0,
         NEW h \in 1..MaxRounds, NEW line \in Seq(Items)
  PROVE  MapOutput(w, h, line) \in Seq(MapperMessage(w))
<1>1. \A j \in 1..Len(line) :
        ToReducer(w, MapKey(h, line[j]), One(line[j])) \in MapperMessage(w)
  BY ToReducerType, MapKeyType, ValueTypes
<1>2. QED  BY <1>1 DEF MapOutput

LEMMA PushedType ==
  ASSUME NEW h, NEW line \in Seq(Items), NEW buff \in [Key -> Value]
  PROVE  store_output(buff, Pushed(h, line)) \in [Key -> Value]
<1>1. ASSUME NEW x, NEW k
      PROVE  Cardinality({j \in 1..Len(line) :
               line[j] = x /\ MapKey(h, x) = k}) \in Nat
  <2>1. IsFiniteSet(1..Len(line))
    BY FS_Interval
  <2>2. QED  BY <2>1, FS_Subset, FS_CardinalityType
<1>2. Pushed(h, line) \in [Key -> Value]
  BY <1>1 DEF Pushed, Value
<1>3. QED  BY <1>2, ValueTypes DEF store_output

LEMMA FlushType ==
  ASSUME reducer_count \in [Mapper -> Nat],
         outbuff \in [Mapper -> [Key -> Value]],
         NEW w \in Mapper, reducer_count[w] > 0
  PROVE  flush_output(w) \in Seq(MapperMessage(w))
<1> DEFINE ks == SetToSeq(StoredKeys(w))
<1>1. IsFiniteSet(StoredKeys(w)) /\ StoredKeys(w) \subseteq Key
  BY KeyFinite, FS_Subset DEF StoredKeys
<1>2. ks \in Seq(Key)
  BY <1>1, SetToSeqType
<1>3. \A i \in 1..Len(ks) :
        ToReducer(w, ks[i], outbuff[w][ks[i]]) \in MapperMessage(w)
  BY <1>2, ToReducerType
<1>4. [i \in 1..Len(ks) |-> ToReducer(w, ks[i], outbuff[w][ks[i]])]
        \in Seq(MapperMessage(w))
  <2> HIDE DEF ks
  <2> QED  BY <1>2, <1>3
<1>5. QED  BY <1>4 DEF flush_output

LEMMA MarkersType ==
  ASSUME reducer_count \in [Mapper -> Nat], NEW w \in Mapper
  PROVE  MarkersToReducers(w) \in Seq(MapperMessage(w))
<1>1. \A i \in 1..reducer_count[w] :
        Pub(REDUCE_DATATYPE, i - 1, EndOfRound) \in MapperMessage(w)
  BY PubTypes DEF Dst, MapperMessage, Pub
<1>2. QED  BY <1>1 DEF MarkersToReducers

(* What a reducer sends. *)
LEMMA ReduceOutputType ==
  ASSUME NEW buff \in [Key -> Value]
  PROVE  ReduceOutput(buff) \in Seq(ReducerMessage)
<1> DEFINE ks == SetToSeq({k \in Key : buff[k] # Zero})
<1>1. IsFiniteSet({k \in Key : buff[k] # Zero})
  BY KeyFinite, FS_Subset
<1>2. ks \in Seq(Key)
  BY <1>1, SetToSeqType
<1>3. \A i \in 1..Len(ks) :
        Pub(RESULT_DATATYPE, NoDst, Pair(ks[i], buff[ks[i]])) \in ReducerMessage
  BY <1>2, PubTypes, PairTypes DEF ReducerMessage, Pub
<1>4. [i \in 1..Len(ks) |->
         Pub(RESULT_DATATYPE, NoDst, Pair(ks[i], buff[ks[i]]))]
        \in Seq(ReducerMessage)
  <2> HIDE DEF ks
  <2> QED  BY <1>2, <1>3
<1>5. QED  BY <1>4 DEF ReduceOutput

LEMMA OutputThenMarkerType ==
  ASSUME NEW buff \in [Key -> Value]
  PROVE  OutputThenMarker(buff) \in Seq(ReducerMessage)
<1>1. /\ ReduceOutput(buff) \in Seq(ReducerMessage)
      /\ <<Pub(RESULT_DATATYPE, NoDst, EndOfRound)>> \in Seq(ReducerMessage)
  BY ReduceOutputType, PubTypes DEF ReducerMessage, Pub
<1>2. QED  BY <1>1 DEF OutputThenMarker

(* What the client sends. *)
LEMMA CodesType ==
  ASSUME mappers \in SUBSET Mapper, reducers \in SUBSET Reducer
  PROVE  Codes \in Seq(CodeMessage)
<1>1. Cardinality(mappers) \in Nat /\ Cardinality(reducers) \in Nat
  BY RolesFinite, FS_Subset, FS_CardinalityType
<1>2. /\ Pub(MAP_CODETYPE, NoDst, CountOf(Cardinality(reducers)))
           \in CodeMessage
      /\ Pub(REDUCE_CODETYPE, NoDst, CountOf(Cardinality(mappers)))
           \in CodeMessage
  BY <1>1, PubTypes DEF CodeMessage, Pub, CountOf
<1>3. QED  BY <1>2 DEF Codes

LEMMA DataBurstType ==
  ASSUME NEW M \in SUBSET Mapper, NEW h \in 1..MaxRounds,
         NEW lines \in Seq(Seq(Items)), M = {} => lines = <<>>
  PROVE  DataBurst(M, lines, h) \in Seq(DataMessage(M))
<1> DEFINE ms == SetToSeq(M)
           n == Cardinality(M)
<1>1. IsFiniteSet(M)
  BY RolesFinite, FS_Subset
<1>2. ms \in [1..n -> M] /\ n \in Nat
  BY <1>1, SetToSeqType
<1>3. lines # <<>> => n > 0
  BY <1>1, <1>2, FS_EmptySet
<1>4. \A i \in 1..n : ms[i][2] \in Nat /\ ms[i][2] \in {w[2] : w \in M}
  BY <1>2, Roles DEF Worker
<1> HIDE DEF ms, n
<1>5. [i \in 1..Len(lines) |->
         Pub(MAP_DATATYPE, ms[((i - 1) % n) + 1][2], LineOf(h, lines[i]))]
        \in Seq(DataMessage(M))
  <2>1. ASSUME NEW i \in 1..Len(lines)
        PROVE  Pub(MAP_DATATYPE, ms[((i - 1) % n) + 1][2], LineOf(h, lines[i]))
                 \in DataMessage(M)
    <3>1. ((i - 1) % n) + 1 \in 1..n
      BY <1>2, <1>3
    <3>2. LineOf(h, lines[i]) \in InputPair
      BY PairTypes
    <3>3. QED  BY <1>4, <3>1, <3>2, PubTypes DEF DataMessage, Pub
  <2>2. QED  BY <2>1
<1>6. [i \in 1..n |-> Pub(MAP_DATATYPE, ms[i][2], EndOfRound)]
        \in Seq(DataMessage(M))
  BY <1>2, <1>4, PubTypes DEF DataMessage, Pub
<1>7. QED  BY <1>5, <1>6 DEF DataBurst, ms, n

LEMMA NewRoundType ==
  ASSUME mappers \in SUBSET Mapper, NEW h \in 1..MaxRounds,
         mappers_data \in Seq(Seq(Items)), mappers = {} => mappers_data = <<>>
  PROVE  DataBurst(mappers, mappers_data, h) \in Seq(ClientMessage)
<1>1. DataBurst(mappers, mappers_data, h) \in Seq(DataMessage(mappers))
  BY DataBurstType
<1>2. QED  BY <1>1, SeqMonotone DEF ClientMessage

LEMMA JobMessagesType ==
  ASSUME mappers \in SUBSET Mapper, reducers \in SUBSET Reducer,
         mappers # {}, NEW lines \in Seq(Seq(Items))
  PROVE  JobMessages(lines) \in Seq(ClientMessage)
<1>1. 1 \in 1..MaxRounds
  BY ProtocolAssumption
<1>2. /\ Codes \in Seq(ClientMessage)
      /\ DataBurst(mappers, lines, 1) \in Seq(ClientMessage)
  BY <1>1, CodesType, DataBurstType, SeqMonotone DEF ClientMessage
<1>3. QED  BY <1>2 DEF JobMessages

(* Partitions cuts the points into sequences of points: no index it uses   *)
(* lies outside the list.                                                  *)
LEMMA PartitionsType ==
  ASSUME NEW m \in Nat \ {0}, App = "KMEANS"
  PROVE  Partitions(Lines, m) \in Seq(Seq(Items))
<1> DEFINE n == Len(Lines)
           pz == PartitionSize(n, m)
           parts == (n + pz - 1) \div pz
           size(j) == IF j * pz <= n THEN pz ELSE n - (j - 1) * pz
<1>1. n \in Nat /\ pz \in Nat \ {0}
  <2>1. n \in Nat
    BY ProtocolAssumption
  <2> HIDE DEF n
  <2>2. n \div m \in Nat
    BY <2>1
  <2>3. QED  BY <2>1, <2>2 DEF PartitionSize
<1>2. parts \in Nat
  BY <1>1
<1>3. \A i \in 1..n : Lines[i][1] \in Items
  BY ProtocolAssumption
<1> HIDE DEF n, pz, parts
<1>4. ASSUME NEW j \in 1..parts
      PROVE  /\ size(j) \in Nat
             /\ \A i \in 1..size(j) : (j - 1) * pz + i \in 1..n
  <2>1. /\ (j - 1) * pz \in Nat /\ j * pz \in Nat
        /\ j * pz = (j - 1) * pz + pz
    BY <1>1, <1>2
  <2>2. j * pz <= parts * pz
    BY <1>1, <1>2
  <2>3. parts * pz <= n + pz - 1
    BY <1>1, <1>2 DEF parts
  <2>4. (j - 1) * pz <= n
    BY <1>1, <1>2, <2>1, <2>2, <2>3
  <2>5. QED  BY <1>1, <2>1, <2>4
<1>5. ASSUME NEW j \in 1..parts
      PROVE  [i \in 1..size(j) |-> Lines[(j - 1) * pz + i][1]] \in Seq(Items)
  <2> HIDE DEF size
  <2>1. \A i \in 1..size(j) : Lines[(j - 1) * pz + i][1] \in Items
    BY <1>3, <1>4
  <2>2. QED  BY <1>4, <2>1
<1>6. Partitions(Lines, m) =
        [j \in 1..parts |-> [i \in 1..size(j) |-> Lines[(j - 1) * pz + i][1]]]
  BY DEF Partitions, n, pz, parts
<1> HIDE DEF size
<1>7. QED  BY <1>2, <1>5, <1>6

-----------------------------------------------------------------------------
(* What each process sends, given that variables have their types: nothing *)
(* before it has its code, and only messages of its kind.                  *)

LEMMA JobRequestType ==
  ASSUME NEW w \in Worker
  PROVE  JobRequest(w) \in Publication
<1>1. Sub(w, codetype(w), NoDst) \in WorkerSub
  BY DEF Worker, WorkerSub, Sub, codetype, Dst, NoDst
<1>2. Sub(w, datatype(w), w[2]) \in WorkerSub
  BY Roles DEF Worker, WorkerSub, Sub, datatype, Dst
<1>3. <<Sub(w, codetype(w), NoDst), Sub(w, datatype(w), w[2])>>
        \in Seq(WorkerSub)
  BY <1>1, <1>2
<1>4. QED  BY <1>3, PubTypes DEF JobRequest

LEMMA MapperSends ==
  ASSUME TypeInv, NEW w \in Mapper, MapperNext(w)
  PROVE  \/ up' = up
         \/ /\ mState[w] # "EXPECT_CODE"
            /\ \E out \in Seq(MapperMessage(w)) : Send(w, out)
<1>1. MapperTypeOK /\ w \in Node /\ down \in [Node -> Seq(Publication)]
  BY Roles DEF TypeInv, TypeOK
<1>2. mState[w] # "EXPECT_CODE" => reducer_count[w] > 0
  BY DEF TypeInv, CountsTaken, ValidCount
<1>3. CASE MapData(w)
  <2>1. /\ mState[w] # "EXPECT_CODE" /\ down[w] # <<>>
        /\ Head(down[w]).type = MAP_DATATYPE
        /\ ~Head(down[w]).body.end
    BY <1>3 DEF MapData, TakesMapData, TakesData, Receive
  <2> DEFINE h == Head(down[w]).body.header
             line == Head(down[w]).body.line
  <2>2. h \in 1..MaxRounds /\ line \in Seq(Items)
    BY <1>1, <2>1, BodyTypes, PairBody
  <2> HIDE DEF h, line
  <2>3. MapOutput(w, h, line) \in Seq(MapperMessage(w))
    BY <1>1, <1>2, <2>1, <2>2, MapOutputType DEF MapperTypeOK
  <2>4. up' = up \/ Send(w, MapOutput(w, h, line))
    BY <1>3 DEF MapData, h, line
  <2>5. QED  BY <2>1, <2>3, <2>4
<1>4. CASE finish_round(w)
  <2>1. mState[w] # "EXPECT_CODE"
    BY <1>4 DEF finish_round, TakesMapData
  <2>2. /\ flush_output(w) \in Seq(MapperMessage(w))
        /\ MarkersToReducers(w) \in Seq(MapperMessage(w))
    BY <1>1, <1>2, <2>1, FlushType, MarkersType DEF MapperTypeOK
  <2>3. flush_output(w) \o MarkersToReducers(w) \in Seq(MapperMessage(w))
    BY <2>2
  <2>4. QED  BY <1>4, <2>1, <2>3 DEF finish_round
<1>5. CASE MapCode(w) \/ MapReject(w)
  BY <1>5 DEF MapCode, MapReject
<1>6. QED  BY <1>3, <1>4, <1>5 DEF MapperNext, MapperStep

LEMMA ReducerSends ==
  ASSUME TypeInv, NEW w \in Reducer, ReducerNext(w)
  PROVE  \/ up' = up
         \/ /\ rState[w] # "EXPECT_CODE"
            /\ \E out \in Seq(ReducerMessage) : Send(w, out)
<1>1. CASE start_process(w)
  <2>1. BufferBefore(w) \in [Key -> Value]
    BY ValueTypes DEF TypeInv, TypeOK, ReducerTypeOK, BufferBefore
  <2>2. OutputThenMarker(BufferBefore(w)) \in Seq(ReducerMessage)
    BY <2>1, OutputThenMarkerType
  <2>3. QED
    BY <1>1, <2>2 DEF start_process, MapperDone, TakesReduceData
<1>2. CASE ReduceCode(w) \/ ReduceData(w) \/ MoreMappers(w) \/ ReduceReject(w)
  BY <1>2 DEF ReduceCode, ReduceData, MoreMappers, ReduceReject
<1>3. QED  BY <1>1, <1>2 DEF ReducerNext, ReducerStep

(* The client: what it sends in one way or another to fire the job.        *)
LEMMA JobTypes ==
  ASSUME TypeInv, fire_jobs
  PROVE  /\ mappers_data' \in Seq(Seq(Items))
         /\ \E out \in Seq(ClientMessage) : Send(Client, out)
<1>1. ClientTypeOK
  BY DEF TypeInv, TypeOK
<1>2. CASE FireWordcount
  <2>1. mappers_data \o Lines \in Seq(Seq(Items))
    BY <1>1, ProtocolAssumption DEF ClientTypeOK
  <2>2. JobMessages(mappers_data \o Lines) \in Seq(ClientMessage)
    BY <1>1, <1>2, <2>1, JobMessagesType DEF FireWordcount, ClientTypeOK
  <2>3. QED  BY <1>2, <2>1, <2>2 DEF FireWordcount
<1>3. CASE FireKMeans
  <2> DEFINE parts == Partitions(Lines, Cardinality(mappers))
  <2>1. Cardinality(mappers) \in Nat \ {0}
    <3>1. IsFiniteSet(mappers) /\ mappers # {}
      BY <1>1, <1>3, RolesFinite, FS_Subset DEF FireKMeans, ClientTypeOK
    <3>2. QED  BY <3>1, FS_CardinalityType, FS_EmptySet
  <2>2. parts \in Seq(Seq(Items))
    BY <1>3, <2>1, PartitionsType DEF FireKMeans
  <2>3. mappers_data' = parts /\ Send(Client, JobMessages(parts))
    BY <1>3 DEF FireKMeans
  <2> HIDE DEF parts
  <2>4. JobMessages(parts) \in Seq(ClientMessage)
    BY <1>1, <1>3, <2>2, JobMessagesType DEF FireKMeans, ClientTypeOK
  <2>5. QED  BY <2>2, <2>3, <2>4
<1>4. CASE FireCrash
  <2>1. Codes \in Seq(ClientMessage)
    BY <1>1, CodesType, SeqMonotone DEF ClientMessage, ClientTypeOK
  <2>2. QED  BY <1>1, <1>4, <2>1 DEF FireCrash, ClientTypeOK
<1>5. QED  BY <1>2, <1>3, <1>4 DEF fire_jobs

LEMMA NewRoundSends ==
  ASSUME TypeInv, fire_new_round
  PROVE  /\ round_' \in 1..MaxRounds
         /\ \E out \in Seq(ClientMessage) : Send(Client, out)
<1>1. ClientTypeOK /\ DealtToMappers
  BY DEF TypeInv, TypeOK
<1>2. round_' = round_ + 1 /\ round_ + 1 \in 1..MaxRounds
  BY <1>1, ProtocolAssumption DEF fire_new_round, ClientTypeOK
<1>3. DataBurst(mappers, mappers_data, round_ + 1) \in Seq(ClientMessage)
  BY <1>1, <1>2, NewRoundType DEF ClientTypeOK, DealtToMappers
<1>4. QED  BY <1>2, <1>3 DEF fire_new_round

-----------------------------------------------------------------------------
(* Type correctness. *)

LEMMA InitTypes == Init => TypeInv
<1> SUFFICES ASSUME Init PROVE TypeInv
  OBVIOUS
<1>1. init \in Seq(Message)
  BY PubTypes, Roles DEF init, Message, Sub, Subscription, MsgType, Dst,
       NoDst, JOB_REQUEST, RESULT_DATATYPE
<1>2. \A w \in Worker : initialsub(w) \in Seq(Message)
  BY Roles DEF initialsub, Message, Sub, Subscription, MsgType, Dst,
       NoDst, JOB_ADVERTISE
<1>3. up \in [Node -> Seq(Message)]
  BY <1>1, <1>2 DEF Init, Node
<1>4. MapperTypeOK /\ ReducerTypeOK
  BY ValueTypes DEF Init, MapperInit, ReducerInit, MapperTypeOK,
       ReducerTypeOK, State
<1>5. ClientTypeOK
  <2>1. late \in BOOLEAN /\ polled \in BOOLEAN
    BY DEF Init, ClientInit
  <2>2. last_result \in [Key -> Seq(Value)]
    BY DEF Init, ClientInit, NoResult
  <2>3. QED
    BY <2>1, <2>2, ClientAssumption, ProtocolAssumption
    DEF Init, ClientInit, ClientTypeOK
<1>6. /\ subs \in SUBSET Subscription
      /\ down \in [Node -> Seq(Publication)]
      /\ started \in [Worker -> BOOLEAN]
  BY DEF Init
<1>7. CountsTaken /\ DealtToMappers
  BY DEF Init, MapperInit, CountsTaken, ClientInit, DealtToMappers
<1>8. QED
  BY <1>3, <1>4, <1>5, <1>6, <1>7 DEF TypeInv, TypeOK

LEMMA RouterTypes ==
  ASSUME TypeInv, NEW n \in Node, RouterNext(n)
  PROVE  TypeInv'
<1> USE DEF TypeInv, TypeOK, CountsTaken, DealtToMappers, RouterNext
<1>1. /\ up[n] # <<>> /\ up[n] \in Seq(Message)
      /\ up' = [up EXCEPT ![n] = Tail(@)]
  BY DEF Route, RouteSubscription, RoutePublication
<1>2. Head(up[n]) \in Message /\ up' \in [Node -> Seq(Message)]
  BY <1>1
<1>3. subs' \in SUBSET Subscription
  BY <1>2 DEF Route, RouteSubscription, RoutePublication, Message,
    Publication, Subscription
<1>4. down' \in [Node -> Seq(Publication)]
  <2>1. CASE RouteSubscription(n)
    BY <2>1 DEF RouteSubscription
  <2>2. CASE RoutePublication(n)
    <3>1. Head(up[n]) \in Publication
      BY <1>2, <2>2 DEF RoutePublication, Message, Subscription
    <3>2. QED  BY <2>2, <3>1 DEF RoutePublication
  <2>3. QED  BY <2>1, <2>2 DEF Route
<1>5. MapperTypeOK' /\ CountsTaken'
  BY DEF MapperTypeOK, mapperVars
<1>6. ReducerTypeOK' /\ ClientTypeOK' /\ DealtToMappers'
  BY DEF ReducerTypeOK, ClientTypeOK, reducerVars, clientVars
<1>7. QED  BY <1>2, <1>3, <1>4, <1>5, <1>6

LEMMA StartTypes ==
  ASSUME TypeInv, NEW w \in Worker, StartNext(w)
  PROVE  TypeInv'
<1> USE DEF TypeInv, TypeOK, CountsTaken, DealtToMappers, StartNext,
    startsession
<1>1. JobRequest(w) \in Publication
  BY JobRequestType
<1>2. up' \in [Node -> Seq(Message)]
  <2>1. <<JobRequest(w)>> \in Seq(Message)
    BY <1>1 DEF Message
  <2>2. QED  BY <2>1, SendTypes, Roles
<1>3. down' \in [Node -> Seq(Publication)]
  BY ReceiveTypes, Roles
<1>4. MapperTypeOK' /\ CountsTaken'
  BY DEF MapperTypeOK, mapperVars
<1>5. ReducerTypeOK' /\ ClientTypeOK' /\ DealtToMappers'
  BY DEF ReducerTypeOK, ClientTypeOK, reducerVars, clientVars
<1>6. QED  BY <1>2, <1>3, <1>4, <1>5

LEMMA MapperTypes ==
  ASSUME TypeInv, NEW w \in Mapper, MapperNext(w)
  PROVE  TypeInv'
<1>1. /\ w \in Node /\ down[w] # <<>>
      /\ Head(down[w]) \in Publication
      /\ down' \in [Node -> Seq(Publication)]
      /\ subs' = subs /\ started' = started
  <2>1. w \in Node /\ down \in [Node -> Seq(Publication)]
    BY Roles DEF TypeInv, TypeOK
  <2>2. Receive(w) /\ UNCHANGED <<started, subs>>
    BY DEF MapperNext, MapperStep, MapCode, MapData, finish_round, MapReject,
      TakesMapData, TakesData
  <2>3. QED  BY <2>1, <2>2, ReceiveTypes DEF Receive
<1>2. ReducerTypeOK' /\ ClientTypeOK' /\ DealtToMappers'
  BY DEF TypeInv, TypeOK, MapperNext, ReducerTypeOK, ClientTypeOK,
    DealtToMappers, reducerVars, clientVars
<1>3. up \in [Node -> Seq(Message)] /\ MapperTypeOK
  BY DEF TypeInv, TypeOK
<1>4. WriteThrough(w) \in BOOLEAN
  BY <1>3, ProtocolAssumption DEF MapperTypeOK, WriteThrough
<1>5. up' \in [Node -> Seq(Message)]
  BY <1>1, <1>3, MapperSends, SentAreMessages, SendTypes
<1>6. MapperTypeOK' /\ CountsTaken'
  <2>1. CASE MapCode(w)
    <3>1. Head(down[w]).body.count \in Nat
      BY <1>1, <2>1, BodyTypes DEF MapCode, TakesData
    <3>2. MapperTypeOK'
      BY <1>3, <2>1, <3>1 DEF MapCode, MapperTypeOK, State
    <3>3. CountsTaken'
      BY <1>3, <2>1 DEF MapCode, MapperTypeOK, TypeInv, CountsTaken
    <3>4. QED  BY <3>2, <3>3
  <2>2. CASE MapData(w)
    <3>1. /\ mState[w] # "EXPECT_CODE"
          /\ Head(down[w]).type = MAP_DATATYPE
          /\ ~Head(down[w]).body.end
          /\ reducer_count' = reducer_count
      BY <2>2 DEF MapData, TakesMapData, TakesData
    <3> DEFINE h == Head(down[w]).body.header
               line == Head(down[w]).body.line
    <3>2. line \in Seq(Items)
      BY <1>1, <3>1, BodyTypes, PairBody
    <3> HIDE DEF h, line
    <3>3. store_output(outbuff[w], Pushed(h, line)) \in [Key -> Value]
      BY <1>3, <3>2, PushedType DEF MapperTypeOK
    <3>4. \/ outbuff' = outbuff
          \/ outbuff' = [outbuff EXCEPT ![w] =
                           store_output(@, Pushed(h, line))]
      BY <2>2 DEF MapData, h, line
    <3>5. outbuff' \in [Mapper -> [Key -> Value]]
      BY <1>3, <3>3, <3>4 DEF MapperTypeOK
    <3>6. /\ mState' = [mState EXCEPT ![w] = "EXPECT_DATA"]
          /\ writethrough' = [writethrough EXCEPT ![w] = WriteThrough(w)]
          /\ dataOnce' = [dataOnce EXCEPT ![w] = FALSE]
      BY <2>2 DEF MapData, TakesMapData
    <3>7. MapperTypeOK'
      BY <1>3, <1>4, <3>1, <3>5, <3>6 DEF MapperTypeOK, State
    <3>8. CountsTaken'
      BY <1>3, <3>1, <3>6 DEF MapperTypeOK, TypeInv, CountsTaken
    <3>9. QED  BY <3>7, <3>8
  <2>3. CASE finish_round(w)
    <3>1. /\ mState[w] # "EXPECT_CODE"
          /\ reducer_count' = reducer_count
          /\ dataOnce' = [dataOnce EXCEPT ![w] = FALSE]
      BY <2>3 DEF finish_round, TakesMapData
    <3>2. (WriteThrough(w) \/ (HasCombine /\ StoredKeys(w) # {})) \in BOOLEAN
      OBVIOUS
    <3>3. writethrough' \in [Mapper -> BOOLEAN]
      BY <1>3, <2>3, <3>2 DEF finish_round, MapperTypeOK
    <3>4. MapperTypeOK'
      BY <1>3, <2>3, <3>1, <3>3, ValueTypes
      DEF finish_round, MapperTypeOK, State
    <3>5. CountsTaken'
      BY <1>3, <2>3, <3>1
      DEF finish_round, MapperTypeOK, TypeInv, CountsTaken
    <3>6. QED  BY <3>4, <3>5
  <2>4. CASE MapReject(w)
    <3>1. MapperTypeOK'
      BY <1>3, <1>4, <2>4 DEF MapReject, MapperTypeOK
    <3>2. QED
      BY <1>3, <2>4, <3>1 DEF MapReject, TypeInv, CountsTaken
  <2>5. QED  BY <2>1, <2>2, <2>3, <2>4 DEF MapperNext, MapperStep
<1>7. QED
  BY <1>1, <1>2, <1>5, <1>6 DEF TypeInv, TypeOK

LEMMA ReducerTypes ==
  ASSUME TypeInv, NEW w \in Reducer, ReducerNext(w)
  PROVE  TypeInv'
<1>1. /\ w \in Node /\ down[w] # <<>>
      /\ Head(down[w]) \in Publication
      /\ down' \in [Node -> Seq(Publication)]
      /\ subs' = subs /\ started' = started
  <2>1. w \in Node /\ down \in [Node -> Seq(Publication)]
    BY Roles DEF TypeInv, TypeOK
  <2>2. Receive(w) /\ UNCHANGED <<started, subs>>
    BY DEF ReducerNext, ReducerStep, ReduceCode, ReduceData, MoreMappers,
      start_process, ReduceReject, MapperDone, TakesReduceData, TakesData
  <2>3. QED  BY <2>1, <2>2, ReceiveTypes DEF Receive
<1>2. MapperTypeOK' /\ ClientTypeOK' /\ CountsTaken' /\ DealtToMappers'
  BY DEF TypeInv, TypeOK, ReducerNext, MapperTypeOK, ClientTypeOK,
    CountsTaken, DealtToMappers, mapperVars, clientVars
<1>3. up \in [Node -> Seq(Message)] /\ ReducerTypeOK
  BY DEF TypeInv, TypeOK
<1>4. DoneBefore(w) \in Nat /\ BufferBefore(w) \in [Key -> Value]
  BY <1>3, ValueTypes DEF ReducerTypeOK, DoneBefore, BufferBefore
<1>5. up' \in [Node -> Seq(Message)]
  BY <1>1, <1>3, ReducerSends, SentAreMessages, SendTypes
<1>6. ReducerTypeOK'
  <2>1. CASE ReduceCode(w)
    <3>1. Head(down[w]).body.count \in Nat
      BY <1>1, <2>1, BodyTypes DEF ReduceCode, TakesData
    <3>2. QED
      BY <1>3, <2>1, <3>1, ZenonT(40) DEF ReduceCode, ReducerTypeOK, State
  <2>2. CASE ReduceData(w)
    <3> DEFINE pair == Head(down[w]).body
    <3>1. pair.key \in Key /\ pair.value \in Value
      BY <1>1, <2>2, BodyTypes, PairBody
      DEF ReduceData, TakesReduceData, TakesData
    <3> HIDE DEF pair
    <3>2. [BufferBefore(w) EXCEPT ![pair.key] = Plus(@, pair.value)]
            \in [Key -> Value]
      BY <1>4, <3>1, ValueTypes
    <3>3. data_buff' = [data_buff EXCEPT ![w] =
            [BufferBefore(w) EXCEPT ![pair.key] = Plus(@, pair.value)]]
      BY <2>2 DEF ReduceData, pair
    <3>4. QED
      BY <1>3, <1>4, <2>2, <3>2, <3>3, ZenonT(40)
      DEF ReduceData, TakesReduceData, ReducerTypeOK, State
  <2>3. CASE MoreMappers(w)
    BY <1>3, <1>4, <2>3
    DEF MoreMappers, MapperDone, TakesReduceData, ReducerTypeOK, State
  <2>4. CASE start_process(w)
    BY <1>3, <1>4, <2>4
    DEF start_process, MapperDone, TakesReduceData, ReducerTypeOK, State
  <2>5. CASE ReduceReject(w)
    BY <1>3, <2>5 DEF ReduceReject, ReducerTypeOK, reducerVars
  <2>6. QED
    BY <2>1, <2>2, <2>3, <2>4, <2>5 DEF ReducerNext, ReducerStep
<1>7. QED
  BY <1>1, <1>2, <1>5, <1>6 DEF TypeInv, TypeOK

(* What reading a message does to the client's queue. *)
LEMMA TakesTypes ==
  ASSUME TypeInv, NEW t, Takes(t)
  PROVE  /\ Head(down[Client]) \in Publication
         /\ Head(down[Client]).type = t
         /\ down' \in [Node -> Seq(Publication)]
         /\ subs' = subs
  BY Roles, ReceiveTypes DEF TypeInv, TypeOK, Takes

LEMMA ClientTypes ==
  ASSUME TypeInv, ClientNext
  PROVE  TypeInv'
<1>1. MapperTypeOK' /\ ReducerTypeOK' /\ CountsTaken' /\ started' = started
  BY DEF TypeInv, TypeOK, ClientNext, MapperTypeOK, ReducerTypeOK,
    CountsTaken, mapperVars, reducerVars
<1>2. up \in [Node -> Seq(Message)] /\ ClientTypeOK /\ Client \in Node
  BY Roles DEF TypeInv, TypeOK
<1>3. /\ subs' = subs /\ down' \in [Node -> Seq(Publication)]
      /\ up' \in [Node -> Seq(Message)]
      /\ ClientTypeOK' /\ DealtToMappers'
  <2>1. CASE HandleJobRequest
    <3> DEFINE wanted == Head(down[Client]).body.subs
    <3>1. Takes(JOB_REQUEST)
      BY <2>1 DEF HandleJobRequest
    <3>2. wanted \in Seq(WorkerSub)
      BY <3>1, TakesTypes, BodyTypes
    <3> HIDE DEF wanted
    <3>3. \A i \in 1..Len(wanted) : wanted[i] \in WorkerSub
      BY <3>2
    <3>4. /\ Requesting(wanted, {MAP_CODETYPE, MAP_DATATYPE}) \subseteq Mapper
          /\ Requesting(wanted, {REDUCE_CODETYPE, REDUCE_DATATYPE})
               \subseteq Reducer
      BY <3>2, <3>3 DEF Requesting, ToSet, WorkerSub, MAP_CODETYPE,
        MAP_DATATYPE,
        REDUCE_CODETYPE, REDUCE_DATATYPE
    <3>5. wanted \in Seq(Message)
      <4>1. WorkerSub \subseteq Message
        BY Roles DEF WorkerSub, Message, Subscription, MsgType, MAP_CODETYPE,
          MAP_DATATYPE, REDUCE_CODETYPE, REDUCE_DATATYPE
      <4>2. QED  BY <3>2, <4>1
    <3>6. up' \in [Node -> Seq(Message)]
      BY <1>2, <2>1, <3>5, SendTypes DEF HandleJobRequest, wanted
    <3>7. mappers' \in SUBSET Mapper /\ reducers' \in SUBSET Reducer
      BY <1>2, <2>1, <3>4 DEF HandleJobRequest, ClientTypeOK, wanted
    <3>8. late' \in BOOLEAN
      BY <2>1 DEF HandleJobRequest
    <3>9. counter' \in 0..Quiet
      BY <2>1, ClientAssumption DEF HandleJobRequest
    <3>10. UNCHANGED <<polled, resultVars, firingVars, status>>
      BY <2>1 DEF HandleJobRequest
    <3>11. ClientTypeOK'
      BY <1>2, <3>7, <3>8, <3>9, <3>10
      DEF ClientTypeOK, resultVars, firingVars
    <3>12. DealtToMappers'
      BY <2>1, <3>10
      DEF HandleJobRequest, firingVars, TypeInv, DealtToMappers
    <3>13. QED  BY <3>1, <3>6, <3>11, <3>12, TakesTypes
  <2>2. ASSUME TakesResult
        PROVE  /\ subs' = subs /\ down' \in [Node -> Seq(Publication)]
               /\ Head(down[Client]).body \in OutputPair \cup {EndOfRound}
               /\ polled' \in BOOLEAN
               /\ UNCHANGED <<mappers, reducers, counter, mappers_data,
                              fires, late>>
    BY <2>2, TakesTypes, BodyTypes DEF TakesResult
  <2>3. CASE HandlePair
    <3> DEFINE pair == Head(down[Client]).body
    <3>1. pair.key \in Key /\ pair.value \in Value
      BY <2>2, <2>3, PairBody DEF HandlePair
    <3> HIDE DEF pair
    <3>2. last_result' \in [Key -> Seq(Value)]
      <4>1. last_result' =
              [last_result EXCEPT ![pair.key] = Append(@, pair.value)]
        BY <2>3 DEF HandlePair, pair
      <4>2. QED  BY <1>2, <3>1, <4>1 DEF ClientTypeOK
    <3>3. QED
      BY <1>2, <2>2, <2>3, <3>2
      DEF HandlePair, ClientTypeOK, TypeInv, DealtToMappers
  <2>4. CASE MoreReducers
    BY <1>2, <2>2, <2>4
    DEF MoreReducers, ReducerDone, ClientTypeOK, TypeInv, DealtToMappers
  <2>5. CASE WordcountFinish
    BY <1>2, <2>2, <2>5
    DEF WordcountFinish, ReducerDone, ClientTypeOK, TypeInv, DealtToMappers
  <2>6. ASSUME KMeansRound
        PROVE  /\ last_result' \in [Key -> Seq(Value)]
               /\ answers' \in Seq([Key -> Seq(Value)])
               /\ reducers_done' \in Nat
    BY <1>2, <2>6 DEF KMeansRound, NoResult, ClientTypeOK
  <2>7. CASE fire_new_round
    <3>1. round_' \in 1..MaxRounds /\ up' \in [Node -> Seq(Message)]
      BY <1>2, <2>7, NewRoundSends, SentAreMessages, SendTypes
    <3>2. TakesResult /\ KMeansRound /\ status' = status
      BY <2>7 DEF fire_new_round, KMeansRound, ReducerDone
    <3>3. QED
      BY <1>2, <2>2, <2>6, <3>1, <3>2
      DEF ClientTypeOK, TypeInv, DealtToMappers
  <2>8. CASE KMeansFinish
    <3>1. /\ TakesResult /\ KMeansRound
          /\ status' = "exited"
          /\ UNCHANGED <<up, round_>>
      BY <2>8 DEF KMeansFinish, KMeansRound, ReducerDone
    <3>2. QED
      BY <1>2, <2>2, <2>6, <3>1 DEF ClientTypeOK, TypeInv, DealtToMappers
  <2>9. ASSUME Ticks
        PROVE  /\ polled' \in BOOLEAN
               /\ UNCHANGED <<subs, down, mappers, reducers, reducers_done,
                              last_result, answers, late>>
    BY <2>9 DEF Ticks, resultVars
  <2>10. CASE CountDown \/ FileError
    <3>1. /\ Ticks /\ counter' \in 0..Quiet
          /\ status' = status \/ status' = "crashed"
          /\ UNCHANGED <<up, firingVars>>
      BY <1>2, <2>10, ClientAssumption DEF CountDown, FileError, ClientTypeOK
    <3>2. QED
      BY <1>2, <2>9, <3>1
      DEF firingVars, ClientTypeOK, TypeInv, TypeOK, DealtToMappers
  <2>11. CASE fire_jobs
    <3>1. /\ Ticks
          /\ counter' \in 0..Quiet /\ fires' \in 0..MaxFires
      BY <1>2, <2>11, ClientAssumption
      DEF fire_jobs, FireWordcount, FireKMeans, FireCrash, Fires, ClientTypeOK
    <3>2. /\ up' \in [Node -> Seq(Message)]
          /\ mappers_data' \in Seq(Seq(Items))
      BY <1>2, <2>11, JobTypes, SentAreMessages, SendTypes
    <3>3. round_' \in 0..MaxRounds /\ status' \in {"running", "crashed"}
      BY <1>2, <2>11, ProtocolAssumption
      DEF fire_jobs, FireWordcount, FireKMeans, FireCrash, Fires, Ticks,
        ClientTypeOK
    <3>4. DealtToMappers'
      BY <2>9, <2>11, <3>1
      DEF fire_jobs, FireWordcount, FireKMeans, FireCrash, TypeInv,
        DealtToMappers
    <3>5. QED
      BY <1>2, <2>9, <3>1, <3>2, <3>3, <3>4 DEF TypeInv, TypeOK, ClientTypeOK
  <2>12. QED
    BY <2>1, <2>3, <2>4, <2>5, <2>7, <2>8, <2>10, <2>11
    DEF ClientNext, ClientStep
<1>4. QED
  BY <1>1, <1>3 DEF TypeInv, TypeOK

LEMMA StutterTypes ==
  ASSUME TypeInv, UNCHANGED vars
  PROVE  TypeInv'
  BY DEF TypeInv, TypeOK, CountsTaken, DealtToMappers, vars, netVars,
    mapperVars, reducerVars, clientVars, MapperTypeOK, ReducerTypeOK,
    ClientTypeOK

LEMMA StepTypes == TypeInv /\ [Next]_vars => TypeInv'
  BY RouterTypes, StartTypes, MapperTypes, ReducerTypes, ClientTypes,
    StutterTypes DEF Next

(* Every variable always has its type: in particular, only workers that    *)
(* registered under a role are ever counted under it, every message that   *)
(* travels is well formed, and every destination dealt out is a number.    *)
THEOREM TypeCorrect == Spec => []TypeOK
<1>1. TypeInv => TypeOK
  BY DEF TypeInv
<1>2. QED  BY <1>1, InitTypes, StepTypes, PTL DEF Spec
-----------------------------------------------------------------------------
(* The counters of both barriers, which never pass the value they are      *)
(* compared with, whoever joins when and however often the job is fired.   *)
(*                                                                         *)
(* Registered before served.  Which messages may be under way depends on   *)
(* the registered reducers only, and only grows with them.                 *)
RegUp == {m \in Message : Registered(m)}
RegDown(n) == {p \in Publication :
  Registered(p) /\ (p.type = REDUCE_CODETYPE => n \in reducers)}

RegisteredQueues ==
  /\ \A s \in subs : Registered(s)
  /\ up \in [Node -> Seq(RegUp)]
  /\ \A n \in Node : down[n] \in Seq(RegDown(n))
  /\ \A w \in Reducer : rState[w] # "EXPECT_CODE" => w \in reducers

LEMMA RegisteredForm == TypeOK => (RegisteredFirst <=> RegisteredQueues)
<1> SUFFICES ASSUME TypeOK
             PROVE  RegisteredFirst <=> RegisteredQueues
  OBVIOUS
<1>1. /\ up \in [Node -> Seq(Message)]
      /\ down \in [Node -> Seq(Publication)]
  BY DEF TypeOK
<1>2. ASSUME NEW n \in Node
      PROVE  (\A i \in DOMAIN up[n] : Registered(up[n][i]))
               <=> up[n] \in Seq(RegUp)
  BY <1>1 DEF RegUp
<1>3. ASSUME NEW n \in Node
      PROVE  (\A i \in DOMAIN down[n] :
                /\ Registered(down[n][i])
                /\ down[n][i].type = REDUCE_CODETYPE => n \in reducers)
               <=> down[n] \in Seq(RegDown(n))
  BY <1>1 DEF RegDown
<1>4. QED  BY <1>1, <1>2, <1>3 DEF RegisteredFirst, RegisteredQueues

LEMMA OkGrows ==
  ASSUME reducers \subseteq reducers'
  PROVE  /\ \A m : Registered(m) => Registered(m)'
         /\ RegUp \subseteq RegUp'
         /\ \A n : RegDown(n) \subseteq RegDown(n)'
  BY DEF Registered, RegUp, RegDown

(* Queues that are left alone, or read from, stay as they are.             *)
LEMMA RegDownKept ==
  ASSUME TypeOK, RegisteredQueues, reducers \subseteq reducers',
         NEW n \in Node, Receive(n)
  PROVE  /\ Head(down[n]) \in RegDown(n)
         /\ \A m \in Node : down'[m] \in Seq(RegDown(m)')
<1>1. /\ down[n] # <<>> /\ down[n] \in Seq(RegDown(n))
      /\ down' = [down EXCEPT ![n] = Tail(@)]
  BY DEF RegisteredQueues, Receive
<1>2. Head(down[n]) \in RegDown(n) /\ Tail(down[n]) \in Seq(RegDown(n))
  BY <1>1
<1>3. \A m \in Node : down'[m] \in Seq(RegDown(m))
  BY <1>1, <1>2 DEF TypeOK, RegisteredQueues
<1>4. QED  BY <1>2, <1>3, OkGrows, SeqMonotone

LEMMA UpKept ==
  ASSUME RegisteredQueues, reducers \subseteq reducers',
         \/ up' = up
         \/ \E n \in Node : \E out \in Seq(RegUp') : Send(n, out)
  PROVE  up' \in [Node -> Seq(RegUp')]
<1>1. up \in [Node -> Seq(RegUp')]
  BY OkGrows, SeqMonotone DEF RegisteredQueues
<1>2. QED  BY <1>1, SendTypes

LEMMA RouterRegistered ==
  ASSUME TypeInv, RegisteredQueues, NEW n \in Node, RouterNext(n)
  PROVE  RegisteredQueues'
<1>1. /\ reducers' = reducers /\ rState' = rState
      /\ \A m \in Node : down[m] \in Seq(RegDown(m))
      /\ RegUp' = RegUp /\ \A m : RegDown(m)' = RegDown(m)
  BY DEF RouterNext, reducerVars, clientVars, RegUp, RegDown, Registered,
    RegisteredQueues
<1>2. /\ up[n] # <<>> /\ up[n] \in Seq(RegUp)
      /\ up' = [up EXCEPT ![n] = Tail(@)]
  BY DEF RouterNext, Route, RouteSubscription, RoutePublication,
    RegisteredQueues
<1>3. Head(up[n]) \in RegUp /\ up' \in [Node -> Seq(RegUp)]
  BY <1>2 DEF RegisteredQueues
<1>4. CASE RouteSubscription(n)
  <2>1. \A s \in subs' : Registered(s)'
    BY <1>1, <1>3, <1>4 DEF RouteSubscription, RegUp, RegisteredQueues,
      Registered
  <2>2. down' = down
    BY <1>4 DEF RouteSubscription
  <2>3. QED  BY <1>1, <1>3, <2>1, <2>2 DEF RegisteredQueues
<1>5. CASE RoutePublication(n)
  <2> DEFINE p == Head(up[n])
  <2>1. p \in Publication /\ Registered(p)
    BY <1>3, <1>5 DEF RoutePublication, RegUp, Message, Subscription
  <2>2. ASSUME NEW m \in Subscribers(p)
        PROVE  p \in RegDown(m)
    <3>1. PICK s \in subs : Matches(s, p) /\ s.node = m
      BY DEF Subscribers
    <3>2. s.op = "sub" /\ s.type = p.type /\ Registered(s)
      BY <3>1 DEF Matches, TypeInv, TypeOK, Subscription, RegisteredQueues
    <3>3. QED  BY <2>1, <3>1, <3>2 DEF RegDown, Registered
  <2>3. down' = [m \in Node |-> IF m \in Subscribers(p)
                                THEN Append(down[m], p) ELSE down[m]]
    BY <1>5 DEF RoutePublication
  <2> HIDE DEF p
  <2>4. ASSUME NEW m \in Node
        PROVE  down'[m] \in Seq(RegDown(m))
    <3>1. down[m] \in Seq(RegDown(m))
      BY <1>1
    <3>2. CASE m \in Subscribers(p)
      <4>1. p \in RegDown(m) /\ down'[m] = Append(down[m], p)
        BY <2>2, <2>3, <3>2
      <4>2. QED  BY <3>1, <4>1
    <3>3. CASE m \notin Subscribers(p)
      <4>1. down'[m] = down[m]
        BY <2>3, <3>3
      <4>2. QED  BY <3>1, <4>1
    <3>4. QED  BY <3>2, <3>3
  <2>5. \A s \in subs' : Registered(s)'
    BY <1>1, <1>5 DEF RoutePublication, RegisteredQueues, Registered
  <2>6. QED  BY <1>1, <1>3, <2>4, <2>5 DEF RegisteredQueues
<1>6. QED  BY <1>4, <1>5 DEF RouterNext, Route

LEMMA StartRegistered ==
  ASSUME TypeInv, RegisteredQueues, NEW w \in Worker, StartNext(w)
  PROVE  RegisteredQueues'
<1>1. /\ w \in Node /\ Receive(w) /\ Send(w, <<JobRequest(w)>>)
      /\ subs' = subs /\ rState' = rState /\ reducers' = reducers
  BY Roles DEF StartNext, startsession, reducerVars, clientVars
<1>2. \A m \in Node : down'[m] \in Seq(RegDown(m)')
  BY <1>1, RegDownKept DEF TypeInv
<1>3. <<JobRequest(w)>> \in Seq(RegUp')
  <2>1. JobRequest(w) \in Message
    BY JobRequestType DEF Message
  <2>2. Registered(JobRequest(w))'
    BY DEF Registered, JobRequest, Pub, JOB_REQUEST, RESULT_DATATYPE
  <2>3. QED  BY <2>1, <2>2 DEF RegUp
<1>4. up' \in [Node -> Seq(RegUp')]
  BY <1>1, <1>3, UpKept
<1>5. QED
  BY <1>1, <1>2, <1>4 DEF RegisteredQueues, Registered

LEMMA MapperRegistered ==
  ASSUME TypeInv, RegisteredQueues, NEW w \in Mapper, MapperNext(w)
  PROVE  RegisteredQueues'
<1>1. /\ w \in Node /\ Receive(w)
      /\ subs' = subs /\ rState' = rState /\ reducers' = reducers
  BY Roles DEF MapperNext, MapperStep, MapCode, MapData, finish_round,
    MapReject, TakesMapData, TakesData, reducerVars, clientVars
<1>2. \A m \in Node : down'[m] \in Seq(RegDown(m)')
  BY <1>1, RegDownKept DEF TypeInv
<1>3. MapperMessage(w) \subseteq RegUp'
  BY DEF MapperMessage, RegUp, Registered, Message, Publication,
    REDUCE_DATATYPE, RESULT_DATATYPE
<1>4. up' \in [Node -> Seq(RegUp')]
  BY <1>1, <1>3, MapperSends, SeqMonotone, UpKept
<1>5. QED
  BY <1>1, <1>2, <1>4 DEF RegisteredQueues, Registered

LEMMA ReducerRegistered ==
  ASSUME TypeInv, RegisteredQueues, NEW w \in Reducer, ReducerNext(w)
  PROVE  RegisteredQueues'
<1>1. /\ w \in Node /\ Receive(w)
      /\ subs' = subs /\ reducers' = reducers
  BY Roles DEF ReducerNext, ReducerStep, ReduceCode, ReduceData, MoreMappers,
    start_process, ReduceReject, MapperDone, TakesReduceData, TakesData,
    clientVars
<1>2. \A m \in Node : down'[m] \in Seq(RegDown(m)')
  BY <1>1, RegDownKept DEF TypeInv
<1>3. rState[w] # "EXPECT_CODE" => ReducerMessage \subseteq RegUp'
  BY <1>1 DEF ReducerMessage, RegUp, Registered, Message, Publication,
    RegisteredQueues
<1>4. up' \in [Node -> Seq(RegUp')]
  BY <1>1, <1>3, ReducerSends, SeqMonotone, UpKept
<1>5. \A r \in Reducer : rState'[r] # "EXPECT_CODE" => r \in reducers
  <2>1. rState' = rState \/ rState[w] # "EXPECT_CODE" \/ ReduceCode(w)
    BY DEF ReducerNext, ReducerStep, ReduceData, MoreMappers, start_process,
      ReduceReject, MapperDone, TakesReduceData, reducerVars
  <2>2. ReduceCode(w) => w \in reducers
    <3>1. ReduceCode(w) => Head(down[w]).type = REDUCE_CODETYPE
      BY DEF ReduceCode, TakesData
    <3>2. Head(down[w]) \in RegDown(w)
      BY <1>1, RegDownKept DEF TypeInv
    <3>3. QED  BY <3>1, <3>2 DEF RegDown
  <2>3. \A r \in Reducer : r # w => rState'[r] = rState[r]
    BY DEF TypeInv, TypeOK, ReducerTypeOK, ReducerNext, ReducerStep,
      ReduceCode, ReduceData, MoreMappers, start_process, ReduceReject,
      MapperDone, reducerVars
  <2>4. QED  BY <2>1, <2>2, <2>3 DEF RegisteredQueues
<1>6. QED
  BY <1>1, <1>2, <1>4, <1>5 DEF RegisteredQueues, Registered

(* A request that is handled registers whom it subscribes. *)
LEMMA RequestRegisters ==
  ASSUME TypeInv, HandleJobRequest
  PROVE  /\ reducers \subseteq reducers'
         /\ Receive(Client)
         /\ \E out \in Seq(RegUp') : Send(Client, out)
<1> DEFINE wanted == Head(down[Client]).body.subs
<1>1. Takes(JOB_REQUEST) /\ Receive(Client) /\ Send(Client, wanted)
  BY DEF HandleJobRequest, Takes
<1>2. reducers' = reducers
        \cup Requesting(wanted, {REDUCE_CODETYPE, REDUCE_DATATYPE})
  BY DEF HandleJobRequest
<1>3. wanted \in Seq(WorkerSub)
  BY <1>1, TakesTypes, BodyTypes
<1> HIDE DEF wanted
<1>4. ASSUME NEW i \in 1..Len(wanted)
      PROVE  wanted[i] \in RegUp'
  <2>1. wanted[i] \in WorkerSub /\ wanted[i] \in ToSet(wanted)
    BY <1>3 DEF ToSet
  <2>2. wanted[i] \in Message /\ wanted[i].op = "sub"
    BY <2>1, Roles DEF WorkerSub, Message, Subscription, MsgType, MAP_CODETYPE,
      MAP_DATATYPE, REDUCE_CODETYPE, REDUCE_DATATYPE
  <2>3. wanted[i].type = REDUCE_CODETYPE => wanted[i].node \in reducers'
    BY <1>2, <2>1 DEF Requesting
  <2>4. QED  BY <2>2, <2>3 DEF RegUp, Registered
<1>5. wanted \in Seq(RegUp')
  BY <1>3, <1>4
<1>6. QED  BY <1>1, <1>2, <1>5

LEMMA ClientRegistered ==
  ASSUME TypeInv, RegisteredQueues, ClientNext
  PROVE  RegisteredQueues'
<1>1. ClientMessage \subseteq RegUp
  BY DEF ClientMessage, CodeMessage, DataMessage, RegUp, Registered, Message,
    Publication, MAP_CODETYPE, REDUCE_CODETYPE, MAP_DATATYPE, RESULT_DATATYPE
<1>2. /\ subs' = subs /\ rState' = rState
      /\ reducers \subseteq reducers'
      /\ down' = down \/ Receive(Client)
      /\ up' = up \/ \E out \in Seq(RegUp') : Send(Client, out)
  <2>1. CASE HandleJobRequest
    BY <2>1, RequestRegisters
    DEF ClientNext, HandleJobRequest, Takes, reducerVars
  <2>2. CASE fire_new_round \/ fire_jobs
    <3>1. \E out \in Seq(ClientMessage) : Send(Client, out)
      BY <2>2, NewRoundSends, JobTypes
    <3>2. /\ subs' = subs /\ rState' = rState /\ reducers' = reducers
          /\ down' = down \/ Receive(Client)
      BY <2>2 DEF ClientNext, fire_new_round, KMeansRound, ReducerDone,
        TakesResult, Takes, fire_jobs, FireWordcount, FireKMeans, FireCrash,
        Fires, Ticks, reducerVars
    <3>3. QED  BY <1>1, <3>1, <3>2, OkGrows, SeqMonotone
  <2>3. CASE \/ HandlePair \/ MoreReducers \/ WordcountFinish
             \/ KMeansFinish \/ CountDown \/ FileError
    BY <2>3 DEF ClientNext, HandlePair, MoreReducers, WordcountFinish,
      KMeansFinish, KMeansRound, ReducerDone, TakesResult, Takes, CountDown,
      FileError, Ticks, reducerVars
  <2>4. QED  BY <2>1, <2>2, <2>3 DEF ClientNext, ClientStep
<1>3. \A m \in Node : down'[m] \in Seq(RegDown(m)')
  <2>1. CASE down' = down
    BY <1>2, <2>1, OkGrows, SeqMonotone DEF RegisteredQueues
  <2>2. CASE Receive(Client)
    BY <1>2, <2>2, Roles, RegDownKept DEF TypeInv
  <2>3. QED  BY <1>2, <2>1, <2>2
<1>4. up' \in [Node -> Seq(RegUp')]
  BY <1>2, Roles, UpKept
<1>5. QED
  BY <1>2, <1>3, <1>4, OkGrows DEF RegisteredQueues

LEMMA InitRegistered == Init => RegisteredFirst
  BY Roles DEF Init, ReducerInit, ClientInit, RegisteredFirst, Registered,
    init, initialsub, Pub, Sub, JOB_ADVERTISE, JOB_REQUEST, RESULT_DATATYPE,
    REDUCE_CODETYPE, Node

LEMMA StepRegistered ==
  TypeInv /\ RegisteredFirst /\ [Next]_vars => RegisteredFirst'
<1> SUFFICES ASSUME TypeInv, RegisteredFirst, [Next]_vars
             PROVE  RegisteredFirst'
  OBVIOUS
<1>1. TypeOK /\ RegisteredQueues
  BY RegisteredForm DEF TypeInv
<1>2. RegisteredQueues'
  <2>1. CASE Next
    BY <1>1, <2>1, RouterRegistered, StartRegistered, MapperRegistered,
      ReducerRegistered, ClientRegistered DEF Next
  <2>2. CASE UNCHANGED vars
    BY <1>1, <2>2 DEF vars, netVars, reducerVars, clientVars,
      RegisteredQueues, Registered, RegUp, RegDown
  <2>3. QED  BY <2>1, <2>2
<1>3. TypeOK' /\ (TypeOK => (RegisteredFirst <=> RegisteredQueues))'
  BY StepTypes, RegisteredForm, PTL DEF TypeInv
<1>4. QED  BY <1>2, <1>3

-----------------------------------------------------------------------------
(* The reducers' barrier. *)

LEMMA ReducerBarrier ==
  ASSUME TypeInv, BarrierInv, NEW w \in Reducer, ReducerNext(w)
  PROVE  /\ ReducerCounts'
         /\ \A r \in Reducer :
              rState'[r] = "EXPECT_DATA" => mappers_done'[r] < mapper_count'[r]
<1> DEFINE Counted(r) ==
      /\ rState[r] = "EXPECT_CODE" => mappers_done[r] = 0
      /\ rState[r] # "EXPECT_CODE" => mapper_count[r] > 0
      /\ rState[r] = "EXPECT_DATA" => mappers_done[r] < mapper_count[r]
<1>1. ReducerTypeOK /\ \A r \in Reducer : Counted(r)
  BY DEF TypeInv, TypeOK, BarrierInv, ReducerCounts, CountersBelow
<1>2. DoneBefore(w) \in Nat
  BY <1>1 DEF ReducerTypeOK, DoneBefore
<1>3. rState[w] # "EXPECT_CODE" =>
        DoneBefore(w) < mapper_count[w] /\ mapper_count[w] > 0
  BY <1>1 DEF ReducerTypeOK, State, DoneBefore
<1>4. Counted(w)'
  <2>1. CASE ReduceCode(w)
    <3> DEFINE count == Head(down[w]).body.count
    <3>1. /\ rState[w] = "EXPECT_CODE" /\ mappers_done' = mappers_done
          /\ mapper_count' = [mapper_count EXCEPT ![w] = count]
          /\ rState' = [rState EXCEPT ![w] =
               IF count \in 1..999 THEN "EXPECT_DATA" ELSE @]
      BY <2>1 DEF ReduceCode
    <3> HIDE DEF count
    <3>2. mappers_done'[w] = 0 /\ mapper_count'[w] = count
      BY <1>1, <3>1 DEF ReducerTypeOK
    <3>3. CASE count \in 1..999
      <4>1. rState'[w] = "EXPECT_DATA" /\ count > 0
        BY <1>1, <3>1, <3>3 DEF ReducerTypeOK
      <4>2. QED  BY <3>2, <4>1
    <3>4. CASE count \notin 1..999
      <4>1. rState'[w] = "EXPECT_CODE"
        BY <1>1, <3>1, <3>4 DEF ReducerTypeOK
      <4>2. QED  BY <3>2, <4>1
    <3>5. QED  BY <3>3, <3>4
  <2>2. CASE ReduceData(w)
    BY <1>1, <1>3, <2>2 DEF ReduceData, TakesReduceData, ReducerTypeOK
  <2>3. CASE MoreMappers(w)
    BY <1>1, <1>2, <1>3, <2>3
    DEF MoreMappers, MapperDone, TakesReduceData, ReducerTypeOK
  <2>4. CASE start_process(w)
    BY <1>1, <1>3, <2>4
    DEF start_process, MapperDone, TakesReduceData, ReducerTypeOK
  <2>5. CASE ReduceReject(w)
    BY <1>1, <2>5 DEF ReduceReject, reducerVars
  <2>6. QED
    BY <2>1, <2>2, <2>3, <2>4, <2>5 DEF ReducerNext, ReducerStep
<1>5. ASSUME NEW r \in Reducer, r # w
      PROVE  Counted(r)'
  <2>1. /\ rState'[r] = rState[r]
        /\ mappers_done'[r] = mappers_done[r]
        /\ mapper_count'[r] = mapper_count[r]
    BY <1>1, <1>5, ZenonT(40)
      DEF ReducerTypeOK, ReducerNext, ReducerStep, ReduceCode,
      ReduceData, MoreMappers, start_process, ReduceReject, MapperDone,
      TakesReduceData, reducerVars
  <2>2. QED  BY <1>1, <2>1
<1>6. QED  BY <1>4, <1>5 DEF ReducerCounts

-----------------------------------------------------------------------------
(* The client's barrier. *)
ClientBarrier == status = "running" /\ reducers # {} =>
  reducers_done < Cardinality(reducers)

LEMMA ClientBarrierKept ==
  ASSUME TypeInv, BarrierInv, ClientNext
  PROVE  NoneDoneUnregistered' /\ ClientBarrier'
<1>1. /\ ClientTypeOK /\ NoneDoneUnregistered /\ ClientBarrier
      /\ RegisteredQueues
  BY RegisteredForm
  DEF TypeInv, TypeOK, BarrierInv, CountersBelow, ClientBarrier
<1>2. /\ IsFiniteSet(reducers) /\ Cardinality(reducers) \in Nat
      /\ reducers # {} => Cardinality(reducers) > 0
  <2>1. IsFiniteSet(reducers)
    BY <1>1, RolesFinite, FS_Subset DEF ClientTypeOK
  <2>2. QED  BY <2>1, FS_CardinalityType, FS_EmptySet
<1>3. CASE HandleJobRequest
  <2>1. reducers \subseteq reducers' /\ reducers' \in SUBSET Reducer
    BY <1>3, RequestRegisters, StepTypes DEF TypeInv, TypeOK, ClientTypeOK,
      Next
  <2>2. IsFiniteSet(reducers') /\ reducers_done' = reducers_done
        /\ status' = status
    BY <1>3, <2>1, RolesFinite, FS_Subset DEF HandleJobRequest, resultVars
  <2>3. /\ Cardinality(reducers') \in Nat
        /\ Cardinality(reducers) <= Cardinality(reducers')
        /\ reducers' # {} => Cardinality(reducers') > 0
    BY <2>1, <2>2, FS_Subset, FS_CardinalityType, FS_EmptySet
  <2>4. QED
    BY <1>1, <1>2, <2>1, <2>2, <2>3
    DEF NoneDoneUnregistered, ClientBarrier, ClientTypeOK
<1>4. ASSUME ReducerDone
      PROVE  reducers # {} /\ reducers' = reducers /\ status = "running"
  <2>1. /\ Receive(Client) /\ Head(down[Client]).type = RESULT_DATATYPE
        /\ reducers' = reducers /\ status = "running"
    BY <1>4 DEF ReducerDone, TakesResult, Takes
  <2>2. Head(down[Client]) \in RegDown(Client)
    BY <1>1, <2>1, Roles, RegDownKept DEF TypeInv
  <2>3. Head(down[Client]).op = "pub"
    BY <2>2 DEF RegDown, Publication
  <2>4. QED  BY <2>1, <2>2, <2>3 DEF RegDown, Registered
<1>5. CASE MoreReducers
  <2>1. /\ ReducerDone /\ reducers_done' = reducers_done + 1
        /\ reducers_done + 1 # Cardinality(reducers)
    BY <1>5 DEF MoreReducers, LastReducer
  <2>2. /\ reducers # {} /\ reducers' = reducers /\ status = "running"
        /\ reducers_done \in Nat /\ reducers_done < Cardinality(reducers)
    BY <1>1, <1>4, <2>1 DEF ClientBarrier, ClientTypeOK
  <2>3. reducers_done' < Cardinality(reducers)
    BY <1>2, <2>1, <2>2
  <2>4. QED  BY <2>2, <2>3 DEF NoneDoneUnregistered, ClientBarrier
<1>6. CASE WordcountFinish
  BY <1>4, <1>6 DEF WordcountFinish, NoneDoneUnregistered, ClientBarrier
<1>7. CASE fire_new_round \/ KMeansFinish
  <2>1. ReducerDone /\ reducers_done' = 0
    BY <1>7 DEF fire_new_round, KMeansFinish, KMeansRound
  <2>2. QED
    BY <1>2, <1>4, <2>1 DEF NoneDoneUnregistered, ClientBarrier
<1>8. CASE HandlePair \/ CountDown \/ FileError \/ fire_jobs
  <2>1. /\ reducers' = reducers /\ reducers_done' = reducers_done
        /\ status = "running"
    BY <1>8 DEF HandlePair, TakesResult, Takes, CountDown, FileError,
      fire_jobs, FireWordcount, FireKMeans, FireCrash, Fires, Ticks,
      resultVars
  <2>2. QED  BY <1>1, <2>1 DEF NoneDoneUnregistered, ClientBarrier
<1>9. QED
  BY <1>3, <1>5, <1>6, <1>7, <1>8 DEF ClientNext, ClientStep

LEMMA InitBarrier == Init => BarrierInv
  BY InitRegistered
  DEF Init, ReducerInit, ClientInit, BarrierInv, NoneDoneUnregistered,
    ReducerCounts, CountersBelow

LEMMA StepBarrier == TypeInv /\ BarrierInv /\ [Next]_vars => BarrierInv'
<1> SUFFICES ASSUME TypeInv, BarrierInv, [Next]_vars
             PROVE  BarrierInv'
  OBVIOUS
<1>1. RegisteredFirst'
  BY StepRegistered DEF BarrierInv
<1>2. /\ NoneDoneUnregistered' /\ ReducerCounts'
      /\ \A r \in Reducer :
           rState'[r] = "EXPECT_DATA" => mappers_done'[r] < mapper_count'[r]
      /\ ClientBarrier'
  <2>1. ASSUME UNCHANGED reducerVars
        PROVE  /\ ReducerCounts'
               /\ \A r \in Reducer : rState'[r] = "EXPECT_DATA" =>
                    mappers_done'[r] < mapper_count'[r]
    BY <2>1 DEF reducerVars, BarrierInv, ReducerCounts, CountersBelow
  <2>2. ASSUME UNCHANGED clientVars
        PROVE  NoneDoneUnregistered' /\ ClientBarrier'
    BY <2>2 DEF clientVars, BarrierInv, NoneDoneUnregistered, CountersBelow,
      ClientBarrier
  <2>3. CASE \E w \in Reducer : ReducerNext(w)
    BY <2>2, <2>3, ReducerBarrier DEF ReducerNext
  <2>4. CASE ClientNext
    BY <2>1, <2>4, ClientBarrierKept DEF ClientNext
  <2>5. CASE \/ \E n \in Node : RouterNext(n)
             \/ \E w \in Worker : StartNext(w)
             \/ \E w \in Mapper : MapperNext(w)
             \/ UNCHANGED vars
    BY <2>1, <2>2, <2>5 DEF RouterNext, StartNext, MapperNext, vars
  <2>6. QED  BY <2>3, <2>4, <2>5 DEF Next
<1>3. QED
  BY <1>1, <1>2 DEF BarrierInv, CountersBelow, ClientBarrier

(* No barrier's counter ever passes the value that the code compares it    *)
(* with by "==": a reducer cannot miss the last marker of a round, nor the *)
(* client that of a job, even when workers join late or the job is fired   *)
(* again on top of itself.                                                 *)
THEOREM BarriersHold == Spec => []CountersBelow
<1>1. BarrierInv => CountersBelow
  BY DEF BarrierInv
<1>2. QED
  BY <1>1, InitTypes, StepTypes, InitBarrier, StepBarrier, PTL DEF Spec


-----------------------------------------------------------------------------
(* What is required of the router is a set of subscriptions that depends   *)
(* on the registered workers only.                                         *)
LEMMA RequestedSubs ==
  ASSUME NEW w
  PROVE  ToSet(JobRequest(w).body.subs) =
           {Sub(w, codetype(w), NoDst), Sub(w, datatype(w), w[2])}
  BY DEF ToSet, JobRequest, Pub, Wanted

LEMMA RequiredAreSubs == \A s \in Required : s.op = "sub"
  BY RequestedSubs DEF Required, Sub

(* A step after which as much or more is granted, to the same workers. *)
Grows ==
  /\ mappers' = mappers /\ reducers' = reducers
  /\ subs \subseteq subs'
  /\ fires > 0 => fires' > 0

(* The messages that may be queued, apart from their place in the queue.   *)
OkUp == {m \in Message : Proper(m)}
OkDown == {p \in Publication : Proper(p) /\ (Serving(p) => Granted)}
UpAhead == \A n \in Node : \A i \in DOMAIN up[n] :
  Serving(up[n][i]) => Ahead(n, i)
QueuesOk ==
  /\ AskedFor /\ UpAhead
  /\ up \in [Node -> Seq(OkUp)] /\ down \in [Node -> Seq(OkDown)]

LEMMA QueuesForm ==
  TypeOK => (AskedFor /\ UpProper /\ DownProper <=> QueuesOk)
<1> SUFFICES ASSUME TypeOK
             PROVE  AskedFor /\ UpProper /\ DownProper <=> QueuesOk
  OBVIOUS
<1>1. /\ up \in [Node -> Seq(Message)]
      /\ down \in [Node -> Seq(Publication)]
  BY DEF TypeOK
<1>2. ASSUME NEW n \in Node
      PROVE  (\A i \in DOMAIN up[n] : Proper(up[n][i]))
               <=> up[n] \in Seq(OkUp)
  BY <1>1 DEF OkUp
<1>3. ASSUME NEW n \in Node
      PROVE  (\A i \in DOMAIN down[n] :
                Proper(down[n][i]) /\ (Serving(down[n][i]) => Granted))
               <=> down[n] \in Seq(OkDown)
  <2>1. /\ down[n] \in Seq(Publication) /\ DOMAIN down[n] = 1..Len(down[n])
        /\ \A i \in 1..Len(down[n]) : down[n][i] \in Publication
    BY <1>1
  <2>2. \A p \in Publication :
          p \in OkDown <=> Proper(p) /\ (Serving(p) => Granted)
    BY DEF OkDown
  <2> HIDE DEF OkDown
  <2>3. down[n] \in Seq(OkDown)
          <=> \A i \in 1..Len(down[n]) : down[n][i] \in OkDown
    BY <2>1
  <2>4. QED  BY <2>1, <2>2, <2>3
<1>4. UpProper <=> UpAhead /\ up \in [Node -> Seq(OkUp)]
  <2>1. UpProper <=> /\ UpAhead
                     /\ \A n \in Node : \A i \in DOMAIN up[n] : Proper(up[n][i])
    BY DEF UpProper, UpAhead
  <2>2. up \in [Node -> Seq(OkUp)] <=> \A n \in Node : up[n] \in Seq(OkUp)
    BY <1>1
  <2>3. QED  BY <1>2, <2>1, <2>2
<1>5. DownProper <=> down \in [Node -> Seq(OkDown)]
  BY <1>1, <1>3 DEF DownProper
<1>6. QED  BY <1>4, <1>5 DEF QueuesOk

LEMMA GrowsKeeps ==
  ASSUME Grows
  PROVE  /\ Required' = Required
         /\ Granted => Granted'
         /\ OkUp \subseteq OkUp' /\ OkDown \subseteq OkDown'
<1>1. Required' = Required
  BY DEF Grows, Required
<1>2. Granted => Granted'
  BY <1>1 DEF Grows, Granted
<1>3. OkUp \subseteq OkUp' /\ OkDown \subseteq OkDown'
  BY <1>2 DEF Grows, OkUp, OkDown, Proper, Serving
<1>4. QED  BY <1>1, <1>2, <1>3

-----------------------------------------------------------------------------
(* Queues. *)
LEMMA DownKept ==
  ASSUME QueuesOk, Grows,
         down' = down \/ \E n \in Node : Receive(n)
  PROVE  down' \in [Node -> Seq(OkDown')]
<1>1. down \in [Node -> Seq(OkDown')]
  BY GrowsKeeps, SeqMonotone DEF QueuesOk
<1>2. ASSUME NEW n \in Node, Receive(n)
      PROVE  down' \in [Node -> Seq(OkDown')]
  <2>1. down[n] \in Seq(OkDown') /\ down[n] # <<>>
    BY <1>1, <1>2 DEF Receive
  <2>2. Tail(down[n]) \in Seq(OkDown')
    BY <2>1
  <2>3. QED  BY <1>1, <1>2, <2>2 DEF Receive
<1>3. QED  BY <1>1, <1>2

LEMMA DownRead ==
  ASSUME QueuesOk, NEW n \in Node, Receive(n)
  PROVE  Head(down[n]) \in OkDown
  BY DEF QueuesOk, Receive

(* A place in a queue stays behind what is required if nothing is taken    *)
(* out of the queue.                                                       *)
LEMMA AheadKept ==
  ASSUME Grows, NEW n, NEW i \in Nat, NEW k \in Nat, k >= i, Ahead(n, i),
         \A j \in 1..(i - 1) : up'[n][j] = up[n][j]
  PROVE  Ahead(n, k)'
<1>1. ASSUME NEW s \in Required'
      PROVE  s \in subs' \/ \E j \in 1..(k - 1) : up'[n][j] = s
  <2>1. s \in subs \/ \E j \in 1..(i - 1) : up[n][j] = s
    BY <1>1, GrowsKeeps DEF Ahead
  <2>2. QED  BY <2>1 DEF Grows
<1>2. QED  BY <1>1 DEF Ahead

LEMMA UpSame ==
  ASSUME QueuesOk, Grows, up' = up
  PROVE  /\ AskedFor' /\ UpAhead'
         /\ up' \in [Node -> Seq(OkUp')]
<1>1. up' \in [Node -> Seq(OkUp')]
  BY GrowsKeeps, SeqMonotone DEF QueuesOk
<1>2. ASSUME NEW n \in Node
      PROVE  Len(up[n]) \in Nat /\ DOMAIN up[n] = 1..Len(up[n])
  BY DEF QueuesOk
<1>3. UpAhead'
  BY <1>2, AheadKept DEF QueuesOk, UpAhead
<1>4. AskedFor'
  BY <1>2, AheadKept, Roles DEF QueuesOk, AskedFor
<1>5. QED  BY <1>1, <1>3, <1>4

(* The client may send whatever is proper: what is required is queued      *)
(* already.  A worker may send once it is granted.                         *)
LEMMA UpSend ==
  ASSUME QueuesOk, Grows, NEW n \in Node, NEW out \in Seq(OkUp'), Send(n, out),
         n = Client \/ Granted \/ \A i \in 1..Len(out) : ~Serving(out[i])
  PROVE  /\ AskedFor' /\ UpAhead'
         /\ up' \in [Node -> Seq(OkUp')]
<1>1. /\ up \in [Node -> Seq(OkUp)] /\ up' = [up EXCEPT ![n] = @ \o out]
      /\ up \in [Node -> Seq(OkUp')]
  BY GrowsKeeps, SeqMonotone DEF QueuesOk, Send
<1>2. up' \in [Node -> Seq(OkUp')]
  BY <1>1
<1>3. \A m \in Node : Len(up[m]) \in Nat /\ DOMAIN up[m] = 1..Len(up[m])
  BY <1>1
<1>4. /\ \A m \in Node : m # n => up'[m] = up[m]
      /\ up'[n] = up[n] \o out
  BY <1>1
<1>5. /\ DOMAIN up'[n] = 1..(Len(up[n]) + Len(out))
      /\ Len(up'[n]) = Len(up[n]) + Len(out)
      /\ \A i \in 1..Len(up[n]) : up'[n][i] = up[n][i]
      /\ \A i \in 1..(Len(up[n]) + Len(out)) : i > Len(up[n]) =>
           /\ i - Len(up[n]) \in 1..Len(out)
           /\ up'[n][i] = out[i - Len(up[n])]
  BY <1>1, <1>4
<1>6. ASSUME NEW m \in Node
      PROVE  /\ Len(up'[m]) \in Nat /\ Len(up'[m]) >= Len(up[m])
             /\ \A j \in 1..Len(up[m]) : up'[m][j] = up[m][j]
  BY <1>3, <1>4, <1>5
<1>7. ASSUME NEW m \in Node, NEW i \in DOMAIN up'[m], Serving(up'[m][i])
      PROVE  Ahead(m, i)'
  <2>1. CASE i \in DOMAIN up[m]
    <3>1. /\ up'[m][i] = up[m][i] /\ i \in Nat
          /\ \A j \in 1..(i - 1) : up'[m][j] = up[m][j]
      BY <1>3, <1>6, <2>1
    <3>2. Ahead(m, i)
      BY <1>7, <2>1, <3>1 DEF QueuesOk, UpAhead
    <3>3. QED  BY <3>1, <3>2, AheadKept
  <2>2. CASE i \notin DOMAIN up[m]
    <3>1. m = n
      BY <1>4, <1>7, <2>2
    <3>2. /\ i \in Nat /\ i > Len(up[n])
          /\ i - Len(up[n]) \in 1..Len(out)
          /\ up'[n][i] = out[i - Len(up[n])]
      <4>1. /\ i \in 1..(Len(up[n]) + Len(out)) /\ i \notin 1..Len(up[n])
            /\ Len(up[n]) \in Nat /\ Len(out) \in Nat
        BY <1>3, <1>5, <1>7, <2>2, <3>1
      <4>2. i \in Nat /\ i > Len(up[n])
        BY <4>1
      <4>3. QED  BY <1>5, <4>1, <4>2
    <3>3. CASE n = Client
      <4>1. /\ Ahead(n, Len(up[n]) + 1) /\ Len(up[n]) + 1 \in Nat
            /\ i >= Len(up[n]) + 1
            /\ \A j \in 1..((Len(up[n]) + 1) - 1) : up'[n][j] = up[n][j]
        BY <1>3, <1>6, <3>2, <3>3 DEF QueuesOk, AskedFor
      <4>2. QED  BY <3>1, <3>2, <4>1, AheadKept
    <3>4. CASE n # Client
      <4>1. Granted
        BY <1>7, <3>1, <3>2, <3>4
      <4>2. QED  BY <4>1, GrowsKeeps DEF Ahead, Granted
    <3>5. QED  BY <3>3, <3>4
  <2>3. QED  BY <2>1, <2>2
<1>8. AskedFor'
  <2>1. /\ Len(up[Client]) + 1 \in Nat /\ Len(up'[Client]) + 1 \in Nat
        /\ Len(up'[Client]) + 1 >= Len(up[Client]) + 1
        /\ \A j \in 1..((Len(up[Client]) + 1) - 1) :
             up'[Client][j] = up[Client][j]
    BY <1>3, <1>6, Roles
  <2>2. QED  BY <2>1, AheadKept DEF QueuesOk, AskedFor
<1>9. QED  BY <1>2, <1>7, <1>8 DEF UpAhead

-----------------------------------------------------------------------------
(* The router.  What it takes from the front of a queue was ahead of the   *)
(* rest, and is a subscription it holds from now on, or none.              *)
LEMMA RouterSubscribed ==
  ASSUME TypeInv, QueuesOk, NEW n \in Node, RouterNext(n)
  PROVE  QueuesOk'
<1>1. /\ up[n] # <<>> /\ up[n] \in Seq(OkUp) /\ up \in [Node -> Seq(OkUp)]
      /\ up' = [up EXCEPT ![n] = Tail(@)]
      /\ Head(up[n]).op = "sub" => Head(up[n]) \in subs'
      /\ Grows
  BY DEF QueuesOk, RouterNext, Route, RouteSubscription, RoutePublication,
    clientVars, Grows
<1>2. /\ Head(up[n]) \in OkUp /\ Head(up[n]) = up[n][1]
      /\ Len(up[n]) \in Nat \ {0} /\ DOMAIN up[n] = 1..Len(up[n])
      /\ Tail(up[n]) \in Seq(OkUp) /\ Len(Tail(up[n])) = Len(up[n]) - 1
      /\ \A i \in 1..(Len(up[n]) - 1) : Tail(up[n])[i] = up[n][i + 1]
  BY <1>1
<1>3. up' \in [Node -> Seq(OkUp')]
  <2>1. up' \in [Node -> Seq(OkUp)]
    BY <1>1, <1>2
  <2>2. QED  BY <1>1, <2>1, GrowsKeeps, SeqMonotone
<1>4. /\ up'[n] = Tail(up[n])
      /\ \A m \in Node : m # n => up'[m] = up[m]
  BY <1>1
<1>5. \A m \in Node : Len(up[m]) \in Nat /\ DOMAIN up[m] = 1..Len(up[m])
  BY <1>1
<1>6. ASSUME NEW i \in 1..Len(up[n]), Ahead(n, i + 1)
      PROVE  Ahead(n, i)'
  <2>1. ASSUME NEW s \in Required'
        PROVE  s \in subs' \/ \E j \in 1..(i - 1) : up'[n][j] = s
    <3>1. s \in Required /\ s.op = "sub"
      BY <1>1, <2>1, GrowsKeeps, RequiredAreSubs
    <3>2. CASE s \in subs
      BY <1>1, <3>2 DEF Grows
    <3>3. CASE s \notin subs
      <4>1. PICK j \in 1..i : up[n][j] = s
        BY <1>6, <3>1, <3>3 DEF Ahead
      <4>2. CASE j = 1
        BY <1>1, <1>2, <3>1, <4>1, <4>2
      <4>3. CASE j # 1
        <5>1. j - 1 \in 1..(i - 1) /\ j - 1 \in 1..(Len(up[n]) - 1)
              /\ (j - 1) + 1 = j
          BY <1>2, <4>3
        <5>2. up'[n][j - 1] = s
          BY <1>2, <1>4, <4>1, <5>1
        <5>3. QED  BY <5>1, <5>2
      <4>4. QED  BY <4>2, <4>3
    <3>4. QED  BY <3>2, <3>3
  <2>2. QED  BY <2>1 DEF Ahead
<1>7. ASSUME NEW m \in Node, m # n, NEW i \in Nat, Ahead(m, i)
      PROVE  Ahead(m, i)'
  BY <1>1, <1>4, <1>7, AheadKept
<1>8. UpAhead'
  <2>1. ASSUME NEW m \in Node, NEW i \in DOMAIN up'[m], Serving(up'[m][i])
        PROVE  Ahead(m, i)'
    <3>1. CASE m = n
      <4>1. DOMAIN up'[n] = 1..(Len(up[n]) - 1)
        BY <1>2, <1>4
      <4>2. /\ i \in 1..(Len(up[n]) - 1) /\ i \in 1..Len(up[n])
            /\ i + 1 \in DOMAIN up[n] /\ up'[n][i] = up[n][i + 1]
        <5>1. i \in 1..(Len(up[n]) - 1)
          BY <2>1, <3>1, <4>1
        <5>2. i \in 1..Len(up[n]) /\ i + 1 \in 1..Len(up[n])
          BY <1>2, <5>1
        <5>3. QED  BY <1>2, <1>4, <5>1, <5>2
      <4>3. Ahead(n, i + 1)
        BY <2>1, <3>1, <4>2 DEF QueuesOk, UpAhead
      <4>4. QED  BY <1>6, <3>1, <4>2, <4>3
    <3>2. CASE m # n
      <4>1. i \in DOMAIN up[m] /\ i \in Nat /\ up'[m][i] = up[m][i]
        BY <1>4, <1>5, <2>1, <3>2
      <4>2. Ahead(m, i)
        BY <2>1, <4>1 DEF QueuesOk, UpAhead
      <4>3. QED  BY <1>7, <3>2, <4>1, <4>2
    <3>3. QED  BY <3>1, <3>2
  <2>2. QED  BY <2>1 DEF UpAhead
<1>9. AskedFor'
  <2>1. Ahead(Client, Len(up[Client]) + 1)
    BY DEF QueuesOk, AskedFor
  <2>2. CASE n = Client
    <3>1. Len(up'[n]) + 1 = Len(up[n]) /\ Len(up[n]) \in 1..Len(up[n])
      BY <1>2, <1>4
    <3>2. QED  BY <1>6, <2>1, <2>2, <3>1 DEF AskedFor
  <2>3. CASE n # Client
    <3>1. up'[Client] = up[Client] /\ Len(up[Client]) + 1 \in Nat
      BY <1>4, <1>5, <2>3, Roles
    <3>2. QED  BY <1>7, <2>1, <2>3, <3>1, Roles DEF AskedFor
  <2>4. QED  BY <2>2, <2>3
<1>10. down' \in [Node -> Seq(OkDown')]
  <2>1. CASE RouteSubscription(n)
    BY <1>1, <2>1, DownKept DEF RouteSubscription
  <2>2. CASE RoutePublication(n)
    <3> DEFINE p == Head(up[n])
    <3>1. p \in Publication /\ Proper(p)
      BY <1>2, <2>2 DEF RoutePublication, OkUp, Message, Subscription
    <3>2. Serving(p) => Granted
      <4>1. Serving(p) => Ahead(n, 1)
        BY <1>2 DEF QueuesOk, UpAhead
      <4>2. QED  BY <4>1 DEF Ahead, Granted
    <3>3. p \in OkDown'
      BY <1>1, <3>1, <3>2, GrowsKeeps DEF OkDown
    <3>4. down \in [Node -> Seq(OkDown')]
      BY <1>1, GrowsKeeps, SeqMonotone DEF QueuesOk
    <3>5. down' = [m \in Node |-> IF m \in Subscribers(p)
                                  THEN Append(down[m], p) ELSE down[m]]
      BY <2>2 DEF RoutePublication
    <3> HIDE DEF p
    <3>6. QED  BY <3>3, <3>4, <3>5
  <2>3. QED  BY <2>1, <2>2 DEF RouterNext, Route
<1>11. QED  BY <1>3, <1>8, <1>9, <1>10 DEF QueuesOk

-----------------------------------------------------------------------------
(* The processes. *)
LEMMA ServedKept ==
  ASSUME WorkersServed, Grows, UNCHANGED <<mState, reducer_count, rState>>
  PROVE  WorkersServed'
  BY GrowsKeeps DEF WorkersServed, Grows

LEMMA StartSubscribed ==
  ASSUME TypeInv, QueuesOk, WorkersServed, NEW w \in Worker, StartNext(w)
  PROVE  QueuesOk' /\ WorkersServed'
<1>1. /\ w \in Node /\ Receive(w) /\ Send(w, <<JobRequest(w)>>)
      /\ Grows /\ UNCHANGED <<mState, reducer_count, rState>>
  BY Roles DEF StartNext, startsession, mapperVars, reducerVars, clientVars,
    Grows
<1>2. ~Serving(JobRequest(w)) /\ JobRequest(w) \in OkUp'
  <2>1. JobRequest(w) \in Message
    BY JobRequestType DEF Message
  <2>2. ~Serving(JobRequest(w)) /\ JobRequest(w).type = JOB_REQUEST
    BY DEF Serving, JobRequest, Pub
  <2>3. QED
    BY <2>1, <2>2 DEF OkUp, Proper, JOB_REQUEST, MAP_CODETYPE, MAP_DATATYPE,
      REDUCE_DATATYPE
<1>3. AskedFor' /\ UpAhead' /\ up' \in [Node -> Seq(OkUp')]
  <2> DEFINE out == <<JobRequest(w)>>
  <2>1. out \in Seq(OkUp') /\ \A i \in 1..Len(out) : ~Serving(out[i])
    BY <1>2
  <2>2. Send(w, out)
    BY <1>1
  <2> HIDE DEF out
  <2>3. QED  BY <1>1, <2>1, <2>2, UpSend
<1>4. down' \in [Node -> Seq(OkDown')]
  BY <1>1, DownKept
<1>5. QED  BY <1>1, <1>3, <1>4, ServedKept DEF QueuesOk

LEMMA MapperSubscribed ==
  ASSUME TypeInv, QueuesOk, WorkersServed, NEW w \in Mapper, MapperNext(w)
  PROVE  QueuesOk' /\ WorkersServed'
<1>1. /\ w \in Node /\ Receive(w) /\ Grows /\ rState' = rState
      /\ fires' = fires /\ reducers' = reducers
  BY Roles DEF MapperNext, MapperStep, MapCode, MapData, finish_round,
    MapReject, TakesMapData, TakesData, reducerVars, clientVars, Grows
<1>2. down' \in [Node -> Seq(OkDown')]
  BY <1>1, DownKept
<1>3. ASSUME mState[w] # "EXPECT_CODE"
      PROVE  Granted /\ MapperMessage(w) \subseteq OkUp'
  <2>1. /\ Granted /\ fires' > 0
        /\ reducer_count[w] = Cardinality(reducers')
    BY <1>1, <1>3 DEF WorkersServed
  <2>2. ASSUME NEW p \in MapperMessage(w)
        PROVE  p \in OkUp'
    <3>1. /\ p \in Message /\ p.type = REDUCE_DATATYPE
          /\ Cardinality(reducers') <= 10 =>
               p.dst \in 0..(Cardinality(reducers') - 1)
      BY <2>1 DEF MapperMessage, Message
    <3>2. Proper(p)'
      BY <2>1, <3>1 DEF Proper, JOB_REQUEST, MAP_CODETYPE, MAP_DATATYPE,
        REDUCE_DATATYPE
    <3>3. QED  BY <3>1, <3>2 DEF OkUp
  <2>3. QED  BY <2>1, <2>2
<1>4. AskedFor' /\ UpAhead' /\ up' \in [Node -> Seq(OkUp')]
  BY <1>1, <1>3, MapperSends, SeqMonotone, UpSame, UpSend
<1>5. mState'[w] # "EXPECT_CODE" =>
        Granted /\ fires > 0 /\ reducer_count'[w] = Cardinality(reducers)
  <2>1. CASE MapCode(w)
    <3>1. /\ Head(down[w]).type = MAP_CODETYPE
          /\ reducer_count' = [reducer_count EXCEPT ![w] =
                                 Head(down[w]).body.count]
      BY <2>1 DEF MapCode, TakesData
    <3>2. Head(down[w]) \in OkDown
      BY <1>1, DownRead
    <3>3. /\ Granted /\ fires > 0
          /\ Head(down[w]).body.count = Cardinality(reducers)
      <4>1. Head(down[w]).op = "pub"
        BY <3>2 DEF OkDown, Publication
      <4>2. QED
        BY <3>1, <3>2, <4>1 DEF OkDown, Proper, Serving, MAP_CODETYPE,
          JOB_ADVERTISE, JOB_REQUEST
    <3>4. QED
      BY <3>1, <3>3 DEF TypeInv, TypeOK, MapperTypeOK
  <2>2. CASE MapData(w) \/ finish_round(w) \/ MapReject(w)
    BY <2>2 DEF MapData, finish_round, MapReject, TakesMapData, WorkersServed,
      TypeInv, TypeOK, MapperTypeOK
  <2>3. QED  BY <2>1, <2>2 DEF MapperNext, MapperStep
<1>6. \A m \in Mapper : m # w => /\ mState'[m] = mState[m]
                                 /\ reducer_count'[m] = reducer_count[m]
  BY DEF MapperNext, MapperStep, MapCode, MapData, finish_round, MapReject,
    TakesMapData, TypeInv, TypeOK, MapperTypeOK
<1>7. WorkersServed'
  BY <1>1, <1>5, <1>6, GrowsKeeps DEF WorkersServed
<1>8. QED  BY <1>2, <1>4, <1>7 DEF QueuesOk

LEMMA ReducerSubscribed ==
  ASSUME TypeInv, QueuesOk, WorkersServed, NEW w \in Reducer, ReducerNext(w)
  PROVE  QueuesOk' /\ WorkersServed'
<1>1. /\ w \in Node /\ Receive(w) /\ Grows
      /\ fires' = fires /\ reducers' = reducers
      /\ UNCHANGED <<mState, reducer_count>>
  BY Roles DEF ReducerNext, ReducerStep, ReduceCode, ReduceData, MoreMappers,
    start_process, ReduceReject, MapperDone, TakesReduceData, TakesData,
    mapperVars, clientVars, Grows
<1>2. down' \in [Node -> Seq(OkDown')]
  BY <1>1, DownKept
<1>3. rState[w] # "EXPECT_CODE" => Granted /\ ReducerMessage \subseteq OkUp'
  BY <1>1 DEF WorkersServed, ReducerMessage, OkUp, Message, Proper,
    JOB_REQUEST, MAP_CODETYPE, MAP_DATATYPE, REDUCE_DATATYPE, RESULT_DATATYPE
<1>4. AskedFor' /\ UpAhead' /\ up' \in [Node -> Seq(OkUp')]
  BY <1>1, <1>3, ReducerSends, SeqMonotone, UpSame, UpSend
<1>5. rState'[w] # "EXPECT_CODE" => Granted /\ fires > 0
  <2>1. CASE ReduceCode(w)
    <3>1. Head(down[w]).type = REDUCE_CODETYPE /\ Head(down[w]) \in OkDown
      BY <1>1, <2>1, DownRead DEF ReduceCode, TakesData
    <3>2. Head(down[w]).op = "pub"
      BY <3>1 DEF OkDown, Publication
    <3>3. QED
      BY <3>1, <3>2 DEF OkDown, Proper, Serving, REDUCE_CODETYPE,
        JOB_ADVERTISE, JOB_REQUEST
  <2>2. CASE \/ ReduceData(w) \/ MoreMappers(w) \/ start_process(w)
             \/ ReduceReject(w)
    BY <2>2 DEF ReduceData, MoreMappers, start_process, ReduceReject,
      MapperDone, TakesReduceData, reducerVars, WorkersServed
  <2>3. QED  BY <2>1, <2>2 DEF ReducerNext, ReducerStep
<1>6. \A m \in Reducer : m # w => rState'[m] = rState[m]
  BY DEF ReducerNext, ReducerStep, ReduceCode, ReduceData, MoreMappers,
    start_process, ReduceReject, MapperDone, reducerVars, TypeInv, TypeOK,
    ReducerTypeOK
<1>7. WorkersServed'
  BY <1>1, <1>5, <1>6, GrowsKeeps DEF WorkersServed
<1>8. QED  BY <1>2, <1>4, <1>7 DEF QueuesOk

(* A request is handled before the job is fired, when there is nothing to  *)
(* be ahead of; what its sender needs joins what is required.              *)
Idle == {m \in Message : ~Serving(m)
  /\ (m.op = "pub" /\ m.type = JOB_REQUEST =>
         \E w \in Worker : m = JobRequest(w))}

LEMMA IdleIsOk ==
  ASSUME TypeInv
  PROVE  /\ Idle \subseteq OkUp /\ Idle \cap Publication \subseteq OkDown
         /\ ~(fires > 0) => OkUp \subseteq Idle /\ OkDown \subseteq Idle
<1>1. \A m \in Message : m.op \in {"sub", "pub"}
  BY DEF Message, Subscription, Publication
<1>2. Idle \subseteq OkUp
  BY DEF Idle, OkUp, Proper, Serving, JOB_ADVERTISE, JOB_REQUEST,
    MAP_CODETYPE, MAP_DATATYPE, REDUCE_DATATYPE
<1>3. Idle \cap Publication \subseteq OkDown
  BY <1>2 DEF OkUp, OkDown, Idle
<1>4. ~(fires > 0) => OkUp \subseteq Idle /\ OkDown \subseteq Idle
  BY <1>1 DEF OkUp, OkDown, Idle, Proper, Serving, Message
<1>5. QED  BY <1>2, <1>3, <1>4

LEMMA RequestSubscribed ==
  ASSUME TypeInv, QueuesOk, WorkersServed, HandleJobRequest,
         ClientNext, ~late'
  PROVE  QueuesOk' /\ WorkersServed'
<1> DEFINE wanted == Head(down[Client]).body.subs
<1>1. /\ Takes(JOB_REQUEST) /\ Receive(Client) /\ Send(Client, wanted)
      /\ Head(down[Client]).type = JOB_REQUEST
      /\ subs' = subs /\ fires' = fires /\ ~(fires > 0)
      /\ mappers' = mappers
           \cup Requesting(wanted, {MAP_CODETYPE, MAP_DATATYPE})
      /\ reducers' = reducers
           \cup Requesting(wanted, {REDUCE_CODETYPE, REDUCE_DATATYPE})
      /\ UNCHANGED <<mState, reducer_count, rState>>
  BY DEF HandleJobRequest, Takes, ClientNext, mapperVars, reducerVars,
    firingVars
<1>2. PICK w \in Worker : Head(down[Client]) = JobRequest(w)
  <2>1. Head(down[Client]) \in OkDown
    BY <1>1, DownRead, Roles
  <2>2. QED  BY <1>1, <2>1 DEF OkDown, Proper, Publication
<1>3. /\ ToSet(wanted) = {Sub(w, codetype(w), NoDst), Sub(w, datatype(w), w[2])}
      /\ ToSet(wanted) = ToSet(JobRequest(w).body.subs)
      /\ wanted \in Seq(WorkerSub) /\ Len(wanted) = 2
  <2>1. wanted = JobRequest(w).body.subs
    BY <1>2
  <2>2. JobRequest(w).body.subs =
          <<Sub(w, codetype(w), NoDst), Sub(w, datatype(w), w[2])>>
    BY DEF JobRequest, Pub, Wanted
  <2>3. wanted \in Seq(WorkerSub)
    BY <1>1, TakesTypes, BodyTypes
  <2> HIDE DEF wanted
  <2>4. Len(wanted) = 2
    BY <2>1, <2>2
  <2>5. QED  BY <2>1, <2>3, <2>4, RequestedSubs
<1> HIDE DEF wanted
<1>4. Required' \subseteq Required \cup ToSet(wanted)
  <2>1. mappers' \cup reducers' \subseteq mappers \cup reducers \cup {w}
    BY <1>1, <1>3 DEF Requesting, Sub
  <2>2. QED  BY <1>3, <2>1 DEF Required
<1>5. /\ Idle \subseteq OkUp' /\ Idle \cap Publication \subseteq OkDown'
      /\ OkUp \subseteq Idle /\ OkDown \subseteq Idle
  <2>1. (TypeInv =>
          /\ Idle \subseteq OkUp
          /\ Idle \cap Publication \subseteq OkDown)'
    BY IdleIsOk, PTL
  <2>2. TypeInv'
    BY ClientTypes
  <2>3. QED  BY <1>1, <2>1, <2>2, IdleIsOk
<1>6. wanted \in Seq(Idle)
  <2>1. \A s \in WorkerSub : s \in Message /\ s.op = "sub"
    BY Roles DEF WorkerSub, Message, Subscription, MsgType, MAP_CODETYPE,
      MAP_DATATYPE, REDUCE_CODETYPE, REDUCE_DATATYPE
  <2>2. WorkerSub \subseteq Idle
    BY <2>1 DEF Idle, Serving
  <2>3. QED  BY <1>3, <2>2, SeqMonotone
<1>7. up \in [Node -> Seq(Idle)] /\ up' \in [Node -> Seq(Idle)]
  <2>1. up \in [Node -> Seq(Idle)]
    BY <1>5, SeqMonotone DEF QueuesOk
  <2>2. QED  BY <1>1, <1>6, <2>1, SendTypes, Roles
<1>8. up' \in [Node -> Seq(OkUp')] /\ UpAhead'
  <2>1. up' \in [Node -> Seq(OkUp')]
    BY <1>5, <1>7, SeqMonotone
  <2>2. \A n \in Node : \A i \in DOMAIN up'[n] : ~Serving(up'[n][i])
    <3>1. \A m \in Idle : ~Serving(m)
      BY DEF Idle
    <3>2. \A n \in Node : \A i \in DOMAIN up'[n] : up'[n][i] \in Idle
      BY <1>7
    <3>3. QED  BY <3>1, <3>2
  <2>3. QED  BY <2>1, <2>2 DEF UpAhead
<1>9. down' \in [Node -> Seq(OkDown')]
  <2>1. OkDown \subseteq OkDown'
    BY <1>5 DEF OkDown
  <2>2. down \in [Node -> Seq(OkDown')]
    BY <2>1, SeqMonotone DEF QueuesOk
  <2>3. down[Client] \in Seq(OkDown') /\ down[Client] # <<>>
    BY <1>1, <2>2, Roles DEF Receive
  <2>4. Tail(down[Client]) \in Seq(OkDown')
    BY <2>3
  <2>5. QED  BY <1>1, <2>2, <2>4 DEF Receive
<1>10. AskedFor'
  <2>1. /\ Len(up[Client]) \in Nat /\ up'[Client] = up[Client] \o wanted
        /\ up[Client] \in Seq(Idle)
    BY <1>1, <1>7, Roles DEF Send
  <2>2. /\ Len(up'[Client]) = Len(up[Client]) + 2
        /\ \A j \in 1..Len(up[Client]) : up'[Client][j] = up[Client][j]
        /\ \A j \in 1..2 : up'[Client][Len(up[Client]) + j] = wanted[j]
    <3>1. /\ Len(up[Client] \o wanted) = Len(up[Client]) + Len(wanted)
          /\ \A j \in 1..Len(up[Client]) :
               (up[Client] \o wanted)[j] = up[Client][j]
          /\ \A j \in 1..Len(wanted) :
               (up[Client] \o wanted)[Len(up[Client]) + j] = wanted[j]
      <4> DEFINE p == up[Client]
      <4>1. p \in Seq(Idle) /\ wanted \in Seq(Idle)
        BY <1>6, <2>1
      <4> HIDE DEF p
      <4>2. /\ Len(p \o wanted) = Len(p) + Len(wanted)
            /\ \A j \in 1..Len(p) : (p \o wanted)[j] = p[j]
            /\ \A j \in 1..Len(wanted) : (p \o wanted)[Len(p) + j] = wanted[j]
        BY <4>1, Concatenation
      <4>3. QED  BY <4>2 DEF p
    <3>2. Len(wanted) = 2
      BY <1>3
    <3>3. QED  BY <2>1, <3>1, <3>2
  <2>3. ASSUME NEW s \in Required'
        PROVE  s \in subs' \/ \E j \in 1..Len(up'[Client]) : up'[Client][j] = s
    <3>1. CASE s \in Required
      <4>1. s \in subs \/ \E j \in 1..Len(up[Client]) : up[Client][j] = s
        BY <2>1, <3>1 DEF QueuesOk, AskedFor, Ahead
      <4>2. CASE s \in subs
        BY <1>1, <4>2
      <4>3. CASE \E j \in 1..Len(up[Client]) : up[Client][j] = s
        <5>1. PICK j \in 1..Len(up[Client]) : up[Client][j] = s
          BY <4>3
        <5>2. j \in 1..Len(up'[Client]) /\ up'[Client][j] = s
          BY <2>1, <2>2, <5>1
        <5>3. QED  BY <5>2
      <4>4. QED  BY <4>1, <4>2, <4>3
    <3>2. CASE s \in ToSet(wanted)
      <4>1. PICK j \in 1..2 : wanted[j] = s
        BY <1>3, <3>2 DEF ToSet
      <4>2. QED  BY <2>1, <2>2, <4>1
    <3>3. QED  BY <1>4, <3>1, <3>2
  <2>4. QED  BY <2>1, <2>2, <2>3 DEF AskedFor, Ahead
<1>11. WorkersServed'
  BY <1>1 DEF WorkersServed
<1>12. QED  BY <1>8, <1>9, <1>10, <1>11 DEF QueuesOk

LEMMA ClientSubscribed ==
  ASSUME TypeInv, QueuesOk, WorkersServed, ClientNext, ~late'
  PROVE  QueuesOk' /\ WorkersServed'
<1>1. CASE HandleJobRequest
  BY <1>1, RequestSubscribed
<1>2. CASE ~HandleJobRequest
  <2>1. /\ mappers' = mappers /\ reducers' = reducers /\ subs' = subs
        /\ fires' = fires \/ fires' = fires + 1
        /\ down' = down \/ Receive(Client)
        /\ UNCHANGED <<mState, reducer_count, rState>>
        /\ fire_jobs \/ fire_new_round \/ up' = up
    BY <1>2 DEF ClientNext, ClientStep, HandlePair, MoreReducers,
      WordcountFinish, fire_new_round, KMeansFinish, KMeansRound, ReducerDone,
      TakesResult, Takes, CountDown, FileError, fire_jobs, FireWordcount,
      FireKMeans, FireCrash, Fires, Ticks, firingVars, mapperVars, reducerVars
  <2>2. Grows
    BY <2>1 DEF Grows, TypeInv, TypeOK, ClientTypeOK
  <2>3. AskedFor' /\ UpAhead' /\ up' \in [Node -> Seq(OkUp')]
    <3>1. CASE fire_jobs \/ fire_new_round
      <4>1. fires' > 0
        <5>1. CASE fire_jobs
          BY <5>1 DEF fire_jobs, FireWordcount, FireKMeans, FireCrash, Fires,
            TypeInv, TypeOK, ClientTypeOK
        <5>2. CASE fire_new_round
          <6>1. /\ Receive(Client) /\ Head(down[Client]).type = RESULT_DATATYPE
                /\ fires' = fires
            BY <5>2 DEF fire_new_round, KMeansRound, ReducerDone, TakesResult,
              Takes
          <6>2. Head(down[Client]) \in OkDown
            BY <6>1, DownRead, Roles
          <6>3. QED
            BY <6>1, <6>2 DEF OkDown, Proper, Serving, Publication,
              RESULT_DATATYPE, JOB_ADVERTISE, JOB_REQUEST
        <5>3. QED  BY <3>1, <5>1, <5>2
      <4>2. ClientMessage \subseteq OkUp'
        BY <2>1, <4>1 DEF ClientMessage, CodeMessage, DataMessage, OkUp,
          Message, Proper, JOB_REQUEST, MAP_CODETYPE, MAP_DATATYPE,
          REDUCE_CODETYPE, REDUCE_DATATYPE
      <4>3. PICK out \in Seq(ClientMessage) : Send(Client, out)
        BY <3>1, JobTypes, NewRoundSends
      <4>4. out \in Seq(OkUp')
        BY <4>2, <4>3, SeqMonotone
      <4>5. QED  BY <2>2, <4>3, <4>4, Roles, UpSend
    <3>2. CASE up' = up
      BY <2>2, <3>2, UpSame
    <3>3. QED  BY <2>1, <3>1, <3>2
  <2>4. down' \in [Node -> Seq(OkDown')]
    BY <2>1, <2>2, Roles, DownKept
  <2>5. QED  BY <2>1, <2>2, <2>3, <2>4, ServedKept DEF QueuesOk
<1>3. QED  BY <1>1, <1>2

-----------------------------------------------------------------------------
LEMMA InitSubscribed == Init => SubscribedInv
<1> SUFFICES ASSUME Init PROVE SubscribedInv
  OBVIOUS
<1>1. /\ mappers = {} /\ reducers = {} /\ Len(init) = 3
      /\ init[3] = Sub(Client, RESULT_DATATYPE, NoDst)
      /\ up[Client] = init
      /\ up = [n \in Node |-> IF n = Client THEN init ELSE initialsub(n)]
      /\ down = [n \in Node |-> <<>>]
  BY Roles DEF Init, ClientInit, init
<1>2. AskedFor
  <2>1. Required = {Sub(Client, RESULT_DATATYPE, NoDst)}
    BY <1>1 DEF Required
  <2>2. 3 \in 1..((Len(up[Client]) + 1) - 1)
    BY <1>1
  <2>3. QED  BY <1>1, <2>1, <2>2 DEF AskedFor, Ahead
<1>3. ASSUME NEW n \in Node, NEW i \in DOMAIN up[n]
      PROVE  Proper(up[n][i]) /\ ~Serving(up[n][i])
  <2>1. up[n][i].op = "pub" => up[n][i].type = JOB_ADVERTISE
    <3>1. CASE n = Client
      <4>1. i \in 1..3
        BY <1>1, <1>3, <3>1
      <4>2. QED  BY <1>1, <3>1, <4>1 DEF init, Pub, Sub
    <3>2. CASE n # Client
      BY <1>1, <1>3, <3>2 DEF initialsub, Sub
    <3>3. QED  BY <3>1, <3>2
  <2>2. QED
    BY <2>1 DEF Proper, Serving, JOB_ADVERTISE, JOB_REQUEST, MAP_CODETYPE,
      MAP_DATATYPE, REDUCE_DATATYPE
<1>4. UpProper
  BY <1>3 DEF UpProper
<1>5. DownProper
  BY <1>1 DEF DownProper
<1>6. WorkersServed
  BY DEF Init, MapperInit, ReducerInit, WorkersServed
<1>7. QED  BY <1>2, <1>4, <1>5, <1>6 DEF SubscribedInv

LEMMA StutterSubscribed ==
  ASSUME QueuesOk, WorkersServed, UNCHANGED vars
  PROVE  QueuesOk' /\ WorkersServed'
<1>1. Grows /\ up' = up /\ down' = down
      /\ UNCHANGED <<mState, reducer_count, rState>>
  BY DEF vars, netVars, mapperVars, reducerVars, clientVars, Grows
<1>2. QED  BY <1>1, UpSame, DownKept, ServedKept DEF QueuesOk

LEMMA StepSubscribed ==
  TypeInv /\ SubscribedInv /\ [Next]_vars => SubscribedInv'
<1> SUFFICES ASSUME TypeInv, SubscribedInv, [Next]_vars, ~late'
             PROVE  AskedFor' /\ UpProper' /\ DownProper' /\ WorkersServed'
  BY DEF SubscribedInv
<1>1. ~late
  BY DEF Next, vars, clientVars, RouterNext, StartNext, MapperNext,
    ReducerNext, ClientNext, ClientStep, HandleJobRequest, HandlePair,
    MoreReducers, WordcountFinish, fire_new_round, KMeansFinish, KMeansRound,
    ReducerDone, TakesResult, CountDown, FileError, fire_jobs, FireWordcount,
    FireKMeans, FireCrash, Fires, Ticks, TypeInv, TypeOK, ClientTypeOK
<1>2. QueuesOk /\ WorkersServed
  BY <1>1, QueuesForm DEF SubscribedInv, TypeInv
<1>3. QueuesOk' /\ WorkersServed'
  <2>1. ASSUME NEW n \in Node, RouterNext(n)
        PROVE  QueuesOk' /\ WorkersServed'
    <3>1. Grows /\ UNCHANGED <<mState, reducer_count, rState>>
      BY <2>1 DEF RouterNext, Route, RouteSubscription, RoutePublication,
        mapperVars, reducerVars, clientVars, Grows
    <3>2. QED  BY <1>2, <2>1, <3>1, RouterSubscribed, ServedKept
  <2>2. QED
    BY <1>2, <2>1, StartSubscribed, MapperSubscribed, ReducerSubscribed,
      ClientSubscribed, StutterSubscribed DEF Next
<1>4. TypeOK'
  BY StepTypes DEF TypeInv
<1>5. (TypeOK => (AskedFor /\ UpProper /\ DownProper <=> QueuesOk))'
  BY QueuesForm, PTL
<1>6. QED  BY <1>3, <1>4, <1>5

LEMMA SubscribedFollows ==
  TypeInv /\ SubscribedInv => SubscribedBeforePublished
<1> SUFFICES ASSUME TypeInv, SubscribedInv, Regular, NumberedFrom0,
                    NEW n \in Node, NEW i \in DOMAIN up[n],
                    up[n][i].op = "pub", up[n][i].type \in DataTypes
             PROVE  KnownBefore(n, i)
  BY DEF SubscribedBeforePublished
<1> DEFINE p == up[n][i]
<1>1. Proper(p) /\ Ahead(n, i)
  BY DEF SubscribedInv, Regular, UpProper, Serving, DataTypes,
    MAP_DATATYPE, REDUCE_DATATYPE, RESULT_DATATYPE, JOB_ADVERTISE, JOB_REQUEST
<1>2. \A w \in mappers \cup reducers : Sub(w, datatype(w), w[2]) \in Required
  BY RequestedSubs DEF Required
<1>3. \E s \in Required : Matches(s, p)
  <2>1. CASE p.type = MAP_DATATYPE
    <3>1. PICK w \in mappers : p.dst = w[2]
      BY <1>1, <2>1 DEF Proper
    <3>2. w \in Mapper
      BY DEF TypeInv, TypeOK, ClientTypeOK
    <3>3. QED
      BY <1>2, <2>1, <3>1, <3>2 DEF Matches, Sub, datatype
  <2>2. CASE p.type = REDUCE_DATATYPE
    <3>1. PICK w \in reducers : p.dst = w[2]
      BY <1>1, <2>2 DEF Proper, Regular, NumberedFrom0
    <3>2. w \in Reducer /\ w \notin Mapper
      BY Roles DEF TypeInv, TypeOK, ClientTypeOK
    <3>3. QED
      BY <1>2, <2>2, <3>1, <3>2 DEF Matches, Sub, datatype
  <2>3. CASE p.type = RESULT_DATATYPE
    <3>1. Sub(Client, RESULT_DATATYPE, NoDst) \in Required
      BY DEF Required
    <3>2. Matches(Sub(Client, RESULT_DATATYPE, NoDst), p)
      BY <2>3 DEF Matches, Sub
    <3>3. QED  BY <3>1, <3>2
  <2>4. QED  BY <2>1, <2>2, <2>3 DEF DataTypes
<1>4. PICK s \in Required : Matches(s, p)
  BY <1>3
<1>5. s.op = "sub" /\ (s \in subs \/ \E j \in 1..(i - 1) : up[n][j] = s)
  BY <1>1, RequiredAreSubs DEF Ahead
<1>6. QED  BY <1>4, <1>5 DEF KnownBefore

(* No data are lost for want of a subscription: in a job that nobody joins *)
(* late, with at most ten reducers numbered from 0, whatever the           *)
(* interleaving of client, workers and router, every line, pair and result *)
(* is published behind the subscription of a node that is to get it.       *)
THEOREM NothingUnheard == Spec => []SubscribedBeforePublished
  BY InitTypes, StepTypes, InitSubscribed, StepSubscribed, SubscribedFollows,
    PTL DEF Spec

-----------------------------------------------------------------------------
(* The invariant.  Everything is about jobs that nobody joins late, so     *)
(* that the job is fired once at most.                                     *)
Joined == mappers \cup reducers
StateOf(w) == IF w \in Mapper THEN mState[w] ELSE rState[w]
Sane == ValidCount(Cardinality(mappers)) /\ ValidCount(Cardinality(reducers))

(* Who sends what. *)
Kind(n) ==
  IF n = Client
  THEN {JOB_ADVERTISE, MAP_CODETYPE, REDUCE_CODETYPE, MAP_DATATYPE}
  ELSE {JOB_REQUEST, IF n \in Mapper THEN REDUCE_DATATYPE ELSE RESULT_DATATYPE}

(* All subscriptions there can be: those made on starting, and those made  *)
(* for the workers that are registered.                                    *)
Known ==
  {Sub(w, JOB_ADVERTISE, NoDst) : w \in Worker}
  \cup {Sub(Client, t, NoDst) : t \in {JOB_REQUEST, RESULT_DATATYPE}}
  \cup UNION {ToSet(JobRequest(w).body.subs) : w \in Joined}

(* Code carries the number of workers of the other role, and only workers  *)
(* that have started make requests.                                        *)
Sound(m) ==
  /\ m.op = "sub" => m \in Known
  /\ m.op = "pub" /\ m.type = MAP_CODETYPE =>
       m.body.count = Cardinality(reducers)
  /\ m.op = "pub" /\ m.type = REDUCE_CODETYPE =>
       m.body.count = Cardinality(mappers)
  /\ m.op = "pub" /\ m.type = JOB_REQUEST =>
       \E w \in Worker : m = JobRequest(w) /\ started[w]

Queued(n, m) == Sound(m) /\ (m.op = "pub" => m.type \in Kind(n))
MessagesSound ==
  /\ subs \subseteq Known
  /\ \A w \in Joined : started[w]
  /\ \A n \in Node : \A m \in ToSet(up[n]) : Queued(n, m)
  /\ \A n \in Node : \A m \in ToSet(down[n]) : Sound(m)

(* The client's queue: the advertisement leads, codes are there once, and  *)
(* data follow the codes.                                                  *)
Is(m, t) == m.op = "pub" /\ m.type = t
Codetypes == {MAP_CODETYPE, REDUCE_CODETYPE}
InOrder(q) ==
  /\ \A i \in DOMAIN q : Is(q[i], JOB_ADVERTISE) => i = 1
  /\ \A i, j \in DOMAIN q : \A t \in Codetypes :
       Is(q[i], t) => /\ Is(q[j], t) => i = j
                      /\ Is(q[j], MAP_DATATYPE) => i < j
Pending(t) == \E m \in ToSet(up[Client]) : Is(m, t)

(* Nothing overtakes code: while it is queued, nobody has got anything     *)
(* that comes behind it.                                                   *)
CodeFirst ==
  /\ InOrder(up[Client])
  /\ Pending(JOB_ADVERTISE) => \A w \in Worker : ~started[w] /\ down[w] = <<>>
  /\ \A w \in Worker : started[w] /\ Pending(codetype(w)) =>
       StateOf(w) = "EXPECT_CODE" /\ down[w] = <<>>
  /\ Pending(REDUCE_CODETYPE) =>
       /\ \A w \in Mapper : \A m \in ToSet(down[w]) : ~Is(m, MAP_DATATYPE)
       /\ \A n \in Node : \A m \in ToSet(up[n]) : ~Is(m, REDUCE_DATATYPE)

(* What a worker has got and not read: an advertisement if it has not      *)
(* started; otherwise data, behind its code if it has yet to read that.    *)
Fresh(w) ==
  /\ StateOf(w) = "EXPECT_CODE" /\ Len(down[w]) <= 1
  /\ \A m \in ToSet(down[w]) : m.type = JOB_ADVERTISE
CodeIfFirst(w) == \A i \in DOMAIN down[w] :
  \/ down[w][i].type = datatype(w)
  \/ i = 1 /\ StateOf(w) = "EXPECT_CODE" /\ down[w][i].type = codetype(w)
HasCode(w) ==
  StateOf(w) = "EXPECT_CODE" =>
    IF down[w] = <<>> THEN w \in Joined /\ fires > 0 => Pending(codetype(w))
    ELSE Head(down[w]).type = codetype(w)
WorkersInOrder == \A w \in Worker :
  IF started[w] THEN CodeIfFirst(w) /\ (Sane => HasCode(w)) ELSE Fresh(w)

FiredOnce == fires > 0 => counter = 0

OrderInv == MessagesSound /\ CodeFirst /\ WorkersInOrder /\ FiredOnce
ProtocolInv == ~late => OrderInv

-----------------------------------------------------------------------------
(* The order in a queue outlives reading, and adding what may be added.    *)
LEMMA InOrderTail ==
  ASSUME NEW S, NEW q \in Seq(S), q # <<>>, InOrder(q)
  PROVE  /\ InOrder(Tail(q))
         /\ \A m \in ToSet(Tail(q)) :
              /\ ~Is(m, JOB_ADVERTISE)
              /\ \A t \in Codetypes :
                   /\ Is(Head(q), t) => ~Is(m, t)
                   /\ Is(Head(q), MAP_DATATYPE) => ~Is(m, t)
<1>1. /\ Head(q) = q[1] /\ 1 \in DOMAIN q
      /\ DOMAIN Tail(q) \subseteq Nat \ {0}
      /\ \A i \in DOMAIN Tail(q) :
           i + 1 \in DOMAIN q /\ Tail(q)[i] = q[i + 1]
  OBVIOUS
<1>2. InOrder(Tail(q))
  <2>1. ASSUME NEW i \in DOMAIN Tail(q)
        PROVE  ~Is(Tail(q)[i], JOB_ADVERTISE)
    <3>1. i + 1 # 1
      BY <1>1
    <3>2. QED  BY <1>1, <3>1 DEF InOrder
  <2>2. ASSUME NEW i \in DOMAIN Tail(q), NEW j \in DOMAIN Tail(q),
               NEW t \in Codetypes, Is(Tail(q)[i], t)
        PROVE  /\ Is(Tail(q)[j], t) => i = j
               /\ Is(Tail(q)[j], MAP_DATATYPE) => i < j
    <3>1. /\ i + 1 \in DOMAIN q /\ j + 1 \in DOMAIN q
          /\ Tail(q)[i] = q[i + 1] /\ Tail(q)[j] = q[j + 1]
          /\ i \in Nat /\ j \in Nat
      BY <1>1
    <3>2. /\ Is(Tail(q)[j], t) => i + 1 = j + 1
          /\ Is(Tail(q)[j], MAP_DATATYPE) => i + 1 < j + 1
      BY <2>2, <3>1 DEF InOrder
    <3>3. QED  BY <3>1, <3>2
  <2>3. QED  BY <2>1, <2>2 DEF InOrder
<1>3. ASSUME NEW i \in DOMAIN Tail(q)
      PROVE  /\ ~Is(Tail(q)[i], JOB_ADVERTISE)
             /\ \A t \in Codetypes :
                  /\ Is(Head(q), t) => ~Is(Tail(q)[i], t)
                  /\ Is(Head(q), MAP_DATATYPE) => ~Is(Tail(q)[i], t)
  <2>1. /\ i + 1 \in DOMAIN q /\ Tail(q)[i] = q[i + 1]
        /\ i + 1 # 1 /\ ~(i + 1 < 1)
    BY <1>1
  <2>2. QED  BY <1>1, <2>1 DEF InOrder
<1>4. QED  BY <1>2, <1>3 DEF ToSet

LEMMA InOrderSend ==
  ASSUME NEW S, NEW p \in Seq(S), NEW q \in Seq(S), InOrder(p), InOrder(q),
         \A m \in ToSet(q) : ~Is(m, JOB_ADVERTISE),
         \/ \A m \in ToSet(q) : \A t \in Codetypes : ~Is(m, t)
         \/ \A m \in ToSet(p) :
              ~Is(m, MAP_DATATYPE) /\ \A t \in Codetypes : ~Is(m, t)
  PROVE  InOrder(p \o q)
<1> DEFINE r == p \o q
<1>1. /\ Len(p) \in Nat /\ Len(q) \in Nat
      /\ DOMAIN p = 1..Len(p) /\ DOMAIN q = 1..Len(q)
      /\ DOMAIN r = 1..(Len(p) + Len(q))
      /\ \A i \in 1..Len(p) : r[i] = p[i] /\ p[i] \in ToSet(p)
      /\ \A i \in 1..Len(q) : r[Len(p) + i] = q[i] /\ q[i] \in ToSet(q)
  BY Concatenation DEF ToSet
<1>2. ASSUME NEW i \in DOMAIN r
      PROVE  \/ i \in 1..Len(p) /\ r[i] = p[i] /\ p[i] \in ToSet(p)
             \/ /\ i - Len(p) \in 1..Len(q) /\ i > Len(p)
                /\ r[i] = q[i - Len(p)] /\ q[i - Len(p)] \in ToSet(q)
  <2>1. CASE i \in 1..Len(p)
    BY <1>1, <2>1
  <2>2. CASE i \notin 1..Len(p)
    <3>1. i - Len(p) \in 1..Len(q) /\ i > Len(p) /\ i = Len(p) + (i - Len(p))
      BY <1>1, <2>2
    <3>2. r[i] = q[i - Len(p)] /\ q[i - Len(p)] \in ToSet(q)
      BY <1>1, <3>1
    <3>3. QED  BY <3>1, <3>2
  <2>3. QED  BY <2>1, <2>2
<1>3. DOMAIN r \subseteq Int
  BY <1>1
<1> HIDE DEF r
<1>4. ASSUME NEW i \in DOMAIN r, Is(r[i], JOB_ADVERTISE)
      PROVE  i = 1
  <2>1. i \in 1..Len(p) /\ r[i] = p[i]
    BY <1>2, <1>4
  <2>2. QED  BY <1>1, <1>4, <2>1 DEF InOrder
<1>5. ASSUME NEW i \in DOMAIN r, NEW j \in DOMAIN r, NEW t \in Codetypes,
             Is(r[i], t)
      PROVE  /\ Is(r[j], t) => i = j
             /\ Is(r[j], MAP_DATATYPE) => i < j
  <2>1. CASE i \in 1..Len(p) /\ r[i] = p[i] /\ p[i] \in ToSet(p)
    <3>1. CASE j \in 1..Len(p) /\ r[j] = p[j]
      BY <1>1, <1>5, <2>1, <3>1 DEF InOrder
    <3>2. CASE j > Len(p) /\ \E m \in ToSet(q) : r[j] = m
      <4>1. i < j
        BY <1>1, <1>3, <2>1, <3>2
      <4>2. ~Is(r[j], t)
        BY <1>5, <2>1, <3>2
      <4>3. QED  BY <4>1, <4>2
    <3>3. QED  BY <1>2, <3>1, <3>2
  <2>2. CASE /\ i - Len(p) \in 1..Len(q) /\ i > Len(p)
             /\ r[i] = q[i - Len(p)] /\ q[i - Len(p)] \in ToSet(q)
    <3>1. CASE j \in 1..Len(p) /\ \E m \in ToSet(p) : r[j] = m
      BY <1>5, <2>2, <3>1
    <3>2. CASE /\ j - Len(p) \in 1..Len(q) /\ j > Len(p)
               /\ r[j] = q[j - Len(p)]
      <4>1. /\ Is(r[j], t) => i - Len(p) = j - Len(p)
            /\ Is(r[j], MAP_DATATYPE) => i - Len(p) < j - Len(p)
        BY <1>1, <1>5, <2>2, <3>2 DEF InOrder
      <4>2. QED  BY <1>1, <1>3, <4>1
    <3>3. QED  BY <1>2, <3>1, <3>2
  <2>3. QED  BY <1>2, <2>1, <2>2
<1>6. QED  BY <1>4, <1>5 DEF InOrder, r

-----------------------------------------------------------------------------
(* What is served was fired, and who is subscribed to what. *)
LEMMA QueueTypes ==
  ASSUME TypeInv, NEW n \in Node
  PROVE  /\ up[n] \in Seq(Message) /\ down[n] \in Seq(Publication)
         /\ up \in [Node -> Seq(Message)] /\ down \in [Node -> Seq(Publication)]
  BY DEF TypeInv, TypeOK

LEMMA ServedWasFired ==
  ASSUME TypeInv, SubscribedInv, ~late
  PROVE  \A n \in Node :
           /\ \A m \in ToSet(up[n]) : Serving(m) => fires > 0
           /\ \A m \in ToSet(down[n]) : Serving(m) => fires > 0
  BY DEF SubscribedInv, UpProper, DownProper, Proper, Serving, ToSet

LEMMA CodeAndData ==
  /\ \A w \in Worker : /\ codetype(w) \in Codetypes
                       /\ datatype(w) \in {MAP_DATATYPE, REDUCE_DATATYPE}
                       /\ codetype(w) # datatype(w)
                       /\ datatype(w) = MAP_DATATYPE <=> w \in Mapper
                       /\ codetype(w) = MAP_CODETYPE <=> w \in Mapper
                       /\ codetype(w) = REDUCE_CODETYPE <=> w \in Reducer
                       /\ w \in Mapper <=> w \notin Reducer
  /\ \A t \in Codetypes \cup {MAP_DATATYPE, REDUCE_DATATYPE} :
       t \notin {JOB_ADVERTISE, JOB_REQUEST, RESULT_DATATYPE}
  /\ \A t \in Codetypes : t \notin {MAP_DATATYPE, REDUCE_DATATYPE}
  BY Roles DEF codetype, datatype, Codetypes, Worker, MAP_CODETYPE,
    REDUCE_CODETYPE, MAP_DATATYPE, REDUCE_DATATYPE, RESULT_DATATYPE,
    JOB_ADVERTISE, JOB_REQUEST

LEMMA ServingTypes ==
  \A m : m.op = "pub" /\ m.type \in Codetypes
                          \cup {MAP_DATATYPE, REDUCE_DATATYPE, RESULT_DATATYPE}
          => Serving(m)
  BY DEF Serving, Codetypes, MAP_CODETYPE, REDUCE_CODETYPE, MAP_DATATYPE,
    REDUCE_DATATYPE, RESULT_DATATYPE, JOB_ADVERTISE, JOB_REQUEST

LEMMA Addressees ==
  ASSUME TypeInv, MessagesSound, NEW p
  PROVE  \A n \in Subscribers(p) :
           \/ n \in Worker /\ p.type = JOB_ADVERTISE
           \/ n = Client /\ p.type \in {JOB_REQUEST, RESULT_DATATYPE}
           \/ n \in Joined /\ n \in Worker /\ p.type = codetype(n)
           \/ /\ n \in Joined /\ n \in Worker
              /\ p.type = datatype(n) /\ n[2] = p.dst
<1>1. ASSUME NEW n \in Subscribers(p)
      PROVE  \/ n \in Worker /\ p.type = JOB_ADVERTISE
             \/ n = Client /\ p.type \in {JOB_REQUEST, RESULT_DATATYPE}
             \/ n \in Joined /\ n \in Worker /\ p.type = codetype(n)
             \/ /\ n \in Joined /\ n \in Worker
                /\ p.type = datatype(n) /\ n[2] = p.dst
  <2>1. PICK s \in subs : Matches(s, p) /\ s.node = n
    BY DEF Subscribers
  <2>2. s \in Known
    BY DEF MessagesSound
  <2>3. CASE \E w \in Worker : s = Sub(w, JOB_ADVERTISE, NoDst)
    BY <2>1, <2>3 DEF Sub, Matches
  <2>4. CASE \E t \in {JOB_REQUEST, RESULT_DATATYPE} : s = Sub(Client, t, NoDst)
    BY <2>1, <2>4 DEF Sub, Matches
  <2>5. CASE \E w \in Joined : s \in ToSet(JobRequest(w).body.subs)
    <3>1. PICK w \in Joined :
            s \in {Sub(w, codetype(w), NoDst), Sub(w, datatype(w), w[2])}
      BY <2>5, RequestedSubs
    <3>2. w \in Worker /\ w[2] \in Nat
      BY Roles DEF Joined, Worker, TypeInv, TypeOK, ClientTypeOK
    <3>3. w[2] # NoDst
      BY <3>2 DEF NoDst
    <3>4. QED  BY <2>1, <3>1, <3>2, <3>3 DEF Sub, Matches
  <2>6. QED  BY <2>2, <2>3, <2>4, <2>5 DEF Known
<1>2. QED  BY <1>1

LEMMA CodeReaches ==
  ASSUME Granted, NEW w \in Joined, NEW p, p.type = codetype(w)
  PROVE  w \in Subscribers(p)
<1>1. Sub(w, codetype(w), NoDst) \in Required
  BY RequestedSubs DEF Required, Joined
<1>2. Sub(w, codetype(w), NoDst) \in subs
  BY <1>1 DEF Granted
<1>3. QED  BY <1>2 DEF Subscribers, Matches, Sub

-----------------------------------------------------------------------------
(* The router. *)
LEMMA RouterOrder ==
  ASSUME TypeInv, SubscribedInv, ~late, OrderInv, NEW n \in Node, RouterNext(n)
  PROVE  OrderInv'
<1> DEFINE h == Head(up[n])
           advertised == Is(h, JOB_ADVERTISE)
<1>1. /\ started' = started /\ mState' = mState /\ rState' = rState
      /\ mappers' = mappers /\ reducers' = reducers
      /\ fires' = fires /\ counter' = counter
      /\ up[n] # <<>> /\ up[n] \in Seq(Message)
      /\ up' = [up EXCEPT ![n] = Tail(@)]
      /\ h.op = "sub" => down' = down /\ subs' = subs \cup {h}
      /\ h.op = "pub" =>
           /\ subs' = subs
           /\ down' = [m \in Node |-> IF m \in Subscribers(h)
                         THEN Append(down[m], h) ELSE down[m]]
      /\ h.op = "sub" \/ h.op = "pub"
  BY QueueTypes DEF RouterNext, Route, RouteSubscription, RoutePublication,
    mapperVars, reducerVars, clientVars
<1>2. /\ ToSet(up[n]) = {h} \cup ToSet(Tail(up[n]))
      /\ up'[n] = Tail(up[n])
      /\ \A m \in Node : m # n => up'[m] = up[m]
      /\ \A m \in Node : ToSet(up'[m]) \subseteq ToSet(up[m])
      /\ h \in Message
  <2>1. ToSet(up[n]) = {h} \cup ToSet(Tail(up[n])) /\ h \in Message
    BY <1>1, ToSetQueue
  <2>2. /\ up'[n] = Tail(up[n])
        /\ \A m \in Node : m # n => up'[m] = up[m]
    BY <1>1, QueueTypes
  <2>3. QED  BY <2>1, <2>2
<1>3. /\ Known' = Known /\ Sane' = Sane /\ Joined' = Joined
      /\ \A w : StateOf(w)' = StateOf(w)
      /\ \A m : Sound(m)' <=> Sound(m)
  BY <1>1 DEF Known, Joined, Sane, StateOf, Sound
<1>4. Queued(n, h)
  BY <1>2 DEF OrderInv, MessagesSound
<1>5. h.op = "pub" => h \in Publication
  BY <1>2 DEF Message, Subscription
<1>6. \A m \in Node :
        \/ down'[m] = down[m] /\ (h.op = "pub" => m \notin Subscribers(h))
        \/ /\ h.op = "pub" /\ m \in Subscribers(h)
           /\ down'[m] = Append(down[m], h)
           /\ ToSet(down'[m]) = ToSet(down[m]) \cup {h}
  <2>1. ASSUME NEW m \in Node, h.op = "pub"
        PROVE  ToSet(Append(down[m], h)) = ToSet(down[m]) \cup {h}
    <3>1. down[m] \in Seq(Publication) /\ h \in Publication
      BY <1>5, <2>1, QueueTypes
    <3> HIDE DEF h
    <3>2. QED  BY <3>1, ToSetQueue
  <2> HIDE DEF h
  <2>2. QED  BY <1>1, <2>1
<1> HIDE DEF h
<1>7. MessagesSound'
  <2>1. subs' \subseteq Known'
    BY <1>1, <1>3, <1>4 DEF OrderInv, MessagesSound, Queued, Sound
  <2>2. \A m \in Node : \A p \in ToSet(up'[m]) : Queued(m, p)'
    BY <1>2, <1>3 DEF OrderInv, MessagesSound, Queued, Kind
  <2>3. \A m \in Node : \A p \in ToSet(down'[m]) : Sound(p)'
    BY <1>3, <1>4, <1>6 DEF OrderInv, MessagesSound, Queued
  <2>4. \A w \in Joined' : started'[w]
    BY <1>1, <1>3 DEF OrderInv, MessagesSound
  <2>5. QED  BY <2>1, <2>2, <2>3, <2>4 DEF MessagesSound
(* How the client's queue changes. *)
<1>8. /\ InOrder(up[Client])' /\ Client \in Node
      /\ \A t : Pending(t)' => Pending(t)
      /\ \A t : Pending(t) => Pending(t)' \/ (n = Client /\ Is(h, t))
      /\ n = Client => \A t \in Codetypes \cup {JOB_ADVERTISE} :
           Is(h, t) => ~Pending(t)'
      /\ n = Client /\ Is(h, MAP_DATATYPE) =>
           \A t \in Codetypes : ~Pending(t) /\ ~Pending(t)'
  <2>1. CASE n # Client
    <3>1. up'[Client] = up[Client]
      BY <1>2, <2>1, Roles
    <3>2. QED  BY <2>1, <3>1, Roles DEF OrderInv, CodeFirst, Pending
  <2>2. CASE n = Client
    <3>1. InOrder(up[n])
      BY <2>2 DEF OrderInv, CodeFirst
    <3>2. /\ InOrder(Tail(up[n]))
          /\ \A m \in ToSet(Tail(up[n])) :
               /\ ~Is(m, JOB_ADVERTISE)
               /\ \A t \in Codetypes :
                    /\ Is(h, t) => ~Is(m, t)
                    /\ Is(h, MAP_DATATYPE) => ~Is(m, t)
      BY <1>1, <3>1, InOrderTail DEF h
    <3>3. \A t : Pending(t)' <=> \E m \in ToSet(Tail(up[n])) : Is(m, t)
      BY <1>2, <2>2 DEF Pending
    <3>4. \A t : Pending(t) <=> Is(h, t) \/ Pending(t)'
      BY <1>2, <2>2, <3>3 DEF Pending
    <3>5. \A t \in Codetypes : ~(Is(h, MAP_DATATYPE) /\ Is(h, t))
      BY DEF Is, Codetypes, MAP_DATATYPE, MAP_CODETYPE, REDUCE_CODETYPE
    <3>6. InOrder(up[Client])'
      BY <1>2, <2>2, <3>2
    <3>7. QED  BY <2>2, <3>2, <3>3, <3>4, <3>5, <3>6, Roles
  <2>3. QED  BY <2>1, <2>2
(* What a worker may be handed. *)
<1>9. ASSUME NEW w \in Worker
      PROVE  \/ /\ down'[w] = down[w]
                /\ h.op = "pub" => w \notin Subscribers(h)
             \/ /\ down'[w] = Append(down[w], h) /\ n = Client
                /\ advertised /\ Pending(JOB_ADVERTISE)
             \/ /\ down'[w] = Append(down[w], h) /\ n = Client /\ w \in Joined
                /\ Is(h, codetype(w)) /\ Pending(codetype(w))
             \/ /\ down'[w] = Append(down[w], h) /\ w \in Joined
                /\ Is(h, datatype(w)) /\ ~Pending(codetype(w)) /\ fires > 0
                /\ h.type = MAP_DATATYPE => n = Client
  <2>1. w \in Node /\ w # Client
    BY Roles
  <2>2. CASE h.op = "pub" /\ w \in Subscribers(h)
    <3>1. down'[w] = Append(down[w], h)
      BY <1>6, <2>1, <2>2
    <3>2. \/ h.type = JOB_ADVERTISE
          \/ w \in Joined /\ h.type = codetype(w)
          \/ w \in Joined /\ h.type = datatype(w)
      BY <2>1, <2>2, Addressees DEF OrderInv
    <3>3. h.type \in Kind(n)
      BY <1>4, <2>2 DEF Queued
    <3>4. h.type \in {JOB_ADVERTISE, MAP_DATATYPE} \cup Codetypes => n = Client
      BY <3>3 DEF Kind, Codetypes, MAP_CODETYPE, REDUCE_CODETYPE, MAP_DATATYPE,
        REDUCE_DATATYPE, RESULT_DATATYPE, JOB_ADVERTISE, JOB_REQUEST
    <3>5. n = Client => \A t : Is(h, t) => Pending(t)
      BY <1>2 DEF Pending
    <3>6. CASE h.type = JOB_ADVERTISE
      BY <2>2, <3>1, <3>4, <3>5, <3>6 DEF Is
    <3>7. CASE w \in Joined /\ h.type = codetype(w)
      BY <2>2, <3>1, <3>4, <3>5, <3>7, CodeAndData DEF Is
    <3>8. CASE w \in Joined /\ h.type = datatype(w)
      <4>1. fires > 0
        <5>1. h \in ToSet(up[n]) /\ Serving(h)
          BY <1>2, <2>2, <3>8, CodeAndData, ServingTypes
        <5>2. QED  BY <5>1, ServedWasFired
      <4>2. ~Pending(codetype(w))
        <5>1. CASE w \in Mapper
          BY <1>8, <2>2, <3>4, <3>8, <5>1, CodeAndData DEF Is
        <5>2. CASE w \notin Mapper
          <6>1. Is(h, REDUCE_DATATYPE) /\ h \in ToSet(up[n])
                /\ codetype(w) = REDUCE_CODETYPE
            BY <1>2, <2>2, <3>8, <5>2, CodeAndData DEF Is
          <6>2. QED  BY <6>1 DEF OrderInv, CodeFirst
        <5>3. QED  BY <5>1, <5>2
      <4>3. h.type = MAP_DATATYPE => n = Client
        BY <3>4
      <4>4. QED  BY <2>2, <3>1, <3>8, <4>1, <4>2, <4>3 DEF Is
    <3>9. QED  BY <3>2, <3>6, <3>7, <3>8
  <2>3. CASE ~(h.op = "pub" /\ w \in Subscribers(h))
    BY <1>6, <2>1, <2>3
  <2>4. QED  BY <2>2, <2>3
<1>10. \A w \in Joined : started[w]
  BY DEF OrderInv, MessagesSound
<1>11. CodeFirst'
  <2>1. ASSUME Pending(JOB_ADVERTISE)', NEW w \in Worker
        PROVE  ~started'[w] /\ down'[w] = <<>>
    <3>1. ~started[w] /\ down[w] = <<>> /\ Pending(JOB_ADVERTISE)
      BY <1>8, <2>1 DEF OrderInv, CodeFirst
    <3>2. ~(n = Client /\ advertised)
      BY <1>8, <2>1
    <3>3. QED  BY <1>1, <1>9, <1>10, <3>1, <3>2
  <2>2. ASSUME NEW w \in Worker, started'[w], Pending(codetype(w))'
        PROVE  StateOf(w)' = "EXPECT_CODE" /\ down'[w] = <<>>
    <3>1. /\ StateOf(w) = "EXPECT_CODE" /\ down[w] = <<>> /\ started[w]
          /\ Pending(codetype(w))
      BY <1>1, <1>8, <2>2 DEF OrderInv, CodeFirst
    <3>2. ~(n = Client /\ Is(h, codetype(w)))
      BY <1>8, <2>2, CodeAndData
    <3>3. ~Pending(JOB_ADVERTISE)
      BY <3>1 DEF OrderInv, CodeFirst
    <3>4. QED  BY <1>3, <1>9, <3>1, <3>2, <3>3
  <2>3. ASSUME Pending(REDUCE_CODETYPE)'
        PROVE  /\ \A w \in Mapper :
                    \A m \in ToSet(down'[w]) : ~Is(m, MAP_DATATYPE)
               /\ \A m \in Node :
                    \A p \in ToSet(up'[m]) : ~Is(p, REDUCE_DATATYPE)
    <3>1. Pending(REDUCE_CODETYPE) /\ REDUCE_CODETYPE \in Codetypes
      BY <1>8, <2>3 DEF Codetypes
    <3>2. \A m \in Node : \A p \in ToSet(up'[m]) : ~Is(p, REDUCE_DATATYPE)
      BY <1>2, <3>1 DEF OrderInv, CodeFirst
    <3>3. ASSUME NEW w \in Mapper, NEW m \in ToSet(down'[w]),
                 Is(m, MAP_DATATYPE)
          PROVE  FALSE
      <4>1. w \in Worker /\ w \in Node
        BY Roles DEF Worker
      <4>2. m \notin ToSet(down[w])
        BY <3>1, <3>3 DEF OrderInv, CodeFirst
      <4>3. m = h /\ down'[w] # down[w]
        BY <1>6, <3>3, <4>1, <4>2
      <4>4. n = Client
        BY <1>9, <3>3, <4>1, <4>3, CodeAndData DEF Is
      <4>5. QED  BY <1>8, <3>1, <3>3, <4>3, <4>4
    <3>4. QED  BY <3>2, <3>3
  <2>4. QED  BY <1>8, <2>1, <2>2, <2>3 DEF CodeFirst
<1>12. WorkersInOrder'
  <2>1. ASSUME NEW w \in Worker, started'[w]
        PROVE  CodeIfFirst(w)' /\ (Sane' => HasCode(w)')
    <3>1. /\ started[w] /\ CodeIfFirst(w) /\ (Sane => HasCode(w))
          /\ w \in Node
      BY <1>1, <2>1, Roles DEF OrderInv, WorkersInOrder
    <3>2. down[w] \in Seq(Publication) /\ (h.op = "pub" => h \in Publication)
      BY <1>5, <3>1, QueueTypes
    <3>3. CASE down'[w] = down[w] /\ (h.op = "pub" => w \notin Subscribers(h))
      <4>1. CodeIfFirst(w)'
        BY <1>3, <3>1, <3>3 DEF CodeIfFirst
      <4>2. ASSUME w \in Joined, fires > 0, Pending(codetype(w))
            PROVE  Pending(codetype(w))'
        <5>1. SUFFICES ASSUME n = Client, Is(h, codetype(w))
                       PROVE  FALSE
          BY <1>8, <4>2
        <5>2. Serving(h) /\ h = up[n][1] /\ 1 \in DOMAIN up[n]
          BY <1>1, <5>1, CodeAndData, ServingTypes DEF Is, h
        <5>3. Ahead(n, 1)
          BY <5>2 DEF SubscribedInv, UpProper
        <5>4. Granted
          BY <5>3 DEF Ahead, Granted
        <5>5. QED  BY <3>3, <4>2, <5>1, <5>4, CodeReaches DEF Is
      <4>3. Sane' => HasCode(w)'
        BY <1>1, <1>3, <3>1, <3>3, <4>2 DEF HasCode
      <4>4. QED  BY <4>1, <4>3
    <3>4. CASE /\ down'[w] = Append(down[w], h) /\ n = Client
               /\ advertised /\ Pending(JOB_ADVERTISE)
      BY <3>1, <3>4 DEF OrderInv, CodeFirst
    <3>5. CASE /\ down'[w] = Append(down[w], h) /\ n = Client /\ w \in Joined
               /\ Is(h, codetype(w)) /\ Pending(codetype(w))
      <4>1. StateOf(w) = "EXPECT_CODE" /\ down[w] = <<>>
        BY <3>1, <3>5 DEF OrderInv, CodeFirst
      <4>2. down'[w] = <<h>>
        BY <3>5, <4>1
      <4>3. QED  BY <1>3, <3>5, <4>1, <4>2 DEF CodeIfFirst, HasCode, Is
    <3>6. CASE /\ down'[w] = Append(down[w], h) /\ w \in Joined
               /\ Is(h, datatype(w)) /\ ~Pending(codetype(w)) /\ fires > 0
      <4>1. /\ DOMAIN down[w] = 1..Len(down[w]) /\ Len(down[w]) \in Nat
            /\ DOMAIN down'[w] = 1..(Len(down[w]) + 1)
            /\ \A i \in 1..Len(down[w]) : down'[w][i] = down[w][i]
            /\ down'[w][Len(down[w]) + 1] = h /\ down'[w] # <<>>
        BY <3>2, <3>6 DEF Is
      <4>2. CodeIfFirst(w)'
        <5>1. ASSUME NEW i \in DOMAIN down'[w]
              PROVE  i \in DOMAIN down[w] \/ i = Len(down[w]) + 1
          BY <4>1
        <5>2. QED  BY <1>3, <3>1, <3>6, <4>1, <5>1 DEF CodeIfFirst, Is
      <4>3. ASSUME Sane'
            PROVE  HasCode(w)'
        <5>1. StateOf(w) = "EXPECT_CODE" =>
                down[w] # <<>> /\ Head(down[w]).type = codetype(w)
          BY <1>3, <3>1, <3>6, <4>3 DEF HasCode
        <5>2. down[w] # <<>> => Head(down'[w]) = Head(down[w])
          BY <3>2, <3>6, <4>1
        <5>3. QED  BY <1>3, <4>1, <5>1, <5>2 DEF HasCode
      <4>4. QED  BY <4>2, <4>3
    <3>7. QED  BY <1>9, <3>3, <3>4, <3>5, <3>6
  <2>2. ASSUME NEW w \in Worker, ~started'[w]
        PROVE  Fresh(w)'
    <3>1. ~started[w] /\ Fresh(w) /\ w \notin Joined
      BY <1>1, <1>10, <2>2 DEF OrderInv, WorkersInOrder
    <3>2. CASE down'[w] = down[w]
      BY <1>3, <3>1, <3>2 DEF Fresh
    <3>3. CASE down'[w] = Append(down[w], h) /\ advertised
               /\ Pending(JOB_ADVERTISE)
      <4>1. down[w] = <<>>
        BY <3>3 DEF OrderInv, CodeFirst
      <4>2. down'[w] = <<h>>
        BY <3>3, <4>1
      <4>3. ToSet(<<h>>) = {h} /\ Len(<<h>>) = 1
        BY DEF ToSet
      <4>4. QED  BY <1>3, <3>1, <3>3, <4>2, <4>3 DEF Fresh, Is
    <3>4. QED  BY <1>9, <3>1, <3>2, <3>3
  <2>3. QED  BY <2>1, <2>2 DEF WorkersInOrder
<1>13. FiredOnce'
  BY <1>1 DEF OrderInv, FiredOnce
<1>14. QED  BY <1>7, <1>11, <1>12, <1>13 DEF OrderInv

-----------------------------------------------------------------------------
(* A worker that has started: it reads, and may send what its role sends   *)
(* on reading data.                                                        *)
LEMMA WorkerOrder ==
  ASSUME TypeInv, OrderInv, NEW w \in Worker, started[w], Receive(w),
         UNCHANGED <<subs, started, clientVars>>,
         NEW out \in Seq(Message), Send(w, out),
         \A m \in ToSet(out) : /\ m.op = "pub"
                               /\ m.type \in Kind(w) \ {JOB_REQUEST}
                               /\ Head(down[w]).type = datatype(w),
         \A v \in Worker : v # w => StateOf(v)' = StateOf(v),
         StateOf(w)' = "EXPECT_CODE" =>
           /\ StateOf(w) = "EXPECT_CODE"
           /\ Head(down[w]).type = codetype(w) =>
                ~ValidCount(Head(down[w]).body.count)
  PROVE  OrderInv'
<1> DEFINE h == Head(down[w])
<1>1. /\ w \in Node /\ w # Client /\ Client \in Node
      /\ down[w] \in Seq(Publication) /\ down[w] # <<>>
      /\ h \in ToSet(down[w]) /\ h \in Publication /\ h.op = "pub"
      /\ down'[w] = Tail(down[w])
      /\ ToSet(down'[w]) \subseteq ToSet(down[w])
      /\ \A n \in Node : n # w => down'[n] = down[n]
  <2>1. /\ w \in Node /\ w # Client /\ Client \in Node
        /\ down[w] \in Seq(Publication) /\ down[w] # <<>>
    BY Roles, QueueTypes DEF Receive
  <2>2. /\ down'[w] = Tail(down[w])
        /\ \A n \in Node : n # w => down'[n] = down[n]
    BY <2>1, QueueTypes DEF Receive
  <2>3. ToSet(down[w]) = {h} \cup ToSet(Tail(down[w]))
        /\ ToSet(down[w]) \subseteq Publication
    BY <2>1, ToSetQueue
  <2>4. h \in Publication
    BY <2>3
  <2> HIDE DEF h
  <2>5. h.op = "pub"
    BY <2>4 DEF Publication
  <2>6. QED  BY <2>1, <2>2, <2>3, <2>4, <2>5
<1>2. /\ ToSet(up'[w]) = ToSet(up[w]) \cup ToSet(out)
      /\ \A n \in Node : n # w => up'[n] = up[n]
  <2>1. up[w] \in Seq(Message) /\ up'[w] = up[w] \o out
    BY <1>1, QueueTypes DEF Send
  <2>2. \A n \in Node : n # w => up'[n] = up[n]
    BY <1>1, QueueTypes DEF Send
  <2>3. QED  BY <2>1, <2>2, ToSetQueue
<1>3. /\ Known' = Known /\ Sane' = Sane /\ Joined' = Joined
      /\ fires' = fires /\ counter' = counter /\ started' = started
      /\ subs' = subs
      /\ \A m : Sound(m)' <=> Sound(m)
      /\ \A t : Pending(t)' <=> Pending(t)
  BY <1>1, <1>2 DEF Known, Joined, Sane, Sound, clientVars, Pending
<1>4. \A m \in ToSet(out) :
        /\ Queued(w, m) /\ h.type = datatype(w)
        /\ w \in Reducer => m.type # REDUCE_DATATYPE
  <2>1. ASSUME NEW m \in ToSet(out)
        PROVE  /\ m.type \in {REDUCE_DATATYPE, RESULT_DATATYPE}
               /\ w \in Reducer => m.type = RESULT_DATATYPE
    BY <1>1, CodeAndData DEF Kind
  <2>2. ASSUME NEW m, m.op = "pub",
               m.type \in {REDUCE_DATATYPE, RESULT_DATATYPE}
        PROVE  Sound(m)
    BY <2>2 DEF Sound, MAP_CODETYPE, REDUCE_CODETYPE, REDUCE_DATATYPE,
      RESULT_DATATYPE, JOB_REQUEST
  <2>3. QED
    BY <2>1, <2>2 DEF Queued, REDUCE_DATATYPE, RESULT_DATATYPE
<1> HIDE DEF h
<1>5. MessagesSound'
  <2>1. ASSUME NEW n \in Node, NEW m \in ToSet(up'[n])
        PROVE  Queued(n, m)'
    <3>1. Queued(n, m)
      BY <1>2, <1>4, <2>1 DEF OrderInv, MessagesSound
    <3>2. QED  BY <1>3, <3>1 DEF Queued, Kind
  <2>2. ASSUME NEW n \in Node, NEW m \in ToSet(down'[n])
        PROVE  Sound(m)'
    BY <1>1, <1>3, <2>2 DEF OrderInv, MessagesSound
  <2>3. QED  BY <1>3, <2>1, <2>2 DEF OrderInv, MessagesSound
<1>6. CodeFirst'
  <2>1. InOrder(up[Client])'
    BY <1>1, <1>2 DEF OrderInv, CodeFirst
  <2>2. ~Pending(JOB_ADVERTISE)'
    BY <1>3 DEF OrderInv, CodeFirst
  <2>3. ASSUME NEW v \in Worker, started'[v], Pending(codetype(v))'
        PROVE  StateOf(v)' = "EXPECT_CODE" /\ down'[v] = <<>>
    <3>1. StateOf(v) = "EXPECT_CODE" /\ down[v] = <<>>
      BY <1>3, <2>3 DEF OrderInv, CodeFirst
    <3>2. v # w /\ v \in Node
      BY <1>1, <3>1, Roles
    <3>3. QED  BY <1>1, <3>1, <3>2
  <2>4. ASSUME Pending(REDUCE_CODETYPE)'
        PROVE  /\ \A v \in Mapper :
                    \A m \in ToSet(down'[v]) : ~Is(m, MAP_DATATYPE)
               /\ \A n \in Node :
                    \A m \in ToSet(up'[n]) : ~Is(m, REDUCE_DATATYPE)
    <3>1. /\ \A v \in Mapper : \A m \in ToSet(down[v]) : ~Is(m, MAP_DATATYPE)
          /\ \A n \in Node : \A m \in ToSet(up[n]) : ~Is(m, REDUCE_DATATYPE)
      BY <1>3, <2>4 DEF OrderInv, CodeFirst
    <3>2. \A v \in Mapper : \A m \in ToSet(down'[v]) : ~Is(m, MAP_DATATYPE)
      BY <1>1, <3>1, Roles
    <3>3. \A m \in ToSet(out) : ~Is(m, REDUCE_DATATYPE)
      <4>1. w \in Mapper => ~(h.type = MAP_DATATYPE)
        BY <1>1, <3>1 DEF Is
      <4>2. QED  BY <1>4, <4>1, CodeAndData DEF Is
    <3>4. QED  BY <1>2, <3>1, <3>2, <3>3
  <2>5. QED  BY <2>1, <2>2, <2>3, <2>4 DEF CodeFirst
<1>7. WorkersInOrder'
  <2>1. ASSUME NEW v \in Worker, v # w
        PROVE  IF started'[v] THEN CodeIfFirst(v)' /\ (Sane' => HasCode(v)')
                              ELSE Fresh(v)'
    <3>1. down'[v] = down[v] /\ StateOf(v)' = StateOf(v)
      BY <1>1, <2>1, Roles
    <3>2. /\ CodeIfFirst(v)' <=> CodeIfFirst(v)
          /\ HasCode(v)' <=> HasCode(v)
          /\ Fresh(v)' <=> Fresh(v)
      BY <1>3, <3>1 DEF CodeIfFirst, HasCode, Fresh
    <3>3. QED  BY <1>3, <3>2 DEF OrderInv, WorkersInOrder
  <2>2. CodeIfFirst(w)'
    <3>1. ASSUME NEW i \in DOMAIN Tail(down[w])
          PROVE  Tail(down[w])[i].type = datatype(w)
      <4>1. i + 1 \in DOMAIN down[w] /\ i + 1 # 1
            /\ Tail(down[w])[i] = down[w][i + 1]
        BY <1>1
      <4>2. QED  BY <4>1 DEF OrderInv, WorkersInOrder, CodeIfFirst
    <3>2. QED  BY <1>1, <3>1 DEF CodeIfFirst
  <2>3. ASSUME Sane'
        PROVE  StateOf(w)' # "EXPECT_CODE"
    <3>1. SUFFICES ASSUME StateOf(w)' = "EXPECT_CODE"
                   PROVE  FALSE
      OBVIOUS
    <3>2. /\ StateOf(w) = "EXPECT_CODE"
          /\ h.type = codetype(w) => ~ValidCount(h.body.count)
      BY <3>1 DEF h
    <3>3. h.type = codetype(w)
      BY <1>1, <1>3, <2>3, <3>2 DEF OrderInv, WorkersInOrder, HasCode, h
    <3>4. Sound(h)
      BY <1>1 DEF OrderInv, MessagesSound
    <3>5. ValidCount(h.body.count)
      BY <1>1, <1>3, <2>3, <3>3, <3>4, CodeAndData DEF Sound, Sane, Codetypes
    <3>6. QED  BY <3>2, <3>3, <3>5
  <2>4. Sane' => HasCode(w)'
    BY <2>3 DEF HasCode
  <2>5. QED  BY <1>3, <2>1, <2>2, <2>4 DEF WorkersInOrder
<1>8. FiredOnce'
  BY <1>3 DEF OrderInv, FiredOnce
<1>9. QED  BY <1>5, <1>6, <1>7, <1>8 DEF OrderInv

LEMMA SentByWorker ==
  /\ \A w \in Mapper : \A q \in Seq(MapperMessage(w)) : \A m \in ToSet(q) :
       m.op = "pub" /\ m.type \in Kind(w) \ {JOB_REQUEST}
  /\ \A w \in Reducer : \A q \in Seq(ReducerMessage) : \A m \in ToSet(q) :
       m.op = "pub" /\ m.type \in Kind(w) \ {JOB_REQUEST}
<1>1. \A p \in Publication : p.op = "pub"
  BY DEF Publication
<1>2. \A w \in Mapper : \A m \in MapperMessage(w) :
        m.op = "pub" /\ m.type \in Kind(w) \ {JOB_REQUEST}
  BY <1>1, Roles DEF MapperMessage, Kind, Worker, REDUCE_DATATYPE, JOB_REQUEST
<1>3. \A w \in Reducer : \A m \in ReducerMessage :
        m.op = "pub" /\ m.type \in Kind(w) \ {JOB_REQUEST}
  BY <1>1, Roles DEF ReducerMessage, Kind, Worker, RESULT_DATATYPE, JOB_REQUEST
<1>4. QED  BY <1>2, <1>3, ToSetQueue

LEMMA NothingSent == <<>> \in Seq(Message) /\ ToSet(<<>>) = {}
  BY DEF ToSet

LEMMA MapperOrder ==
  ASSUME TypeInv, OrderInv, NEW w \in Mapper, MapperNext(w)
  PROVE  OrderInv'
<1>1. /\ w \in Worker /\ started[w] /\ Receive(w) /\ w \in Node
      /\ UNCHANGED <<subs, started, clientVars>>
      /\ codetype(w) = MAP_CODETYPE /\ datatype(w) = MAP_DATATYPE
  BY Roles DEF MapperNext, MapperStep, MapCode, MapData, finish_round,
    MapReject, TakesMapData, TakesData, Worker, codetype, datatype
<1>2. \A v \in Worker : v # w => StateOf(v)' = StateOf(v)
  BY DEF MapperNext, MapperStep, MapCode, MapData, finish_round, MapReject,
    TakesMapData, TakesData, StateOf, reducerVars, TypeInv, TypeOK,
    MapperTypeOK
<1>3. StateOf(w)' = "EXPECT_CODE" =>
        /\ StateOf(w) = "EXPECT_CODE"
        /\ Head(down[w]).type = codetype(w) =>
             ~ValidCount(Head(down[w]).body.count)
  BY <1>1 DEF MapperNext, MapperStep, MapCode, MapData, finish_round,
    MapReject, TakesMapData, TakesData, StateOf, TypeInv, TypeOK,
    MapperTypeOK, MAP_CODETYPE, MAP_DATATYPE
<1>4. PICK out \in Seq(Message) :
        /\ Send(w, out)
        /\ \A m \in ToSet(out) :
             /\ m.op = "pub" /\ m.type \in Kind(w) \ {JOB_REQUEST}
             /\ Head(down[w]).type = datatype(w)
  <2>1. CASE MapData(w) \/ finish_round(w)
    <3>1. Head(down[w]).type = datatype(w)
      BY <1>1, <2>1 DEF MapData, finish_round, TakesMapData, TakesData
    <3>2. CASE up' = up
      <4>1. Send(w, <<>>)
        BY <1>1, <3>2, QueueTypes DEF Send
      <4>2. QED  BY <4>1, NothingSent
    <3>3. CASE \E out \in Seq(MapperMessage(w)) : Send(w, out)
      BY <3>1, <3>3, SentByWorker, SentAreMessages
    <3>4. QED  BY <3>2, <3>3, MapperSends
  <2>2. CASE MapCode(w) \/ MapReject(w)
    <3>1. up' = up
      BY <2>2 DEF MapCode, MapReject
    <3>2. Send(w, <<>>)
      BY <1>1, <3>1, QueueTypes DEF Send
    <3>3. QED  BY <3>2, NothingSent
  <2>3. QED  BY <2>1, <2>2 DEF MapperNext, MapperStep
<1>5. QED  BY <1>1, <1>2, <1>3, <1>4, WorkerOrder

LEMMA ReducerOrder ==
  ASSUME TypeInv, OrderInv, NEW w \in Reducer, ReducerNext(w)
  PROVE  OrderInv'
<1>1. /\ w \in Worker /\ started[w] /\ Receive(w) /\ w \in Node
      /\ w \notin Mapper
      /\ UNCHANGED <<subs, started, clientVars>>
      /\ codetype(w) = REDUCE_CODETYPE /\ datatype(w) = REDUCE_DATATYPE
  BY Roles DEF ReducerNext, ReducerStep, ReduceCode, ReduceData, MoreMappers,
    start_process, ReduceReject, MapperDone, TakesReduceData, TakesData,
    Worker, codetype, datatype
<1>2. \A v \in Worker : v # w => StateOf(v)' = StateOf(v)
  BY DEF ReducerNext, ReducerStep, ReduceCode, ReduceData, MoreMappers,
    start_process, ReduceReject, MapperDone, TakesReduceData, TakesData,
    StateOf, Worker, mapperVars, reducerVars, TypeInv, TypeOK, ReducerTypeOK
<1>3. StateOf(w)' = "EXPECT_CODE" =>
        /\ StateOf(w) = "EXPECT_CODE"
        /\ Head(down[w]).type = codetype(w) =>
             ~ValidCount(Head(down[w]).body.count)
  <2>1. StateOf(w) = rState[w] /\ StateOf(w)' = rState'[w]
        /\ rState \in [Reducer -> State]
    BY <1>1 DEF StateOf, TypeInv, TypeOK, ReducerTypeOK
  <2>2. CASE ReduceCode(w)
    BY <2>1, <2>2, ZenonT(40) DEF ReduceCode, TakesData, ValidCount
  <2>3. CASE \/ ReduceData(w) \/ MoreMappers(w) \/ start_process(w)
    BY <2>1, <2>3 DEF ReduceData, MoreMappers, start_process
  <2>4. CASE ReduceReject(w)
    BY <1>1, <2>1, <2>4 DEF ReduceReject, TakesData, reducerVars,
      REDUCE_CODETYPE, REDUCE_DATATYPE
  <2>5. QED  BY <2>2, <2>3, <2>4 DEF ReducerNext, ReducerStep
<1>4. PICK out \in Seq(Message) :
        /\ Send(w, out)
        /\ \A m \in ToSet(out) :
             /\ m.op = "pub" /\ m.type \in Kind(w) \ {JOB_REQUEST}
             /\ Head(down[w]).type = datatype(w)
  <2>1. CASE up' = up
    <3>1. Send(w, <<>>)
      BY <1>1, <2>1, QueueTypes DEF Send
    <3>2. QED  BY <3>1, NothingSent
  <2>2. CASE start_process(w)
    <3>1. Head(down[w]).type = datatype(w)
      BY <1>1, <2>2 DEF start_process, MapperDone, TakesReduceData, TakesData
    <3>2. CASE \E out \in Seq(ReducerMessage) : Send(w, out)
      BY <3>1, <3>2, SentByWorker, SentAreMessages
    <3>3. QED  BY <2>1, <3>2, ReducerSends
  <2>3. QED
    BY <2>1, <2>2 DEF ReducerNext, ReducerStep, ReduceCode, ReduceData,
      MoreMappers, ReduceReject
<1>5. QED  BY <1>1, <1>2, <1>3, <1>4, WorkerOrder

(* A worker that starts: its queue held the advertisement alone. *)
LEMMA StartOrder ==
  ASSUME TypeInv, OrderInv, NEW w \in Worker, StartNext(w)
  PROVE  OrderInv'
<1>1. /\ w \in Node /\ w # Client /\ Client \in Node
      /\ ~started[w] /\ Fresh(w) /\ w \notin Joined
      /\ down[w] # <<>> /\ down[w] \in Seq(Publication)
      /\ down' = [down EXCEPT ![w] = Tail(@)]
      /\ started' = [started EXCEPT ![w] = TRUE]
      /\ up' = [up EXCEPT ![w] = @ \o <<JobRequest(w)>>]
  BY Roles, QueueTypes DEF StartNext, startsession, Receive, Send, OrderInv,
    WorkersInOrder, MessagesSound
<1>2. /\ started' \in [Worker -> BOOLEAN] /\ started'[w]
      /\ \A v \in Worker : v # w => started'[v] = started[v]
      /\ \A v \in Worker : started[v] => started'[v]
  BY <1>1 DEF TypeInv, TypeOK
<1>3. /\ down'[w] = <<>> /\ \A n \in Node : n # w => down'[n] = down[n]
      /\ ToSet(down'[w]) = {}
  <2>1. down'[w] = Tail(down[w])
        /\ \A n \in Node : n # w => down'[n] = down[n]
    BY <1>1, QueueTypes
  <2>2. Len(down[w]) = 1
    BY <1>1 DEF Fresh
  <2>3. ASSUME NEW q \in Seq(Publication), Len(q) = 1
        PROVE  Tail(q) = <<>>
    <3>1. q # <<>> /\ Tail(q) \in Seq(Publication) /\ Len(Tail(q)) = 0
      BY <2>3
    <3>2. QED  BY <3>1, EmptySeq
  <2>4. QED  BY <1>1, <2>1, <2>2, <2>3, NothingSent
<1>4. /\ ToSet(up'[w]) = ToSet(up[w]) \cup {JobRequest(w)}
      /\ \A n \in Node : n # w => up'[n] = up[n]
  <2>1. JobRequest(w) \in Message
    BY JobRequestType DEF Message
  <2>2. up[w] \in Seq(Message) /\ up'[w] = up[w] \o <<JobRequest(w)>>
        /\ \A n \in Node : n # w => up'[n] = up[n]
    BY <1>1, QueueTypes
  <2>3. <<JobRequest(w)>> \in Seq(Message)
        /\ ToSet(<<JobRequest(w)>>) = {JobRequest(w)}
    BY <2>1 DEF ToSet
  <2> DEFINE out == <<JobRequest(w)>>
  <2> HIDE DEF out
  <2>4. out \in Seq(Message) /\ ToSet(out) = {JobRequest(w)}
        /\ up'[w] = up[w] \o out
    BY <2>2, <2>3 DEF out
  <2>5. QED  BY <2>2, <2>4, ToSetQueue
<1>5. /\ Known' = Known /\ Sane' = Sane /\ Joined' = Joined
      /\ fires' = fires /\ counter' = counter /\ subs' = subs
      /\ \A v : StateOf(v)' = StateOf(v)
      /\ \A t : Pending(t)' <=> Pending(t)
  BY <1>1, <1>4 DEF StartNext, startsession, Known, Joined, Sane, clientVars,
    mapperVars, reducerVars, StateOf, Pending
<1>6. \A m : Sound(m) => Sound(m)'
  BY <1>2, <1>5 DEF Sound, StartNext, startsession, clientVars
<1>7. /\ JobRequest(w).op = "pub" /\ JobRequest(w).type = JOB_REQUEST
      /\ Queued(w, JobRequest(w))'
  <2>1. JobRequest(w).op = "pub" /\ JobRequest(w).type = JOB_REQUEST
    BY DEF JobRequest, Pub
  <2>2. JOB_REQUEST \in Kind(w)
    BY <1>1 DEF Kind
  <2>3. Sound(JobRequest(w))'
    BY <1>2, <2>1 DEF Sound, JOB_REQUEST, MAP_CODETYPE, REDUCE_CODETYPE
  <2>4. QED  BY <2>1, <2>2, <2>3 DEF Queued, Kind
<1>8. MessagesSound'
  <2>1. ASSUME NEW n \in Node, NEW m \in ToSet(up'[n])
        PROVE  Queued(n, m)'
    <3>1. (m = JobRequest(w) /\ n = w) \/ m \in ToSet(up[n])
      BY <1>4, <2>1
    <3>2. CASE m \in ToSet(up[n])
      BY <1>6, <3>2 DEF OrderInv, MessagesSound, Queued, Kind
    <3>3. QED  BY <1>7, <3>1, <3>2
  <2>2. ASSUME NEW n \in Node, NEW m \in ToSet(down'[n])
        PROVE  Sound(m)'
    BY <1>3, <1>6, <2>2 DEF OrderInv, MessagesSound
  <2>3. \A v \in Joined' : started'[v]
    BY <1>1, <1>2, <1>5 DEF OrderInv, MessagesSound, Joined, Worker, TypeInv,
      TypeOK, ClientTypeOK
  <2>4. QED  BY <1>5, <2>1, <2>2, <2>3 DEF OrderInv, MessagesSound
<1>9. CodeFirst'
  <2>1. InOrder(up[Client])'
    BY <1>1, <1>4 DEF OrderInv, CodeFirst
  <2>2. ~Pending(JOB_ADVERTISE)'
    BY <1>1, <1>5 DEF OrderInv, CodeFirst
  <2>3. ASSUME NEW v \in Worker, started'[v], Pending(codetype(v))'
        PROVE  StateOf(v)' = "EXPECT_CODE" /\ down'[v] = <<>>
    <3>1. CASE v = w
      BY <1>1, <1>3, <1>5, <3>1 DEF Fresh
    <3>2. CASE v # w
      BY <1>2, <1>3, <1>5, <2>3, <3>2, Roles DEF OrderInv, CodeFirst
    <3>3. QED  BY <3>1, <3>2
  <2>4. ASSUME Pending(REDUCE_CODETYPE)'
        PROVE  /\ \A v \in Mapper :
                    \A m \in ToSet(down'[v]) : ~Is(m, MAP_DATATYPE)
               /\ \A n \in Node :
                    \A m \in ToSet(up'[n]) : ~Is(m, REDUCE_DATATYPE)
    <3>1. /\ \A v \in Mapper : \A m \in ToSet(down[v]) : ~Is(m, MAP_DATATYPE)
          /\ \A n \in Node : \A m \in ToSet(up[n]) : ~Is(m, REDUCE_DATATYPE)
      BY <1>5, <2>4 DEF OrderInv, CodeFirst
    <3>2. \A v \in Mapper : \A m \in ToSet(down'[v]) : ~Is(m, MAP_DATATYPE)
      BY <1>3, <3>1, Roles
    <3>3. ~Is(JobRequest(w), REDUCE_DATATYPE)
      BY <1>7 DEF Is, JOB_REQUEST, REDUCE_DATATYPE
    <3>4. QED  BY <1>4, <3>1, <3>2, <3>3
  <2>5. QED  BY <2>1, <2>2, <2>3, <2>4 DEF CodeFirst
<1>10. WorkersInOrder'
  <2>1. ASSUME NEW v \in Worker, v # w
        PROVE  IF started'[v] THEN CodeIfFirst(v)' /\ (Sane' => HasCode(v)')
                              ELSE Fresh(v)'
    <3>1. down'[v] = down[v] /\ started'[v] = started[v]
      BY <1>2, <1>3, <2>1, Roles
    <3>2. /\ CodeIfFirst(v)' <=> CodeIfFirst(v)
          /\ HasCode(v)' <=> HasCode(v)
          /\ Fresh(v)' <=> Fresh(v)
      BY <1>5, <3>1 DEF CodeIfFirst, HasCode, Fresh
    <3>3. QED  BY <1>5, <3>1, <3>2 DEF OrderInv, WorkersInOrder
  <2>2. CodeIfFirst(w)' /\ HasCode(w)'
    BY <1>1, <1>3, <1>5 DEF CodeIfFirst, HasCode
  <2>3. QED  BY <1>2, <2>1, <2>2 DEF WorkersInOrder
<1>11. FiredOnce'
  BY <1>5 DEF OrderInv, FiredOnce
<1>12. QED  BY <1>8, <1>9, <1>10, <1>11 DEF OrderInv

-----------------------------------------------------------------------------
(* Before the job is fired, nobody has got anything of it. *)
LEMMA Unfired ==
  ASSUME TypeInv, SubscribedInv, ~late, OrderInv, ~(fires > 0)
  PROVE  /\ \A n \in Node : /\ \A m \in ToSet(up[n]) : ~Serving(m)
                            /\ \A m \in ToSet(down[n]) : ~Serving(m)
         /\ \A w \in Worker : started[w] =>
              StateOf(w) = "EXPECT_CODE" /\ down[w] = <<>>
<1>1. \A n \in Node : /\ \A m \in ToSet(up[n]) : ~Serving(m)
                      /\ \A m \in ToSet(down[n]) : ~Serving(m)
  BY ServedWasFired
<1>2. ASSUME NEW w \in Worker, started[w]
      PROVE  StateOf(w) = "EXPECT_CODE" /\ down[w] = <<>>
  <2>1. StateOf(w) = "EXPECT_CODE"
    BY Roles DEF SubscribedInv, WorkersServed, StateOf, Worker
  <2>2. CodeIfFirst(w) /\ w \in Node /\ down[w] \in Seq(Publication)
    BY <1>2, Roles, QueueTypes DEF OrderInv, WorkersInOrder
  <2>3. SUFFICES ASSUME down[w] # <<>> PROVE FALSE
    BY <2>1
  <2>4. 1 \in DOMAIN down[w] /\ down[w][1] \in ToSet(down[w])
        /\ down[w][1] \in Publication
    BY <2>2, <2>3 DEF ToSet
  <2>5. down[w][1].type \in {codetype(w), datatype(w)}
        /\ down[w][1].op = "pub"
    BY <2>2, <2>4 DEF CodeIfFirst, Publication
  <2>6. Serving(down[w][1])
    BY <2>5, CodeAndData, ServingTypes
  <2>7. QED  BY <1>1, <2>2, <2>4, <2>6
<1>3. QED  BY <1>1, <1>2

(* The client registers a worker: the job is not fired yet, and it adds to *)
(* its queue the subscriptions of that worker.                             *)
LEMMA RequestOrder ==
  ASSUME TypeInv, SubscribedInv, ~late, OrderInv, ClientNext,
         HandleJobRequest, ~late'
  PROVE  OrderInv'
<1> DEFINE h == Head(down[Client])
           wanted == h.body.subs
<1>1. /\ Client \in Node /\ down[Client] \in Seq(Publication)
      /\ down[Client] # <<>> /\ h \in Publication /\ h.op = "pub"
      /\ h.type = JOB_REQUEST /\ h \in ToSet(down[Client])
      /\ ToSet(down'[Client]) \subseteq ToSet(down[Client])
      /\ \A n \in Node : n # Client => down'[n] = down[n]
  <2>1. /\ Client \in Node /\ down[Client] \in Seq(Publication)
        /\ down[Client] # <<>> /\ h.type = JOB_REQUEST
        /\ down' = [down EXCEPT ![Client] = Tail(@)]
    BY Roles, QueueTypes DEF HandleJobRequest, Takes, Receive
  <2>2. /\ ToSet(down[Client]) = {h} \cup ToSet(Tail(down[Client]))
        /\ ToSet(down[Client]) \subseteq Publication
    BY <2>1, ToSetQueue
  <2>3. /\ down'[Client] = Tail(down[Client])
        /\ \A n \in Node : n # Client => down'[n] = down[n]
    BY <2>1, QueueTypes
  <2>4. h \in Publication
    BY <2>2
  <2> HIDE DEF h
  <2>5. h.op = "pub"
    BY <2>4 DEF Publication
  <2>6. QED  BY <2>1, <2>2, <2>3, <2>4, <2>5
<1>2. PICK w \in Worker : h = JobRequest(w) /\ started[w]
  <2>1. Sound(h)
    BY <1>1 DEF OrderInv, MessagesSound
  <2>2. QED  BY <1>1, <2>1 DEF Sound
<1>3. /\ ToSet(wanted) = {Sub(w, codetype(w), NoDst), Sub(w, datatype(w), w[2])}
      /\ ToSet(wanted) = ToSet(JobRequest(w).body.subs)
      /\ wanted \in Seq(Message)
  <2>1. wanted \in Seq(WorkerSub)
    BY <1>1, BodyTypes
  <2>2. WorkerSub \subseteq Message
    BY Roles DEF WorkerSub, Message, Subscription, MsgType, MAP_CODETYPE,
      MAP_DATATYPE, REDUCE_CODETYPE, REDUCE_DATATYPE
  <2>3. wanted \in Seq(Message)
    BY <2>1, <2>2, SeqMonotone
  <2>4. wanted = JobRequest(w).body.subs
    BY <1>2
  <2> HIDE DEF wanted
  <2>5. QED  BY <2>3, <2>4, RequestedSubs
<1>4. /\ ~(fires > 0) /\ fires' = fires /\ subs' = subs
      /\ started' = started /\ mState' = mState /\ rState' = rState
      /\ mappers' = mappers
           \cup Requesting(wanted, {MAP_CODETYPE, MAP_DATATYPE})
      /\ reducers' = reducers
           \cup Requesting(wanted, {REDUCE_CODETYPE, REDUCE_DATATYPE})
      /\ up' = [up EXCEPT ![Client] = @ \o wanted]
  BY DEF HandleJobRequest, Takes, Send, ClientNext, mapperVars, reducerVars,
    firingVars
<1> HIDE DEF h, wanted
<1>5. /\ up'[Client] = up[Client] \o wanted
      /\ ToSet(up'[Client]) = ToSet(up[Client]) \cup ToSet(wanted)
      /\ \A n \in Node : n # Client => up'[n] = up[n]
      /\ up[Client] \in Seq(Message)
  <2>1. /\ up'[Client] = up[Client] \o wanted
        /\ up[Client] \in Seq(Message)
        /\ \A n \in Node : n # Client => up'[n] = up[n]
    BY <1>1, <1>4, QueueTypes
  <2>2. QED  BY <1>3, <2>1, ToSetQueue
<1>6. Joined' = Joined \cup {w} /\ Joined' \subseteq Worker
  <2>1. IF w \in Mapper
        THEN /\ Requesting(wanted, {MAP_CODETYPE, MAP_DATATYPE}) = {w}
             /\ Requesting(wanted, {REDUCE_CODETYPE, REDUCE_DATATYPE}) = {}
        ELSE /\ Requesting(wanted, {MAP_CODETYPE, MAP_DATATYPE}) = {}
             /\ Requesting(wanted, {REDUCE_CODETYPE, REDUCE_DATATYPE}) = {w}
    <3> DEFINE s == Sub(w, codetype(w), NoDst)
               r == Sub(w, datatype(w), w[2])
    <3>1. /\ ToSet(wanted) = {s, r}
          /\ s.node = w /\ s.type = codetype(w)
          /\ r.node = w /\ r.type = datatype(w)
      BY <1>3 DEF Sub
    <3> HIDE DEF s, r
    <3>2. ASSUME NEW T
          PROVE  /\ s.type \in T /\ r.type \in T => Requesting(wanted, T) = {w}
                 /\ s.type \notin T /\ r.type \notin T =>
                      Requesting(wanted, T) = {}
      BY <3>1 DEF Requesting
    <3>3. CASE w \in Mapper
      BY <3>1, <3>2, <3>3 DEF codetype, datatype, MAP_CODETYPE,
        MAP_DATATYPE, REDUCE_CODETYPE, REDUCE_DATATYPE
    <3>4. CASE w \notin Mapper
      BY <3>1, <3>2, <3>4 DEF codetype, datatype, MAP_CODETYPE,
        MAP_DATATYPE, REDUCE_CODETYPE, REDUCE_DATATYPE
    <3>5. QED  BY <3>3, <3>4
  <2>2. Joined' = Joined \cup {w}
    BY <1>4, <2>1 DEF Joined
  <2>3. Joined \subseteq Worker
    BY DEF Joined, Worker, TypeInv, TypeOK, ClientTypeOK
  <2>4. QED  BY <2>2, <2>3
<1>7. /\ Known \subseteq Known' /\ ToSet(wanted) \subseteq Known'
      /\ \A v : StateOf(v)' = StateOf(v)
  BY <1>3, <1>4, <1>6 DEF Known, StateOf
<1>8. /\ \A n \in Node : /\ \A m \in ToSet(up[n]) : ~Serving(m)
                         /\ \A m \in ToSet(down[n]) : ~Serving(m)
      /\ \A v \in Worker : started[v] =>
           StateOf(v) = "EXPECT_CODE" /\ down[v] = <<>>
  BY <1>4, Unfired
<1>9. \A m : Sound(m) /\ ~Serving(m) => Sound(m)'
  <2>1. ASSUME NEW m, Sound(m), ~Serving(m), m.op = "pub"
        PROVE  m.type # MAP_CODETYPE /\ m.type # REDUCE_CODETYPE
    BY <2>1, ServingTypes DEF Codetypes
  <2>2. QED  BY <1>4, <1>7, <2>1 DEF Sound
<1>10. \A m \in ToSet(wanted) : m.op = "sub" /\ Queued(Client, m)'
  BY <1>3, <1>7 DEF Sub, Queued, Sound
<1>11. \A t : Pending(t)' <=> Pending(t)
  BY <1>5, <1>10 DEF Pending, Is
<1>12. MessagesSound'
  <2>1. ASSUME NEW n \in Node, NEW m \in ToSet(up'[n])
        PROVE  Queued(n, m)'
    <3>1. m \in ToSet(up[n]) \/ (n = Client /\ m \in ToSet(wanted))
      BY <1>5, <2>1
    <3>2. CASE m \in ToSet(up[n])
      BY <1>8, <1>9, <3>2 DEF OrderInv, MessagesSound, Queued, Kind
    <3>3. QED  BY <1>10, <3>1, <3>2
  <2>2. ASSUME NEW n \in Node, NEW m \in ToSet(down'[n])
        PROVE  Sound(m)'
    BY <1>1, <1>8, <1>9, <2>2 DEF OrderInv, MessagesSound
  <2>3. subs' \subseteq Known' /\ \A v \in Joined' : started'[v]
    BY <1>2, <1>4, <1>6, <1>7 DEF OrderInv, MessagesSound
  <2>4. QED  BY <2>1, <2>2, <2>3 DEF MessagesSound
<1>13. \A t \in Codetypes \cup {MAP_DATATYPE} : \A n \in Node :
          \A m \in ToSet(up[n]) : ~Is(m, t)
  BY <1>8, ServingTypes DEF Is
<1>14. CodeFirst'
  <2>1. InOrder(up[Client])'
    <3>1. /\ \A m \in ToSet(up[Client]) : /\ ~Is(m, MAP_DATATYPE)
                                          /\ \A t \in Codetypes : ~Is(m, t)
          /\ \A m \in ToSet(wanted) : \A t : ~Is(m, t)
      BY <1>1, <1>10, <1>13 DEF Is
    <3>2. InOrder(wanted) /\ InOrder(up[Client])
      <4>1. \A i \in DOMAIN wanted : wanted[i] \in ToSet(wanted)
        BY DEF ToSet
      <4>2. QED  BY <3>1, <4>1 DEF OrderInv, CodeFirst, InOrder
    <3>3. InOrder(up[Client] \o wanted)
      BY <1>3, <1>5, <3>1, <3>2, InOrderSend
    <3>4. QED  BY <1>5, <3>3
  <2>2. ~Pending(JOB_ADVERTISE)'
    BY <1>2, <1>11 DEF OrderInv, CodeFirst
  <2>3. \A t \in Codetypes : ~Pending(t)'
    BY <1>1, <1>11, <1>13 DEF Pending
  <2>4. REDUCE_CODETYPE \in Codetypes
        /\ \A v \in Worker : codetype(v) \in Codetypes
    BY CodeAndData DEF Codetypes
  <2>5. QED  BY <2>1, <2>2, <2>3, <2>4 DEF CodeFirst
<1>15. WorkersInOrder'
  <2>1. ASSUME NEW v \in Worker
        PROVE  IF started'[v] THEN CodeIfFirst(v)' /\ HasCode(v)'
                              ELSE Fresh(v)'
    <3>1. down'[v] = down[v] /\ started'[v] = started[v]
          /\ StateOf(v)' = StateOf(v)
      BY <1>1, <1>4, <1>7, Roles
    <3>2. CASE started[v]
      <4>1. down'[v] = <<>> /\ ~(fires' > 0)
        BY <1>4, <1>8, <3>1, <3>2
      <4>2. QED  BY <3>1, <3>2, <4>1 DEF CodeIfFirst, HasCode
    <3>3. CASE ~started[v]
      BY <3>1, <3>3 DEF Fresh, OrderInv, WorkersInOrder
    <3>4. QED  BY <3>2, <3>3
  <2>2. QED  BY <2>1 DEF WorkersInOrder
<1>16. FiredOnce'
  BY <1>4 DEF FiredOnce
<1>17. QED  BY <1>12, <1>14, <1>15, <1>16 DEF OrderInv

-----------------------------------------------------------------------------
(* What the client sends for a job: codes, then data. *)
LEMMA SentByClient ==
  /\ \A M : \A q \in Seq(DataMessage(M)) : \A m \in ToSet(q) :
       Is(m, MAP_DATATYPE) /\ Queued(Client, m)
  /\ \A M : \A q \in Seq(DataMessage(M)) : q \in Seq(Message)
<1>1. \A M : \A m \in DataMessage(M) :
        Is(m, MAP_DATATYPE) /\ Queued(Client, m) /\ m \in Message
  <2>1. \A p \in Publication : p.op = "pub"
    BY DEF Publication
  <2>2. MAP_DATATYPE \notin {MAP_CODETYPE, REDUCE_CODETYPE, JOB_REQUEST}
    BY DEF MAP_DATATYPE, MAP_CODETYPE, REDUCE_CODETYPE, JOB_REQUEST
  <2>3. QED
    BY <2>1, <2>2 DEF DataMessage, Is, Queued, Sound, Kind, Message
<1>2. QED  BY <1>1, ToSetQueue, SeqMonotone

LEMMA DataInOrder ==
  ASSUME NEW q, \A m \in ToSet(q) : Is(m, MAP_DATATYPE)
  PROVE  /\ InOrder(q)
         /\ \A m \in ToSet(q) : \A t \in Codetypes \cup {JOB_ADVERTISE} :
              ~Is(m, t)
<1>1. \A m \in ToSet(q) : \A t \in Codetypes \cup {JOB_ADVERTISE} : ~Is(m, t)
  BY DEF Is, Codetypes, MAP_DATATYPE, MAP_CODETYPE, REDUCE_CODETYPE,
    JOB_ADVERTISE
<1>2. \A i \in DOMAIN q : q[i] \in ToSet(q)
  BY DEF ToSet
<1>3. QED  BY <1>1, <1>2 DEF InOrder

LEMMA CodesInOrder ==
  ASSUME TypeInv
  PROVE  /\ Codes \in Seq(Message) /\ InOrder(Codes)
         /\ \A m \in ToSet(Codes) : /\ Queued(Client, m)
                                    /\ ~Is(m, JOB_ADVERTISE)
                                    /\ ~Is(m, REDUCE_DATATYPE)
         /\ \A t \in Codetypes : \E m \in ToSet(Codes) : Is(m, t)
<1> DEFINE mc == Pub(MAP_CODETYPE, NoDst, CountOf(Cardinality(reducers)))
           rc == Pub(REDUCE_CODETYPE, NoDst, CountOf(Cardinality(mappers)))
<1>1. Codes = <<mc, rc>> /\ Codes \in Seq(Message)
  <2>1. Codes \in Seq(CodeMessage)
    BY CodesType DEF TypeInv, TypeOK, ClientTypeOK
  <2>2. CodeMessage \subseteq Message
    BY DEF CodeMessage, Message
  <2>3. QED  BY <2>1, <2>2, SeqMonotone DEF Codes
<1>2. /\ mc.op = "pub" /\ mc.type = MAP_CODETYPE
      /\ mc.body.count = Cardinality(reducers)
      /\ rc.op = "pub" /\ rc.type = REDUCE_CODETYPE
      /\ rc.body.count = Cardinality(mappers)
  BY DEF Pub, CountOf
<1> HIDE DEF mc, rc
<1>3. ToSet(Codes) = {mc, rc} /\ DOMAIN Codes = {1, 2}
      /\ Codes[1] = mc /\ Codes[2] = rc
  BY <1>1 DEF ToSet
<1>4. Queued(Client, mc) /\ Queued(Client, rc)
  BY <1>2 DEF Queued, Sound, Kind, MAP_CODETYPE, REDUCE_CODETYPE, JOB_REQUEST
<1>5. /\ Is(mc, MAP_CODETYPE) /\ Is(rc, REDUCE_CODETYPE)
      /\ \A t \in {REDUCE_CODETYPE, MAP_DATATYPE, REDUCE_DATATYPE,
                   JOB_ADVERTISE} : ~Is(mc, t)
      /\ \A t \in {MAP_CODETYPE, MAP_DATATYPE, REDUCE_DATATYPE,
                   JOB_ADVERTISE} : ~Is(rc, t)
  BY <1>2 DEF Is, MAP_CODETYPE, REDUCE_CODETYPE, MAP_DATATYPE,
    REDUCE_DATATYPE, JOB_ADVERTISE
<1>6. InOrder(Codes)
  BY <1>3, <1>5 DEF InOrder, Codetypes
<1>7. QED  BY <1>1, <1>3, <1>4, <1>5, <1>6 DEF Codetypes

(* What the client sends is sound, and stays so. *)
LEMMA ClientSends ==
  ASSUME TypeInv, OrderInv, ClientNext, subs' = subs,
         mappers' = mappers, reducers' = reducers,
         down' = down \/ Receive(Client),
         NEW out \in Seq(Message), Send(Client, out),
         \A m \in ToSet(out) : Queued(Client, m)
  PROVE  /\ MessagesSound'
         /\ up'[Client] = up[Client] \o out
         /\ ToSet(up'[Client]) = ToSet(up[Client]) \cup ToSet(out)
         /\ \A n \in Node : n # Client => up'[n] = up[n]
         /\ \A w \in Worker : down'[w] = down[w]
         /\ \A t : Pending(t)' <=> Pending(t) \/ \E m \in ToSet(out) : Is(m, t)
         /\ Known' = Known /\ Sane' = Sane /\ Joined' = Joined
         /\ started' = started
         /\ \A w : StateOf(w)' = StateOf(w)
<1>1. /\ Client \in Node /\ up[Client] \in Seq(Message)
      /\ up'[Client] = up[Client] \o out
      /\ \A n \in Node : n # Client => up'[n] = up[n]
  BY Roles, QueueTypes DEF Send
<1>2. ToSet(up'[Client]) = ToSet(up[Client]) \cup ToSet(out)
  BY <1>1, ToSetQueue
<1>3. /\ \A n \in Node : n # Client => down'[n] = down[n]
      /\ ToSet(down'[Client]) \subseteq ToSet(down[Client])
  <2>1. CASE down' = down
    BY <2>1
  <2>2. CASE Receive(Client)
    <3>1. /\ down[Client] \in Seq(Publication) /\ down[Client] # <<>>
          /\ down'[Client] = Tail(down[Client])
          /\ \A n \in Node : n # Client => down'[n] = down[n]
      BY <1>1, <2>2, QueueTypes DEF Receive
    <3>2. QED  BY <3>1, ToSetQueue
  <2>3. QED  BY <2>1, <2>2
<1>4. /\ Known' = Known /\ Sane' = Sane /\ Joined' = Joined
      /\ started' = started
      /\ \A w : StateOf(w)' = StateOf(w)
      /\ \A m : Sound(m)' <=> Sound(m)
  BY DEF ClientNext, mapperVars, reducerVars, Known, Joined, Sane, StateOf,
    Sound
<1>5. MessagesSound'
  <2>1. ASSUME NEW n \in Node, NEW m \in ToSet(up'[n])
        PROVE  Queued(n, m)'
    <3>1. Queued(n, m)
      BY <1>1, <1>2, <2>1 DEF OrderInv, MessagesSound
    <3>2. QED  BY <1>4, <3>1 DEF Queued, Kind
  <2>2. ASSUME NEW n \in Node, NEW m \in ToSet(down'[n])
        PROVE  Sound(m)'
    BY <1>3, <1>4, <2>2 DEF OrderInv, MessagesSound
  <2>3. QED  BY <1>4, <2>1, <2>2 DEF OrderInv, MessagesSound
<1>6. \A w \in Worker : down'[w] = down[w]
  BY <1>3, Roles
<1>7. \A t : Pending(t)' <=> Pending(t) \/ \E m \in ToSet(out) : Is(m, t)
  BY <1>2 DEF Pending
<1>8. QED  BY <1>1, <1>2, <1>4, <1>5, <1>6, <1>7

(* The job is fired once at most, when every worker that has started waits *)
(* for code with an empty queue.                                           *)
LEMMA FireSends ==
  ASSUME TypeInv, fire_jobs
  PROVE  \E M : \E q \in Seq(DataMessage(M)) : Send(Client, Codes \o q)
<1>1. ClientTypeOK /\ 1 \in 1..MaxRounds
  BY ProtocolAssumption DEF TypeInv, TypeOK
<1>2. CASE FireWordcount
  <2>1. mappers_data \o Lines \in Seq(Seq(Items))
    BY <1>1, ProtocolAssumption DEF ClientTypeOK
  <2>2. DataBurst(mappers, mappers_data \o Lines, 1)
          \in Seq(DataMessage(mappers))
    BY <1>1, <1>2, <2>1, DataBurstType DEF FireWordcount, ClientTypeOK
  <2>3. QED  BY <1>2, <2>2 DEF FireWordcount, JobMessages
<1>3. CASE FireKMeans
  <2>1. Cardinality(mappers) \in Nat \ {0}
    BY <1>1, <1>3, RolesFinite, FS_Subset, FS_CardinalityType, FS_EmptySet
    DEF FireKMeans, ClientTypeOK
  <2>2. Partitions(Lines, Cardinality(mappers)) \in Seq(Seq(Items))
    BY <1>3, <2>1, PartitionsType DEF FireKMeans
  <2>3. DataBurst(mappers, Partitions(Lines, Cardinality(mappers)), 1)
          \in Seq(DataMessage(mappers))
    BY <1>1, <1>3, <2>2, DataBurstType DEF FireKMeans, ClientTypeOK
  <2>4. QED  BY <1>3, <2>3 DEF FireKMeans, JobMessages
<1>4. CASE FireCrash
  <2>1. Codes \in Seq(CodeMessage)
    BY <1>1, CodesType DEF ClientTypeOK
  <2>2. Codes \o <<>> = Codes
    BY <2>1
  <2>3. <<>> \in Seq(DataMessage(mappers))
    OBVIOUS
  <2>4. QED  BY <1>4, <2>2, <2>3 DEF FireCrash
<1>5. QED  BY <1>2, <1>3, <1>4 DEF fire_jobs

LEMMA FireOrder ==
  ASSUME TypeInv, SubscribedInv, ~late, OrderInv, ClientNext, fire_jobs
  PROVE  OrderInv'
<1>1. /\ counter = 1 /\ counter' = 0 /\ fires' = fires + 1 /\ fires \in Nat
      /\ subs' = subs /\ mappers' = mappers /\ reducers' = reducers
      /\ down' = down
  BY DEF fire_jobs, FireWordcount, FireKMeans, FireCrash, Fires, Ticks,
    TypeInv, TypeOK, ClientTypeOK
<1>2. ~(fires > 0) /\ fires' > 0
  BY <1>1 DEF OrderInv, FiredOnce
<1> PICK M : \E q \in Seq(DataMessage(M)) : Send(Client, Codes \o q)
  BY FireSends
<1>3. PICK q \in Seq(DataMessage(M)) : Send(Client, Codes \o q)
  OBVIOUS
<1>4. /\ Codes \in Seq(Message) /\ InOrder(Codes)
      /\ q \in Seq(Message) /\ InOrder(q)
      /\ \A m \in ToSet(Codes) : /\ Queued(Client, m)
                                 /\ ~Is(m, JOB_ADVERTISE)
                                 /\ ~Is(m, REDUCE_DATATYPE)
      /\ \A m \in ToSet(q) : /\ Queued(Client, m) /\ Is(m, MAP_DATATYPE)
                             /\ ~Is(m, JOB_ADVERTISE)
                             /\ \A t \in Codetypes : ~Is(m, t)
      /\ \A t \in Codetypes : \E m \in ToSet(Codes) : Is(m, t)
  BY CodesInOrder, SentByClient, DataInOrder
<1> DEFINE out == Codes \o q
<1>5. /\ out \in Seq(Message) /\ ToSet(out) = ToSet(Codes) \cup ToSet(q)
      /\ Send(Client, out)
  BY <1>3, <1>4, ToSetQueue
<1>6. InOrder(out)
  BY <1>4, InOrderSend
<1>7. \A m \in ToSet(out) :
        /\ Queued(Client, m) /\ ~Is(m, JOB_ADVERTISE)
        /\ ~Is(m, REDUCE_DATATYPE)
  <2>1. \A m : Is(m, MAP_DATATYPE) => ~Is(m, REDUCE_DATATYPE)
    BY DEF Is, MAP_DATATYPE, REDUCE_DATATYPE
  <2>2. QED  BY <1>4, <1>5, <2>1
<1> HIDE DEF out
<1>8. /\ MessagesSound'
      /\ up'[Client] = up[Client] \o out
      /\ ToSet(up'[Client]) = ToSet(up[Client]) \cup ToSet(out)
      /\ \A n \in Node : n # Client => up'[n] = up[n]
      /\ \A w \in Worker : down'[w] = down[w]
      /\ \A t : Pending(t)' <=> Pending(t) \/ \E m \in ToSet(out) : Is(m, t)
      /\ Known' = Known /\ Sane' = Sane /\ Joined' = Joined
      /\ started' = started
      /\ \A w : StateOf(w)' = StateOf(w)
  BY <1>1, <1>5, <1>7, ClientSends
<1>9. /\ \A n \in Node : /\ \A m \in ToSet(up[n]) : ~Serving(m)
                         /\ \A m \in ToSet(down[n]) : ~Serving(m)
      /\ \A v \in Worker : started[v] =>
           StateOf(v) = "EXPECT_CODE" /\ down[v] = <<>>
  BY <1>2, Unfired
<1>10. \A t \in Codetypes \cup {MAP_DATATYPE, REDUCE_DATATYPE} :
         \A n \in Node : /\ \A m \in ToSet(up[n]) : ~Is(m, t)
                         /\ \A m \in ToSet(down[n]) : ~Is(m, t)
  BY <1>9, ServingTypes DEF Is
<1>11. CodeFirst'
  <2>1. InOrder(up[Client])'
    <3>1. /\ InOrder(up[Client]) /\ up[Client] \in Seq(Message)
          /\ Client \in Node
      BY Roles, QueueTypes DEF OrderInv, CodeFirst
    <3>2. InOrder(up[Client] \o out)
      BY <1>5, <1>6, <1>7, <1>10, <3>1, InOrderSend
    <3>3. QED  BY <1>8, <3>2
  <2>2. Pending(JOB_ADVERTISE)' =>
          \A w \in Worker : ~started'[w] /\ down'[w] = <<>>
    BY <1>7, <1>8 DEF OrderInv, CodeFirst
  <2>3. \A w \in Worker : started'[w] =>
          StateOf(w)' = "EXPECT_CODE" /\ down'[w] = <<>>
    BY <1>8, <1>9
  <2>4. /\ \A w \in Mapper :
             \A m \in ToSet(down'[w]) : ~Is(m, MAP_DATATYPE)
        /\ \A n \in Node :
             \A m \in ToSet(up'[n]) : ~Is(m, REDUCE_DATATYPE)
    BY <1>1, <1>7, <1>8, <1>10, Roles
  <2>5. QED  BY <2>1, <2>2, <2>3, <2>4 DEF CodeFirst
<1>12. WorkersInOrder'
  <2>1. ASSUME NEW v \in Worker
        PROVE  IF started'[v] THEN CodeIfFirst(v)' /\ HasCode(v)'
                              ELSE Fresh(v)'
    <3>1. CASE started'[v]
      <4>1. down'[v] = <<>>
        BY <1>8, <1>9, <3>1
      <4>2. Pending(codetype(v))'
        BY <1>4, <1>5, <1>8, CodeAndData
      <4>3. QED  BY <3>1, <4>1, <4>2 DEF CodeIfFirst, HasCode
    <3>2. CASE ~started'[v]
      BY <1>8, <3>2 DEF Fresh, OrderInv, WorkersInOrder
    <3>3. QED  BY <3>1, <3>2
  <2>2. QED  BY <2>1 DEF WorkersInOrder
<1>13. FiredOnce'
  BY <1>1 DEF FiredOnce
<1>14. QED  BY <1>8, <1>11, <1>12, <1>13 DEF OrderInv

(* In all else it does, the client sends data at most. *)
LEMMA QuietOrder ==
  ASSUME TypeInv, OrderInv, ClientNext, ~HandleJobRequest, ~fire_jobs
  PROVE  OrderInv'
<1>1. /\ fires' = fires /\ subs' = subs
      /\ mappers' = mappers /\ reducers' = reducers
      /\ down' = down \/ Receive(Client)
      /\ counter' = counter \/ counter' = 0 \/ (counter > 1 /\ fires' = fires)
      /\ up' = up \/ fire_new_round
  BY DEF ClientNext, ClientStep, HandlePair, MoreReducers,
    WordcountFinish, fire_new_round, KMeansFinish, KMeansRound, ReducerDone,
    TakesResult, Takes, CountDown, FileError, Ticks, firingVars
<1>2. PICK out \in Seq(Message) :
        /\ Send(Client, out)
        /\ \A m \in ToSet(out) : Is(m, MAP_DATATYPE) /\ Queued(Client, m)
  <2>1. CASE up' = up
    <3>1. Send(Client, <<>>)
      BY <2>1, QueueTypes, Roles DEF Send
    <3>2. QED  BY <3>1, NothingSent
  <2>2. CASE fire_new_round
    <3>1. ClientTypeOK /\ DealtToMappers /\ round_ + 1 \in 1..MaxRounds
      BY <2>2, ProtocolAssumption DEF TypeInv, TypeOK, fire_new_round,
        ClientTypeOK
    <3>2. DataBurst(mappers, mappers_data, round_ + 1)
            \in Seq(DataMessage(mappers))
      BY <3>1, DataBurstType DEF ClientTypeOK, DealtToMappers
    <3>3. QED  BY <2>2, <3>2, SentByClient DEF fire_new_round
  <2>3. QED  BY <1>1, <2>1, <2>2
<1>3. /\ MessagesSound'
      /\ up'[Client] = up[Client] \o out
      /\ ToSet(up'[Client]) = ToSet(up[Client]) \cup ToSet(out)
      /\ \A n \in Node : n # Client => up'[n] = up[n]
      /\ \A w \in Worker : down'[w] = down[w]
      /\ \A t : Pending(t)' <=> Pending(t) \/ \E m \in ToSet(out) : Is(m, t)
      /\ Known' = Known /\ Sane' = Sane /\ Joined' = Joined
      /\ started' = started
      /\ \A w : StateOf(w)' = StateOf(w)
  BY <1>1, <1>2, ClientSends
<1>4. /\ InOrder(out)
      /\ \A m \in ToSet(out) : \A t \in Codetypes \cup {JOB_ADVERTISE} :
           ~Is(m, t)
  BY <1>2, DataInOrder
<1>5. \A t \in Codetypes \cup {JOB_ADVERTISE} : Pending(t)' <=> Pending(t)
  BY <1>3, <1>4
<1>6. REDUCE_CODETYPE \in Codetypes
      /\ \A w \in Worker : codetype(w) \in Codetypes
  BY CodeAndData DEF Codetypes
<1>7. CodeFirst'
  <2>1. InOrder(up[Client])'
    <3>1. /\ InOrder(up[Client]) /\ up[Client] \in Seq(Message)
          /\ Client \in Node
      BY Roles, QueueTypes DEF OrderInv, CodeFirst
    <3>2. InOrder(up[Client] \o out)
      BY <1>4, <3>1, InOrderSend
    <3>3. QED  BY <1>3, <3>2
  <2>2. /\ Pending(JOB_ADVERTISE)' =>
             \A w \in Worker : ~started'[w] /\ down'[w] = <<>>
        /\ \A w \in Worker : started'[w] /\ Pending(codetype(w))' =>
             StateOf(w)' = "EXPECT_CODE" /\ down'[w] = <<>>
    BY <1>3, <1>5, <1>6 DEF OrderInv, CodeFirst
  <2>3. ASSUME Pending(REDUCE_CODETYPE)'
        PROVE  /\ \A w \in Mapper :
                    \A m \in ToSet(down'[w]) : ~Is(m, MAP_DATATYPE)
               /\ \A n \in Node :
                    \A m \in ToSet(up'[n]) : ~Is(m, REDUCE_DATATYPE)
    <3>1. /\ \A w \in Mapper : \A m \in ToSet(down[w]) : ~Is(m, MAP_DATATYPE)
          /\ \A n \in Node : \A m \in ToSet(up[n]) : ~Is(m, REDUCE_DATATYPE)
      BY <1>5, <1>6, <2>3 DEF OrderInv, CodeFirst
    <3>2. \A m \in ToSet(out) : ~Is(m, REDUCE_DATATYPE)
      BY <1>2 DEF Is, MAP_DATATYPE, REDUCE_DATATYPE
    <3>3. \A w \in Mapper : w \in Worker
      BY DEF Worker
    <3>4. QED  BY <1>3, <3>1, <3>2, <3>3
  <2>4. QED  BY <2>1, <2>2, <2>3 DEF CodeFirst
<1>8. WorkersInOrder'
  <2>1. ASSUME NEW v \in Worker
        PROVE  /\ CodeIfFirst(v)' <=> CodeIfFirst(v)
               /\ HasCode(v)' <=> HasCode(v)
               /\ Fresh(v)' <=> Fresh(v)
    BY <1>1, <1>3, <1>5, <1>6 DEF CodeIfFirst, HasCode, Fresh
  <2>2. QED  BY <1>3, <2>1 DEF OrderInv, WorkersInOrder
<1>9. FiredOnce'
  BY <1>1 DEF OrderInv, FiredOnce, TypeInv, TypeOK, ClientTypeOK
<1>10. QED  BY <1>3, <1>7, <1>8, <1>9 DEF OrderInv

-----------------------------------------------------------------------------
LEMMA InitOrder == Init => ProtocolInv
<1> SUFFICES ASSUME Init PROVE OrderInv
  BY DEF ProtocolInv
<1>1. /\ subs = {} /\ mappers = {} /\ reducers = {} /\ fires = 0
      /\ up = [n \in Node |-> IF n = Client THEN init ELSE initialsub(n)]
      /\ up[Client] = init
      /\ down = [n \in Node |-> <<>>]
      /\ \A w \in Worker : ~started[w] /\ StateOf(w) = "EXPECT_CODE"
      /\ \A n \in Node : down[n] = <<>> /\ ToSet(down[n]) = {}
  BY Roles, NothingSent DEF Init, ClientInit, MapperInit, ReducerInit,
    StateOf, Worker
<1>2. ASSUME NEW n \in Node, NEW m \in ToSet(up[n])
      PROVE  Queued(n, m) /\ \A t \in Codetypes \cup {REDUCE_DATATYPE} :
                               ~Is(m, t)
  <2>1. CASE n = Client
    <3>1. ToSet(init) = {Pub(JOB_ADVERTISE, NoDst, Session),
                         Sub(Client, JOB_REQUEST, NoDst),
                         Sub(Client, RESULT_DATATYPE, NoDst)}
      BY DEF ToSet, init
    <3>2. CASE m = Pub(JOB_ADVERTISE, NoDst, Session)
      BY <2>1, <3>2 DEF Pub, Queued, Sound, Kind, Is, Codetypes,
        JOB_ADVERTISE, JOB_REQUEST, MAP_CODETYPE, REDUCE_CODETYPE,
        REDUCE_DATATYPE
    <3>3. CASE \E t \in {JOB_REQUEST, RESULT_DATATYPE} :
                 m = Sub(Client, t, NoDst)
      <4>1. m \in Known /\ m.op = "sub"
        BY <3>3 DEF Known, Sub
      <4>2. QED  BY <4>1 DEF Queued, Sound, Is
    <3>4. QED  BY <1>1, <1>2, <2>1, <3>1, <3>2, <3>3
  <2>2. CASE n # Client
    <3>1. m = Sub(n, JOB_ADVERTISE, NoDst) /\ n \in Worker
      BY <1>1, <1>2, <2>2 DEF ToSet, initialsub, Node
    <3>2. m \in Known /\ m.op = "sub"
      BY <3>1 DEF Known, Sub
    <3>3. QED  BY <3>2 DEF Queued, Sound, Is
  <2>3. QED  BY <2>1, <2>2
<1>3. MessagesSound
  BY <1>1, <1>2 DEF MessagesSound, Joined
<1>4. CodeFirst
  <2>1. InOrder(init)
    <3>1. /\ DOMAIN init = 1..3
          /\ ~Is(init[2], JOB_ADVERTISE) /\ ~Is(init[3], JOB_ADVERTISE)
          /\ \A i \in 1..3 : \A t \in Codetypes : ~Is(init[i], t)
      BY DEF init, Is, Pub, Sub, Codetypes, JOB_ADVERTISE, MAP_CODETYPE,
        REDUCE_CODETYPE
    <3>2. QED  BY <3>1 DEF InOrder
  <2>2. \A t \in Codetypes : ~Pending(t)
    BY <1>2, Roles DEF Pending
  <2>3. REDUCE_CODETYPE \in Codetypes
        /\ \A w \in Worker : codetype(w) \in Codetypes
    BY CodeAndData DEF Codetypes
  <2>4. QED  BY <1>1, <2>1, <2>2, <2>3, Roles DEF CodeFirst
<1>5. WorkersInOrder
  <2>1. \A w \in Worker : down[w] = <<>> /\ ToSet(down[w]) = {}
    BY <1>1, Roles
  <2>2. QED  BY <1>1, <2>1 DEF WorkersInOrder, Fresh
<1>6. FiredOnce
  BY <1>1 DEF FiredOnce
<1>7. QED  BY <1>3, <1>4, <1>5, <1>6 DEF OrderInv

LEMMA StutterOrder ==
  ASSUME OrderInv, UNCHANGED vars
  PROVE  OrderInv'
  BY DEF vars, netVars, mapperVars, reducerVars, clientVars, OrderInv,
    MessagesSound, CodeFirst, WorkersInOrder, FiredOnce, Joined, StateOf,
    Sane, Known, Sound, Queued, Kind, Pending, Fresh, CodeIfFirst, HasCode

LEMMA StaysLate == TypeInv /\ [Next]_vars /\ late => late'
  BY DEF Next, vars, clientVars, RouterNext, StartNext, MapperNext,
    ReducerNext, ClientNext, ClientStep, HandleJobRequest, HandlePair,
    MoreReducers, WordcountFinish, fire_new_round, KMeansFinish, KMeansRound,
    ReducerDone, TakesResult, CountDown, FileError, fire_jobs, FireWordcount,
    FireKMeans, FireCrash, Fires, Ticks, TypeInv, TypeOK, ClientTypeOK

LEMMA StepOrder ==
  TypeInv /\ SubscribedInv /\ ProtocolInv /\ [Next]_vars => ProtocolInv'
<1> SUFFICES ASSUME TypeInv, SubscribedInv, ProtocolInv, [Next]_vars, ~late'
             PROVE  OrderInv'
  BY DEF ProtocolInv
<1>1. ~late /\ OrderInv
  BY StaysLate DEF ProtocolInv
<1>2. QED
  BY <1>1, RouterOrder, StartOrder, MapperOrder, ReducerOrder, RequestOrder,
    FireOrder, QuietOrder, StutterOrder DEF Next

LEMMA ProtocolFollows ==
  TypeInv /\ ProtocolInv => ProtocolErrorFree
<1> SUFFICES ASSUME TypeInv, OrderInv, Sane, NEW w \in Worker, started[w],
                    down[w] # <<>>
             PROVE  ~Unacceptable(w, StateOf(w), Head(down[w]))
  BY DEF ProtocolInv, ProtocolErrorFree, Sane, StateOf
<1> DEFINE h == Head(down[w])
<1>1. /\ CodeIfFirst(w) /\ HasCode(w)
      /\ h = down[w][1] /\ 1 \in DOMAIN down[w]
      /\ h \in ToSet(down[w]) /\ h \in Publication /\ w \in Node
  <2>1. w \in Node /\ down[w] \in Seq(Publication)
    BY Roles, QueueTypes
  <2>2. h = down[w][1] /\ 1 \in DOMAIN down[w] /\ h \in Publication
    BY <2>1
  <2>3. QED  BY <2>1, <2>2 DEF OrderInv, WorkersInOrder, ToSet
<1> HIDE DEF h
<1>2. IF StateOf(w) = "EXPECT_CODE" THEN h.type = codetype(w)
                                    ELSE h.type = datatype(w)
  BY <1>1 DEF CodeIfFirst, HasCode, h
<1>3. h.type = codetype(w) => ValidCount(h.body.count)
  <2>1. Sound(h) /\ h.op = "pub"
    BY <1>1 DEF OrderInv, MessagesSound, Publication
  <2>2. QED  BY <2>1, CodeAndData DEF Sound, Sane, Codetypes
<1>4. QED  BY <1>2, <1>3, CodeAndData DEF Unacceptable, h

(* No worker of a job that nobody joins late ever answers "Protocol        *)
(* Error": whatever the interleaving, between mappers and reducers or of   *)
(* either with the client, its code arrives first, once, with a count from *)
(* 1 to 999, and nothing but data of its role follows (the dispatch on     *)
(* state and type in income_data of mapper and reducer).                   *)
THEOREM NoProtocolErrors == Spec => []ProtocolErrorFree
  BY InitTypes, StepTypes, InitSubscribed, StepSubscribed, InitOrder,
    StepOrder, ProtocolFollows, PTL DEF Spec

-----------------------------------------------------------------------------
(* Rounds are kept apart by nothing but end markers, and that is enough:   *)
(* every marker is accounted for, and what a round produces travels ahead  *)
(* of the marker that closes it.                                           *)

(* Messages of a type: markers, and data that are none; and those for the  *)
(* destination d.                                                          *)
Ends(t) == {m \in Message : Is(m, t) /\ m.body.end}
Data(t) == {m \in Message : Is(m, t) /\ ~m.body.end}
DataOf(t) == {m \in Message : Is(m, t)}
EndsTo(t, d) == {m \in Ends(t) : m.dst = d}
DataTo(t, d) == {m \in Data(t) : m.dst = d}

(* How many of S there are in a queue, and whether one of T follows every  *)
(* one of S.                                                               *)
Places(q, S) == {i \in DOMAIN q : q[i] \in S}
Number(q, S) == Cardinality(Places(q, S))
Followed(q, S, T) ==
  \A i \in DOMAIN q : q[i] \in S => \E j \in DOMAIN q : i < j /\ q[j] \in T

(* A queue that has changed in nothing that is in D. *)
SameFor(r, q, D) ==
  /\ \A S \in SUBSET D : Number(r, S) = Number(q, S)
  /\ \A S, T \in SUBSET D : Followed(q, S, T) => Followed(r, S, T)

(* Only the registered workers take part, and all that is under way        *)
(* belongs to the present round.  Items are under their key, and a key     *)
(* leads to the reducer it is sent to.                                     *)
DestOf(k) == CharDst(HashOf[k[2]] % Cardinality(reducers))
Mapped(k, value) == \A x \in Items : value[x] # 0 => MapKey(Round, x) = k
Sorted(buff) == OfRound(buff) /\ \A k \in Key : Mapped(k, buff[k])
LeadsTo(v, buff) == \A k \in Key : buff[k] # Zero => v[2] = DestOf(k)
TakePart(n, m) ==
  /\ m.type \in {MAP_CODETYPE, MAP_DATATYPE} => n \in mappers
  /\ m.type \in {REDUCE_CODETYPE, REDUCE_DATATYPE} => n \in reducers
  /\ m.type = RESULT_DATATYPE => n = Client
  /\ Is(m, REDUCE_DATATYPE) => m.dst = n[2]
SentBy(n, m) ==
  /\ Is(m, MAP_DATATYPE) => n = Client
  /\ Is(m, REDUCE_DATATYPE) => n \in mappers
  /\ Is(m, RESULT_DATATYPE) => n \in reducers
Current(m) ==
  /\ m \in Data(MAP_DATATYPE) => m.body.header = Round
  /\ m \in Data(REDUCE_DATATYPE) \cup Data(RESULT_DATATYPE) =>
       m.body.key[1] = Round /\ Mapped(m.body.key, m.body.value)
  /\ m \in Data(REDUCE_DATATYPE) => m.dst = DestOf(m.body.key)
  /\ m \in Data(RESULT_DATATYPE) => m.body.value # Zero
PartsOf(n) == /\ \A m \in ToSet(up[n]) : SentBy(n, m) /\ Current(m)
              /\ \A m \in ToSet(down[n]) : TakePart(n, m) /\ Current(m)
HoldsPairs(w) ==
  /\ IF mState[w] = "EXPECT_CODE" THEN outbuff[w] = NoPairs ELSE w \in mappers
  /\ Sorted(outbuff[w])
BuffersPairs(v) ==
  /\ IF rState[v] = "EXPECT_CODE"
     THEN data_buff[v] = NoPairs /\ mappers_done[v] = 0
     ELSE v \in reducers
  /\ rState[v] = "EXPECT_DATA" =>
       Sorted(data_buff[v]) /\ LeadsTo(v, data_buff[v])
AllParts ==
  /\ \A n \in Node : PartsOf(n)
  /\ \A w \in Mapper : HoldsPairs(w)
  /\ \A v \in Reducer : BuffersPairs(v)
  /\ fires = 0 => reducers_done = 0

(* A mapper has been sent the marker of this round, or is yet to send one  *)
(* to each destination 0..N-1 and has no other; until it has sent the      *)
(* last, there is more to come from it.                                    *)
Below == 0..(Cardinality(reducers) - 1)
Addressed == {v[2] : v \in reducers} \cap Below
EndsFor(w) == Number(up[Client], EndsTo(MAP_DATATYPE, w[2]))
              + Number(down[w], Ends(MAP_DATATYPE))
Owes(w, d) == EndsFor(w) + Number(up[w], EndsTo(REDUCE_DATATYPE, d))
MapperAccount(w) ==
  /\ EndsFor(w) <= 1 /\ \A d \in Addressed : Owes(w, d) <= 1
  /\ Followed(up[Client], DataTo(MAP_DATATYPE, w[2]),
              EndsTo(MAP_DATATYPE, w[2]))
  /\ \/ Number(up[Client], EndsTo(MAP_DATATYPE, w[2])) = 1
     \/ Followed(down[w], Data(MAP_DATATYPE), Ends(MAP_DATATYPE))
  /\ outbuff[w] # NoPairs => EndsFor(w) = 1
  /\ \/ EndsFor(w) = 1
     \/ \A d \in Addressed : Followed(up[w], Data(REDUCE_DATATYPE),
                                      EndsTo(REDUCE_DATATYPE, d))
  /\ \A m \in ToSet(up[w]) : m \in Ends(REDUCE_DATATYPE) => m.dst \in Below

(* A reducer is through with the round, or gets as many markers as there   *)
(* are mappers: it has counted them, they are in its queue, or mappers owe *)
(* them.                                                                   *)
Debtors(v) ==
  {w \in mappers : v[2] \notin Addressed \/ Owes(w, v[2]) = 1}
Expected(v) == DoneBefore(v) + Number(down[v], Ends(REDUCE_DATATYPE))
               + Cardinality(Debtors(v))
ReducerAccount(v) ==
  /\ \/ Expected(v) = Cardinality(mappers)
     \/ Expected(v) = 0 /\ rState[v] = "WAIT_NEXT"
  /\ Debtors(v) = {} =>
       Followed(down[v], Data(REDUCE_DATATYPE), Ends(REDUCE_DATATYPE))
  /\ rState[v] # "EXPECT_CODE" => mapper_count[v] = Cardinality(mappers)
  /\ Number(up[v], Ends(RESULT_DATATYPE)) <= 1
  /\ Number(up[v], Ends(RESULT_DATATYPE)) = 1 => Expected(v) = 0
  /\ Followed(up[v], Data(RESULT_DATATYPE), Ends(RESULT_DATATYPE))

(* The client gets as many markers as there are reducers. *)
Reporting ==
  {v \in reducers : Expected(v) # 0 \/ Number(up[v], Ends(RESULT_DATATYPE)) = 1}
ClientAccount ==
  /\ status = "running" =>
       reducers_done + Number(down[Client], Ends(RESULT_DATATYPE))
         + Cardinality(Reporting) = Cardinality(reducers)
  /\ Reporting = {} =>
       Followed(down[Client], Data(RESULT_DATATYPE), Ends(RESULT_DATATYPE))

Accounts ==
  /\ \A w \in mappers : MapperAccount(w)
  /\ \A v \in reducers : ReducerAccount(v)
  /\ ClientAccount

(* With numbers of workers that the workers do not take, there are no      *)
(* results and no second round.                                            *)
NoMore ==
  /\ \A n \in Node : \A m \in ToSet(up[n]) \cup ToSet(down[n]) :
       /\ ~Is(m, RESULT_DATATYPE)
       /\ ~ValidCount(Cardinality(reducers)) => ~Is(m, REDUCE_DATATYPE)
  /\ ~ValidCount(Cardinality(reducers)) =>
       \A w \in Mapper : mState[w] = "EXPECT_CODE"
  /\ ~ValidCount(Cardinality(mappers)) =>
       \A v \in Reducer : rState[v] = "EXPECT_CODE"

RoundInv == ~late =>
  /\ AllParts
  /\ fires > 0 => IF Sane THEN Accounts ELSE NoMore
-----------------------------------------------------------------------------
(* Counting in queues. *)
LEMMA NumberType ==
  ASSUME NEW X, NEW q \in Seq(X), NEW S
  PROVE  /\ Number(q, S) \in Nat
         /\ Number(q, S) = 0 <=> \A m \in ToSet(q) : m \notin S
         /\ IsFiniteSet(Places(q, S))
<1> DEFINE I == Places(q, S)
<1>1. IsFiniteSet(I)
  <2>1. I \subseteq 1..Len(q) /\ Len(q) \in Nat
    BY DEF Places
  <2>2. IsFiniteSet(1..Len(q))
    BY <2>1, FS_Interval
  <2> HIDE DEF I
  <2>3. QED  BY <2>1, <2>2, FS_Subset
<1>2. Cardinality(I) \in Nat /\ (Cardinality(I) = 0 <=> I = {})
  BY <1>1, FS_CardinalityType, FS_EmptySet
<1>3. I = {} <=> \A m \in ToSet(q) : m \notin S
  BY DEF ToSet, Places
<1>4. QED  BY <1>1, <1>2, <1>3 DEF Number

(* Sets whose members correspond. *)
LEMMA NumberSame ==
  ASSUME NEW I, NEW J, IsFiniteSet(I), NEW f \in Bijection(I, J)
  PROVE  Cardinality(J) = Cardinality(I) /\ IsFiniteSet(J)
<1>1. f \in Surjection(I, J) /\ f \in Injection(I, J)
  BY DEF Bijection
<1>2. QED  BY <1>1, FS_Surjection

LEMMA NumberConcat ==
  ASSUME NEW X, NEW q \in Seq(X), NEW p \in Seq(X), NEW S
  PROVE  Number(q \o p, S) = Number(q, S) + Number(p, S)
<1> DEFINE I == Places(q, S)
           J == Places(p, S)
           K == Places(q \o p, S)
           L == {Len(q) + i : i \in J}
           f == [i \in J |-> Len(q) + i]
<1>1. /\ Len(q) \in Nat /\ Len(p) \in Nat
      /\ DOMAIN q = 1..Len(q) /\ DOMAIN p = 1..Len(p)
      /\ DOMAIN (q \o p) = 1..(Len(q) + Len(p))
      /\ \A i \in 1..Len(q) : (q \o p)[i] = q[i]
      /\ \A i \in 1..Len(p) : (q \o p)[Len(q) + i] = p[i]
  BY Concatenation
<1>2. IsFiniteSet(I) /\ IsFiniteSet(J)
  BY NumberType
<1>3. f \in Bijection(J, L)
  <2>1. f \in [J -> L] /\ \A i \in J : f[i] = Len(q) + i
    OBVIOUS
  <2>2. \A i, j \in J : f[i] = f[j] => i = j
    BY <1>1, <2>1 DEF Places
  <2>3. \A k \in L : \E i \in J : f[i] = k
    BY <2>1
  <2> HIDE DEF f, J, L
  <2>4. QED
    BY <2>1, <2>2, <2>3 DEF Bijection, Injection, Surjection, IsInjective
<1>4. Cardinality(L) = Cardinality(J) /\ IsFiniteSet(L)
  <2> HIDE DEF f, J, L
  <2>1. QED  BY <1>2, <1>3, NumberSame
<1>5. K = I \cup L
  <2>1. I \cup L \subseteq K
    BY <1>1 DEF Places
  <2>2. ASSUME NEW k \in K, k \notin I
        PROVE  k \in L
    <3>1. k \in 1..(Len(q) + Len(p)) /\ k \notin 1..Len(q)
      BY <1>1, <2>2 DEF Places
    <3>2. k - Len(q) \in 1..Len(p) /\ k = Len(q) + (k - Len(q))
      BY <1>1, <3>1
    <3>3. p[k - Len(q)] \in S
      BY <1>1, <3>2 DEF Places
    <3>4. QED  BY <1>1, <3>2, <3>3 DEF Places
  <2>3. QED  BY <2>1, <2>2
<1>6. I \cap L = {}
  BY <1>1 DEF Places
<1>7. Cardinality(I \cup L) = Cardinality(I) + Cardinality(L)
  <2> HIDE DEF I, J, L, f
  <2>1. Cardinality(I \cup L)
          = Cardinality(I) + Cardinality(L) - Cardinality(I \cap L)
    BY <1>2, <1>4, FS_Union
  <2>2. /\ Cardinality(I \cap L) = 0
        /\ Cardinality(I) \in Nat /\ Cardinality(L) \in Nat
    BY <1>2, <1>4, <1>6, FS_EmptySet, FS_CardinalityType
  <2>3. QED  BY <2>1, <2>2
<1>8. QED  BY <1>4, <1>5, <1>7 DEF Number

LEMMA NumberOfOne ==
  ASSUME NEW X, NEW x \in X, NEW S
  PROVE  Number(<<x>>, S) = IF x \in S THEN 1 ELSE 0
<1>1. Places(<<x>>, S) = IF x \in S THEN {1} ELSE {}
  BY DEF Places
<1>2. QED  BY <1>1, FS_EmptySet, FS_Singleton DEF Number

LEMMA NumberSteps ==
  ASSUME NEW X, NEW q \in Seq(X), NEW S
  PROVE  /\ \A x \in X : Number(Append(q, x), S)
                           = Number(q, S) + (IF x \in S THEN 1 ELSE 0)
         /\ q # <<>> => Number(q, S) = Number(Tail(q), S)
                                        + (IF Head(q) \in S THEN 1 ELSE 0)
<1>1. ASSUME NEW x \in X
      PROVE  Number(Append(q, x), S)
               = Number(q, S) + (IF x \in S THEN 1 ELSE 0)
  <2>1. Append(q, x) = q \o <<x>> /\ <<x>> \in Seq(X)
    OBVIOUS
  <2>2. Number(q \o <<x>>, S) = Number(q, S) + Number(<<x>>, S)
    BY <2>1, NumberConcat
  <2>3. QED  BY <2>1, <2>2, NumberOfOne
<1>2. ASSUME q # <<>>
      PROVE  Number(q, S) = Number(Tail(q), S)
                             + (IF Head(q) \in S THEN 1 ELSE 0)
  <2> DEFINE h == <<Head(q)>>
             r == Tail(q)
  <2>1. q = h \o r /\ h \in Seq(X) /\ r \in Seq(X) /\ Head(q) \in X
    BY <1>2
  <2>2. Number(h, S) = IF Head(q) \in S THEN 1 ELSE 0
    BY <2>1, NumberOfOne
  <2>3. Number(h, S) \in Nat /\ Number(r, S) \in Nat
    BY <2>1, NumberType
  <2> HIDE DEF h, r
  <2>4. Number(q, S) = Number(h, S) + Number(r, S)
    BY <2>1, NumberConcat
  <2>5. Number(q, S) = Number(r, S) + (IF Head(q) \in S THEN 1 ELSE 0)
    BY <2>2, <2>3, <2>4
  <2>6. QED  BY <2>5 DEF r
<1>3. QED  BY <1>1, <1>2

LEMMA FollowedSteps ==
  ASSUME NEW X, NEW q \in Seq(X), NEW S, NEW T
  PROVE  /\ Followed(q, S, T) /\ Number(q, T) = 0 => Number(q, S) = 0
         /\ q # <<>> /\ Followed(q, S, T) => Followed(Tail(q), S, T)
         /\ \A p \in Seq(X) :
              /\ Followed(q, S, T) /\ Followed(p, S, T)
                   => Followed(q \o p, S, T)
              /\ Followed(p, S, T) /\ Number(p, T) # 0
                   => Followed(q \o p, S, T)
<1>1. ASSUME Followed(q, S, T), Number(q, T) = 0
      PROVE  Number(q, S) = 0
  <2>1. \A m \in ToSet(q) : m \notin T
    BY <1>1, NumberType
  <2>2. \A m \in ToSet(q) : m \notin S
    BY <1>1, <2>1 DEF Followed, ToSet
  <2>3. QED  BY <2>2, NumberType
<1>2. ASSUME q # <<>>, Followed(q, S, T)
      PROVE  Followed(Tail(q), S, T)
  <2>1. /\ DOMAIN q = 1..Len(q) /\ Len(q) \in Nat \ {0}
        /\ DOMAIN Tail(q) = 1..(Len(q) - 1)
        /\ \A i \in DOMAIN Tail(q) : Tail(q)[i] = q[i + 1]
    BY <1>2
  <2>2. ASSUME NEW i \in DOMAIN Tail(q), Tail(q)[i] \in S
        PROVE  \E j \in DOMAIN Tail(q) : i < j /\ Tail(q)[j] \in T
    <3>1. i + 1 \in DOMAIN q /\ q[i + 1] \in S
      BY <2>1, <2>2
    <3>2. PICK j \in DOMAIN q : i + 1 < j /\ q[j] \in T
      BY <1>2, <3>1 DEF Followed
    <3>3. j - 1 \in DOMAIN Tail(q) /\ i < j - 1 /\ (j - 1) + 1 = j
      BY <2>1, <3>2
    <3>4. QED  BY <2>1, <3>2, <3>3
  <2>3. QED  BY <2>2 DEF Followed
<1>3. ASSUME NEW p \in Seq(X), Followed(p, S, T),
             Followed(q, S, T) \/ Number(p, T) # 0
      PROVE  Followed(q \o p, S, T)
  <2>1. /\ Len(q) \in Nat /\ Len(p) \in Nat
        /\ DOMAIN q = 1..Len(q) /\ DOMAIN p = 1..Len(p)
        /\ DOMAIN (q \o p) = 1..(Len(q) + Len(p))
        /\ \A i \in 1..Len(q) : (q \o p)[i] = q[i]
        /\ \A i \in 1..Len(p) : (q \o p)[Len(q) + i] = p[i]
    BY Concatenation
  <2>2. ASSUME NEW j \in DOMAIN p
        PROVE  Len(q) + j \in DOMAIN (q \o p) /\ (q \o p)[Len(q) + j] = p[j]
    BY <2>1
  <2>3. ASSUME NEW i \in DOMAIN (q \o p), (q \o p)[i] \in S
        PROVE  \E j \in DOMAIN (q \o p) : i < j /\ (q \o p)[j] \in T
    <3>1. CASE i \in DOMAIN q
      <4>1. CASE Followed(q, S, T)
        <5>1. PICK j \in DOMAIN q : i < j /\ q[j] \in T
          BY <2>1, <2>3, <3>1, <4>1 DEF Followed
        <5>2. j \in DOMAIN (q \o p)
          BY <2>1
        <5>3. QED  BY <2>1, <5>1, <5>2
      <4>2. CASE Number(p, T) # 0
        <5>1. PICK j \in DOMAIN p : p[j] \in T
          <6>1. \E m \in ToSet(p) : m \in T
            BY <4>2, NumberType
          <6>2. QED  BY <6>1 DEF ToSet
        <5>2. i < Len(q) + j
          BY <2>1, <3>1
        <5>3. QED  BY <2>2, <5>1, <5>2
      <4>3. QED  BY <1>3, <4>1, <4>2
    <3>2. CASE i \notin DOMAIN q
      <4>1. i - Len(q) \in DOMAIN p /\ i = Len(q) + (i - Len(q))
        BY <2>1, <3>2
      <4>2. PICK j \in DOMAIN p : i - Len(q) < j /\ p[j] \in T
        BY <1>3, <2>1, <2>3, <4>1 DEF Followed
      <4>3. i < Len(q) + j
        BY <2>1, <4>1, <4>2
      <4>4. QED  BY <2>2, <4>2, <4>3
    <3>3. QED  BY <3>1, <3>2
  <2>4. QED  BY <2>3 DEF Followed
<1>4. QED  BY <1>1, <1>2, <1>3

LEMMA NoneOf ==
  ASSUME NEW X, NEW p \in Seq(X), NEW D, \A m \in ToSet(p) : m \notin D
  PROVE  /\ \A S \in SUBSET D : Number(p, S) = 0
         /\ \A S \in SUBSET D : \A T : Followed(p, S, T)
<1>1. \A S \in SUBSET D : \A m \in ToSet(p) : m \notin S
  OBVIOUS
<1>2. \A S \in SUBSET D : Number(p, S) = 0
  BY <1>1, NumberType
<1>3. \A S \in SUBSET D : \A T : Followed(p, S, T)
  BY <1>1 DEF Followed, ToSet
<1>4. QED  BY <1>2, <1>3

LEMMA SameForSteps ==
  ASSUME NEW X, NEW q \in Seq(X), NEW D
  PROVE  /\ SameFor(q, q, D)
         /\ q # <<>> /\ Head(q) \notin D => SameFor(Tail(q), q, D)
         /\ \A x \in X : x \notin D => SameFor(Append(q, x), q, D)
         /\ \A p \in Seq(X) :
              (\A m \in ToSet(p) : m \notin D) => SameFor(q \o p, q, D)
<1>1. SameFor(q, q, D)
  BY DEF SameFor
<1>2. ASSUME q # <<>>, Head(q) \notin D
      PROVE  SameFor(Tail(q), q, D)
  <2>1. ASSUME NEW S \in SUBSET D
        PROVE  Number(Tail(q), S) = Number(q, S)
    <3>1. Number(q, S) = Number(Tail(q), S) + 0
      BY <1>2, <2>1, NumberSteps
    <3>2. Tail(q) \in Seq(X)
      BY <1>2
    <3>3. Number(Tail(q), S) \in Nat
      BY <3>2, NumberType
    <3>4. QED  BY <3>1, <3>3
  <2>2. QED  BY <1>2, <2>1, FollowedSteps DEF SameFor
<1>3. ASSUME NEW p \in Seq(X), \A m \in ToSet(p) : m \notin D
      PROVE  SameFor(q \o p, q, D)
  <2>1. ASSUME NEW S \in SUBSET D
        PROVE  /\ Number(q \o p, S) = Number(q, S)
               /\ \A T : Followed(p, S, T)
    <3>1. Number(p, S) = 0 /\ \A T : Followed(p, S, T)
      BY <1>3, NoneOf
    <3>2. Number(q \o p, S) = Number(q, S) + 0 /\ Number(q, S) \in Nat
      BY <3>1, NumberConcat, NumberType
    <3>3. QED  BY <3>1, <3>2
  <2>2. QED  BY <2>1, FollowedSteps DEF SameFor
<1>4. ASSUME NEW x \in X, x \notin D
      PROVE  SameFor(Append(q, x), q, D)
  <2>1. /\ Append(q, x) = q \o <<x>> /\ <<x>> \in Seq(X)
        /\ \A m \in ToSet(<<x>>) : m \notin D
    BY <1>4 DEF ToSet
  <2>2. QED  BY <1>3, <2>1
<1>5. QED  BY <1>1, <1>2, <1>3, <1>4

(* What comes at the end of a queue. *)
LEMMA FollowedAtEnd ==
  ASSUME NEW X, NEW q \in Seq(X), NEW x \in X, NEW S, NEW T, x \in T,
         x \notin S
  PROVE  Followed(Append(q, x), S, T)
<1>1. Append(q, x) = q \o <<x>> /\ <<x>> \in Seq(X)
  OBVIOUS
<1>2. Number(<<x>>, T) # 0
  BY NumberOfOne
<1>3. Followed(<<x>>, S, T)
  BY DEF Followed
<1>4. QED  BY <1>1, <1>2, <1>3, FollowedSteps

LEMMA FollowedAtHead ==
  ASSUME NEW X, NEW q \in Seq(X), q # <<>>, NEW S, NEW T,
         Followed(q, S, T), Head(q) \in S
  PROVE  Number(Tail(q), T) # 0
<1>1. /\ 1 \in DOMAIN q /\ q[1] \in S /\ Tail(q) \in Seq(X)
      /\ Len(q) \in Nat /\ DOMAIN q = 1..Len(q)
      /\ DOMAIN Tail(q) = 1..(Len(q) - 1)
      /\ \A i \in DOMAIN Tail(q) : Tail(q)[i] = q[i + 1]
  OBVIOUS
<1>2. PICK j \in DOMAIN q : 1 < j /\ q[j] \in T
  BY <1>1 DEF Followed
<1>3. j - 1 \in DOMAIN Tail(q) /\ Tail(q)[j - 1] = q[j]
  BY <1>1, <1>2
<1>4. \E m \in ToSet(Tail(q)) : m \in T
  BY <1>2, <1>3 DEF ToSet
<1>5. QED  BY <1>1, <1>4, NumberType
-----------------------------------------------------------------------------
(* Messages of different types are different. *)
LEMMA TypesApart ==
  /\ \A t, u \in DataTypes : t # u => \A m : Is(m, t) => ~Is(m, u)
  /\ \A t \in DataTypes : \A d :
       /\ Ends(t) \subseteq DataOf(t) /\ Data(t) \subseteq DataOf(t)
       /\ EndsTo(t, d) \subseteq Ends(t) /\ DataTo(t, d) \subseteq Data(t)
  /\ \A t \in DataTypes : Ends(t) \cap Data(t) = {}
  BY DEF DataTypes, Is, Ends, Data, DataOf, EndsTo, DataTo, MAP_DATATYPE,
    REDUCE_DATATYPE, RESULT_DATATYPE

LEMMA DataServe == \A m : \A t \in DataTypes : Is(m, t) => Serving(m)
  BY ServingTypes DEF DataTypes, Is

(* What a step of the router does to the queues, and one of a worker. *)
LEMMA RouterMoves ==
  ASSUME TypeInv, NEW n \in Node, RouterNext(n)
  PROVE  LET h == Head(up[n])
         IN /\ UNCHANGED <<started, mapperVars, reducerVars, clientVars>>
            /\ up[n] \in Seq(Message) /\ up[n] # <<>>
            /\ h \in Message /\ h \in ToSet(up[n])
            /\ up'[n] = Tail(up[n]) /\ ToSet(up'[n]) \subseteq ToSet(up[n])
            /\ \A m \in Node : m # n => up'[m] = up[m]
            /\ \A m \in Node :
                 \/ /\ down'[m] = down[m]
                    /\ h.op = "pub" => m \notin Subscribers(h)
                 \/ /\ h.op = "pub" /\ m \in Subscribers(h)
                    /\ h \in Publication /\ down'[m] = Append(down[m], h)
                    /\ ToSet(down'[m]) = ToSet(down[m]) \cup {h}
<1> DEFINE h == Head(up[n])
<1>1. /\ UNCHANGED <<started, mapperVars, reducerVars, clientVars>>
      /\ up[n] # <<>> /\ up \in [Node -> Seq(Message)]
      /\ up' = [up EXCEPT ![n] = Tail(@)]
      /\ \/ h.op = "sub" /\ down' = down
         \/ /\ h.op = "pub"
            /\ down' = [m \in Node |-> IF m \in Subscribers(h)
                                       THEN Append(down[m], h) ELSE down[m]]
  BY QueueTypes DEF RouterNext, Route, RouteSubscription, RoutePublication
<1>2. /\ up[n] \in Seq(Message) /\ h \in Message /\ h \in ToSet(up[n])
      /\ up'[n] = Tail(up[n]) /\ ToSet(up'[n]) \subseteq ToSet(up[n])
      /\ \A m \in Node : m # n => up'[m] = up[m]
  <2>1. /\ up[n] \in Seq(Message) /\ h \in Message
        /\ up'[n] = Tail(up[n])
        /\ ToSet(up[n]) = {h} \cup ToSet(up'[n])
        /\ \A m \in Node : m # n => up'[m] = up[m]
    BY <1>1, PopQueue
  <2>2. QED  BY <2>1
<1>3. h.op = "pub" => h \in Publication
  BY <1>2 DEF Message, Subscription
<1> HIDE DEF h
<1>4. ASSUME NEW m \in Node
      PROVE  \/ /\ down'[m] = down[m]
                /\ h.op = "pub" => m \notin Subscribers(h)
             \/ /\ h.op = "pub" /\ m \in Subscribers(h)
                /\ h \in Publication /\ down'[m] = Append(down[m], h)
                /\ ToSet(down'[m]) = ToSet(down[m]) \cup {h}
  <2>1. down[m] \in Seq(Publication)
    BY QueueTypes
  <2>2. h.op = "pub" => ToSet(Append(down[m], h)) = ToSet(down[m]) \cup {h}
    BY <1>3, <2>1, ToSetQueue
  <2>3. QED  BY <1>1, <1>3, <2>2
<1>5. QED  BY <1>1, <1>2, <1>4 DEF h

LEMMA NodeMoves ==
  ASSUME TypeInv, NEW w \in Node, Receive(w), NEW out \in Seq(Message),
         Send(w, out)
  PROVE  LET h == Head(down[w])
         IN /\ down[w] \in Seq(Publication) /\ down[w] # <<>>
            /\ h \in Publication /\ h.op = "pub" /\ h \in ToSet(down[w])
            /\ h \in Message
            /\ down'[w] = Tail(down[w])
            /\ ToSet(down'[w]) \subseteq ToSet(down[w])
            /\ \A n \in Node : n # w => down'[n] = down[n]
            /\ up[w] \in Seq(Message) /\ up'[w] = up[w] \o out
            /\ ToSet(up'[w]) = ToSet(up[w]) \cup ToSet(out)
            /\ \A n \in Node : n # w => up'[n] = up[n]
<1> DEFINE h == Head(down[w])
<1>1. /\ up \in [Node -> Seq(Message)] /\ up[w] \in Seq(Message)
      /\ down \in [Node -> Seq(Publication)]
  BY QueueTypes
<1>2. /\ down[w] \in Seq(Publication) /\ down[w] # <<>> /\ h \in Publication
      /\ down'[w] = Tail(down[w])
      /\ ToSet(down[w]) = {h} \cup ToSet(down'[w])
      /\ \A n \in Node : n # w => down'[n] = down[n]
  BY <1>1, ReadQueue
<1>3. /\ up'[w] = up[w] \o out
      /\ ToSet(up'[w]) = ToSet(up[w]) \cup ToSet(out)
      /\ \A n \in Node : n # w => up'[n] = up[n]
  BY <1>1, FillQueue, SMTT(30)
<1> HIDE DEF h
<1>4. h.op = "pub" /\ h \in Message
  BY <1>2 DEF Publication, Message
<1>5. QED  BY <1>1, <1>2, <1>3, <1>4 DEF h

LEMMA NodeHead ==
  ASSUME TypeInv, NEW w \in Node, Receive(w)
  PROVE  LET h == Head(down[w])
         IN /\ h \in Publication /\ h.op = "pub" /\ h \in ToSet(down[w])
            /\ h \in Message /\ down[w] # <<>> /\ down[w] \in Seq(Publication)
<1> DEFINE h == Head(down[w])
<1>1. /\ down[w] # <<>> /\ down[w] \in Seq(Publication)
      /\ h \in Publication /\ ToSet(down[w]) = {h} \cup ToSet(Tail(down[w]))
  BY QueueTypes, ToSetQueue DEF Receive
<1> HIDE DEF h
<1>2. h.op = "pub" /\ h \in Message
  BY <1>1 DEF Publication, Message
<1>3. QED  BY <1>1, <1>2 DEF h

LEMMA NodeReads ==
  ASSUME TypeInv, NEW w \in Node, Receive(w), up' = up
  PROVE  Send(w, <<>>)
  BY QueueTypes DEF Send
-----------------------------------------------------------------------------
(* Who takes part, and in which round, outlives steps that start no round. *)
LEMMA SameRound ==
  ASSUME mappers' = mappers, reducers' = reducers, round_' = round_
  PROVE  /\ \A n, m : SentBy(n, m)' <=> SentBy(n, m)
         /\ \A n, m : TakePart(n, m)' <=> TakePart(n, m)
         /\ \A m : Current(m)' <=> Current(m)
         /\ \A b : Sorted(b)' <=> Sorted(b)
         /\ \A v, b : LeadsTo(v, b)' <=> LeadsTo(v, b)
<1>1. Round' = Round /\ \A k : DestOf(k)' = DestOf(k)
  BY DEF Round, DestOf
<1>2. \A k, v : Mapped(k, v)' <=> Mapped(k, v)
  BY <1>1 DEF Mapped
<1>3. QED
  BY <1>1, <1>2 DEF SentBy, TakePart, Current, OfRound, Sorted, LeadsTo

LEMMA RouterParts ==
  ASSUME TypeInv, OrderInv, AllParts, NEW n \in Node, RouterNext(n)
  PROVE  AllParts'
<1> DEFINE h == Head(up[n])
<1>1. /\ UNCHANGED <<started, mapperVars, reducerVars, clientVars>>
      /\ h \in ToSet(up[n])
      /\ ToSet(up'[n]) \subseteq ToSet(up[n])
      /\ \A m \in Node : m # n => up'[m] = up[m]
      /\ \A m \in Node :
           \/ down'[m] = down[m]
           \/ /\ h.op = "pub" /\ m \in Subscribers(h)
              /\ ToSet(down'[m]) = ToSet(down[m]) \cup {h}
  BY RouterMoves
<1> HIDE DEF h
<1>2. /\ \A m \in Node : PartsOf(m)
      /\ \A w \in Mapper : HoldsPairs(w)
      /\ \A v \in Reducer : BuffersPairs(v)
      /\ fires = 0 => reducers_done = 0
  BY DEF AllParts
<1>3. /\ \A k, m : SentBy(k, m)' <=> SentBy(k, m)
      /\ \A k, m : TakePart(k, m)' <=> TakePart(k, m)
      /\ \A m : Current(m)' <=> Current(m)
      /\ \A b : Sorted(b)' <=> Sorted(b)
      /\ \A v, b : LeadsTo(v, b)' <=> LeadsTo(v, b)
  BY <1>1, SameRound DEF clientVars
<1>4. ASSUME NEW m \in Subscribers(h), h.op = "pub"
      PROVE  TakePart(m, h)
  <2>1. \/ m \in Worker /\ h.type = JOB_ADVERTISE
        \/ m = Client /\ h.type \in {JOB_REQUEST, RESULT_DATATYPE}
        \/ m \in Joined /\ m \in Worker /\ h.type = codetype(m)
        \/ m \in Joined /\ m \in Worker /\ h.type = datatype(m) /\ m[2] = h.dst
    BY <1>4, Addressees DEF OrderInv
  <2>2. /\ mappers \subseteq Mapper /\ reducers \subseteq Reducer
        /\ Mapper \cap Reducer = {}
    BY Roles DEF TypeInv, TypeOK, ClientTypeOK
  <2>3. /\ m \in Joined /\ m \in Mapper => m \in mappers
        /\ m \in Joined /\ m \notin Mapper => m \in reducers
    BY <2>2 DEF Joined
  <2>4. QED
    BY <2>1, <2>3 DEF TakePart, Is, codetype, datatype, MAP_CODETYPE,
      REDUCE_CODETYPE, MAP_DATATYPE, REDUCE_DATATYPE, RESULT_DATATYPE,
      JOB_ADVERTISE, JOB_REQUEST
<1>5. ASSUME NEW m \in Node
      PROVE  PartsOf(m)'
  <2>1. \A x \in ToSet(up'[m]) : SentBy(m, x) /\ Current(x)
    BY <1>1, <1>2 DEF PartsOf
  <2>2. \A x \in ToSet(down'[m]) : TakePart(m, x) /\ Current(x)
    BY <1>1, <1>2, <1>4 DEF PartsOf
  <2>3. QED  BY <1>3, <2>1, <2>2 DEF PartsOf
<1>6. /\ \A w \in Mapper : HoldsPairs(w)'
      /\ \A v \in Reducer : BuffersPairs(v)'
      /\ (fires = 0 => reducers_done = 0)'
  BY <1>1, <1>2, <1>3 DEF HoldsPairs, BuffersPairs, mapperVars, reducerVars,
    clientVars
<1>7. QED  BY <1>5, <1>6 DEF AllParts

(* A worker reads, and sends what its role sends, of this round. *)
LEMMA WorkerParts ==
  ASSUME TypeInv, AllParts, NEW w \in Worker, Receive(w),
         UNCHANGED clientVars, NEW out \in Seq(Message), Send(w, out),
         \A m \in ToSet(out) : SentBy(w, m) /\ Current(m),
         \A x \in Mapper : HoldsPairs(x)', \A x \in Reducer : BuffersPairs(x)'
  PROVE  AllParts'
<1>1. w \in Node /\ \A n \in Node : PartsOf(n)
  BY Roles DEF AllParts
<1>2. /\ ToSet(down'[w]) \subseteq ToSet(down[w])
      /\ \A n \in Node : n # w => down'[n] = down[n]
      /\ ToSet(up'[w]) = ToSet(up[w]) \cup ToSet(out)
      /\ \A n \in Node : n # w => up'[n] = up[n]
  BY <1>1, NodeMoves
<1>3. /\ \A k, m : SentBy(k, m)' <=> SentBy(k, m)
      /\ \A k, m : TakePart(k, m)' <=> TakePart(k, m)
      /\ \A m : Current(m)' <=> Current(m)
  BY SameRound DEF clientVars
<1>4. ASSUME NEW n \in Node
      PROVE  PartsOf(n)'
  <2>1. \A m \in ToSet(up'[n]) : SentBy(n, m) /\ Current(m)
    BY <1>1, <1>2 DEF PartsOf
  <2>2. \A m \in ToSet(down'[n]) : TakePart(n, m) /\ Current(m)
    BY <1>1, <1>2 DEF PartsOf
  <2>3. QED  BY <1>3, <2>1, <2>2 DEF PartsOf
<1>5. (fires = 0 => reducers_done = 0)'
  BY DEF AllParts, clientVars
<1>6. QED  BY <1>4, <1>5 DEF AllParts

(* Messages that belong to the round: its pairs, and all markers. *)
LEMMA OfThisRound ==
  /\ \A k, v : k[1] = Round /\ Mapped(k, v) =>
       Current(Pub(REDUCE_DATATYPE, DestOf(k), Pair(k, v)))
  /\ \A d, k, v : k[1] = Round /\ Mapped(k, v) /\ v # Zero =>
       Current(Pub(RESULT_DATATYPE, d, Pair(k, v)))
  /\ \A t, d : Current(Pub(t, d, EndOfRound))
  BY DEF Current, Pub, Pair, EndOfRound, Data, Is, MAP_DATATYPE,
    REDUCE_DATATYPE, RESULT_DATATYPE

LEMMA InMapOutput ==
  ASSUME NEW w, NEW h, NEW line \in Seq(Items), h = Round,
         reducer_count[w] = Cardinality(reducers),
         NEW m \in ToSet(MapOutput(w, h, line))
  PROVE  Current(m) /\ m.type = REDUCE_DATATYPE /\ ~m.body.end
<1>1. PICK j \in 1..Len(line) :
        m = ToReducer(w, MapKey(h, line[j]), One(line[j]))
  BY DEF ToSet, MapOutput
<1>2. MapKey(h, line[j])[1] = Round
  BY DEF MapKey
<1>3. Mapped(MapKey(h, line[j]), One(line[j]))
  BY DEF Mapped, One
<1>4. getdestination(w, MapKey(h, line[j])) = DestOf(MapKey(h, line[j]))
  BY DEF getdestination, DestOf
<1>5. QED  BY <1>1, <1>2, <1>3, <1>4, OfThisRound DEF ToReducer, Pub, Pair

LEMMA InFlush ==
  ASSUME NEW w \in Mapper, Sorted(outbuff[w]),
         reducer_count[w] = Cardinality(reducers),
         NEW m \in ToSet(flush_output(w))
  PROVE  Current(m) /\ m.type = REDUCE_DATATYPE /\ ~m.body.end
<1> DEFINE ks == SetToSeq(StoredKeys(w))
<1>1. IsFiniteSet(StoredKeys(w))
  BY KeyFinite, FS_Subset DEF StoredKeys
<1>2. ks \in Seq(StoredKeys(w))
  BY <1>1, SetToSeqType
<1>3. flush_output(w) = IF HasCombine
        THEN [i \in 1..Len(ks) |-> ToReducer(w, ks[i], outbuff[w][ks[i]])]
        ELSE <<>>
  BY DEF flush_output
<1> HIDE DEF ks
<1>4. PICK i \in 1..Len(ks) : m = ToReducer(w, ks[i], outbuff[w][ks[i]])
  <2>1. HasCombine
    BY <1>3, NothingSent
  <2>2. QED  BY <1>3, <2>1 DEF ToSet
<1>5. ks[i] \in StoredKeys(w)
  BY <1>2
<1>6. ks[i][1] = Round /\ Mapped(ks[i], outbuff[w][ks[i]])
  BY <1>5 DEF Sorted, OfRound, StoredKeys
<1>7. getdestination(w, ks[i]) = DestOf(ks[i])
  BY DEF getdestination, DestOf
<1>8. QED  BY <1>4, <1>6, <1>7, OfThisRound DEF ToReducer, Pub, Pair

LEMMA InMarkers ==
  ASSUME NEW w, NEW m \in ToSet(MarkersToReducers(w))
  PROVE  Current(m) /\ m.type = REDUCE_DATATYPE /\ m.body.end
<1>1. PICK i \in 1..reducer_count[w] :
        m = Pub(REDUCE_DATATYPE, i - 1, EndOfRound)
  BY DEF ToSet, MarkersToReducers
<1>2. QED  BY <1>1, OfThisRound DEF Pub, EndOfRound

LEMMA StoredOfRound ==
  ASSUME NEW buff, Sorted(buff), NEW line \in Seq(Items), NEW h, h = Round
  PROVE  Sorted(store_output(buff, Pushed(h, line)))
<1>1. ASSUME NEW k \in Key, buff[k] = Zero, k[1] # Round
      PROVE  store_output(buff, Pushed(h, line))[k] = Zero
  <2>1. ASSUME NEW x \in Items
        PROVE  Pushed(h, line)[k][x] = 0
    <3>1. {j \in 1..Len(line) : line[j] = x /\ MapKey(h, x) = k} = {}
      BY <1>1 DEF MapKey
    <3>2. QED  BY <3>1, FS_EmptySet DEF Pushed
  <2>2. Plus(Zero, Pushed(h, line)[k]) = Zero
    BY <2>1 DEF Plus, Zero
  <2>3. QED  BY <1>1, <2>2 DEF store_output
<1>2. OfRound(store_output(buff, Pushed(h, line)))
  BY <1>1 DEF OfRound, Sorted
<1>3. ASSUME NEW k \in Key, NEW x \in Items, MapKey(Round, x) # k
      PROVE  store_output(buff, Pushed(h, line))[k][x] = 0
  <2>1. {j \in 1..Len(line) : line[j] = x /\ MapKey(h, x) = k} = {}
    BY <1>3
  <2>2. Pushed(h, line)[k][x] = 0
    BY <2>1, FS_EmptySet DEF Pushed
  <2>3. buff[k][x] = 0
    BY <1>3 DEF Sorted, Mapped
  <2>4. QED  BY <2>2, <2>3 DEF store_output, Plus
<1>4. QED  BY <1>2, <1>3 DEF Sorted, Mapped

LEMMA EmptyOfRound == Sorted(NoPairs) /\ \A v : LeadsTo(v, NoPairs)
  BY DEF Sorted, LeadsTo, Mapped, OfRound, NoPairs, Zero

LEMMA MapperParts ==
  ASSUME TypeInv, SubscribedInv, ~late, AllParts, NEW w \in Mapper,
         MapperNext(w)
  PROVE  AllParts'
<1> DEFINE h == Head(down[w])
<1>1. /\ w \in Worker /\ w \in Node /\ Receive(w)
      /\ UNCHANGED <<reducerVars, clientVars>>
      /\ MapperTypeOK
  BY Roles DEF MapperNext, MapperStep, MapCode, MapData, finish_round,
    MapReject, TakesMapData, TakesData, Worker, TypeInv, TypeOK
<1>2. /\ h \in Publication /\ h \in Message /\ h.op = "pub"
      /\ TakePart(w, h) /\ Current(h)
  <2>1. /\ h \in Publication /\ h \in ToSet(down[w]) /\ h.op = "pub"
        /\ h \in Message
    BY <1>1, NodeHead
  <2> HIDE DEF h
  <2>2. QED  BY <1>1, <2>1 DEF AllParts, PartsOf
<1>3. /\ \A x \in Mapper : HoldsPairs(x)
      /\ \A x \in Reducer : BuffersPairs(x)
  BY DEF AllParts
<1>4. \A x \in Reducer : BuffersPairs(x)'
  BY <1>1, <1>3, SameRound DEF BuffersPairs, clientVars, reducerVars
<1>5. ASSUME NEW x \in Mapper, x # w
      PROVE  HoldsPairs(x)'
  <2>1. mState'[x] = mState[x] /\ outbuff'[x] = outbuff[x]
    BY <1>1, <1>5 DEF MapperNext, MapperStep, MapCode, MapData, finish_round,
      MapReject, MapperTypeOK
  <2>2. QED  BY <1>1, <1>3, <2>1, SameRound DEF HoldsPairs, clientVars
<1>6. ASSUME HoldsPairs(w)', NEW out \in Seq(Message), Send(w, out),
             \A m \in ToSet(out) : SentBy(w, m) /\ Current(m)
      PROVE  AllParts'
  BY <1>1, <1>4, <1>5, <1>6, WorkerParts
<1>7. ASSUME HoldsPairs(w)', up' = up
      PROVE  AllParts'
  BY <1>1, <1>6, <1>7, NodeReads, NothingSent
<1>8. w \in mappers => \A m : m.type = REDUCE_DATATYPE => SentBy(w, m)
  BY DEF SentBy, Is, MAP_DATATYPE, REDUCE_DATATYPE, RESULT_DATATYPE
<1>9. \A b : Sorted(b)' <=> Sorted(b)
  BY <1>1, SameRound DEF clientVars
<1>10. CASE MapCode(w)
  <2>1. w \in mappers
    BY <1>2, <1>10 DEF MapCode, TakesData, TakePart
  <2>2. outbuff'[w] = outbuff[w] /\ outbuff[w] = NoPairs /\ up' = up
    BY <1>3, <1>10 DEF MapCode, HoldsPairs
  <2>3. QED
    BY <1>1, <1>7, <1>9, <2>1, <2>2, EmptyOfRound DEF HoldsPairs, clientVars
<1>11. CASE MapReject(w)
  BY <1>1, <1>3, <1>7, <1>9, <1>11 DEF MapReject, HoldsPairs, clientVars
<1>12. CASE MapData(w)
  <2>1. /\ w \in mappers /\ mState'[w] # "EXPECT_CODE"
        /\ h.type = MAP_DATATYPE /\ ~h.body.end
    BY <1>1, <1>3, <1>12 DEF MapData, TakesMapData, TakesData, HoldsPairs,
      MapperTypeOK
  <2>2. h.body.header = Round /\ h.body.line \in Seq(Items)
        /\ h.body.header \in 1..MaxRounds
    <3>1. h \in Data(MAP_DATATYPE)
      BY <1>2, <2>1 DEF Data, Is
    <3>2. QED  BY <1>2, <2>1, <3>1, BodyTypes, PairBody DEF Current
  <2> DEFINE o == MapOutput(w, h.body.header, h.body.line)
             b == store_output(outbuff[w], Pushed(h.body.header, h.body.line))
  <2>3. \/ Send(w, o) /\ outbuff' = outbuff
        \/ up' = up /\ outbuff' = [outbuff EXCEPT ![w] = b]
    BY <1>12 DEF MapData
  <2>4. o \in Seq(Message) /\ \A m \in ToSet(o) : SentBy(w, m) /\ Current(m)
    <3>1. reducer_count[w] > 0
      <4>1. mState[w] # "EXPECT_CODE"
        BY <1>12 DEF MapData, TakesMapData
      <4>2. ValidCount(reducer_count[w])
        BY <4>1 DEF TypeInv, CountsTaken
      <4>3. QED  BY <4>2 DEF ValidCount
    <3>2. o \in Seq(MapperMessage(w))
      BY <1>1, <2>2, <3>1, MapOutputType DEF MapperTypeOK
    <3>3. \A m \in ToSet(o) : Current(m) /\ m.type = REDUCE_DATATYPE
      <4>1. reducer_count[w] = Cardinality(reducers)
        BY <1>12 DEF MapData, TakesMapData, SubscribedInv, WorkersServed
      <4>2. QED  BY <2>2, <4>1, InMapOutput
    <3>4. QED  BY <1>8, <2>1, <3>2, <3>3, SentAreMessages
  <2>5. Sorted(b)
    BY <1>3, <2>2, StoredOfRound DEF HoldsPairs
  <2> HIDE DEF o, b
  <2>6. Sorted(outbuff'[w])
    BY <1>1, <1>3, <2>3, <2>5 DEF HoldsPairs, MapperTypeOK
  <2>7. HoldsPairs(w)'
    BY <1>1, <1>9, <2>1, <2>6 DEF HoldsPairs, clientVars
  <2>8. QED  BY <1>6, <1>7, <2>3, <2>4, <2>7
<1>13. CASE finish_round(w)
  <2>1. /\ w \in mappers /\ mState'[w] # "EXPECT_CODE"
        /\ outbuff'[w] = NoPairs
        /\ Send(w, flush_output(w) \o MarkersToReducers(w))
    BY <1>1, <1>3, <1>13 DEF finish_round, TakesMapData, TakesData, HoldsPairs,
      MapperTypeOK
  <2>2. reducer_count[w] > 0
    <3>1. mState[w] # "EXPECT_CODE"
      BY <1>13 DEF finish_round, TakesMapData
    <3>2. ValidCount(reducer_count[w])
      BY <3>1 DEF TypeInv, CountsTaken
    <3>3. QED  BY <3>2 DEF ValidCount
  <2>3. /\ flush_output(w) \in Seq(Message)
        /\ MarkersToReducers(w) \in Seq(Message)
    BY <1>1, <2>2, FlushType, MarkersType, SentAreMessages DEF MapperTypeOK
  <2> DEFINE out == flush_output(w) \o MarkersToReducers(w)
  <2>4. /\ out \in Seq(Message)
        /\ ToSet(out) = ToSet(flush_output(w)) \cup ToSet(MarkersToReducers(w))
    BY <2>3, ToSetQueue
  <2>5. \A m \in ToSet(out) : SentBy(w, m) /\ Current(m)
    <3>1. reducer_count[w] = Cardinality(reducers)
      BY <1>13 DEF finish_round, TakesMapData, SubscribedInv, WorkersServed
    <3>2. QED
      BY <1>3, <1>8, <2>1, <2>4, <3>1, InFlush, InMarkers DEF HoldsPairs
  <2>6. HoldsPairs(w)'
    BY <1>1, <1>9, <2>1, EmptyOfRound DEF HoldsPairs, clientVars
  <2>7. QED  BY <1>6, <2>1, <2>4, <2>5, <2>6
<1>14. QED
  BY <1>10, <1>11, <1>12, <1>13 DEF MapperNext, MapperStep

LEMMA InOutput ==
  ASSUME NEW buff, Sorted(buff), NEW m \in ToSet(ReduceOutput(buff))
  PROVE  Current(m) /\ m.type = RESULT_DATATYPE /\ ~m.body.end
<1> DEFINE kk == {k \in Key : buff[k] # Zero}
           ks == SetToSeq(kk)
<1>1. IsFiniteSet(kk)
  BY KeyFinite, FS_Subset
<1>2. ks \in Seq(kk)
  BY <1>1, SetToSeqType
<1>3. ReduceOutput(buff) =
        [i \in 1..Len(ks) |->
           Pub(RESULT_DATATYPE, NoDst, Pair(ks[i], buff[ks[i]]))]
  BY DEF ReduceOutput
<1> HIDE DEF ks
<1>4. PICK i \in 1..Len(ks) :
        m = Pub(RESULT_DATATYPE, NoDst, Pair(ks[i], buff[ks[i]]))
  BY <1>3 DEF ToSet
<1>5. ks[i] \in kk
  BY <1>2
<1>6. /\ ks[i][1] = Round /\ Mapped(ks[i], buff[ks[i]])
      /\ buff[ks[i]] # Zero
  BY <1>5 DEF Sorted, OfRound
<1>7. QED  BY <1>4, <1>6, OfThisRound DEF Pub, Pair

LEMMA ReducerParts ==
  ASSUME TypeInv, AllParts, NEW v \in Reducer, ReducerNext(v)
  PROVE  AllParts'
<1> DEFINE h == Head(down[v])
<1>1. /\ v \in Worker /\ v \in Node /\ Receive(v)
      /\ UNCHANGED <<mapperVars, clientVars>>
      /\ ReducerTypeOK
  BY Roles DEF ReducerNext, ReducerStep, ReduceCode, ReduceData, MoreMappers,
    start_process, ReduceReject, MapperDone, TakesReduceData, TakesData,
    Worker, TypeInv, TypeOK
<1>2. /\ h \in Publication /\ h \in Message /\ h.op = "pub"
      /\ TakePart(v, h) /\ Current(h)
  <2>1. /\ h \in Publication /\ h \in ToSet(down[v]) /\ h.op = "pub"
        /\ h \in Message
    BY <1>1, NodeHead
  <2> HIDE DEF h
  <2>2. QED  BY <1>1, <2>1 DEF AllParts, PartsOf
<1>3. /\ \A x \in Mapper : HoldsPairs(x)
      /\ \A x \in Reducer : BuffersPairs(x)
  BY DEF AllParts
<1>4. \A x \in Mapper : HoldsPairs(x)'
  BY <1>1, <1>3, SameRound DEF HoldsPairs, clientVars, mapperVars
<1>5. ASSUME NEW x \in Reducer, x # v
      PROVE  BuffersPairs(x)'
  <2>1. /\ rState'[x] = rState[x] /\ data_buff'[x] = data_buff[x]
        /\ mappers_done'[x] = mappers_done[x]
    BY <1>1, <1>5 DEF ReducerNext, ReducerStep, ReduceCode, ReduceData,
      MoreMappers, start_process, ReduceReject, MapperDone, reducerVars,
      ReducerTypeOK
  <2>2. QED  BY <1>1, <1>3, <2>1, SameRound DEF BuffersPairs, clientVars
<1>6. ASSUME BuffersPairs(v)', NEW out \in Seq(Message), Send(v, out),
             \A m \in ToSet(out) : SentBy(v, m) /\ Current(m)
      PROVE  AllParts'
  BY <1>1, <1>4, <1>5, <1>6, WorkerParts
<1>7. ASSUME BuffersPairs(v)', up' = up
      PROVE  AllParts'
  BY <1>1, <1>6, <1>7, NodeReads, NothingSent
<1>8. v \in reducers => \A m : m.type = RESULT_DATATYPE => SentBy(v, m)
  BY DEF SentBy, Is, MAP_DATATYPE, REDUCE_DATATYPE, RESULT_DATATYPE
<1>9. /\ \A b : Sorted(b)' <=> Sorted(b)
      /\ \A b : LeadsTo(v, b)' <=> LeadsTo(v, b)
  BY <1>1, SameRound DEF clientVars
<1>10. /\ Sorted(BufferBefore(v)) /\ BufferBefore(v) \in [Key -> Value]
       /\ rState[v] # "EXPECT_CODE" => LeadsTo(v, BufferBefore(v))
  BY <1>1, <1>3, EmptyOfRound, ValueTypes DEF BufferBefore, BuffersPairs,
    ReducerTypeOK, State
<1>11. CASE ReduceCode(v)
  <2>1. v \in reducers
    BY <1>2, <1>11 DEF ReduceCode, TakesData, TakePart
  <2>2. /\ data_buff'[v] = NoPairs /\ mappers_done'[v] = 0 /\ up' = up
    BY <1>3, <1>11 DEF ReduceCode, BuffersPairs
  <2>3. QED
    BY <1>1, <1>7, <1>9, <2>1, <2>2, EmptyOfRound DEF BuffersPairs, clientVars
<1>12. CASE ReduceReject(v)
  BY <1>1, <1>3, <1>7, <1>9, <1>12 DEF ReduceReject, BuffersPairs, clientVars,
    reducerVars
<1>13. CASE ReduceData(v)
  <2>1. /\ v \in reducers /\ rState'[v] = "EXPECT_DATA" /\ up' = up
        /\ h.type = REDUCE_DATATYPE /\ ~h.body.end
    BY <1>1, <1>3, <1>13 DEF ReduceData, TakesReduceData, TakesData,
      BuffersPairs, ReducerTypeOK
  <2>2. /\ h.body.key[1] = Round /\ h.body.key \in Key
        /\ Mapped(h.body.key, h.body.value) /\ h.body.value \in Value
        /\ v[2] = DestOf(h.body.key)
    <3>1. h \in Data(REDUCE_DATATYPE) /\ Is(h, REDUCE_DATATYPE)
      BY <1>2, <2>1 DEF Data, Is
    <3>2. QED  BY <1>2, <2>1, <3>1, BodyTypes, PairBody DEF Current, TakePart
  <2>3. data_buff'[v] =
          [BufferBefore(v) EXCEPT ![h.body.key] = Plus(@, h.body.value)]
    BY <1>1, <1>13 DEF ReduceData, ReducerTypeOK
  <2> HIDE DEF h
  <2>4. Sorted(data_buff'[v])
    <3>1. OfRound(data_buff'[v])
      BY <1>10, <2>2, <2>3 DEF Sorted, OfRound
    <3>2. ASSUME NEW k \in Key
          PROVE  Mapped(k, data_buff'[v][k])
      <4>1. Mapped(k, BufferBefore(v)[k]) /\ BufferBefore(v)[k] \in Value
        BY <1>10 DEF Sorted
      <4>2. Mapped(k, h.body.value) =>
              Mapped(k, Plus(BufferBefore(v)[k], h.body.value))
        BY <2>2, <4>1 DEF Mapped, Plus, Value
      <4>3. QED  BY <1>10, <2>2, <2>3, <4>1, <4>2
    <3>3. QED  BY <3>1, <3>2 DEF Sorted
  <2>5. LeadsTo(v, data_buff'[v])
    <3>1. LeadsTo(v, BufferBefore(v))
      BY <1>10, <1>13 DEF ReduceData, TakesReduceData
    <3>2. QED  BY <1>10, <2>2, <2>3, <3>1 DEF LeadsTo
  <2>6. BuffersPairs(v)'
    BY <1>1, <1>9, <2>1, <2>4, <2>5 DEF BuffersPairs, clientVars
  <2>7. QED  BY <1>7, <2>1, <2>6
<1>14. CASE MoreMappers(v) \/ start_process(v)
  <2>1. /\ v \in reducers /\ data_buff'[v] = BufferBefore(v)
        /\ rState[v] # "EXPECT_CODE"
    BY <1>1, <1>3, <1>14 DEF MoreMappers, start_process, MapperDone,
      TakesReduceData, BuffersPairs, ReducerTypeOK
  <2>2. CASE MoreMappers(v)
    <3>1. rState'[v] = "EXPECT_DATA" /\ up' = up
      BY <1>1, <2>2 DEF MoreMappers, ReducerTypeOK
    <3>2. QED
      BY <1>1, <1>7, <1>9, <1>10, <2>1, <3>1 DEF BuffersPairs, clientVars
  <2>3. CASE start_process(v)
    <3> DEFINE o == ReduceOutput(BufferBefore(v))
               e == Pub(RESULT_DATATYPE, NoDst, EndOfRound)
    <3>1. rState'[v] = "WAIT_NEXT" /\ Send(v, o \o <<e>>)
      BY <1>1, <2>3 DEF start_process, OutputThenMarker, ReducerTypeOK
    <3>2. \A m \in ToSet(o) : Current(m) /\ m.type = RESULT_DATATYPE
      BY <1>10, InOutput
    <3>3. o \in Seq(Message) /\ <<e>> \in Seq(Message)
      BY <1>10, ReduceOutputType, SentAreMessages, PubTypes DEF Message
    <3>4. Current(e) /\ e.type = RESULT_DATATYPE
      BY OfThisRound DEF Pub
    <3> HIDE DEF o, e
    <3>5. /\ o \o <<e>> \in Seq(Message)
          /\ \A m \in ToSet(o \o <<e>>) : m \in ToSet(o) \/ m = e
      <4> DEFINE p == <<e>>
      <4>1. ToSet(p) = {e} /\ p \in Seq(Message)
        BY <3>3 DEF ToSet
      <4> HIDE DEF p
      <4>2. ToSet(o \o p) = ToSet(o) \cup ToSet(p) /\ o \o p \in Seq(Message)
        BY <3>3, <4>1, ToSetQueue
      <4>3. QED  BY <4>1, <4>2 DEF p
    <3>6. \A m \in ToSet(o \o <<e>>) : SentBy(v, m) /\ Current(m)
      BY <1>8, <2>1, <3>2, <3>4, <3>5
    <3>7. BuffersPairs(v)'
      BY <1>1, <2>1, <3>1 DEF BuffersPairs, clientVars
    <3>8. QED  BY <1>6, <3>1, <3>5, <3>6, <3>7
  <2>4. QED  BY <1>14, <2>2, <2>3
<1>15. QED
  BY <1>11, <1>12, <1>13, <1>14 DEF ReducerNext, ReducerStep

LEMMA StartParts ==
  ASSUME TypeInv, AllParts, NEW w \in Worker, StartNext(w)
  PROVE  AllParts'
<1>1. /\ Receive(w) /\ UNCHANGED <<mapperVars, reducerVars, clientVars>>
      /\ Send(w, <<JobRequest(w)>>)
  BY DEF StartNext, startsession
<1>2. <<JobRequest(w)>> \in Seq(Message)
  BY JobRequestType DEF Message
<1>3. ASSUME NEW m \in ToSet(<<JobRequest(w)>>)
      PROVE  SentBy(w, m) /\ Current(m)
  <2>1. m = JobRequest(w)
    BY <1>3 DEF ToSet
  <2>2. QED
    BY <2>1 DEF JobRequest, Pub, SentBy, Current, Is, Data, JOB_REQUEST,
      MAP_DATATYPE, REDUCE_DATATYPE, RESULT_DATATYPE
<1>4. /\ \A x \in Mapper : HoldsPairs(x)'
      /\ \A x \in Reducer : BuffersPairs(x)'
  BY <1>1, SameRound DEF AllParts, HoldsPairs, BuffersPairs, clientVars,
    mapperVars, reducerVars
<1>5. QED  BY <1>1, <1>2, <1>3, <1>4, WorkerParts
-----------------------------------------------------------------------------
(* What the client sends for a round: its lines, then a marker to each     *)
(* mapper.                                                                 *)
BurstLines(M, lines, h) ==
  LET ms == SetToSeq(M)
      n == Cardinality(M)
  IN [i \in 1..Len(lines) |->
        Pub(MAP_DATATYPE, ms[((i - 1) % n) + 1][2], LineOf(h, lines[i]))]
BurstEnds(M) ==
  LET ms == SetToSeq(M)
  IN [i \in 1..Cardinality(M) |-> Pub(MAP_DATATYPE, ms[i][2], EndOfRound)]

LEMMA RoundMessages ==
  ASSUME NEW d \in Nat
  PROVE  /\ \A h \in 1..MaxRounds, l \in Seq(Items) :
              LET m == Pub(MAP_DATATYPE, d, LineOf(h, l))
              IN m \in Data(MAP_DATATYPE) /\ m.body.header = h /\ m.dst = d
         /\ LET m == Pub(MAP_DATATYPE, d, EndOfRound)
            IN m \in Ends(MAP_DATATYPE) /\ m.dst = d
<1>1. ASSUME NEW h \in 1..MaxRounds, NEW l \in Seq(Items)
      PROVE  /\ Pub(MAP_DATATYPE, d, LineOf(h, l)) \in Message
             /\ ~LineOf(h, l).end /\ LineOf(h, l).header = h
  BY PubTypes, PairTypes DEF Message, LineOf
<1>2. Pub(MAP_DATATYPE, d, EndOfRound) \in Message /\ EndOfRound.end
  BY PubTypes DEF Message, EndOfRound
<1>3. \A b : LET m == Pub(MAP_DATATYPE, d, b)
             IN Is(m, MAP_DATATYPE) /\ m.dst = d /\ m.body = b
  BY DEF Pub, Is
<1>4. QED  BY <1>1, <1>2, <1>3 DEF Data, Ends

LEMMA BurstForm ==
  ASSUME NEW M \in SUBSET Mapper, NEW h \in 1..MaxRounds,
         NEW lines \in Seq(Seq(Items)), M = {} => lines = <<>>
  PROVE  LET p == BurstLines(M, lines, h)
             q == BurstEnds(M)
         IN /\ DataBurst(M, lines, h) = p \o q
            /\ p \in Seq(Message) /\ q \in Seq(Message)
            /\ \A m \in ToSet(p) : /\ m \in Data(MAP_DATATYPE)
                                   /\ m.body.header = h
            /\ \A m \in ToSet(q) : m \in Ends(MAP_DATATYPE)
            /\ \A w \in M : Number(q, EndsTo(MAP_DATATYPE, w[2])) = 1
<1> DEFINE ms == SetToSeq(M)
           n == Cardinality(M)
           p == BurstLines(M, lines, h)
           q == BurstEnds(M)
<1>1. IsFiniteSet(M)
  BY RolesFinite, FS_Subset
<1>2. /\ ms \in [1..n -> M] /\ n \in Nat
      /\ \A i, j \in 1..n : ms[i] = ms[j] => i = j
      /\ \A w \in M : \E i \in 1..n : ms[i] = w
  <2>1. PICK f \in Bijection(1..n, M) : TRUE
    BY <1>1, FS_CardinalityType DEF ExistsBijection
  <2>2. f \in [1..n -> M] /\ IsInjective(f)
    BY <2>1 DEF Bijection, Injection, IsInjective
  <2>3. ms \in [1..n -> M] /\ IsInjective(ms)
    BY <2>2 DEF SetToSeq
  <2>4. \A i, j \in 1..n : ms[i] = ms[j] => i = j
    BY <2>3 DEF IsInjective
  <2>5. n \in Nat
    BY <1>1, FS_CardinalityType
  <2>6. ms \in Injection(1..n, M)
    <3> HIDE DEF ms
    <3>1. QED  BY <2>3 DEF Injection, IsInjective
  <2>7. Cardinality(1..n) = n /\ IsFiniteSet(1..n)
    BY <2>5, FS_Interval
  <2>8. ms \in Surjection(1..n, M)
    <3> HIDE DEF ms
    <3>1. QED  BY <1>1, <2>6, <2>7, FS_Injection
  <2>9. \A w \in M : \E i \in 1..n : ms[i] = w
    <3> HIDE DEF ms
    <3>1. QED  BY <2>8 DEF Surjection
  <2>10. QED  BY <2>3, <2>4, <2>5, <2>9
<1>3. lines # <<>> => n > 0
  BY <1>1, <1>2, FS_EmptySet
<1>4. \A i \in 1..n : ms[i][2] \in Nat
  BY <1>2, Roles DEF Worker
<1>5. /\ p = [i \in 1..Len(lines) |->
               Pub(MAP_DATATYPE, ms[((i - 1) % n) + 1][2],
                   LineOf(h, lines[i]))]
      /\ q = [i \in 1..n |-> Pub(MAP_DATATYPE, ms[i][2], EndOfRound)]
      /\ DataBurst(M, lines, h) = p \o q
  BY DEF DataBurst, BurstLines, BurstEnds
<1>6. Len(lines) \in Nat
  OBVIOUS
<1> HIDE DEF ms, n, p, q
<1>7. ASSUME NEW i \in 1..Len(lines)
      PROVE  /\ p[i] \in Data(MAP_DATATYPE) /\ p[i] \in Message
             /\ p[i].body.header = h
  <2>1. ((i - 1) % n) + 1 \in 1..n
    BY <1>2, <1>3, <1>6
  <2>2. ms[((i - 1) % n) + 1][2] \in Nat /\ lines[i] \in Seq(Items)
    BY <1>4, <2>1
  <2>3. QED  BY <1>5, <2>2, RoundMessages DEF Data
<1>8. ASSUME NEW i \in 1..n
      PROVE  /\ q[i] \in Ends(MAP_DATATYPE) /\ q[i] \in Message
             /\ q[i].dst = ms[i][2]
  BY <1>4, <1>5, RoundMessages DEF Ends
<1>9. p \in Seq(Message) /\ DOMAIN p = 1..Len(lines)
  BY <1>5, <1>6, <1>7
<1>10. q \in Seq(Message) /\ DOMAIN q = 1..n
  BY <1>2, <1>5, <1>8
<1>11. ASSUME NEW w \in M
       PROVE  Number(q, EndsTo(MAP_DATATYPE, w[2])) = 1
  <2>1. PICK k \in 1..n : ms[k] = w
    BY <1>2
  <2>2. \A i \in 1..n : ms[i][2] = w[2] => i = k
    <3>1. \A x \in M : x[2] = w[2] => x = w
      BY DEF Mapper
    <3>2. QED  BY <1>2, <2>1, <3>1
  <2>3. Places(q, EndsTo(MAP_DATATYPE, w[2])) = {k}
    BY <1>8, <1>10, <2>1, <2>2 DEF Places, EndsTo
  <2>4. QED  BY <2>3, FS_Singleton DEF Number
<1>12. QED
  BY <1>5, <1>7, <1>8, <1>9, <1>10, <1>11 DEF ToSet, p, q

(* The client reads or polls, and sends nothing. *)
LEMMA QuietParts ==
  ASSUME TypeInv, SubscribedInv, ~late, AllParts, ClientNext, up' = up,
         mappers' = mappers, reducers' = reducers, round_' = round_,
         fires' = fires, down' = down \/ Receive(Client),
         \/ reducers_done' = reducers_done
         \/ /\ Receive(Client) /\ Is(Head(down[Client]), RESULT_DATATYPE)
  PROVE  AllParts'
<1>1. UNCHANGED <<mapperVars, reducerVars>> /\ Client \in Node
  BY Roles DEF ClientNext
<1>2. /\ \A n \in Node : PartsOf(n)
      /\ \A w \in Mapper : HoldsPairs(w)
      /\ \A v \in Reducer : BuffersPairs(v)
      /\ fires = 0 => reducers_done = 0
  BY DEF AllParts
<1>3. /\ \A k, m : SentBy(k, m)' <=> SentBy(k, m)
      /\ \A k, m : TakePart(k, m)' <=> TakePart(k, m)
      /\ \A m : Current(m)' <=> Current(m)
      /\ \A b : Sorted(b)' <=> Sorted(b)
      /\ \A v, b : LeadsTo(v, b)' <=> LeadsTo(v, b)
  BY SameRound
<1>4. \A n \in Node : ToSet(down'[n]) \subseteq ToSet(down[n])
  BY <1>1, NodeMoves, NodeReads, NothingSent
<1>5. \A n \in Node : PartsOf(n)'
  BY <1>2, <1>3, <1>4 DEF PartsOf
<1>6. /\ \A w \in Mapper : HoldsPairs(w)'
      /\ \A v \in Reducer : BuffersPairs(v)'
  BY <1>1, <1>2, <1>3 DEF HoldsPairs, BuffersPairs, mapperVars, reducerVars
<1>7. Receive(Client) /\ Is(Head(down[Client]), RESULT_DATATYPE) => fires > 0
  BY <1>1, NodeHead, ServedWasFired, DataServe DEF DataTypes
<1>8. QED  BY <1>2, <1>5, <1>6, <1>7 DEF AllParts

(* A round starts when nothing of an earlier one is left. *)
LEMMA FreshParts ==
  ASSUME TypeInv, AllParts, UNCHANGED <<mapperVars, reducerVars>>,
         mappers' = mappers, reducers' = reducers, fires' > 0,
         NEW out \in Seq(Message), Send(Client, out),
         \A m \in ToSet(out) : SentBy(Client, m)' /\ Current(m)',
         \A n \in Node : /\ ToSet(down'[n]) \subseteq ToSet(down[n])
                         /\ \A m \in ToSet(up[n]) \cup ToSet(down'[n]) :
                              \A t \in DataTypes : ~Is(m, t),
         \A w \in Mapper : outbuff[w] = NoPairs,
         \A v \in Reducer : rState[v] # "EXPECT_DATA"
  PROVE  AllParts'
<1>1. /\ ToSet(up'[Client]) = ToSet(up[Client]) \cup ToSet(out)
      /\ \A n \in Node : n # Client => up'[n] = up[n]
  <2>1. up \in [Node -> Seq(Message)] /\ Client \in Node
    BY QueueTypes, Roles
  <2>2. QED  BY <2>1, FillQueue
<1>2. /\ \A k, m : SentBy(k, m)' <=> SentBy(k, m)
      /\ \A k, m : TakePart(k, m)' <=> TakePart(k, m)
  BY DEF SentBy, TakePart
<1>3. \A m : (\A t \in DataTypes : ~Is(m, t)) => Current(m)'
  BY DEF Current, Data, DataTypes
<1>4. ASSUME NEW n \in Node
      PROVE  PartsOf(n)'
  <2>1. \A m \in ToSet(up'[n]) : SentBy(n, m)' /\ Current(m)'
    BY <1>1, <1>2, <1>3 DEF AllParts, PartsOf
  <2>2. \A m \in ToSet(down'[n]) : TakePart(n, m)' /\ Current(m)'
    BY <1>2, <1>3 DEF AllParts, PartsOf
  <2>3. QED  BY <2>1, <2>2 DEF PartsOf
<1>5. \A w \in Mapper : HoldsPairs(w)'
  <2>1. Sorted(NoPairs)'
    BY DEF Sorted, OfRound, Mapped, NoPairs, Zero
  <2>2. QED  BY <2>1 DEF AllParts, HoldsPairs, mapperVars
<1>6. \A v \in Reducer : BuffersPairs(v)'
  BY DEF AllParts, BuffersPairs, reducerVars
<1>7. fires' # 0
  OBVIOUS
<1>8. QED  BY <1>4, <1>5, <1>6, <1>7 DEF AllParts

(* A job whose counts the workers accept has a mapper and a reducer at
   least. *)
LEMMA SaneCounts ==
  ASSUME Sane
  PROVE  /\ mappers # {} /\ Cardinality(mappers) \in Nat \ {0}
         /\ reducers # {} /\ Cardinality(reducers) \in Nat \ {0}
<1>1. Cardinality({}) = 0
  BY FS_EmptySet
<1>2. /\ Cardinality(mappers) \in Nat \ {0}
      /\ Cardinality(reducers) \in Nat \ {0}
  <2>1. ASSUME NEW n \in 1..999
        PROVE  n \in Nat \ {0}
    OBVIOUS
  <2>2. Cardinality(mappers) \in 1..999 /\ Cardinality(reducers) \in 1..999
    BY Zenon DEF Sane, ValidCount
  <2>3. QED  BY <2>1, <2>2, ZenonT(30)
<1>3. mappers # {} /\ reducers # {}
  BY <1>1, <1>2
<1>4. QED  BY <1>2, <1>3

(* The job is fired: once, when nobody has got anything of it. *)
LEMMA FireSendsRound ==
  ASSUME TypeInv, fire_jobs
  PROVE  \/ Send(Client, Codes) /\ (mappers = {} \/ fires > 0)
         \/ /\ mappers # {} /\ Round' = 1
            /\ \E lines \in Seq(Seq(Items)) :
                 Send(Client, Codes \o DataBurst(mappers, lines, 1))
<1>1. ClientTypeOK
  BY DEF TypeInv, TypeOK
<1>2. CASE FireWordcount
  <2>1. mappers_data \o Lines \in Seq(Seq(Items))
    BY <1>1, ProtocolAssumption DEF ClientTypeOK
  <2>2. Round' = 1
    BY <1>2 DEF FireWordcount, Round
  <2>3. QED  BY <1>2, <2>1, <2>2 DEF FireWordcount, JobMessages
<1>3. CASE FireKMeans
  <2>1. Cardinality(mappers) \in Nat \ {0}
    BY <1>1, <1>3, RolesFinite, FS_Subset, FS_CardinalityType, FS_EmptySet
    DEF FireKMeans, ClientTypeOK
  <2>2. Partitions(Lines, Cardinality(mappers)) \in Seq(Seq(Items))
    BY <1>3, <2>1, PartitionsType DEF FireKMeans
  <2>3. Round' = 1
    BY <1>3 DEF FireKMeans, Round
  <2>4. QED  BY <1>3, <2>2, <2>3 DEF FireKMeans, JobMessages
<1>4. CASE FireCrash
  BY <1>4 DEF FireCrash
<1>5. QED  BY <1>2, <1>3, <1>4 DEF fire_jobs

LEMMA CodesAreCode ==
  ASSUME TypeInv
  PROVE  /\ Codes \in Seq(Message)
         /\ \A m \in ToSet(Codes) : \A t \in DataTypes : ~Is(m, t)
<1>1. \A m \in ToSet(Codes) : Is(m, MAP_CODETYPE) \/ Is(m, REDUCE_CODETYPE)
  BY DEF Codes, ToSet, Is, Pub
<1>2. QED
  BY <1>1, CodesInOrder DEF Is, DataTypes, MAP_CODETYPE, REDUCE_CODETYPE,
    MAP_DATATYPE, REDUCE_DATATYPE, RESULT_DATATYPE

LEMMA UnfiredQueues ==
  ASSUME TypeInv, SubscribedInv, ~late, AllParts, ~(fires > 0)
  PROVE  /\ \A n \in Node : \A m \in ToSet(up[n]) \cup ToSet(down[n]) :
              ~Serving(m) /\ \A t \in DataTypes : ~Is(m, t)
         /\ \A w \in Mapper : mState[w] = "EXPECT_CODE" /\ outbuff[w] = NoPairs
         /\ \A v \in Reducer : rState[v] = "EXPECT_CODE"
         /\ reducers_done = 0
<1>1. \A n \in Node : \A m \in ToSet(up[n]) \cup ToSet(down[n]) : ~Serving(m)
  BY ServedWasFired
<1>2. /\ \A w \in Mapper : mState[w] = "EXPECT_CODE"
      /\ \A v \in Reducer : rState[v] = "EXPECT_CODE"
  BY DEF SubscribedInv, WorkersServed
<1>3. fires = 0
  BY DEF TypeInv, TypeOK, ClientTypeOK
<1>4. QED  BY <1>1, <1>2, <1>3, DataServe DEF AllParts, HoldsPairs

(* A worker is registered: only as long as the job is not fired. *)
LEMMA RequestParts ==
  ASSUME TypeInv, SubscribedInv, ~late, AllParts, ClientNext,
         HandleJobRequest, ~late'
  PROVE  AllParts'
<1> DEFINE wanted == Head(down[Client]).body.subs
<1>1. /\ UNCHANGED <<mapperVars, reducerVars>> /\ Client \in Node
      /\ Receive(Client) /\ Head(down[Client]).type = JOB_REQUEST
      /\ mappers \subseteq mappers' /\ reducers \subseteq reducers'
      /\ round_' = round_ /\ reducers_done' = reducers_done
      /\ fires' = fires /\ Send(Client, wanted)
  BY Roles DEF ClientNext, HandleJobRequest, Takes, resultVars, firingVars
<1>2. wanted \in Seq(Message)
      /\ \A m \in ToSet(wanted) : SentBy(Client, m)
                                 /\ \A t \in DataTypes : ~Is(m, t)
  <2>1. wanted \in Seq(WorkerSub)
    BY <1>1, NodeHead, BodyTypes
  <2>2. WorkerSub \subseteq Message /\ \A m \in WorkerSub : m.op = "sub"
    BY DEF WorkerSub, Message, Subscription, Node, Worker, MsgType,
      MAP_CODETYPE, MAP_DATATYPE, REDUCE_CODETYPE, REDUCE_DATATYPE
  <2> HIDE DEF wanted
  <2>3. ToSet(wanted) \subseteq WorkerSub
    BY <2>1, ToSetQueue
  <2>4. QED
    BY <2>1, <2>2, <2>3, SeqMonotone DEF SentBy, Is
<1> HIDE DEF wanted
<1>3. /\ \A n \in Node : ToSet(down'[n]) \subseteq ToSet(down[n])
      /\ ToSet(up'[Client]) = ToSet(up[Client]) \cup ToSet(wanted)
      /\ \A n \in Node : n # Client => up'[n] = up[n]
  BY <1>1, <1>2, NodeMoves
<1> DEFINE DataFree(m) == \A t \in DataTypes : ~Is(m, t)
<1>4. /\ \A k, m : SentBy(k, m) => SentBy(k, m)'
      /\ \A k, m : TakePart(k, m) => TakePart(k, m)'
      /\ \A m : DataFree(m) => Current(m)'
      /\ \A b : Sorted(b)' <=> Sorted(b)
  <2>1. Round' = Round
    BY <1>1 DEF Round
  <2>2. \A b : Sorted(b)' <=> Sorted(b)
    BY <2>1 DEF Sorted, Mapped, OfRound
  <2>3. QED
    BY <1>1, <2>2 DEF SentBy, TakePart, Current, Data, DataTypes
<1>5. ~(fires > 0)
  BY DEF HandleJobRequest
<1>6. /\ \A n \in Node : \A m \in ToSet(up[n]) \cup ToSet(down[n]) : DataFree(m)
      /\ \A v \in Reducer : rState[v] = "EXPECT_CODE"
  BY <1>5, UnfiredQueues
<1> HIDE DEF DataFree
<1>7. ASSUME NEW n \in Node
      PROVE  PartsOf(n)'
  <2>1. \A m \in ToSet(up'[n]) : SentBy(n, m) /\ DataFree(m)
    BY <1>2, <1>3, <1>6 DEF AllParts, PartsOf, DataFree
  <2>2. \A m \in ToSet(down'[n]) : TakePart(n, m) /\ DataFree(m)
    BY <1>3, <1>6 DEF AllParts, PartsOf
  <2>3. QED  BY <1>4, <2>1, <2>2 DEF PartsOf
<1>8. \A w \in Mapper : HoldsPairs(w)'
  BY <1>1, <1>4 DEF AllParts, HoldsPairs, mapperVars
<1>9. \A v \in Reducer : BuffersPairs(v)'
  BY <1>1, <1>6 DEF AllParts, BuffersPairs, reducerVars
<1>10. QED  BY <1>1, <1>7, <1>8, <1>9 DEF AllParts

LEMMA Together ==
  ASSUME NEW X, NEW p \in Seq(X), NEW q \in Seq(X)
  PROVE  p \o q \in Seq(X) /\ ToSet(p \o q) = ToSet(p) \cup ToSet(q)
  BY ToSetQueue

LEMMA FireParts ==
  ASSUME TypeInv, SubscribedInv, ~late, OrderInv, AllParts, ClientNext,
         fire_jobs
  PROVE  AllParts'
<1>1. /\ UNCHANGED <<mapperVars, reducerVars, mappers, reducers>>
      /\ fires' > 0 /\ ~(fires > 0) /\ down' = down
  BY DEF ClientNext, fire_jobs, FireWordcount, FireKMeans, FireCrash, Fires,
    Ticks, TypeInv, TypeOK, ClientTypeOK, OrderInv, FiredOnce
<1>2. /\ \A n \in Node : \A m \in ToSet(up[n]) \cup ToSet(down[n]) :
           \A t \in DataTypes : ~Is(m, t)
      /\ \A w \in Mapper : outbuff[w] = NoPairs
      /\ \A v \in Reducer : rState[v] # "EXPECT_DATA"
  BY <1>1, UnfiredQueues
<1>3. ASSUME NEW out \in Seq(Message), Send(Client, out),
             \A m \in ToSet(out) : SentBy(Client, m)' /\ Current(m)'
      PROVE  AllParts'
  <2>1. \A n \in Node :
          /\ ToSet(down'[n]) \subseteq ToSet(down[n])
          /\ \A m \in ToSet(up[n]) \cup ToSet(down'[n]) :
               \A t \in DataTypes : ~Is(m, t)
    BY <1>1, <1>2
  <2>2. QED  BY <1>1, <1>2, <1>3, <2>1, FreshParts
<1>4. /\ Codes \in Seq(Message)
      /\ \A m \in ToSet(Codes) : SentBy(Client, m)' /\ Current(m)'
  BY CodesAreCode DEF SentBy, Current, Data, DataTypes
<1>5. ASSUME NEW lines \in Seq(Seq(Items)), mappers # {}, Round' = 1,
             Send(Client, Codes \o DataBurst(mappers, lines, 1))
      PROVE  AllParts'
  <2> DEFINE p == BurstLines(mappers, lines, 1)
             q == BurstEnds(mappers)
  <2>1. /\ DataBurst(mappers, lines, 1) = p \o q
        /\ p \in Seq(Message) /\ q \in Seq(Message)
        /\ \A m \in ToSet(p) : m \in Data(MAP_DATATYPE) /\ m.body.header = 1
        /\ \A m \in ToSet(q) : m \in Ends(MAP_DATATYPE)
    <3>1. mappers \in SUBSET Mapper /\ 1 \in 1..MaxRounds
      BY ProtocolAssumption DEF TypeInv, TypeOK, ClientTypeOK
    <3>2. QED  BY <1>5, <3>1, BurstForm
  <2> HIDE DEF p, q
  <2>2. /\ p \o q \in Seq(Message)
        /\ ToSet(p \o q) = ToSet(p) \cup ToSet(q)
    BY <2>1, Together
  <2>3. /\ Codes \o (p \o q) \in Seq(Message)
        /\ ToSet(Codes \o (p \o q)) = ToSet(Codes) \cup ToSet(p \o q)
    <3> DEFINE r == p \o q
    <3>1. Codes \in Seq(Message) /\ r \in Seq(Message)
      BY <1>4, <2>2
    <3> HIDE DEF r
    <3>2. Codes \o r \in Seq(Message)
          /\ ToSet(Codes \o r) = ToSet(Codes) \cup ToSet(r)
      BY <3>1, Together
    <3>3. QED  BY <3>2 DEF r
  <2>4. \A m \in ToSet(p) \cup ToSet(q) : SentBy(Client, m)' /\ Current(m)'
    BY <1>5, <2>1 DEF SentBy, Current, Data, Ends, Is, MAP_DATATYPE,
      REDUCE_DATATYPE, RESULT_DATATYPE
  <2>5. QED  BY <1>3, <1>4, <1>5, <2>1, <2>2, <2>3, <2>4
<1>6. QED  BY <1>1, <1>3, <1>4, <1>5, FireSendsRound
-----------------------------------------------------------------------------
(* The accounts: what is counted in them, and what leaves them as they are. *)
LEMMA CountTypes ==
  ASSUME TypeInv
  PROVE  /\ \A n \in Node : \A S :
              Number(up[n], S) \in Nat /\ Number(down[n], S) \in Nat
         /\ \A w \in Mapper : EndsFor(w) \in Nat /\ \A d : Owes(w, d) \in Nat
         /\ \A v : IsFiniteSet(Debtors(v)) /\ Cardinality(Debtors(v)) \in Nat
         /\ \A v \in Reducer : DoneBefore(v) \in Nat /\ Expected(v) \in Nat
         /\ IsFiniteSet(Reporting) /\ Cardinality(Reporting) \in Nat
         /\ IsFiniteSet(mappers) /\ Cardinality(mappers) \in Nat
         /\ IsFiniteSet(reducers) /\ Cardinality(reducers) \in Nat
<1>1. \A n \in Node : \A S :
        Number(up[n], S) \in Nat /\ Number(down[n], S) \in Nat
  BY QueueTypes, NumberType
<1>2. \A w \in Mapper : EndsFor(w) \in Nat /\ \A d : Owes(w, d) \in Nat
  BY <1>1, Roles DEF EndsFor, Owes
<1>3. /\ IsFiniteSet(mappers) /\ Cardinality(mappers) \in Nat
      /\ IsFiniteSet(reducers) /\ Cardinality(reducers) \in Nat
  BY RolesFinite, FS_Subset, FS_CardinalityType
    DEF TypeInv, TypeOK, ClientTypeOK
<1>4. ASSUME NEW v
      PROVE  IsFiniteSet(Debtors(v)) /\ Cardinality(Debtors(v)) \in Nat
  <2>1. Debtors(v) \subseteq mappers
    BY DEF Debtors
  <2>2. QED  BY <1>3, <2>1, FS_Subset, FS_CardinalityType
<1>5. IsFiniteSet(Reporting) /\ Cardinality(Reporting) \in Nat
  <2>1. Reporting \subseteq reducers
    BY DEF Reporting
  <2>2. QED  BY <1>3, <2>1, FS_Subset, FS_CardinalityType
<1>6. \A v \in Reducer : DoneBefore(v) \in Nat /\ Expected(v) \in Nat
  BY <1>1, <1>4, Roles DEF Expected, DoneBefore, TypeInv, TypeOK, ReducerTypeOK
<1>7. QED  BY <1>1, <1>2, <1>3, <1>4, <1>5, <1>6

LEMMA MapperFrame ==
  ASSUME TypeInv, NEW w \in Mapper, MapperAccount(w), reducers' = reducers,
         TypeInv',
         SameFor(up'[Client], up[Client],
                 {m \in DataOf(MAP_DATATYPE) : m.dst = w[2]}),
         SameFor(down'[w], down[w], DataOf(MAP_DATATYPE)),
         SameFor(up'[w], up[w], DataOf(REDUCE_DATATYPE)),
         outbuff'[w] = outbuff[w]
  PROVE  MapperAccount(w)' /\ \A d : Owes(w, d)' = Owes(w, d)
<1> DEFINE D == {m \in DataOf(MAP_DATATYPE) : m.dst = w[2]}
           E == EndsTo(MAP_DATATYPE, w[2])
           F == Ends(MAP_DATATYPE)
           G(d) == EndsTo(REDUCE_DATATYPE, d)
<1>1. /\ E \in SUBSET D /\ DataTo(MAP_DATATYPE, w[2]) \in SUBSET D
      /\ F \in SUBSET DataOf(MAP_DATATYPE)
      /\ Data(MAP_DATATYPE) \in SUBSET DataOf(MAP_DATATYPE)
      /\ \A d : G(d) \in SUBSET DataOf(REDUCE_DATATYPE)
      /\ Data(REDUCE_DATATYPE) \in SUBSET DataOf(REDUCE_DATATYPE)
  BY DEF EndsTo, DataTo, Ends, Data, DataOf
<1>2. /\ Number(up'[Client], E) = Number(up[Client], E)
      /\ Number(down'[w], F) = Number(down[w], F)
      /\ \A d : Number(up'[w], G(d)) = Number(up[w], G(d))
      /\ Followed(up[Client], DataTo(MAP_DATATYPE, w[2]), E)
           => Followed(up'[Client], DataTo(MAP_DATATYPE, w[2]), E)
      /\ Followed(down[w], Data(MAP_DATATYPE), F)
           => Followed(down'[w], Data(MAP_DATATYPE), F)
      /\ \A d : Followed(up[w], Data(REDUCE_DATATYPE), G(d))
                 => Followed(up'[w], Data(REDUCE_DATATYPE), G(d))
  BY <1>1 DEF SameFor
<1>3. \A m \in ToSet(up'[w]) :
        m \in Ends(REDUCE_DATATYPE) => m \in ToSet(up[w])
  <2>1. SUFFICES ASSUME NEW m \in ToSet(up'[w]), m \in Ends(REDUCE_DATATYPE)
                 PROVE  m \in ToSet(up[w])
    OBVIOUS
  <2>2. {m} \in SUBSET DataOf(REDUCE_DATATYPE)
    BY <2>1 DEF Ends, DataOf
  <2>3. Number(up'[w], {m}) = Number(up[w], {m})
    BY <2>2 DEF SameFor
  <2>4. up[w] \in Seq(Message) /\ up'[w] \in Seq(Message)
    BY Roles DEF TypeInv, TypeOK
  <2>5. Number(up'[w], {m}) # 0
    BY <2>1, <2>4, NumberType
  <2>6. QED  BY <2>3, <2>4, <2>5, NumberType
<1>4. /\ EndsFor(w)' = EndsFor(w) /\ \A d : Owes(w, d)' = Owes(w, d)
      /\ Addressed' = Addressed /\ Below' = Below
  BY <1>2 DEF EndsFor, Owes, Addressed, Below
<1> HIDE DEF D, E, F, G
<1>5. MapperAccount(w)'
  BY <1>2, <1>3, <1>4 DEF MapperAccount, E, F, G
<1>6. QED  BY <1>4, <1>5

LEMMA ReducerFrame ==
  ASSUME mappers' = mappers, reducers' = reducers,
         NEW v \in reducers, ReducerAccount(v),
         v[2] \in Addressed =>
           \A w \in mappers : Owes(w, v[2])' = Owes(w, v[2]),
         SameFor(down'[v], down[v], DataOf(REDUCE_DATATYPE)),
         SameFor(up'[v], up[v], DataOf(RESULT_DATATYPE)),
         DoneBefore(v)' = DoneBefore(v),
         rState[v] = "WAIT_NEXT" => rState'[v] = "WAIT_NEXT",
         rState'[v] # "EXPECT_CODE" => mapper_count'[v] = Cardinality(mappers)
  PROVE  /\ ReducerAccount(v)' /\ Expected(v)' = Expected(v)
         /\ Number(up'[v], Ends(RESULT_DATATYPE))
              = Number(up[v], Ends(RESULT_DATATYPE))
<1>1. \A t : Ends(t) \in SUBSET DataOf(t) /\ Data(t) \in SUBSET DataOf(t)
  BY DEF Ends, Data, DataOf
<1>2. /\ Number(down'[v], Ends(REDUCE_DATATYPE))
           = Number(down[v], Ends(REDUCE_DATATYPE))
      /\ Number(up'[v], Ends(RESULT_DATATYPE))
           = Number(up[v], Ends(RESULT_DATATYPE))
      /\ Followed(down[v], Data(REDUCE_DATATYPE), Ends(REDUCE_DATATYPE))
           => Followed(down'[v], Data(REDUCE_DATATYPE), Ends(REDUCE_DATATYPE))
      /\ Followed(up[v], Data(RESULT_DATATYPE), Ends(RESULT_DATATYPE))
           => Followed(up'[v], Data(RESULT_DATATYPE), Ends(RESULT_DATATYPE))
  BY <1>1 DEF SameFor
<1>3. Debtors(v)' = Debtors(v)
  <2>1. Addressed' = Addressed
    BY DEF Addressed, Below
  <2>2. QED  BY <2>1 DEF Debtors
<1>4. Expected(v)' = Expected(v)
  BY <1>2, <1>3 DEF Expected
<1>5. ReducerAccount(v)'
  BY <1>2, <1>3, <1>4 DEF ReducerAccount
<1>6. QED  BY <1>2, <1>4, <1>5

LEMMA ClientFrame ==
  ASSUME ClientAccount, reducers' = reducers, reducers_done' = reducers_done,
         \A v \in reducers :
           /\ Expected(v)' = Expected(v)
           /\ Number(up'[v], Ends(RESULT_DATATYPE))
                = Number(up[v], Ends(RESULT_DATATYPE)),
         status' = "running" => status = "running",
         SameFor(down'[Client], down[Client], DataOf(RESULT_DATATYPE))
  PROVE  ClientAccount'
<1>1. Reporting' = Reporting
  BY DEF Reporting
<1>2. /\ Number(down'[Client], Ends(RESULT_DATATYPE))
           = Number(down[Client], Ends(RESULT_DATATYPE))
      /\ Followed(down[Client], Data(RESULT_DATATYPE), Ends(RESULT_DATATYPE))
           => Followed(down'[Client], Data(RESULT_DATATYPE),
                       Ends(RESULT_DATATYPE))
  <2>1. /\ Ends(RESULT_DATATYPE) \in SUBSET DataOf(RESULT_DATATYPE)
        /\ Data(RESULT_DATATYPE) \in SUBSET DataOf(RESULT_DATATYPE)
    BY DEF Ends, Data, DataOf
  <2>2. QED  BY <2>1 DEF SameFor
<1>3. QED  BY <1>1, <1>2 DEF ClientAccount

(* A reducer that is through with the round stays so while the round lasts. *)
Settled == \A v \in reducers : Expected(v) = 0 => Expected(v)' = 0

(* A step that changes at most how a mapper's marker is under way. *)
LEMMA MappersOnly ==
  ASSUME Accounts, mappers' = mappers, reducers' = reducers,
         reducers_done' = reducers_done, status' = status,
         \A w \in mappers : /\ MapperAccount(w)'
                            /\ \A d \in Addressed : Owes(w, d)' = Owes(w, d),
         \A v \in reducers :
           /\ SameFor(down'[v], down[v], DataOf(REDUCE_DATATYPE))
           /\ SameFor(up'[v], up[v], DataOf(RESULT_DATATYPE))
           /\ DoneBefore(v)' = DoneBefore(v)
           /\ rState[v] = "WAIT_NEXT" => rState'[v] = "WAIT_NEXT"
           /\ rState'[v] # "EXPECT_CODE" =>
                mapper_count'[v] = Cardinality(mappers),
         SameFor(down'[Client], down[Client], DataOf(RESULT_DATATYPE))
  PROVE  Accounts' /\ Settled
<1>1. ASSUME NEW v \in reducers
      PROVE  /\ ReducerAccount(v)' /\ Expected(v)' = Expected(v)
             /\ Number(up'[v], Ends(RESULT_DATATYPE))
                  = Number(up[v], Ends(RESULT_DATATYPE))
  BY ReducerFrame DEF Accounts
<1>2. ClientAccount'
  BY <1>1, ClientFrame DEF Accounts
<1>3. QED  BY <1>1, <1>2 DEF Accounts, Settled

(* A step after which all data are where they were. *)
Unmoved == \A n \in Node : \A t \in DataTypes :
  /\ SameFor(up'[n], up[n], DataOf(t))
  /\ SameFor(down'[n], down[n], DataOf(t))

LEMMA RouterUnmoved ==
  ASSUME TypeInv, NEW n \in Node, RouterNext(n),
         \A t \in DataTypes : ~Is(Head(up[n]), t)
  PROVE  Unmoved
<1> DEFINE h == Head(up[n])
<1>1. /\ up[n] \in Seq(Message) /\ up[n] # <<>>
      /\ up'[n] = Tail(up[n])
      /\ \A m \in Node : m # n => up'[m] = up[m]
      /\ \A m \in Node : \/ down'[m] = down[m]
                         \/ /\ h \in Publication
                            /\ down'[m] = Append(down[m], h)
  BY RouterMoves
<1>2. \A t \in DataTypes : h \notin DataOf(t)
  BY DEF DataOf
<1> HIDE DEF h
<1>3. ASSUME NEW m \in Node, NEW t \in DataTypes
      PROVE  SameFor(up'[m], up[m], DataOf(t))
  <2>1. up[m] \in Seq(Message)
    BY QueueTypes
  <2>2. QED  BY <1>1, <1>2, <2>1, SameForSteps DEF h
<1>4. ASSUME NEW m \in Node, NEW t \in DataTypes
      PROVE  SameFor(down'[m], down[m], DataOf(t))
  <2>1. down[m] \in Seq(Publication)
    BY QueueTypes
  <2>2. SameFor(down[m], down[m], DataOf(t))
    BY <2>1, SameForSteps
  <2>3. h \in Publication => SameFor(Append(down[m], h), down[m], DataOf(t))
    BY <1>2, <2>1, SameForSteps
  <2>4. QED  BY <1>1, <2>2, <2>3
<1>5. QED  BY <1>3, <1>4 DEF Unmoved

LEMMA NodeUnmoved ==
  ASSUME TypeInv, NEW w \in Node, Receive(w),
         \A t \in DataTypes : ~Is(Head(down[w]), t),
         NEW out \in Seq(Message), Send(w, out),
         \A m \in ToSet(out) : \A t \in DataTypes : ~Is(m, t)
  PROVE  Unmoved
<1> DEFINE h == Head(down[w])
<1>1. /\ down[w] \in Seq(Publication) /\ down[w] # <<>>
      /\ down'[w] = Tail(down[w])
      /\ \A n \in Node : n # w => down'[n] = down[n]
      /\ up'[w] = up[w] \o out
      /\ \A n \in Node : n # w => up'[n] = up[n]
  BY NodeMoves
<1>2. /\ \A t \in DataTypes : h \notin DataOf(t)
      /\ \A t \in DataTypes : \A m \in ToSet(out) : m \notin DataOf(t)
  BY DEF DataOf
<1> HIDE DEF h
<1>3. ASSUME NEW m \in Node, NEW t \in DataTypes
      PROVE  SameFor(up'[m], up[m], DataOf(t))
  <2>1. up[m] \in Seq(Message)
    BY QueueTypes
  <2>2. SameFor(up[m], up[m], DataOf(t))
        /\ SameFor(up[m] \o out, up[m], DataOf(t))
    BY <1>2, <2>1, SameForSteps
  <2>3. QED  BY <1>1, <2>2
<1>4. ASSUME NEW m \in Node, NEW t \in DataTypes
      PROVE  SameFor(down'[m], down[m], DataOf(t))
  <2>1. down[m] \in Seq(Publication)
    BY QueueTypes
  <2>2. SameFor(down[m], down[m], DataOf(t))
    BY <2>1, SameForSteps
  <2>3. QED  BY <1>1, <1>2, <2>1, <2>2, SameForSteps DEF h
<1>5. QED  BY <1>3, <1>4 DEF Unmoved

LEMMA SameForLess ==
  ASSUME NEW r, NEW q, NEW D, NEW E \in SUBSET D, SameFor(r, q, D)
  PROVE  SameFor(r, q, E)
  BY DEF SameFor

LEMMA NothingMoves ==
  ASSUME TypeInv, TypeInv', Accounts, Unmoved, mappers' = mappers,
         reducers' = reducers, reducers_done' = reducers_done,
         status' = status, outbuff' = outbuff,
         \A v \in reducers :
           /\ DoneBefore(v)' = DoneBefore(v)
           /\ rState[v] = "WAIT_NEXT" => rState'[v] = "WAIT_NEXT"
           /\ rState'[v] # "EXPECT_CODE" =>
                mapper_count'[v] = Cardinality(mappers)
  PROVE  Accounts' /\ Settled
<1>1. /\ mappers \subseteq Mapper /\ reducers \subseteq Reducer
      /\ Mapper \subseteq Node /\ Reducer \subseteq Node /\ Client \in Node
      /\ {MAP_DATATYPE, REDUCE_DATATYPE, RESULT_DATATYPE} = DataTypes
  BY Roles DEF TypeInv, TypeOK, ClientTypeOK, DataTypes
<1>2. \A n \in Node : \A t \in DataTypes :
        /\ SameFor(up'[n], up[n], DataOf(t))
        /\ SameFor(down'[n], down[n], DataOf(t))
  BY DEF Unmoved
<1>3. ASSUME NEW w \in mappers
      PROVE  MapperAccount(w)' /\ \A d : Owes(w, d)' = Owes(w, d)
  <2> DEFINE E == {m \in DataOf(MAP_DATATYPE) : m.dst = w[2]}
  <2>1. E \in SUBSET DataOf(MAP_DATATYPE)
    OBVIOUS
  <2>2. /\ w \in Mapper /\ MapperAccount(w)
        /\ SameFor(up'[Client], up[Client], DataOf(MAP_DATATYPE))
        /\ SameFor(down'[w], down[w], DataOf(MAP_DATATYPE))
        /\ SameFor(up'[w], up[w], DataOf(REDUCE_DATATYPE))
        /\ outbuff'[w] = outbuff[w]
    BY <1>1, <1>2 DEF Accounts
  <2> HIDE DEF E
  <2>3. SameFor(up'[Client], up[Client], E)
    BY <2>1, <2>2, SameForLess
  <2>4. QED  BY <2>2, <2>3, MapperFrame DEF E
<1>4. QED  BY <1>1, <1>2, <1>3, MappersOnly

LEMMA SteadyReducers ==
  ASSUME Accounts, UNCHANGED reducerVars
  PROVE  \A v \in reducers :
           /\ DoneBefore(v)' = DoneBefore(v)
           /\ rState[v] = "WAIT_NEXT" => rState'[v] = "WAIT_NEXT"
           /\ rState'[v] # "EXPECT_CODE" =>
                mapper_count'[v] = Cardinality(mappers)
  BY DEF Accounts, ReducerAccount, DoneBefore, reducerVars

LEMMA RouterNeutral ==
  ASSUME TypeInv, TypeInv', Accounts, NEW n \in Node, RouterNext(n),
         \A t \in DataTypes : ~Is(Head(up[n]), t)
  PROVE  Accounts' /\ Settled
<1>1. Unmoved
  BY RouterUnmoved
<1>2. UNCHANGED <<started, mapperVars, reducerVars, clientVars>>
  BY DEF RouterNext
<1>3. \A v \in reducers :
        /\ DoneBefore(v)' = DoneBefore(v)
        /\ rState[v] = "WAIT_NEXT" => rState'[v] = "WAIT_NEXT"
        /\ rState'[v] # "EXPECT_CODE" => mapper_count'[v] = Cardinality(mappers)
  BY <1>2, SteadyReducers
<1>4. /\ mappers' = mappers /\ reducers' = reducers /\ status' = status
      /\ reducers_done' = reducers_done /\ outbuff' = outbuff
  BY <1>2 DEF mapperVars, clientVars
<1>5. QED  BY <1>1, <1>3, <1>4, NothingMoves

(* What a worker's message is when it has not started, or has no code. *)
LEMMA WorkerHead ==
  ASSUME TypeInv, OrderInv, Sane, NEW w \in Worker, Receive(w)
  PROVE  /\ ~started[w] => Head(down[w]).type = JOB_ADVERTISE
         /\ started[w] /\ StateOf(w) = "EXPECT_CODE" =>
              /\ Head(down[w]).type = codetype(w)
              /\ ValidCount(Head(down[w]).body.count)
              /\ w \in Reducer =>
                   Head(down[w]).body.count = Cardinality(mappers)
<1> DEFINE h == Head(down[w])
<1>1. /\ h \in Publication /\ h.op = "pub" /\ h \in ToSet(down[w])
      /\ down[w] # <<>> /\ w \in Node
  BY Roles, NodeHead
<1> HIDE DEF h
<1>2. Sound(h)
  BY <1>1 DEF OrderInv, MessagesSound
<1>3. ~started[w] => h.type = JOB_ADVERTISE
  BY <1>1 DEF OrderInv, WorkersInOrder, Fresh
<1>4. started[w] /\ StateOf(w) = "EXPECT_CODE" => h.type = codetype(w)
  BY <1>1 DEF OrderInv, WorkersInOrder, HasCode, h
<1>5. h.type = codetype(w) =>
        /\ ValidCount(h.body.count)
        /\ w \in Reducer => h.body.count = Cardinality(mappers)
  BY <1>1, <1>2, CodeAndData DEF Sound, Sane, Codetypes
<1>6. QED  BY <1>3, <1>4, <1>5 DEF h

LEMMA CodesAreNoData ==
  ASSUME NEW m, m.type \in {JOB_ADVERTISE, JOB_REQUEST, MAP_CODETYPE,
                            REDUCE_CODETYPE}
  PROVE  \A t \in DataTypes : ~Is(m, t)
  BY DEF Is, DataTypes, JOB_ADVERTISE, JOB_REQUEST, MAP_CODETYPE,
    REDUCE_CODETYPE, MAP_DATATYPE, REDUCE_DATATYPE, RESULT_DATATYPE

LEMMA StartNeutral ==
  ASSUME TypeInv, TypeInv', OrderInv, Sane, Accounts, NEW w \in Worker,
         StartNext(w)
  PROVE  Accounts' /\ Settled
<1>1. /\ UNCHANGED <<mapperVars, reducerVars, clientVars>>
      /\ ~started[w] /\ Receive(w) /\ w \in Node
      /\ Send(w, <<JobRequest(w)>>)
  BY Roles DEF StartNext, startsession
<1>2. \A t \in DataTypes : ~Is(Head(down[w]), t)
  BY <1>1, WorkerHead, CodesAreNoData
<1>3. /\ <<JobRequest(w)>> \in Seq(Message)
      /\ \A m \in ToSet(<<JobRequest(w)>>) : \A t \in DataTypes : ~Is(m, t)
  <2>1. JobRequest(w) \in Message
    BY JobRequestType DEF Message
  <2>2. \A m \in ToSet(<<JobRequest(w)>>) : m = JobRequest(w)
    BY DEF ToSet
  <2>3. JobRequest(w).type = JOB_REQUEST
    BY DEF JobRequest, Pub
  <2>4. QED  BY <2>1, <2>2, <2>3, CodesAreNoData
<1>4. Unmoved
  BY <1>1, <1>2, <1>3, NodeUnmoved
<1>5. \A v \in reducers :
        /\ DoneBefore(v)' = DoneBefore(v)
        /\ rState[v] = "WAIT_NEXT" => rState'[v] = "WAIT_NEXT"
        /\ rState'[v] # "EXPECT_CODE" => mapper_count'[v] = Cardinality(mappers)
  BY <1>1, SteadyReducers
<1>6. /\ mappers' = mappers /\ reducers' = reducers /\ status' = status
      /\ reducers_done' = reducers_done /\ outbuff' = outbuff
  BY <1>1 DEF mapperVars, clientVars
<1>7. QED  BY <1>4, <1>5, <1>6, NothingMoves

LEMMA MapCodeNeutral ==
  ASSUME TypeInv, TypeInv', OrderInv, Sane, Accounts, NEW w \in Mapper,
         MapperNext(w), MapCode(w) \/ MapReject(w)
  PROVE  Accounts' /\ Settled
<1>1. /\ UNCHANGED <<reducerVars, clientVars>> /\ outbuff' = outbuff
      /\ started[w] /\ Receive(w) /\ w \in Node /\ w \in Worker
      /\ up' = up /\ codetype(w) = MAP_CODETYPE /\ StateOf(w) = mState[w]
      /\ mState[w] # "EXPECT_CODE" => Head(down[w]).type = MAP_CODETYPE
  BY Roles DEF MapperNext, MapCode, MapReject, TakesData, Worker, codetype,
    StateOf
<1>2. \A t \in DataTypes : ~Is(Head(down[w]), t)
  BY <1>1, WorkerHead, CodesAreNoData
<1>3. Unmoved
  <2>1. Send(w, <<>>)
    BY <1>1, NodeReads
  <2>2. QED  BY <1>1, <1>2, <2>1, NothingSent, NodeUnmoved
<1>4. \A v \in reducers :
        /\ DoneBefore(v)' = DoneBefore(v)
        /\ rState[v] = "WAIT_NEXT" => rState'[v] = "WAIT_NEXT"
        /\ rState'[v] # "EXPECT_CODE" => mapper_count'[v] = Cardinality(mappers)
  BY <1>1, SteadyReducers
<1>5. /\ mappers' = mappers /\ reducers' = reducers /\ status' = status
      /\ reducers_done' = reducers_done
  BY <1>1 DEF clientVars
<1>6. QED  BY <1>1, <1>3, <1>4, <1>5, NothingMoves

LEMMA ReduceCodeNeutral ==
  ASSUME TypeInv, TypeInv', OrderInv, Sane, AllParts, Accounts,
         NEW w \in Reducer, ReducerNext(w), ReduceCode(w) \/ ReduceReject(w)
  PROVE  Accounts' /\ Settled
<1>1. /\ UNCHANGED <<mapperVars, clientVars>>
      /\ started[w] /\ Receive(w) /\ w \in Node /\ w \in Worker
      /\ w \notin Mapper
      /\ up' = up /\ codetype(w) = REDUCE_CODETYPE /\ StateOf(w) = rState[w]
      /\ rState[w] # "EXPECT_CODE" => Head(down[w]).type = REDUCE_CODETYPE
  BY Roles DEF ReducerNext, ReduceCode, ReduceReject, TakesData, Worker,
    codetype, StateOf
<1>2. \A t \in DataTypes : ~Is(Head(down[w]), t)
  BY <1>1, WorkerHead, CodesAreNoData
<1>3. Unmoved
  <2>1. Send(w, <<>>)
    BY <1>1, NodeReads
  <2>2. QED  BY <1>1, <1>2, <2>1, NothingSent, NodeUnmoved
<1>4. ASSUME NEW v \in reducers
      PROVE  /\ DoneBefore(v)' = DoneBefore(v)
             /\ rState[v] = "WAIT_NEXT" => rState'[v] = "WAIT_NEXT"
             /\ rState'[v] # "EXPECT_CODE" =>
                  mapper_count'[v] = Cardinality(mappers)
  <2>1. CASE ReduceReject(w)
    BY <2>1, SteadyReducers DEF ReduceReject
  <2>2. CASE ReduceCode(w)
    <3>1. /\ v \in Reducer /\ ReducerTypeOK
          /\ rState[v] # "EXPECT_CODE" => mapper_count[v] = Cardinality(mappers)
          /\ mappers_done' = mappers_done /\ rState[w] = "EXPECT_CODE"
          /\ mapper_count' =
               [mapper_count EXCEPT ![w] = Head(down[w]).body.count]
          /\ rState' = [rState EXCEPT ![w] =
               IF Head(down[w]).body.count \in 1..999 THEN "EXPECT_DATA" ELSE @]
      BY <2>2 DEF ReduceCode, Accounts, ReducerAccount, TypeInv, TypeOK,
        ClientTypeOK
    <3>2. Head(down[w]).body.count = Cardinality(mappers)
      BY <1>1, <3>1, WorkerHead
    <3>3. v # w => rState'[v] = rState[v] /\ mapper_count'[v] = mapper_count[v]
      BY <3>1 DEF ReducerTypeOK
    <3>4. v = w => /\ mapper_count'[v] = Cardinality(mappers)
                   /\ rState'[v] # "WAIT_NEXT" /\ rState[v] # "WAIT_NEXT"
      BY <3>1, <3>2, ZenonT(40) DEF ReducerTypeOK
    <3>5. QED  BY <3>1, <3>3, <3>4 DEF DoneBefore
  <2>3. QED  BY <2>1, <2>2
<1>5. /\ mappers' = mappers /\ reducers' = reducers /\ status' = status
      /\ reducers_done' = reducers_done /\ outbuff' = outbuff
  BY <1>1 DEF clientVars, mapperVars
<1>6. QED  BY <1>1, <1>3, <1>4, <1>5, NothingMoves
-----------------------------------------------------------------------------
(* Data are routed to those they are meant for. *)
LEMMA Reaches ==
  ASSUME TypeInv, SubscribedInv, OrderInv, AllParts, ~late, NEW n \in Node,
         up[n] # <<>>
  PROVE  LET h == Head(up[n])
         IN /\ Is(h, MAP_DATATYPE) =>
                 /\ n = Client
                 /\ \E w \in mappers : w[2] = h.dst /\ Subscribers(h) = {w}
            /\ Is(h, REDUCE_DATATYPE) =>
                 /\ n \in mappers
                 /\ Subscribers(h) = {v \in reducers : v[2] = h.dst}
            /\ Is(h, RESULT_DATATYPE) =>
                 n \in reducers /\ Subscribers(h) = {Client}
<1> DEFINE h == Head(up[n])
<1>1. /\ up[n] \in Seq(Message) /\ 1 \in DOMAIN up[n] /\ h = up[n][1]
      /\ h \in ToSet(up[n]) /\ h \in Message
  <2>1. up[n] \in Seq(Message) /\ 1 \in DOMAIN up[n] /\ h = up[n][1]
    BY QueueTypes
  <2>2. QED  BY <2>1 DEF ToSet
<1>2. Proper(h) /\ SentBy(n, h) /\ (Serving(h) => Ahead(n, 1))
  BY <1>1 DEF SubscribedInv, UpProper, AllParts, PartsOf
<1> HIDE DEF h
<1>3. Serving(h) => Required \subseteq subs
  BY <1>2 DEF Ahead
<1>4. /\ mappers \subseteq Mapper /\ reducers \subseteq Reducer
      /\ Mapper \cap Reducer = {}
      /\ \A w \in Mapper : w \in Worker /\ codetype(w) = MAP_CODETYPE
                           /\ datatype(w) = MAP_DATATYPE
      /\ \A w \in Reducer : w \in Worker /\ codetype(w) = REDUCE_CODETYPE
                            /\ datatype(w) = REDUCE_DATATYPE
  BY Roles DEF TypeInv, TypeOK, ClientTypeOK, Worker, codetype, datatype
<1>5. /\ Sub(Client, RESULT_DATATYPE, NoDst) \in Required
      /\ \A w \in mappers : Sub(w, MAP_DATATYPE, w[2]) \in Required
      /\ \A w \in reducers : Sub(w, REDUCE_DATATYPE, w[2]) \in Required
  BY <1>4, RequestedSubs DEF Required
<1>6. \A x \in Subscribers(h) :
        \/ x \in Worker /\ h.type = JOB_ADVERTISE
        \/ x = Client /\ h.type \in {JOB_REQUEST, RESULT_DATATYPE}
        \/ x \in Joined /\ x \in Worker /\ h.type = codetype(x)
        \/ x \in Joined /\ x \in Worker /\ h.type = datatype(x) /\ x[2] = h.dst
  BY Addressees DEF OrderInv
<1>7. \A x \in Joined : \/ x \in mappers /\ x \in Mapper
                        \/ x \in reducers /\ x \in Reducer
  BY <1>4 DEF Joined
<1>8. ASSUME Is(h, MAP_DATATYPE)
      PROVE  /\ n = Client
             /\ \E w \in mappers : w[2] = h.dst /\ Subscribers(h) = {w}
  <2>1. Serving(h) /\ n = Client
    BY <1>2, <1>8, DataServe DEF SentBy, DataTypes
  <2>2. PICK w \in mappers : w[2] = h.dst
    BY <1>2, <1>8 DEF Proper, Is
  <2>3. w \in Subscribers(h)
    <3> DEFINE s == Sub(w, MAP_DATATYPE, w[2])
    <3>1. s \in subs
      BY <1>3, <1>5, <2>1
    <3>2. s.node = w /\ Matches(s, h)
      BY <1>8, <2>2 DEF Matches, Sub, Is
    <3>3. QED  BY <3>1, <3>2 DEF Subscribers
  <2>4. ASSUME NEW x \in Subscribers(h)
        PROVE  x = w
    <3>1. x \in mappers /\ x[2] = h.dst
      BY <1>4, <1>6, <1>7, <1>8 DEF Is, MAP_CODETYPE, REDUCE_CODETYPE,
        MAP_DATATYPE, REDUCE_DATATYPE, RESULT_DATATYPE, JOB_REQUEST,
        JOB_ADVERTISE
    <3>2. QED  BY <1>4, <2>2, <3>1 DEF Mapper
  <2>5. QED  BY <2>1, <2>2, <2>3, <2>4
<1>9. ASSUME Is(h, REDUCE_DATATYPE)
      PROVE  /\ n \in mappers
             /\ Subscribers(h) = {v \in reducers : v[2] = h.dst}
  <2>1. Serving(h) /\ n \in mappers
    BY <1>2, <1>9, DataServe DEF SentBy, DataTypes
  <2>2. ASSUME NEW v \in reducers, v[2] = h.dst
        PROVE  v \in Subscribers(h)
    <3> DEFINE s == Sub(v, REDUCE_DATATYPE, v[2])
    <3>1. s \in subs
      BY <1>3, <1>5, <2>1
    <3>2. s.node = v /\ Matches(s, h)
      BY <1>9, <2>2 DEF Matches, Sub, Is
    <3>3. QED  BY <3>1, <3>2 DEF Subscribers
  <2>3. \A x \in Subscribers(h) : x \in reducers /\ x[2] = h.dst
    BY <1>4, <1>6, <1>7, <1>9 DEF Is, MAP_CODETYPE, REDUCE_CODETYPE,
      MAP_DATATYPE, REDUCE_DATATYPE, RESULT_DATATYPE, JOB_REQUEST,
      JOB_ADVERTISE
  <2>4. QED  BY <2>1, <2>2, <2>3
<1>10. ASSUME Is(h, RESULT_DATATYPE)
       PROVE  n \in reducers /\ Subscribers(h) = {Client}
  <2>1. Serving(h) /\ n \in reducers
    BY <1>2, <1>10, DataServe DEF SentBy, DataTypes
  <2>2. Client \in Subscribers(h)
    BY <1>3, <1>5, <1>10, <2>1 DEF Subscribers, Matches, Sub, Is
  <2>3. \A x \in Subscribers(h) : x = Client
    BY <1>4, <1>6, <1>7, <1>10 DEF Is, MAP_CODETYPE, REDUCE_CODETYPE,
      MAP_DATATYPE, REDUCE_DATATYPE, RESULT_DATATYPE, JOB_REQUEST,
      JOB_ADVERTISE
  <2>4. QED  BY <2>1, <2>2, <2>3
<1>11. QED  BY <1>8, <1>9, <1>10 DEF h

LEMMA RouteMapData ==
  ASSUME TypeInv, TypeInv', SubscribedInv, OrderInv, AllParts, ~late, Accounts,
         NEW n \in Node, RouterNext(n), Is(Head(up[n]), MAP_DATATYPE)
  PROVE  Accounts' /\ Settled
<1> DEFINE h == Head(up[n])
<1>1. /\ UNCHANGED <<mapperVars, reducerVars, clientVars>>
      /\ up[n] \in Seq(Message) /\ up[n] # <<>> /\ h \in Message
      /\ up'[n] = Tail(up[n])
      /\ \A m \in Node : m # n => up'[m] = up[m]
      /\ \A m \in Node :
           \/ /\ down'[m] = down[m]
              /\ h.op = "pub" => m \notin Subscribers(h)
           \/ /\ h.op = "pub" /\ m \in Subscribers(h)
              /\ h \in Publication /\ down'[m] = Append(down[m], h)
  BY RouterMoves
<1>2. PICK w \in mappers : /\ n = Client /\ w[2] = h.dst
                           /\ Subscribers(h) = {w}
  BY <1>1, Reaches
<1>3. /\ h \in DataOf(MAP_DATATYPE) /\ h.op = "pub"
      /\ h \in Ends(MAP_DATATYPE) \/ h \in Data(MAP_DATATYPE)
      /\ ~(h \in Ends(MAP_DATATYPE) /\ h \in Data(MAP_DATATYPE))
      /\ \A t \in {REDUCE_DATATYPE, RESULT_DATATYPE} : h \notin DataOf(t)
  BY <1>1 DEF DataOf, Ends, Data, Is, MAP_DATATYPE, REDUCE_DATATYPE,
    RESULT_DATATYPE
<1> HIDE DEF h
<1>4. /\ mappers \subseteq Mapper /\ reducers \subseteq Reducer
      /\ Mapper \subseteq Node /\ Reducer \subseteq Node /\ Client \in Node
      /\ \A x \in Mapper \cup Reducer : x # Client
      /\ Mapper \cap Reducer = {}
  BY Roles DEF TypeInv, TypeOK, ClientTypeOK, Worker
<1>5. /\ down'[w] = Append(down[w], h) /\ h \in Publication
      /\ \A m \in Node : m # w => down'[m] = down[m]
      /\ \A m \in Mapper \cup Reducer : up'[m] = up[m]
      /\ up'[Client] = Tail(up[Client]) /\ up[Client] \in Seq(Message)
      /\ up[Client] # <<>> /\ down[w] \in Seq(Publication)
      /\ h = Head(up[Client])
  BY <1>1, <1>2, <1>3, <1>4, QueueTypes DEF h
<1>6. \A m \in Node : /\ \A D : SameFor(up[m], up[m], D)
                      /\ \A D : SameFor(down[m], down[m], D)
  BY DEF SameFor
<1>7. ASSUME NEW x \in mappers, x # w
      PROVE  MapperAccount(x)' /\ \A d \in Addressed : Owes(x, d)' = Owes(x, d)
  <2>1. x[2] # w[2]
    BY <1>4, <1>7 DEF Mapper
  <2> DEFINE D == {m \in DataOf(MAP_DATATYPE) : m.dst = x[2]}
  <2>2. h \notin D
    BY <1>2, <2>1
  <2> HIDE DEF D
  <2>3. SameFor(up'[Client], up[Client], D)
    BY <1>5, <2>2, SameForSteps
  <2>4. /\ x \in Mapper /\ MapperAccount(x) /\ reducers' = reducers
        /\ SameFor(down'[x], down[x], DataOf(MAP_DATATYPE))
        /\ SameFor(up'[x], up[x], DataOf(REDUCE_DATATYPE))
        /\ outbuff'[x] = outbuff[x]
    BY <1>1, <1>4, <1>5, <1>6, <1>7 DEF Accounts, mapperVars, clientVars
  <2>5. QED  BY <2>3, <2>4, MapperFrame DEF D
<1>8. MapperAccount(w)' /\ \A d \in Addressed : Owes(w, d)' = Owes(w, d)
  <2> DEFINE E == EndsTo(MAP_DATATYPE, w[2])
             F == Ends(MAP_DATATYPE)
             G == DataTo(MAP_DATATYPE, w[2])
  <2>1. /\ h \in E <=> h \in F
        /\ h \notin F => h \in G
        /\ h \in F => h \notin Data(MAP_DATATYPE)
    BY <1>2, <1>3 DEF EndsTo, DataTo
  <2>2. MapperAccount(w)
    BY DEF Accounts
  <2>3. EndsFor(w) <= 1 /\ Followed(up[Client], G, E)
    BY <2>2 DEF MapperAccount
  <2> HIDE DEF E, F, G
  <2>4. /\ Number(up[Client], E)
             = Number(up'[Client], E) + (IF h \in E THEN 1 ELSE 0)
        /\ Number(down'[w], F) = Number(down[w], F) + (IF h \in F THEN 1 ELSE 0)
        /\ Number(up'[Client], E) \in Nat /\ Number(down[w], F) \in Nat
    <3>1. Number(up[Client], E)
             = Number(up'[Client], E) + (IF h \in E THEN 1 ELSE 0)
      BY <1>5, NumberSteps
    <3>2. Number(down'[w], F)
            = Number(down[w], F) + (IF h \in F THEN 1 ELSE 0)
      BY <1>5, NumberSteps
    <3>3. up'[Client] \in Seq(Message)
      BY <1>5
    <3>4. QED  BY <1>5, <3>1, <3>2, <3>3, NumberType
  <2>5. /\ EndsFor(w)' = EndsFor(w)
        /\ EndsFor(w) = Number(up[Client], E) + Number(down[w], F)
    BY <2>1, <2>4 DEF EndsFor, E, F
  <2>6. \A d : Owes(w, d)' = Owes(w, d)
    BY <1>4, <1>5, <2>5 DEF Owes
  <2>7. Followed(up'[Client], G, E)
    BY <1>5, <2>3, FollowedSteps
  <2>8. \/ Number(up'[Client], E) = 1
        \/ Followed(down'[w], Data(MAP_DATATYPE), F)
    <3>1. CASE h \in F
      BY <1>5, <2>1, <3>1, FollowedAtEnd
    <3>2. CASE h \notin F
      <4>1. Number(up'[Client], E) # 0
        BY <1>5, <2>1, <2>3, <3>2, FollowedAtHead
      <4>2. QED  BY <2>1, <2>3, <2>4, <2>5, <3>2, <4>1
    <3>3. QED  BY <3>1, <3>2
  <2>9. /\ outbuff'[w] = outbuff[w] /\ up'[w] = up[w]
        /\ Addressed' = Addressed /\ Below' = Below
    BY <1>1, <1>4, <1>5 DEF mapperVars, clientVars, Addressed, Below
  <2>10. MapperAccount(w)'
    BY <2>2, <2>5, <2>6, <2>7, <2>8, <2>9 DEF MapperAccount, E, F, G
  <2>11. QED  BY <2>6, <2>10
<1>9. ASSUME NEW v \in reducers
      PROVE  /\ SameFor(down'[v], down[v], DataOf(REDUCE_DATATYPE))
             /\ SameFor(up'[v], up[v], DataOf(RESULT_DATATYPE))
  <2>1. v # w /\ v \in Reducer /\ v \in Node
    BY <1>4
  <2>2. QED  BY <1>5, <1>6, <2>1
<1>10. SameFor(down'[Client], down[Client], DataOf(RESULT_DATATYPE))
  BY <1>4, <1>5, <1>6
<1>11. \A v \in reducers :
        /\ DoneBefore(v)' = DoneBefore(v)
        /\ rState[v] = "WAIT_NEXT" => rState'[v] = "WAIT_NEXT"
        /\ rState'[v] # "EXPECT_CODE" => mapper_count'[v] = Cardinality(mappers)
  BY <1>1, SteadyReducers
<1>12. /\ mappers' = mappers /\ reducers' = reducers /\ status' = status
       /\ reducers_done' = reducers_done
  BY <1>1 DEF clientVars
<1>13. QED  BY <1>7, <1>8, <1>9, <1>10, <1>11, <1>12, MappersOnly

(* A pair or a marker leaves its mapper. *)
LEMMA LeavesMapper ==
  ASSUME TypeInv, Accounts, NEW w \in mappers, up[w] # <<>>,
         Is(Head(up[w]), REDUCE_DATATYPE), mappers' = mappers,
         reducers' = reducers, outbuff' = outbuff,
         up'[w] = Tail(up[w]), down'[w] = down[w],
         up'[Client] = up[Client]
  PROVE  /\ MapperAccount(w)'
         /\ \A d : Owes(w, d) = Owes(w, d)' +
              (IF Head(up[w]) \in EndsTo(REDUCE_DATATYPE, d) THEN 1 ELSE 0)
         /\ \A d : Owes(w, d) \in Nat /\ Owes(w, d)' \in Nat
         /\ \A d \in Addressed :
              Head(up[w]) \in Data(REDUCE_DATATYPE) => Owes(w, d) = 1
<1> DEFINE h == Head(up[w])
           G(d) == EndsTo(REDUCE_DATATYPE, d)
<1>1. /\ w \in Mapper /\ w \in Node
      /\ up[w] \in Seq(Message) /\ up'[w] \in Seq(Message)
      /\ ToSet(up'[w]) \subseteq ToSet(up[w])
  <2>1. w \in Mapper /\ w \in Node
    BY Roles DEF TypeInv, TypeOK, ClientTypeOK
  <2>2. up[w] \in Seq(Message)
    BY <2>1, QueueTypes
  <2>3. ToSet(up[w]) = {Head(up[w])} \cup ToSet(Tail(up[w]))
    BY <2>2, ToSetQueue
  <2>4. QED  BY <2>1, <2>2, <2>3
<1>2. MapperAccount(w)
  BY DEF Accounts
<1> HIDE DEF h, G
<1>3. ASSUME NEW d
      PROVE  /\ Number(up[w], G(d))
                  = Number(up'[w], G(d)) + (IF h \in G(d) THEN 1 ELSE 0)
             /\ Number(up[w], G(d)) \in Nat /\ Number(up'[w], G(d)) \in Nat
  <2> DEFINE S == G(d)
  <2> HIDE DEF S
  <2>1. Number(up[w], S) = Number(up'[w], S) + (IF h \in S THEN 1 ELSE 0)
    BY <1>1, NumberSteps DEF h
  <2>2. Number(up[w], S) \in Nat /\ Number(up'[w], S) \in Nat
    BY <1>1, NumberType
  <2>3. QED  BY <2>1, <2>2 DEF S
<1>4. EndsFor(w)' = EndsFor(w) /\ EndsFor(w) \in Nat
  BY <1>1, CountTypes DEF EndsFor
<1>5. \A d : /\ Owes(w, d) = Owes(w, d)' + (IF h \in G(d) THEN 1 ELSE 0)
             /\ Owes(w, d) = EndsFor(w) + Number(up[w], G(d))
             /\ Owes(w, d)' = EndsFor(w) + Number(up'[w], G(d))
             /\ Owes(w, d) \in Nat /\ Owes(w, d)' \in Nat
  BY <1>3, <1>4 DEF Owes, G
<1>6. Addressed' = Addressed /\ Below' = Below
  BY DEF Addressed, Below
<1>7. ASSUME NEW d \in Addressed
      PROVE  /\ Owes(w, d)' <= 1
             /\ Followed(up[w], Data(REDUCE_DATATYPE), G(d))
                  => Followed(up'[w], Data(REDUCE_DATATYPE), G(d))
             /\ h \in Data(REDUCE_DATATYPE) => Owes(w, d) = 1
  <2>1. Owes(w, d) <= 1
    BY <1>2 DEF MapperAccount
  <2>2. Owes(w, d)' <= 1
    BY <1>5, <2>1
  <2>3. Followed(up[w], Data(REDUCE_DATATYPE), G(d))
          => Followed(up'[w], Data(REDUCE_DATATYPE), G(d))
    BY <1>1, FollowedSteps
  <2>4. ASSUME h \in Data(REDUCE_DATATYPE)
        PROVE  Owes(w, d) = 1
    <3>1. CASE EndsFor(w) = 1
      BY <1>3, <1>5, <2>1, <3>1
    <3>2. CASE Followed(up[w], Data(REDUCE_DATATYPE), G(d))
      <4>1. Number(up'[w], G(d)) # 0
        BY <1>1, <2>4, <3>2, FollowedAtHead DEF h
      <4>2. QED  BY <1>3, <1>4, <1>5, <2>1, <4>1
    <3>3. QED  BY <1>2, <3>1, <3>2 DEF MapperAccount, G
  <2>5. QED  BY <2>2, <2>3, <2>4
<1>8. MapperAccount(w)'
  <2>1. /\ EndsFor(w) <= 1
        /\ \/ Number(up[Client], EndsTo(MAP_DATATYPE, w[2])) = 1
           \/ Followed(down[w], Data(MAP_DATATYPE), Ends(MAP_DATATYPE))
    BY <1>2 DEF MapperAccount
  <2>2. \/ EndsFor(w) = 1
        \/ \A d \in Addressed : Followed(up'[w], Data(REDUCE_DATATYPE), G(d))
    BY <1>2, <1>7 DEF MapperAccount, G
  <2>3. QED
    BY <1>1, <1>2, <1>4, <1>6, <1>7, <2>1, <2>2 DEF MapperAccount, G
<1>9. QED  BY <1>5, <1>7, <1>8 DEF h, G

LEMMA RouteReduceData ==
  ASSUME TypeInv, TypeInv', SubscribedInv, OrderInv, AllParts, ~late, Accounts,
         NEW n \in Node, RouterNext(n), Is(Head(up[n]), REDUCE_DATATYPE)
  PROVE  Accounts' /\ Settled
<1> DEFINE h == Head(up[n])
<1>1. /\ UNCHANGED <<mapperVars, reducerVars, clientVars>>
      /\ up[n] \in Seq(Message) /\ up[n] # <<>> /\ h \in Message
      /\ h \in ToSet(up[n]) /\ up'[n] = Tail(up[n])
      /\ \A m \in Node : m # n => up'[m] = up[m]
      /\ \A m \in Node :
           \/ /\ down'[m] = down[m]
              /\ h.op = "pub" => m \notin Subscribers(h)
           \/ /\ h.op = "pub" /\ m \in Subscribers(h)
              /\ h \in Publication /\ down'[m] = Append(down[m], h)
  BY RouterMoves
<1>2. n \in mappers /\ Subscribers(h) = {v \in reducers : v[2] = h.dst}
  BY <1>1, Reaches
<1>3. /\ h.op = "pub"
      /\ h \in Ends(REDUCE_DATATYPE) \/ h \in Data(REDUCE_DATATYPE)
      /\ ~(h \in Ends(REDUCE_DATATYPE) /\ h \in Data(REDUCE_DATATYPE))
      /\ \A d : h \in EndsTo(REDUCE_DATATYPE, d)
                  <=> h \in Ends(REDUCE_DATATYPE) /\ h.dst = d
  BY <1>1 DEF Ends, Data, EndsTo, Is
<1>4. /\ mappers \subseteq Mapper /\ reducers \subseteq Reducer
      /\ Mapper \subseteq Node /\ Reducer \subseteq Node /\ Client \in Node
      /\ \A x \in Mapper \cup Reducer : x # Client
      /\ Mapper \cap Reducer = {}
  BY Roles DEF TypeInv, TypeOK, ClientTypeOK, Worker
<1>5. /\ mappers' = mappers /\ reducers' = reducers /\ status' = status
      /\ reducers_done' = reducers_done /\ outbuff' = outbuff
  BY <1>1 DEF clientVars, mapperVars
<1>6. /\ up'[Client] = up[Client] /\ down'[Client] = down[Client]
      /\ \A x \in Mapper : down'[x] = down[x]
      /\ \A v \in reducers : up'[v] = up[v]
      /\ \A x \in mappers : x # n => up'[x] = up[x]
      /\ \A v \in reducers :
           IF v[2] = h.dst
           THEN h \in Publication /\ down'[v] = Append(down[v], h)
                           ELSE down'[v] = down[v]
  BY <1>1, <1>2, <1>3, <1>4
<1>7. /\ MapperAccount(n)'
      /\ \A d : Owes(n, d) = Owes(n, d)' +
           (IF h \in EndsTo(REDUCE_DATATYPE, d) THEN 1 ELSE 0)
      /\ \A d : Owes(n, d) \in Nat /\ Owes(n, d)' \in Nat
      /\ \A d \in Addressed : h \in Data(REDUCE_DATATYPE) => Owes(n, d) = 1
  BY <1>1, <1>2, <1>4, <1>5, <1>6, LeavesMapper
<1> HIDE DEF h
<1>8. \A m \in Node : /\ \A D : SameFor(up[m], up[m], D)
                      /\ \A D : SameFor(down[m], down[m], D)
  BY DEF SameFor
<1>9. ASSUME NEW x \in mappers, x # n
      PROVE  MapperAccount(x)' /\ \A d : Owes(x, d)' = Owes(x, d)
  <2>1. x \in Mapper /\ x \in Node
    BY <1>4
  <2> DEFINE D == {m \in DataOf(MAP_DATATYPE) : m.dst = x[2]}
  <2>2. SameFor(up'[Client], up[Client], D)
    BY <1>4, <1>6, <1>8
  <2>3. /\ MapperAccount(x) /\ outbuff'[x] = outbuff[x]
        /\ SameFor(down'[x], down[x], DataOf(MAP_DATATYPE))
        /\ SameFor(up'[x], up[x], DataOf(REDUCE_DATATYPE))
    BY <1>5, <1>6, <1>8, <1>9, <2>1 DEF Accounts
  <2>4. QED  BY <1>5, <2>1, <2>2, <2>3, MapperFrame
<1>10. \A v \in reducers :
         /\ DoneBefore(v)' = DoneBefore(v)
         /\ rState'[v] = rState[v] /\ mapper_count'[v] = mapper_count[v]
         /\ rState'[v] # "EXPECT_CODE" =>
              mapper_count'[v] = Cardinality(mappers)
  BY <1>1, SteadyReducers DEF reducerVars
<1>11. ASSUME NEW v \in reducers, h \notin EndsTo(REDUCE_DATATYPE, v[2])
       PROVE  \A x \in mappers : Owes(x, v[2])' = Owes(x, v[2])
  BY <1>7, <1>9, <1>11
<1>12. Addressed' = Addressed /\ Below' = Below
  BY <1>5 DEF Addressed, Below
<1>13. ASSUME NEW v \in reducers
       PROVE  /\ ReducerAccount(v)' /\ Expected(v)' = Expected(v)
              /\ Number(up'[v], Ends(RESULT_DATATYPE))
                   = Number(up[v], Ends(RESULT_DATATYPE))
  <2>1. v \in Reducer /\ v \in Node /\ ReducerAccount(v)
        /\ down[v] \in Seq(Publication) /\ up'[v] = up[v]
    BY <1>4, <1>6, QueueTypes DEF Accounts
  <2>2. CASE v[2] # h.dst
    <3>1. /\ SameFor(down'[v], down[v], DataOf(REDUCE_DATATYPE))
          /\ SameFor(up'[v], up[v], DataOf(RESULT_DATATYPE))
      BY <1>6, <1>8, <2>1, <2>2
    <3>2. \A x \in mappers : Owes(x, v[2])' = Owes(x, v[2])
      BY <1>3, <1>11, <2>2
    <3>3. QED  BY <1>5, <1>10, <2>1, <3>1, <3>2, ReducerFrame
  <2>3. CASE v[2] = h.dst
    <3> DEFINE F == Ends(REDUCE_DATATYPE)
    <3>1. h \in Publication /\ down'[v] = Append(down[v], h)
      BY <1>6, <2>3
    <3> HIDE DEF F
    <3>2. Number(down'[v], F) = Number(down[v], F) + (IF h \in F THEN 1 ELSE 0)
          /\ Number(down[v], F) \in Nat
      BY <2>1, <3>1, NumberSteps, NumberType
    <3>3. /\ Cardinality(Debtors(v)')
               = Cardinality(Debtors(v)) - (IF h \in F THEN 1 ELSE 0)
          /\ h \notin F => Debtors(v)' # {}
      <4>1. CASE h \in F
        <5>1. v[2] \in Addressed
          <6>1. h.dst \in Below
            BY <1>1, <1>2, <4>1 DEF Accounts, MapperAccount, F
          <6>2. QED  BY <2>3, <6>1 DEF Addressed
        <5>2. Owes(n, v[2]) = 1 /\ Owes(n, v[2])' = 0
          <6>1. Owes(n, v[2]) <= 1
            BY <1>2, <5>1 DEF Accounts, MapperAccount
          <6>2. h \in EndsTo(REDUCE_DATATYPE, v[2])
            BY <1>3, <2>3, <4>1 DEF F
          <6>3. QED  BY <1>7, <6>1, <6>2
        <5>3. \A x \in mappers : x # n => Owes(x, v[2])' = Owes(x, v[2])
          BY <1>9
        <5>4. Debtors(v)' = Debtors(v) \ {n} /\ n \in Debtors(v)
          BY <1>2, <1>5, <1>12, <5>1, <5>2, <5>3 DEF Debtors
        <5>5. IsFiniteSet(Debtors(v)) /\ Cardinality(Debtors(v)) \in Nat
          BY CountTypes
        <5>6. Cardinality(Debtors(v) \ {n}) = Cardinality(Debtors(v)) - 1
          BY <5>4, <5>5, FS_RemoveElement
        <5>7. QED  BY <4>1, <5>4, <5>6
      <4>2. CASE h \notin F
        <5>1. h \in Data(REDUCE_DATATYPE)
              /\ h \notin EndsTo(REDUCE_DATATYPE, v[2])
          BY <1>3, <4>2 DEF F
        <5>2. \A x \in mappers : Owes(x, v[2])' = Owes(x, v[2])
          BY <1>11, <5>1
        <5>3. Debtors(v)' = Debtors(v)
          BY <1>5, <1>12, <5>2 DEF Debtors
        <5>4. n \in Debtors(v)
          BY <1>2, <1>7, <5>1 DEF Debtors
        <5>5. Cardinality(Debtors(v)) \in Nat
          BY CountTypes
        <5>6. QED  BY <4>2, <5>3, <5>4, <5>5
      <4>3. QED  BY <4>1, <4>2
    <3>4. Expected(v)' = Expected(v)
      <4>1. DoneBefore(v)' = DoneBefore(v)
        BY <1>10
      <4>2. DoneBefore(v) \in Nat /\ Cardinality(Debtors(v)) \in Nat
        BY <2>1, CountTypes
      <4>3. /\ Expected(v) = DoneBefore(v) + Number(down[v], F)
                               + Cardinality(Debtors(v))
            /\ Expected(v)' = DoneBefore(v)' + Number(down'[v], F)
                               + Cardinality(Debtors(v)')
        BY DEF Expected, F
      <4>4. QED  BY <3>2, <3>3, <4>1, <4>2, <4>3
    <3>5. Debtors(v)' = {} => Followed(down'[v], Data(REDUCE_DATATYPE), F)
      <4>1. h \in F => h \notin Data(REDUCE_DATATYPE)
        BY <1>3 DEF F
      <4>2. h \in F => Followed(down'[v], Data(REDUCE_DATATYPE), F)
        BY <2>1, <3>1, <4>1, FollowedAtEnd
      <4>3. QED  BY <3>3, <4>2
    <3>6. ReducerAccount(v)'
      BY <1>5, <1>10, <2>1, <3>4, <3>5 DEF ReducerAccount, F
    <3>7. QED  BY <2>1, <3>4, <3>6
  <2>4. QED  BY <2>2, <2>3
<1>14. ClientAccount'
  BY <1>4, <1>5, <1>6, <1>8, <1>13, ClientFrame DEF Accounts
<1>15. \A x \in mappers : MapperAccount(x)'
  BY <1>7, <1>9
<1>16. QED  BY <1>5, <1>13, <1>14, <1>15 DEF Accounts, Settled

(* What has not changed at all. *)
LEMMA MappersStill ==
  ASSUME TypeInv, TypeInv', Accounts, mappers' = mappers,
         reducers' = reducers, outbuff' = outbuff, up'[Client] = up[Client],
         \A w \in mappers : up'[w] = up[w] /\ down'[w] = down[w]
  PROVE  \A w \in mappers :
           MapperAccount(w)' /\ \A d : Owes(w, d)' = Owes(w, d)
<1> SUFFICES ASSUME NEW w \in mappers
             PROVE  MapperAccount(w)' /\ \A d : Owes(w, d)' = Owes(w, d)
  OBVIOUS
<1>1. w \in Mapper /\ MapperAccount(w) /\ outbuff'[w] = outbuff[w]
  BY DEF Accounts, TypeInv, TypeOK, ClientTypeOK
<1>2. \A q, D : SameFor(q, q, D)
  BY DEF SameFor
<1>3. /\ SameFor(up'[Client], up[Client],
                 {m \in DataOf(MAP_DATATYPE) : m.dst = w[2]})
      /\ SameFor(down'[w], down[w], DataOf(MAP_DATATYPE))
      /\ SameFor(up'[w], up[w], DataOf(REDUCE_DATATYPE))
  BY <1>2
<1>4. QED  BY <1>1, <1>3, MapperFrame

LEMMA ReducerStill ==
  ASSUME Accounts, mappers' = mappers, reducers' = reducers,
         \A w \in mappers : \A d : Owes(w, d)' = Owes(w, d),
         NEW v \in reducers, up'[v] = up[v], down'[v] = down[v],
         DoneBefore(v)' = DoneBefore(v), rState'[v] = rState[v],
         mapper_count'[v] = mapper_count[v]
  PROVE  /\ ReducerAccount(v)' /\ Expected(v)' = Expected(v)
         /\ Number(up'[v], Ends(RESULT_DATATYPE))
              = Number(up[v], Ends(RESULT_DATATYPE))
<1>1. \A q, D : SameFor(q, q, D)
  BY DEF SameFor
<1>2. /\ SameFor(down'[v], down[v], DataOf(REDUCE_DATATYPE))
      /\ SameFor(up'[v], up[v], DataOf(RESULT_DATATYPE))
  BY <1>1
<1>3. ReducerAccount(v)
      /\ (rState'[v] # "EXPECT_CODE" => mapper_count'[v] = Cardinality(mappers))
  BY DEF Accounts, ReducerAccount
<1>4. QED  BY <1>2, <1>3, ReducerFrame

LEMMA RouteResult ==
  ASSUME TypeInv, TypeInv', SubscribedInv, OrderInv, AllParts, ~late, Accounts,
         NEW n \in Node, RouterNext(n), Is(Head(up[n]), RESULT_DATATYPE)
  PROVE  Accounts' /\ Settled
<1> DEFINE h == Head(up[n])
           F == Ends(RESULT_DATATYPE)
<1>1. /\ UNCHANGED <<mapperVars, reducerVars, clientVars>>
      /\ up[n] \in Seq(Message) /\ up[n] # <<>> /\ h \in Message
      /\ up'[n] = Tail(up[n])
      /\ \A m \in Node : m # n => up'[m] = up[m]
      /\ \A m \in Node :
           \/ /\ down'[m] = down[m]
              /\ h.op = "pub" => m \notin Subscribers(h)
           \/ /\ h.op = "pub" /\ m \in Subscribers(h)
              /\ h \in Publication /\ down'[m] = Append(down[m], h)
  BY RouterMoves
<1>2. n \in reducers /\ Subscribers(h) = {Client}
  BY <1>1, Reaches
<1>3. /\ h.op = "pub"
      /\ h \in F \/ h \in Data(RESULT_DATATYPE)
      /\ ~(h \in F /\ h \in Data(RESULT_DATATYPE))
  BY <1>1 DEF Ends, Data, Is
<1>4. /\ mappers \subseteq Mapper /\ reducers \subseteq Reducer
      /\ Mapper \subseteq Node /\ Reducer \subseteq Node /\ Client \in Node
      /\ \A x \in Mapper \cup Reducer : x # Client
      /\ Mapper \cap Reducer = {}
  BY Roles DEF TypeInv, TypeOK, ClientTypeOK, Worker
<1>5. /\ mappers' = mappers /\ reducers' = reducers /\ status' = status
      /\ reducers_done' = reducers_done /\ outbuff' = outbuff
  BY <1>1 DEF clientVars, mapperVars
<1>6. /\ up'[Client] = up[Client] /\ down'[Client] = Append(down[Client], h)
      /\ h \in Publication /\ down[Client] \in Seq(Publication)
      /\ \A x \in Mapper \cup Reducer : down'[x] = down[x]
      /\ \A x \in Mapper \cup Reducer : x # n => up'[x] = up[x]
  BY <1>1, <1>2, <1>3, <1>4, QueueTypes
<1> HIDE DEF h, F
<1>7. \A x \in mappers : MapperAccount(x)' /\ \A d : Owes(x, d)' = Owes(x, d)
  <2>1. \A w \in mappers : up'[w] = up[w] /\ down'[w] = down[w]
    BY <1>2, <1>4, <1>6
  <2>2. QED  BY <1>5, <1>6, <2>1, MappersStill
<1>8. \A v \in reducers :
        /\ DoneBefore(v)' = DoneBefore(v)
        /\ rState'[v] = rState[v] /\ mapper_count'[v] = mapper_count[v]
  BY <1>1, SteadyReducers DEF reducerVars
<1>9. ASSUME NEW v \in reducers, v # n
      PROVE  /\ ReducerAccount(v)' /\ Expected(v)' = Expected(v)
             /\ Number(up'[v], F) = Number(up[v], F)
  <2>1. up'[v] = up[v] /\ down'[v] = down[v]
    BY <1>4, <1>6, <1>9
  <2>2. QED  BY <1>5, <1>7, <1>8, <2>1, ReducerStill DEF F
<1>10. /\ ReducerAccount(n) /\ Number(up[n], F) <= 1
       /\ Number(up[n], F) = 1 => Expected(n) = 0
       /\ Followed(up[n], Data(RESULT_DATATYPE), F)
  BY <1>2 DEF Accounts, ReducerAccount, F
<1>11. /\ Number(up[n], F) = Number(up'[n], F) + (IF h \in F THEN 1 ELSE 0)
       /\ Number(up[n], F) \in Nat /\ Number(up'[n], F) \in Nat
  <2>1. Number(up[n], F) = Number(up'[n], F) + (IF h \in F THEN 1 ELSE 0)
    BY <1>1, NumberSteps DEF h
  <2>2. up'[n] \in Seq(Message)
    BY <1>1
  <2>3. QED  BY <1>1, <2>1, <2>2, NumberType
<1>12. Expected(n)' = Expected(n)
  <2>1. Addressed' = Addressed
    BY <1>5 DEF Addressed, Below
  <2>2. Debtors(n)' = Debtors(n)
    BY <1>5, <1>7, <2>1 DEF Debtors
  <2>3. down'[n] = down[n]
    BY <1>2, <1>4, <1>6
  <2>4. QED  BY <1>2, <1>8, <2>2, <2>3 DEF Expected
<1>13. ReducerAccount(n)'
  <2>1. Followed(up'[n], Data(RESULT_DATATYPE), F)
    BY <1>1, <1>10, FollowedSteps
  <2>2. /\ Number(up'[n], F) <= 1
        /\ Number(up'[n], F) = 1 => Expected(n)' = 0
    BY <1>10, <1>11, <1>12
  <2>3. down'[n] = down[n] /\ Debtors(n)' = Debtors(n)
    <3>1. Addressed' = Addressed
      BY <1>5 DEF Addressed, Below
    <3>2. QED  BY <1>2, <1>4, <1>5, <1>6, <1>7, <3>1 DEF Debtors
  <2>4. QED
    BY <1>2, <1>5, <1>8, <1>10, <1>12, <2>1, <2>2, <2>3 DEF ReducerAccount, F
<1>14. ClientAccount'
  <2>1. /\ Number(down'[Client], F)
             = Number(down[Client], F) + (IF h \in F THEN 1 ELSE 0)
        /\ Number(down[Client], F) \in Nat
    BY <1>6, NumberSteps, NumberType
  <2>2. /\ Cardinality(Reporting')
             = Cardinality(Reporting) - (IF h \in F THEN 1 ELSE 0)
        /\ h \notin F => Reporting' # {}
        /\ Cardinality(Reporting) \in Nat
    <3>1. IsFiniteSet(Reporting) /\ Cardinality(Reporting) \in Nat
      BY CountTypes
    <3>2. CASE h \in F
      <4>1. /\ Number(up[n], F) = 1 /\ Number(up'[n], F) = 0
            /\ Expected(n)' = 0
        BY <1>10, <1>11, <1>12, <3>2
      <4>2. n \in Reporting /\ Reporting' = Reporting \ {n}
        BY <1>2, <1>5, <1>9, <4>1 DEF Reporting, F
      <4>3. Cardinality(Reporting \ {n}) = Cardinality(Reporting) - 1
        BY <3>1, <4>2, FS_RemoveElement
      <4>4. QED  BY <3>1, <3>2, <4>2, <4>3
    <3>3. CASE h \notin F
      <4>1. Number(up'[n], F) # 0
        BY <1>1, <1>3, <1>10, <3>3, FollowedAtHead DEF h
      <4>2. Number(up'[n], F) = 1 /\ Number(up[n], F) = 1
        BY <1>10, <1>11, <3>3, <4>1
      <4>3. n \in Reporting /\ Reporting' = Reporting
        BY <1>2, <1>5, <1>9, <1>12, <4>2 DEF Reporting, F
      <4>4. QED  BY <3>1, <3>3, <4>3
    <3>4. QED  BY <3>2, <3>3
  <2>3. Reporting' = {} => Followed(down'[Client], Data(RESULT_DATATYPE), F)
    <3>1. h \in F => Followed(down'[Client], Data(RESULT_DATATYPE), F)
      BY <1>3, <1>6, FollowedAtEnd
    <3>2. QED  BY <2>2, <3>1
  <2>4. ClientAccount /\ reducers_done \in Nat
    BY DEF Accounts, TypeInv, TypeOK, ClientTypeOK
  <2>5. QED  BY <1>5, <2>1, <2>2, <2>3, <2>4 DEF ClientAccount, F
<1>15. \A v \in reducers : ReducerAccount(v)'
  BY <1>9, <1>13
<1>16. Settled
  BY <1>9, <1>12 DEF Settled
<1>17. QED  BY <1>5, <1>7, <1>14, <1>15, <1>16 DEF Accounts
-----------------------------------------------------------------------------
(* A mapper reads, and sends what is for reducers. *)
LEMMA MapperMoves ==
  ASSUME TypeInv, TypeInv', Accounts, NEW w \in mappers, Receive(w),
         UNCHANGED <<reducerVars, clientVars>>,
         NEW out \in Seq(Message), Send(w, out),
         \A x \in mappers : x # w => outbuff'[x] = outbuff[x],
         MapperAccount(w)', \A d \in Addressed : Owes(w, d)' = Owes(w, d)
  PROVE  Accounts' /\ Settled
<1>1. /\ mappers \subseteq Mapper /\ reducers \subseteq Reducer
      /\ Mapper \subseteq Node /\ Reducer \subseteq Node /\ Client \in Node
      /\ \A x \in Mapper \cup Reducer : x # Client
      /\ Mapper \cap Reducer = {}
  BY Roles DEF TypeInv, TypeOK, ClientTypeOK, Worker
<1>2. /\ \A n \in Node : n # w => down'[n] = down[n]
      /\ \A n \in Node : n # w => up'[n] = up[n]
  <2>1. w \in Node
    BY <1>1
  <2>2. QED  BY <2>1, NodeMoves
<1>3. \A q, D : SameFor(q, q, D)
  BY DEF SameFor
<1>4. /\ mappers' = mappers /\ reducers' = reducers /\ status' = status
      /\ reducers_done' = reducers_done
  BY DEF clientVars
<1>5. ASSUME NEW x \in mappers, x # w
      PROVE  MapperAccount(x)' /\ \A d \in Addressed : Owes(x, d)' = Owes(x, d)
  <2>1. x \in Mapper /\ MapperAccount(x) /\ outbuff'[x] = outbuff[x]
    BY <1>1, <1>5 DEF Accounts
  <2>2. up'[x] = up[x] /\ down'[x] = down[x] /\ up'[Client] = up[Client]
    BY <1>1, <1>2, <1>5
  <2>3. /\ SameFor(up'[Client], up[Client],
                   {m \in DataOf(MAP_DATATYPE) : m.dst = x[2]})
        /\ SameFor(down'[x], down[x], DataOf(MAP_DATATYPE))
        /\ SameFor(up'[x], up[x], DataOf(REDUCE_DATATYPE))
    BY <1>3, <2>2
  <2>4. QED  BY <1>4, <2>1, <2>3, MapperFrame
<1>6. \A v \in reducers :
        /\ SameFor(down'[v], down[v], DataOf(REDUCE_DATATYPE))
        /\ SameFor(up'[v], up[v], DataOf(RESULT_DATATYPE))
  <2>1. \A v \in reducers : up'[v] = up[v] /\ down'[v] = down[v]
    BY <1>1, <1>2
  <2>2. QED  BY <1>3, <2>1
<1>7. SameFor(down'[Client], down[Client], DataOf(RESULT_DATATYPE))
  <2>1. down'[Client] = down[Client]
    BY <1>1, <1>2
  <2>2. QED  BY <1>3, <2>1
<1>8. \A v \in reducers :
        /\ DoneBefore(v)' = DoneBefore(v)
        /\ rState[v] = "WAIT_NEXT" => rState'[v] = "WAIT_NEXT"
        /\ rState'[v] # "EXPECT_CODE" => mapper_count'[v] = Cardinality(mappers)
  BY SteadyReducers
<1>9. \A x \in mappers : /\ MapperAccount(x)'
                         /\ \A d \in Addressed : Owes(x, d)' = Owes(x, d)
  BY <1>5
<1>10. QED  BY <1>4, <1>6, <1>7, <1>8, <1>9, MappersOnly

(* Data behind other data. *)
LEMMA MapDataAccounts ==
  ASSUME TypeInv, TypeInv', SubscribedInv, AllParts, ~late, Accounts,
         NEW w \in Mapper, MapperNext(w), MapData(w)
  PROVE  Accounts' /\ Settled
<1> DEFINE h == Head(down[w])
           E == EndsTo(MAP_DATATYPE, w[2])
           F == Ends(MAP_DATATYPE)
<1>1. /\ w \in Node /\ w # Client /\ Client \in Node /\ Receive(w)
      /\ UNCHANGED <<reducerVars, clientVars>> /\ MapperTypeOK
      /\ mState[w] # "EXPECT_CODE" /\ h.type = MAP_DATATYPE /\ ~h.body.end
  BY Roles DEF MapperNext, MapData, TakesMapData, TakesData, TypeInv, TypeOK,
    Worker
<1>2. w \in mappers
  BY <1>1 DEF AllParts, HoldsPairs
<1>3. /\ h \in Publication /\ h \in Message /\ h.op = "pub"
      /\ down[w] \in Seq(Publication) /\ down[w] # <<>>
  BY <1>1, NodeHead
<1>4. /\ h \in Data(MAP_DATATYPE) /\ h \notin F
      /\ h.body.header \in 1..MaxRounds /\ h.body.line \in Seq(Items)
  BY <1>1, <1>3, BodyTypes, PairBody DEF Data, Ends, Is
<1> DEFINE o == MapOutput(w, h.body.header, h.body.line)
<1>5. \/ /\ Send(w, o) /\ outbuff' = outbuff
      \/ /\ up' = up
         /\ outbuff' = [outbuff EXCEPT ![w] =
              store_output(outbuff[w], Pushed(h.body.header, h.body.line))]
  BY DEF MapData
<1>6. o \in Seq(Message) /\ \A m \in ToSet(o) : m \notin Ends(REDUCE_DATATYPE)
  <2>1. reducer_count[w] > 0
    <3>1. ValidCount(reducer_count[w])
      BY <1>1 DEF TypeInv, CountsTaken
    <3>2. QED  BY <3>1 DEF ValidCount
  <2>2. o \in Seq(MapperMessage(w))
    BY <1>1, <1>4, <2>1, MapOutputType DEF MapperTypeOK
  <2>3. ASSUME NEW m \in ToSet(o)
        PROVE  ~m.body.end
    <3>1. PICK j \in 1..Len(h.body.line) :
            m = ToReducer(w, MapKey(h.body.header, h.body.line[j]),
                          One(h.body.line[j]))
      BY DEF ToSet, MapOutput
    <3>2. QED  BY <3>1 DEF ToReducer, Pub, Pair
  <2>4. QED  BY <2>2, <2>3, SentAreMessages DEF Ends
<1> HIDE DEF o
<1>7. PICK out \in {o, <<>>} : Send(w, out)
  <2>1. up' = up => Send(w, <<>>)
    BY <1>1, NodeReads
  <2>2. QED  BY <1>5, <2>1
<1>8. /\ out \in Seq(Message)
      /\ \A m \in ToSet(out) : m \notin Ends(REDUCE_DATATYPE)
  BY <1>6, <1>7, NothingSent
<1>9. /\ down'[w] = Tail(down[w])
      /\ up[w] \in Seq(Message) /\ up'[w] = up[w] \o out
      /\ ToSet(up'[w]) = ToSet(up[w]) \cup ToSet(out)
      /\ \A n \in Node : n # w => up'[n] = up[n]
  BY <1>1, <1>7, <1>8, NodeMoves
<1> HIDE DEF h, E, F
<1>10. MapperAccount(w)
  BY <1>2 DEF Accounts
<1>11. /\ Number(down[w], F) = Number(down'[w], F)
       /\ Number(down[w], F) \in Nat /\ Number(up[Client], E) \in Nat
  <2>1. Number(down[w], F) = Number(down'[w], F) + 0
    BY <1>3, <1>4, <1>9, NumberSteps DEF h
  <2>2. down'[w] \in Seq(Publication)
    BY <1>3, <1>9
  <2>3. Number(down'[w], F) \in Nat
    BY <2>2, NumberType
  <2>4. Number(up[Client], E) \in Nat
    BY <1>1, CountTypes
  <2>5. QED  BY <2>1, <2>3, <2>4
<1>12. EndsFor(w) = 1 /\ EndsFor(w)' = 1
  <2>1. /\ EndsFor(w) = Number(up[Client], E) + Number(down[w], F)
        /\ EndsFor(w)' = EndsFor(w) /\ EndsFor(w) <= 1
        /\ \/ Number(up[Client], E) = 1
           \/ Followed(down[w], Data(MAP_DATATYPE), F)
    BY <1>1, <1>9, <1>10, <1>11 DEF EndsFor, MapperAccount, E, F
  <2>2. Followed(down[w], Data(MAP_DATATYPE), F) => Number(down'[w], F) # 0
    BY <1>3, <1>4, <1>9, FollowedAtHead DEF h
  <2>3. QED  BY <1>11, <2>1, <2>2
<1>13. \A d : Owes(w, d)' = Owes(w, d)
  <2>1. ASSUME NEW d
        PROVE  Number(up'[w], EndsTo(REDUCE_DATATYPE, d))
                 = Number(up[w], EndsTo(REDUCE_DATATYPE, d))
    <3> DEFINE S == EndsTo(REDUCE_DATATYPE, d)
    <3>1. S \subseteq Ends(REDUCE_DATATYPE)
      BY DEF EndsTo
    <3> HIDE DEF S
    <3>2. Number(out, S) = 0
      BY <1>8, <3>1, NumberType
    <3>3. Number(up'[w], S) = Number(up[w], S) + Number(out, S)
      BY <1>8, <1>9, NumberConcat
    <3>4. Number(up[w], S) \in Nat
      BY <1>9, NumberType
    <3>5. QED  BY <3>2, <3>3, <3>4 DEF S
  <2>2. QED  BY <1>12, <2>1 DEF Owes
<1>14. MapperAccount(w)'
  <2>1. Addressed' = Addressed /\ Below' = Below
    BY <1>1 DEF Addressed, Below, clientVars
  <2>2. Followed(down[w], Data(MAP_DATATYPE), F)
          => Followed(down'[w], Data(MAP_DATATYPE), F)
    BY <1>3, <1>9, FollowedSteps
  <2>3. up'[Client] = up[Client]
    BY <1>1, <1>9
  <2>4. \A m \in ToSet(up'[w]) : m \in Ends(REDUCE_DATATYPE) => m.dst \in Below
    BY <1>8, <1>9, <1>10 DEF MapperAccount
  <2>5. QED
    BY <1>10, <1>12, <1>13, <2>1, <2>2, <2>3, <2>4 DEF MapperAccount, E, F
<1>15. \A x \in mappers : x # w => outbuff'[x] = outbuff[x]
  BY <1>1, <1>5 DEF MapperTypeOK, TypeInv, TypeOK, ClientTypeOK
<1>16. QED  BY <1>1, <1>2, <1>7, <1>8, <1>13, <1>14, <1>15, MapperMoves

(* The marker of a round is answered by one to each reducer. *)
LEMMA MarkersCount ==
  ASSUME NEW w \in Mapper, MapperTypeOK
  PROVE  /\ MarkersToReducers(w) \in Seq(Message)
         /\ \A m \in ToSet(MarkersToReducers(w)) :
              /\ m \in Ends(REDUCE_DATATYPE)
              /\ m.dst \in 0..(reducer_count[w] - 1)
         /\ \A d \in 0..(reducer_count[w] - 1) :
              Number(MarkersToReducers(w), EndsTo(REDUCE_DATATYPE, d)) = 1
<1> DEFINE q == MarkersToReducers(w)
           n == reducer_count[w]
<1>1. n \in Nat
  BY DEF MapperTypeOK
<1>2. q \in Seq(Message)
  BY MarkersType, SentAreMessages DEF MapperTypeOK
<1>3. DOMAIN q = 1..n /\ \A i \in 1..n :
        q[i] = Pub(REDUCE_DATATYPE, i - 1, EndOfRound)
  BY DEF MarkersToReducers
<1> HIDE DEF q, n
<1>4. ASSUME NEW i \in 1..n
      PROVE  /\ q[i] \in Ends(REDUCE_DATATYPE)
             /\ q[i].dst = i - 1
  <2>1. q[i] \in Message
    <3>1. i \in DOMAIN q
      BY <1>3
    <3>2. QED  BY <1>2, <3>1
  <2>2. QED  BY <1>3, <2>1 DEF Ends, Is, Pub, EndOfRound
<1>5. \A m \in ToSet(q) : m \in Ends(REDUCE_DATATYPE) /\ m.dst \in 0..(n - 1)
  BY <1>1, <1>3, <1>4 DEF ToSet
<1>6. ASSUME NEW d \in 0..(n - 1)
      PROVE  Number(q, EndsTo(REDUCE_DATATYPE, d)) = 1
  <2>1. d + 1 \in 1..n /\ \A i \in 1..n : i - 1 = d <=> i = d + 1
    BY <1>1
  <2>2. Places(q, EndsTo(REDUCE_DATATYPE, d)) = {d + 1}
    BY <1>3, <1>4, <2>1 DEF Places, EndsTo
  <2>3. QED  BY <2>2, FS_Singleton DEF Number
<1>7. QED  BY <1>2, <1>5, <1>6 DEF q, n

LEMMA FlushCount ==
  ASSUME TypeInv, NEW w \in Mapper, Sorted(outbuff[w]),
         mState[w] # "EXPECT_CODE",
         reducer_count[w] = Cardinality(reducers)
  PROVE  /\ flush_output(w) \in Seq(Message)
         /\ \A m \in ToSet(flush_output(w)) : m \notin Ends(REDUCE_DATATYPE)
<1>1. MapperTypeOK /\ reducer_count[w] > 0
  <2>1. MapperTypeOK
    BY DEF TypeInv, TypeOK
  <2>2. reducer_count[w] > 0
    <3>1. ValidCount(reducer_count[w])
      BY DEF TypeInv, CountsTaken
    <3>2. QED  BY <3>1 DEF ValidCount
  <2>3. QED  BY <2>1, <2>2
<1>2. flush_output(w) \in Seq(Message)
  BY <1>1, FlushType, SentAreMessages DEF MapperTypeOK
<1>3. \A m \in ToSet(flush_output(w)) : m \notin Ends(REDUCE_DATATYPE)
  BY InFlush DEF Ends
<1>4. QED  BY <1>2, <1>3

LEMMA FinishAccounts ==
  ASSUME TypeInv, TypeInv', SubscribedInv, AllParts, ~late, Accounts,
         NEW w \in Mapper, MapperNext(w), finish_round(w)
  PROVE  Accounts' /\ Settled
<1> DEFINE h == Head(down[w])
           E == EndsTo(MAP_DATATYPE, w[2])
           F == Ends(MAP_DATATYPE)
           p == flush_output(w)
           q == MarkersToReducers(w)
<1>1. /\ w \in Node /\ w # Client /\ Client \in Node /\ Receive(w)
      /\ UNCHANGED <<reducerVars, clientVars>> /\ MapperTypeOK
      /\ mState[w] # "EXPECT_CODE" /\ h.type = MAP_DATATYPE /\ h.body.end
      /\ Send(w, p \o q) /\ outbuff' = [outbuff EXCEPT ![w] = NoPairs]
  BY Roles DEF MapperNext, finish_round, TakesMapData, TakesData, TypeInv,
    TypeOK, Worker
<1>2. w \in mappers /\ Sorted(outbuff[w])
  BY <1>1 DEF AllParts, HoldsPairs
<1>3. /\ h \in Publication /\ h \in Message /\ h.op = "pub"
      /\ down[w] \in Seq(Publication) /\ down[w] # <<>>
  BY <1>1, NodeHead
<1>4. h \in F
  BY <1>1, <1>3 DEF Ends, Is
<1>5. reducer_count[w] = Cardinality(reducers)
  BY <1>1 DEF SubscribedInv, WorkersServed
<1>6. /\ p \in Seq(Message) /\ q \in Seq(Message)
      /\ \A m \in ToSet(p) : m \notin Ends(REDUCE_DATATYPE)
      /\ \A m \in ToSet(q) : m \in Ends(REDUCE_DATATYPE) /\ m.dst \in Below
      /\ \A d \in Below : Number(q, EndsTo(REDUCE_DATATYPE, d)) = 1
  BY <1>1, <1>2, <1>5, FlushCount, MarkersCount DEF Below
<1> HIDE DEF h, E, F, p, q
<1>7. p \o q \in Seq(Message) /\ ToSet(p \o q) = ToSet(p) \cup ToSet(q)
  BY <1>6, Together
<1>8. /\ down'[w] = Tail(down[w])
      /\ up[w] \in Seq(Message) /\ up'[w] = up[w] \o (p \o q)
      /\ ToSet(up'[w]) = ToSet(up[w]) \cup ToSet(p \o q)
      /\ \A n \in Node : n # w => up'[n] = up[n]
  <2> DEFINE r == p \o q
  <2>1. r \in Seq(Message) /\ Send(w, r)
    BY <1>1, <1>7
  <2> HIDE DEF r
  <2>2. /\ down'[w] = Tail(down[w])
        /\ up[w] \in Seq(Message) /\ up'[w] = up[w] \o r
        /\ ToSet(up'[w]) = ToSet(up[w]) \cup ToSet(r)
        /\ \A n \in Node : n # w => up'[n] = up[n]
    BY <1>1, <2>1, NodeMoves
  <2>3. QED  BY <2>2 DEF r
<1>9. MapperAccount(w)
  BY <1>2 DEF Accounts
<1>10. /\ Number(down[w], F) = Number(down'[w], F) + 1
       /\ Number(down'[w], F) \in Nat /\ Number(up[Client], E) \in Nat
  <2>1. Number(down[w], F) = Number(down'[w], F) + 1
    BY <1>3, <1>4, <1>8, NumberSteps DEF h
  <2>2. down'[w] \in Seq(Publication)
    BY <1>3, <1>8
  <2>3. Number(down'[w], F) \in Nat
    BY <2>2, NumberType
  <2>4. Number(up[Client], E) \in Nat
    BY <1>1, CountTypes
  <2>5. QED  BY <2>1, <2>3, <2>4
<1>11. /\ EndsFor(w) = 1 /\ EndsFor(w)' = 0
       /\ Followed(down'[w], Data(MAP_DATATYPE), F)
  <2>1. /\ EndsFor(w) = Number(up[Client], E) + Number(down[w], F)
        /\ EndsFor(w)' = Number(up[Client], E) + Number(down'[w], F)
        /\ EndsFor(w) <= 1
        /\ \/ Number(up[Client], E) = 1
           \/ Followed(down[w], Data(MAP_DATATYPE), F)
    BY <1>1, <1>8, <1>9 DEF EndsFor, MapperAccount, E, F
  <2>2. /\ EndsFor(w) = 1 /\ EndsFor(w)' = 0
        /\ Followed(down[w], Data(MAP_DATATYPE), F)
    BY <1>10, <2>1
  <2>3. QED  BY <1>3, <1>8, <2>2, FollowedSteps
<1>12. Addressed' = Addressed /\ Below' = Below /\ Addressed \subseteq Below
  BY <1>1 DEF Addressed, Below, clientVars
<1>13. ASSUME NEW d \in Addressed
       PROVE  /\ Owes(w, d)' = Owes(w, d) /\ Owes(w, d)' <= 1
              /\ Followed(up'[w], Data(REDUCE_DATATYPE),
                          EndsTo(REDUCE_DATATYPE, d))
  <2> DEFINE S == EndsTo(REDUCE_DATATYPE, d)
             T == Data(REDUCE_DATATYPE)
             r == p \o q
  <2>1. Number(q, S) = 1 /\ S \subseteq Ends(REDUCE_DATATYPE)
        /\ T \cap Ends(REDUCE_DATATYPE) = {}
    BY <1>6, <1>12 DEF EndsTo, Ends, Data
  <2>2. /\ Owes(w, d) = EndsFor(w) + Number(up[w], S)
        /\ Owes(w, d)' = EndsFor(w)' + Number(up'[w], S)
        /\ Owes(w, d) <= 1
    BY <1>9 DEF Owes, MapperAccount
  <2>3. r \in Seq(Message) /\ up'[w] = up[w] \o r
    BY <1>7, <1>8
  <2> HIDE DEF S, T
  <2>4. Number(p, S) = 0
    BY <1>6, <2>1, NumberType
  <2>5. Number(r, S) = 1 /\ Followed(r, T, S)
    <3>1. Number(r, S) = Number(p, S) + Number(q, S)
      BY <1>6, NumberConcat
    <3>2. Followed(q, T, S)
      BY <1>6, <2>1, NoneOf DEF Followed, ToSet
    <3>3. Followed(r, T, S)
      BY <1>6, <2>1, <3>2, FollowedSteps
    <3>4. QED  BY <2>1, <2>4, <3>1, <3>3
  <2> HIDE DEF r
  <2>6. Number(up'[w], S) = Number(up[w], S) + 1 /\ Number(up[w], S) \in Nat
    <3>1. Number(up[w] \o r, S) = Number(up[w], S) + Number(r, S)
      BY <1>8, <2>3, NumberConcat
    <3>2. Number(up[w], S) \in Nat
      BY <1>8, NumberType
    <3>3. QED  BY <2>3, <2>5, <3>1, <3>2
  <2>7. Followed(up'[w], T, S)
    <3>1. Number(r, S) # 0
      BY <2>5
    <3>2. QED  BY <1>8, <2>3, <2>5, <3>1, FollowedSteps
  <2>8. QED  BY <1>11, <2>2, <2>6, <2>7 DEF S, T
<1>14. MapperAccount(w)'
  <2>1. outbuff'[w] = NoPairs
    BY <1>1 DEF MapperTypeOK
  <2>2. up'[Client] = up[Client]
    BY <1>1, <1>8
  <2>3. \A m \in ToSet(up'[w]) : m \in Ends(REDUCE_DATATYPE) => m.dst \in Below
    BY <1>6, <1>7, <1>8, <1>9 DEF MapperAccount
  <2>4. QED
    BY <1>9, <1>11, <1>12, <1>13, <2>1, <2>2, <2>3 DEF MapperAccount, E, F
<1>15. \A x \in mappers : x # w => outbuff'[x] = outbuff[x]
  BY <1>1 DEF MapperTypeOK, TypeInv, TypeOK, ClientTypeOK
<1>16. \A d \in Addressed : Owes(w, d)' = Owes(w, d)
  BY <1>13
<1>17. QED  BY <1>1, <1>2, <1>7, <1>14, <1>15, <1>16, MapperMoves
-----------------------------------------------------------------------------
(* A reducer reads, and sends results. *)
LEMMA ReducerKeepsDebts ==
  ASSUME TypeInv, TypeInv', Accounts, NEW v \in reducers, Receive(v),
         UNCHANGED <<mapperVars, clientVars>>,
         NEW out \in Seq(Message), Send(v, out)
  PROVE  /\ \A w \in mappers :
              MapperAccount(w)' /\ \A d : Owes(w, d)' = Owes(w, d)
         /\ \A x : Debtors(x)' = Debtors(x)
         /\ \A x \in reducers : x # v => up'[x] = up[x] /\ down'[x] = down[x]
         /\ down'[Client] = down[Client]
<1>1. /\ mappers \subseteq Mapper /\ reducers \subseteq Reducer
      /\ Mapper \subseteq Node /\ Reducer \subseteq Node /\ Client \in Node
      /\ \A x \in Mapper \cup Reducer : x # Client
      /\ Mapper \cap Reducer = {}
  BY Roles DEF TypeInv, TypeOK, ClientTypeOK, Worker
<1>2. /\ \A n \in Node : n # v => down'[n] = down[n]
      /\ \A n \in Node : n # v => up'[n] = up[n]
  <2>1. v \in Node
    BY <1>1
  <2>2. QED  BY <2>1, NodeMoves
<1>3. /\ mappers' = mappers /\ reducers' = reducers /\ outbuff' = outbuff
      /\ up'[Client] = up[Client] /\ down'[Client] = down[Client]
      /\ \A w \in mappers : up'[w] = up[w] /\ down'[w] = down[w]
      /\ \A x \in reducers : x # v => up'[x] = up[x] /\ down'[x] = down[x]
  BY <1>1, <1>2 DEF clientVars, mapperVars
<1>4. \A w \in mappers : MapperAccount(w)' /\ \A d : Owes(w, d)' = Owes(w, d)
  BY <1>3, MappersStill
<1>5. Addressed' = Addressed
  BY <1>3 DEF Addressed, Below
<1>6. \A x : Debtors(x)' = Debtors(x)
  BY <1>3, <1>4, <1>5 DEF Debtors
<1>7. QED  BY <1>3, <1>4, <1>6

LEMMA ReducerMoves ==
  ASSUME TypeInv, TypeInv', Accounts, NEW v \in reducers, Receive(v),
         UNCHANGED <<mapperVars, clientVars>>,
         NEW out \in Seq(Message), Send(v, out),
         \A x \in reducers : x # v =>
           /\ rState'[x] = rState[x] /\ mapper_count'[x] = mapper_count[x]
           /\ mappers_done'[x] = mappers_done[x],
         ReducerAccount(v)', Expected(v) = 0 => Expected(v)' = 0,
         Expected(v)' # 0 \/ Number(up'[v], Ends(RESULT_DATATYPE)) = 1
           <=> Expected(v) # 0 \/ Number(up[v], Ends(RESULT_DATATYPE)) = 1
  PROVE  Accounts' /\ Settled
<1>1. /\ \A w \in mappers :
           MapperAccount(w)' /\ \A d : Owes(w, d)' = Owes(w, d)
      /\ \A x \in reducers : x # v => up'[x] = up[x] /\ down'[x] = down[x]
      /\ down'[Client] = down[Client]
  BY ReducerKeepsDebts
<1>2. /\ mappers' = mappers /\ reducers' = reducers /\ status' = status
      /\ reducers_done' = reducers_done
  BY DEF clientVars
<1>3. ASSUME NEW x \in reducers, x # v
      PROVE  /\ ReducerAccount(x)' /\ Expected(x)' = Expected(x)
             /\ Number(up'[x], Ends(RESULT_DATATYPE))
                  = Number(up[x], Ends(RESULT_DATATYPE))
  <2>1. /\ DoneBefore(x)' = DoneBefore(x) /\ rState'[x] = rState[x]
        /\ mapper_count'[x] = mapper_count[x]
        /\ up'[x] = up[x] /\ down'[x] = down[x]
    BY <1>1, <1>3 DEF DoneBefore
  <2>2. QED  BY <1>1, <1>2, <2>1, ReducerStill
<1>4. Reporting' = Reporting
  BY <1>2, <1>3 DEF Reporting
<1>5. ClientAccount'
  BY <1>1, <1>2, <1>4 DEF ClientAccount, Accounts
<1>6. \A x \in reducers : ReducerAccount(x)'
  BY <1>3
<1>7. QED  BY <1>1, <1>2, <1>3, <1>5, <1>6 DEF Accounts, Settled

LEMMA OthersIdle ==
  ASSUME TypeInv, NEW v \in Reducer, ReducerNext(v)
  PROVE  \A x \in reducers : x # v =>
           /\ rState'[x] = rState[x] /\ mapper_count'[x] = mapper_count[x]
           /\ mappers_done'[x] = mappers_done[x]
  BY ZenonT(40)
  DEF ReducerNext, ReducerStep, ReduceCode, ReduceData, MoreMappers,
    start_process, ReduceReject, MapperDone, TakesReduceData, reducerVars,
    TypeInv, TypeOK, ReducerTypeOK, ClientTypeOK

(* A reducer that finds data in its queue is not through with the round. *)
LEMMA StillExpecting ==
  ASSUME TypeInv, Sane, AllParts, Accounts, NEW v \in Reducer,
         TakesReduceData(v)
  PROVE  LET h == Head(down[v])
             F == Ends(REDUCE_DATATYPE)
         IN /\ v \in reducers /\ v \in Node /\ Receive(v)
            /\ down[v] \in Seq(Publication) /\ down'[v] = Tail(down[v])
            /\ Number(down[v], F)
                 = Number(down'[v], F) + (IF h.body.end THEN 1 ELSE 0)
            /\ Number(down'[v], F) \in Nat
            /\ Followed(down[v], Data(REDUCE_DATATYPE), F)
                 => Followed(down'[v], Data(REDUCE_DATATYPE), F)
            /\ ReducerAccount(v) /\ mapper_count[v] = Cardinality(mappers)
            /\ Expected(v) = Cardinality(mappers) /\ Expected(v) # 0
            /\ Number(up[v], Ends(RESULT_DATATYPE)) = 0
            /\ DoneBefore(v) \in Nat /\ Cardinality(Debtors(v)) \in Nat
            /\ Expected(v) = DoneBefore(v) + Number(down[v], F)
                               + Cardinality(Debtors(v))
<1> DEFINE h == Head(down[v])
           F == Ends(REDUCE_DATATYPE)
           D == Data(REDUCE_DATATYPE)
<1>1. /\ v \in Node /\ Receive(v) /\ h.type = REDUCE_DATATYPE
      /\ rState[v] # "EXPECT_CODE"
  BY Roles DEF TakesReduceData, TakesData
<1>2. v \in reducers
  BY <1>1 DEF AllParts, BuffersPairs
<1>3. /\ h \in Publication /\ h \in Message /\ h.op = "pub"
      /\ down[v] \in Seq(Publication) /\ down[v] # <<>>
  BY <1>1, NodeHead
<1>4. down'[v] = Tail(down[v])
  <2>1. down \in [Node -> Seq(Publication)]
    BY <1>1, QueueTypes
  <2>2. QED  BY <1>1, <2>1 DEF Receive
<1>5. (h \in F <=> h.body.end) /\ (h \in D <=> ~h.body.end)
  BY <1>1, <1>3 DEF Ends, Data, Is
<1> HIDE DEF h, F, D
<1>6. /\ Number(down[v], F)
           = Number(down'[v], F) + (IF h.body.end THEN 1 ELSE 0)
      /\ Number(down'[v], F) \in Nat
  <2>1. Number(down[v], F) = Number(down'[v], F) + (IF h \in F THEN 1 ELSE 0)
    BY <1>3, <1>4, NumberSteps DEF h
  <2>2. down'[v] \in Seq(Publication)
    BY <1>3, <1>4
  <2>3. QED  BY <1>5, <2>1, <2>2, NumberType
<1>7. Followed(down[v], D, F) => Followed(down'[v], D, F)
  BY <1>3, <1>4, FollowedSteps
<1>8. ReducerAccount(v)
  BY <1>2 DEF Accounts
<1>9. /\ mapper_count[v] = Cardinality(mappers)
      /\ Expected(v) # Cardinality(mappers) => Expected(v) = 0
      /\ Number(up[v], Ends(RESULT_DATATYPE)) = 1 => Expected(v) = 0
      /\ Number(up[v], Ends(RESULT_DATATYPE)) <= 1
      /\ Debtors(v) = {} => Followed(down[v], D, F)
  BY <1>1, <1>8 DEF ReducerAccount, D, F
<1>10. /\ DoneBefore(v) \in Nat /\ Cardinality(Debtors(v)) \in Nat
       /\ Cardinality(Debtors(v)) = 0 => Debtors(v) = {}
       /\ Number(up[v], Ends(RESULT_DATATYPE)) \in Nat
       /\ Expected(v) = DoneBefore(v) + Number(down[v], F)
                          + Cardinality(Debtors(v))
  <2>1. IsFiniteSet(Debtors(v))
    BY CountTypes
  <2>2. Cardinality(Debtors(v)) = 0 => Debtors(v) = {}
    BY <2>1, FS_EmptySet
  <2>3. QED  BY <1>1, <2>2, CountTypes DEF Expected, F
<1>11. Expected(v) # 0
  <2>1. SUFFICES ASSUME Expected(v) = 0 PROVE FALSE
    OBVIOUS
  <2>2. /\ Cardinality(Debtors(v)) = 0 /\ Number(down'[v], F) = 0
        /\ ~h.body.end
    BY <1>6, <1>10, <2>1
  <2>3. Followed(down[v], D, F) /\ h \in D
    BY <1>5, <1>9, <1>10, <2>2
  <2>4. Number(down'[v], F) # 0
    BY <1>3, <1>4, <2>3, FollowedAtHead DEF h
  <2>5. QED  BY <2>2, <2>4
<1>12. Number(up[v], Ends(RESULT_DATATYPE)) = 0
  BY <1>9, <1>10, <1>11
<1>13. QED
  BY <1>1, <1>2, <1>3, <1>4, <1>6, <1>7, <1>8, <1>9, <1>10, <1>11, <1>12
  DEF h, F, D

LEMMA ReduceDataAccounts ==
  ASSUME TypeInv, TypeInv', Sane, AllParts, Accounts,
         NEW v \in Reducer, ReducerNext(v), ReduceData(v) \/ MoreMappers(v)
  PROVE  Accounts' /\ Settled
<1> DEFINE h == Head(down[v])
           F == Ends(REDUCE_DATATYPE)
<1>1. /\ TakesReduceData(v) /\ up' = up
      /\ UNCHANGED <<mapperVars, clientVars>>
      /\ rState'[v] = "EXPECT_DATA" /\ mapper_count'[v] = mapper_count[v]
      /\ mappers_done'[v] = DoneBefore(v) + (IF h.body.end THEN 1 ELSE 0)
  <2>1. ReducerTypeOK
    BY DEF TypeInv, TypeOK
  <2>2. DoneBefore(v) \in Nat
    BY CountTypes
  <2>3. CASE ReduceData(v)
    BY <2>1, <2>2, <2>3 DEF ReducerNext, ReduceData, ReducerTypeOK,
      TakesReduceData
  <2>4. CASE MoreMappers(v)
    BY <2>1, <2>2, <2>4 DEF ReducerNext, MoreMappers, MapperDone,
      ReducerTypeOK, TakesReduceData
  <2>5. QED  BY <2>3, <2>4
<1>2. /\ v \in reducers /\ v \in Node /\ Receive(v)
      /\ Number(down[v], F)
           = Number(down'[v], F) + (IF h.body.end THEN 1 ELSE 0)
      /\ Number(down'[v], F) \in Nat
      /\ Followed(down[v], Data(REDUCE_DATATYPE), F)
           => Followed(down'[v], Data(REDUCE_DATATYPE), F)
      /\ ReducerAccount(v) /\ mapper_count[v] = Cardinality(mappers)
      /\ Expected(v) = Cardinality(mappers) /\ Expected(v) # 0
      /\ Number(up[v], Ends(RESULT_DATATYPE)) = 0
      /\ DoneBefore(v) \in Nat /\ Cardinality(Debtors(v)) \in Nat
      /\ Expected(v) = DoneBefore(v) + Number(down[v], F)
                         + Cardinality(Debtors(v))
  BY <1>1, StillExpecting
<1> HIDE DEF h, F
<1>3. Send(v, <<>>)
  BY <1>1, <1>2, NodeReads
<1>4. Debtors(v)' = Debtors(v)
  BY <1>1, <1>2, <1>3, NothingSent, ReducerKeepsDebts
<1>5. Expected(v)' = Expected(v)
  <2>1. DoneBefore(v)' = DoneBefore(v) + (IF h.body.end THEN 1 ELSE 0)
    BY <1>1 DEF DoneBefore
  <2>2. Expected(v)' = DoneBefore(v)' + Number(down'[v], F)
                         + Cardinality(Debtors(v)')
    BY DEF Expected, F
  <2>3. QED  BY <1>2, <1>4, <2>1, <2>2
<1>6. ReducerAccount(v)'
  <2>1. mappers' = mappers /\ up'[v] = up[v]
    BY <1>1 DEF clientVars
  <2>2. QED  BY <1>1, <1>2, <1>4, <1>5, <2>1 DEF ReducerAccount, F
<1>7. QED
  BY <1>1, <1>2, <1>3, <1>5, <1>6, NothingSent, OthersIdle, ReducerMoves

LEMMA OutputCount ==
  ASSUME NEW buff \in [Key -> Value], Sorted(buff)
  PROVE  /\ OutputThenMarker(buff) \in Seq(Message)
         /\ Number(OutputThenMarker(buff), Ends(RESULT_DATATYPE)) = 1
         /\ Followed(OutputThenMarker(buff), Data(RESULT_DATATYPE),
                     Ends(RESULT_DATATYPE))
<1> DEFINE p == ReduceOutput(buff)
           e == Pub(RESULT_DATATYPE, NoDst, EndOfRound)
           F == Ends(RESULT_DATATYPE)
<1>1. p \in Seq(Message)
  BY ReduceOutputType, SentAreMessages
<1>2. e \in Message /\ e \in F /\ e \notin Data(RESULT_DATATYPE)
  <2>1. e \in Message
    BY PubTypes DEF Message
  <2>2. Is(e, RESULT_DATATYPE) /\ e.body.end
    BY DEF Is, Pub, EndOfRound
  <2>3. QED  BY <2>1, <2>2 DEF Ends, Data
<1>3. \A m \in ToSet(p) : m \notin F
  BY InOutput DEF Ends
<1>4. OutputThenMarker(buff) = p \o <<e>>
  BY DEF OutputThenMarker
<1> HIDE DEF p, e, F
<1>5. p \o <<e>> = Append(p, e)
  BY <1>1, <1>2
<1>6. Number(p, F) = 0
  BY <1>1, <1>3, NumberType
<1>7. Number(Append(p, e), F) = Number(p, F) + (IF e \in F THEN 1 ELSE 0)
  BY <1>1, <1>2, NumberSteps
<1>8. Followed(Append(p, e), Data(RESULT_DATATYPE), F)
  BY <1>1, <1>2, FollowedAtEnd
<1>9. Append(p, e) \in Seq(Message)
  BY <1>1, <1>2
<1>10. OutputThenMarker(buff) = Append(p, e)
  BY <1>4, <1>5
<1>11. Number(Append(p, e), F) = 1
  BY <1>2, <1>6, <1>7
<1>12. QED  BY <1>8, <1>9, <1>10, <1>11 DEF F

LEMMA StartProcessAccounts ==
  ASSUME TypeInv, TypeInv', Sane, AllParts, Accounts,
         NEW v \in Reducer, ReducerNext(v), start_process(v)
  PROVE  Accounts' /\ Settled /\ Expected(v)' = 0
<1> DEFINE h == Head(down[v])
           F == Ends(REDUCE_DATATYPE)
           G == Ends(RESULT_DATATYPE)
           o == OutputThenMarker(BufferBefore(v))
<1>1. /\ TakesReduceData(v) /\ h.body.end /\ Send(v, o)
      /\ UNCHANGED <<mapperVars, clientVars>>
      /\ rState'[v] = "WAIT_NEXT" /\ mapper_count'[v] = mapper_count[v]
      /\ DoneBefore(v) + 1 = mapper_count[v]
  BY DEF ReducerNext, start_process, MapperDone, TakesReduceData, TypeInv,
    TypeOK, ReducerTypeOK
<1>2. /\ v \in reducers /\ v \in Node /\ Receive(v)
      /\ Number(down[v], F)
           = Number(down'[v], F) + (IF h.body.end THEN 1 ELSE 0)
      /\ Number(down'[v], F) \in Nat
      /\ Followed(down[v], Data(REDUCE_DATATYPE), F)
           => Followed(down'[v], Data(REDUCE_DATATYPE), F)
      /\ ReducerAccount(v) /\ mapper_count[v] = Cardinality(mappers)
      /\ Expected(v) = Cardinality(mappers) /\ Expected(v) # 0
      /\ Number(up[v], G) = 0
      /\ DoneBefore(v) \in Nat /\ Cardinality(Debtors(v)) \in Nat
      /\ Expected(v) = DoneBefore(v) + Number(down[v], F)
                         + Cardinality(Debtors(v))
  BY <1>1, StillExpecting
<1>3. /\ o \in Seq(Message) /\ Number(o, G) = 1
      /\ Followed(o, Data(RESULT_DATATYPE), G)
  <2>1. Sorted(BufferBefore(v)) /\ BufferBefore(v) \in [Key -> Value]
    <3>1. rState[v] \in State /\ data_buff[v] \in [Key -> Value]
      BY DEF TypeInv, TypeOK, ReducerTypeOK
    <3>2. rState[v] # "EXPECT_CODE"
      BY <1>1 DEF TakesReduceData
    <3>3. rState[v] = "EXPECT_DATA" => Sorted(data_buff[v])
      BY DEF AllParts, BuffersPairs
    <3>4. QED
      BY <3>1, <3>2, <3>3, EmptyOfRound, ValueTypes DEF BufferBefore, State
  <2>2. QED  BY <2>1, OutputCount
<1> HIDE DEF h, F, G, o
<1>4. Debtors(v)' = Debtors(v)
  BY <1>1, <1>2, <1>3, ReducerKeepsDebts
<1>5. up[v] \in Seq(Message) /\ up'[v] = up[v] \o o
  BY <1>1, <1>2, <1>3, NodeMoves
<1>6. /\ Number(up'[v], G) = 1
      /\ Followed(up'[v], Data(RESULT_DATATYPE), G)
  <2>1. Number(up[v] \o o, G) = Number(up[v], G) + Number(o, G)
    BY <1>3, <1>5, NumberConcat
  <2>2. Followed(up[v] \o o, Data(RESULT_DATATYPE), G)
    <3>1. Number(o, G) # 0
      BY <1>3
    <3>2. QED  BY <1>3, <1>5, <3>1, FollowedSteps
  <2>3. QED  BY <1>2, <1>3, <1>5, <2>1, <2>2
<1>7. /\ Number(down'[v], F) = 0 /\ Cardinality(Debtors(v)) = 0
  BY <1>1, <1>2
<1>8. Expected(v)' = 0
  <2>1. DoneBefore(v)' = 0
    BY <1>1 DEF DoneBefore
  <2>2. Expected(v)' = DoneBefore(v)' + Number(down'[v], F)
                         + Cardinality(Debtors(v)')
    BY DEF Expected, F
  <2>3. QED  BY <1>4, <1>7, <2>1, <2>2
<1>9. ReducerAccount(v)'
  <2>1. mappers' = mappers
    BY <1>1 DEF clientVars
  <2>2. Debtors(v)' = {} => Followed(down'[v], Data(REDUCE_DATATYPE), F)
    BY <1>2, <1>4 DEF ReducerAccount, F
  <2>3. mapper_count'[v] = Cardinality(mappers')
    BY <1>1, <1>2, <2>1
  <2>4. Number(up'[v], G) <= 1
    BY <1>6
  <2>5. QED
    BY <1>1, <1>6, <1>8, <2>2, <2>3, <2>4 DEF ReducerAccount, F, G
<1>10. Expected(v)' # 0 \/ Number(up'[v], G) = 1
         <=> Expected(v) # 0 \/ Number(up[v], G) = 1
  BY <1>2, <1>6
<1>11. QED
  BY <1>1, <1>2, <1>3, <1>8, <1>9, <1>10, OthersIdle, ReducerMoves DEF G
-----------------------------------------------------------------------------
(* The client reads results. *)
LEMMA ClientKeepsDebts ==
  ASSUME TypeInv, TypeInv', Accounts, UNCHANGED <<mapperVars, reducerVars>>,
         Receive(Client), mappers' = mappers, reducers' = reducers, up' = up
  PROVE  /\ \A w \in mappers :
              MapperAccount(w)' /\ \A d : Owes(w, d)' = Owes(w, d)
         /\ \A v \in reducers :
              ReducerAccount(v)' /\ Expected(v)' = Expected(v)
         /\ Reporting' = Reporting
<1>1. /\ mappers \subseteq Mapper /\ reducers \subseteq Reducer
      /\ Mapper \subseteq Node /\ Reducer \subseteq Node /\ Client \in Node
      /\ \A x \in Mapper \cup Reducer : x # Client
  BY Roles DEF TypeInv, TypeOK, ClientTypeOK, Worker
<1>2. \A n \in Node : n # Client => down'[n] = down[n]
  <2>1. Send(Client, <<>>)
    BY <1>1, NodeReads
  <2>2. QED  BY <1>1, <2>1, NothingSent, NodeMoves
<1>3. /\ \A w \in mappers : up'[w] = up[w] /\ down'[w] = down[w]
      /\ \A v \in reducers : up'[v] = up[v] /\ down'[v] = down[v]
      /\ up'[Client] = up[Client] /\ outbuff' = outbuff
  BY <1>1, <1>2 DEF mapperVars
<1>4. \A w \in mappers : MapperAccount(w)' /\ \A d : Owes(w, d)' = Owes(w, d)
  BY <1>3, MappersStill
<1>5. ASSUME NEW v \in reducers
      PROVE  /\ ReducerAccount(v)' /\ Expected(v)' = Expected(v)
             /\ Number(up'[v], Ends(RESULT_DATATYPE))
                  = Number(up[v], Ends(RESULT_DATATYPE))
  <2>1. /\ DoneBefore(v)' = DoneBefore(v) /\ rState'[v] = rState[v]
        /\ mapper_count'[v] = mapper_count[v]
    BY DEF DoneBefore, reducerVars
  <2>2. QED  BY <1>3, <1>4, <2>1, ReducerStill
<1>6. Reporting' = Reporting
  BY <1>5 DEF Reporting
<1>7. QED  BY <1>4, <1>5, <1>6

(* What the client takes when it takes a result. *)
LEMMA ResultTaken ==
  ASSUME TypeInv, TakesResult
  PROVE  LET h == Head(down[Client])
             F == Ends(RESULT_DATATYPE)
         IN /\ Client \in Node /\ Receive(Client) /\ status = "running"
            /\ mappers' = mappers /\ reducers' = reducers
            /\ h \in Message /\ Is(h, RESULT_DATATYPE)
            /\ h \in F <=> h.body.end
            /\ down[Client] \in Seq(Publication)
            /\ down'[Client] = Tail(down[Client])
            /\ \A n \in Node : n # Client => down'[n] = down[n]
            /\ Number(down[Client], F)
                 = Number(down'[Client], F) + (IF h.body.end THEN 1 ELSE 0)
            /\ Number(down'[Client], F) \in Nat
            /\ Followed(down[Client], Data(RESULT_DATATYPE), F)
                 => Followed(down'[Client], Data(RESULT_DATATYPE), F)
<1> DEFINE h == Head(down[Client])
           F == Ends(RESULT_DATATYPE)
<1>1. /\ Client \in Node /\ Receive(Client) /\ status = "running"
      /\ mappers' = mappers /\ reducers' = reducers
      /\ h.type = RESULT_DATATYPE
  BY Roles DEF TakesResult, Takes
<1>2. /\ h \in Publication /\ h \in Message /\ h.op = "pub"
      /\ down[Client] \in Seq(Publication) /\ down[Client] # <<>>
  BY <1>1, NodeHead
<1>3. /\ down'[Client] = Tail(down[Client])
      /\ \A n \in Node : n # Client => down'[n] = down[n]
  <2>1. down \in [Node -> Seq(Publication)]
    BY <1>1, QueueTypes
  <2>2. QED  BY <1>1, <2>1 DEF Receive
<1>4. Is(h, RESULT_DATATYPE) /\ (h \in F <=> h.body.end)
  BY <1>1, <1>2 DEF Ends, Is
<1> HIDE DEF h, F
<1>5. /\ Number(down[Client], F)
           = Number(down'[Client], F) + (IF h.body.end THEN 1 ELSE 0)
      /\ Number(down'[Client], F) \in Nat
  <2>1. Number(down[Client], F)
          = Number(down'[Client], F) + (IF h \in F THEN 1 ELSE 0)
    BY <1>2, <1>3, NumberSteps DEF h
  <2>2. down'[Client] \in Seq(Publication)
    BY <1>2, <1>3
  <2>3. QED  BY <1>4, <2>1, <2>2, NumberType
<1>6. Followed(down[Client], Data(RESULT_DATATYPE), F)
        => Followed(down'[Client], Data(RESULT_DATATYPE), F)
  BY <1>2, <1>3, FollowedSteps
<1>7. QED  BY <1>1, <1>2, <1>3, <1>4, <1>5, <1>6 DEF h, F

LEMMA ResultAccounts ==
  ASSUME TypeInv, TypeInv', Accounts, ClientNext,
         HandlePair \/ MoreReducers \/ WordcountFinish \/ KMeansFinish
  PROVE  Accounts' /\ Settled
<1> DEFINE h == Head(down[Client])
           F == Ends(RESULT_DATATYPE)
<1>1. /\ UNCHANGED <<mapperVars, reducerVars>> /\ up' = up /\ TakesResult
      /\ \/ status' = "exited"
         \/ reducers_done' = reducers_done + (IF h.body.end THEN 1 ELSE 0)
  <2>1. reducers_done \in Nat
    BY DEF TypeInv, TypeOK, ClientTypeOK
  <2>2. UNCHANGED <<mapperVars, reducerVars>>
    BY DEF ClientNext
  <2>3. CASE HandlePair
    <3>1. ~h.body.end /\ reducers_done' = reducers_done
      BY <2>3 DEF HandlePair
    <3>2. QED  BY <2>1, <2>2, <2>3, <3>1 DEF HandlePair
  <2>4. CASE MoreReducers
    <3>1. h.body.end /\ reducers_done' = reducers_done + 1
      BY <2>4 DEF MoreReducers, ReducerDone
    <3>2. QED  BY <2>2, <2>4, <3>1 DEF MoreReducers, ReducerDone
  <2>5. CASE WordcountFinish \/ KMeansFinish
    BY <2>2, <2>5 DEF WordcountFinish, KMeansFinish, KMeansRound, ReducerDone
  <2>6. QED  BY <2>3, <2>4, <2>5
<1>2. /\ Receive(Client) /\ status = "running"
      /\ mappers' = mappers /\ reducers' = reducers
      /\ Number(down[Client], F)
           = Number(down'[Client], F) + (IF h.body.end THEN 1 ELSE 0)
      /\ Number(down'[Client], F) \in Nat
      /\ Followed(down[Client], Data(RESULT_DATATYPE), F)
           => Followed(down'[Client], Data(RESULT_DATATYPE), F)
  BY <1>1, ResultTaken
<1> HIDE DEF h, F
<1>3. /\ \A w \in mappers : MapperAccount(w)'
      /\ \A v \in reducers : ReducerAccount(v)' /\ Expected(v)' = Expected(v)
      /\ Reporting' = Reporting
  BY <1>1, <1>2, ClientKeepsDebts
<1>4. ClientAccount'
  <2>1. /\ ClientAccount /\ reducers_done \in Nat
        /\ Cardinality(Reporting) \in Nat
    BY CountTypes DEF Accounts, TypeInv, TypeOK, ClientTypeOK
  <2>2. status' = "running" =>
          reducers_done' + Number(down'[Client], F)
            = reducers_done + Number(down[Client], F)
    BY <1>1, <1>2, <2>1
  <2>3. QED  BY <1>2, <1>3, <2>1, <2>2 DEF ClientAccount, F
<1>5. QED  BY <1>2, <1>3, <1>4 DEF Accounts, Settled
-----------------------------------------------------------------------------
(* When no reducer has anything to report, nothing of the round is left    *)
(* but what the client has yet to read.                                    *)
LEMMA AllAddressed ==
  ASSUME TypeInv, \A v \in reducers : v[2] \in Addressed
  PROVE  \A d \in Below : \E v \in reducers : v[2] = d
<1> DEFINE n == Cardinality(reducers)
           f == [v \in reducers |-> v[2]]
<1>1. reducers \subseteq Reducer /\ IsFiniteSet(reducers) /\ n \in Nat
  BY CountTypes DEF TypeInv, TypeOK, ClientTypeOK
<1>2. IsFiniteSet(Below) /\ Cardinality(Below) = n
  <2>1. Below = 0..(n - 1)
    BY DEF Below
  <2> HIDE DEF n
  <2>2. n - 1 \in Int
    BY <1>1
  <2>3. IsFiniteSet(0..(n - 1)) /\ Cardinality(0..(n - 1)) = n
    BY <1>1, <2>2, FS_Interval
  <2>4. QED  BY <2>1, <2>3
<1>3. f \in [reducers -> Below] /\ \A u, v \in reducers : f[u] = f[v] => u = v
  BY <1>1 DEF Addressed, Reducer
<1> HIDE DEF f, n
<1>4. f \in Injection(reducers, Below)
  BY <1>3 DEF Injection, IsInjective
<1>5. f \in Surjection(reducers, Below)
  BY <1>1, <1>2, <1>4, FS_Injection DEF n
<1>6. QED  BY <1>5 DEF Surjection, f

LEMMA AllReported ==
  ASSUME TypeInv, Sane, Accounts, Reporting = {}, NEW v \in reducers
  PROVE  /\ rState[v] = "WAIT_NEXT" /\ v[2] \in Addressed
         /\ \A w \in mappers : Owes(w, v[2]) = 0
         /\ \A m \in ToSet(down[v]) :
              m \notin Ends(REDUCE_DATATYPE) /\ m \notin Data(REDUCE_DATATYPE)
         /\ \A m \in ToSet(up[v]) :
              m \notin Ends(RESULT_DATATYPE) /\ m \notin Data(RESULT_DATATYPE)
<1> DEFINE F == Ends(REDUCE_DATATYPE)
           G == Ends(RESULT_DATATYPE)
<1>1. /\ v \in Reducer /\ v \in Node /\ ReducerAccount(v)
      /\ mappers \subseteq Mapper
      /\ up[v] \in Seq(Message) /\ down[v] \in Seq(Publication)
  BY Roles, QueueTypes DEF Accounts, TypeInv, TypeOK, ClientTypeOK
<1>2. Expected(v) = 0 /\ Number(up[v], G) # 1
  BY DEF Reporting
<1>3. mappers # {} /\ Cardinality(mappers) # 0
  BY SaneCounts
<1>4. rState[v] = "WAIT_NEXT"
  BY <1>1, <1>2, <1>3 DEF ReducerAccount
<1> HIDE DEF F, G
<1>5. /\ Number(down[v], F) = 0 /\ Debtors(v) = {}
      /\ Number(up[v], G) = 0
  <2>1. /\ DoneBefore(v) \in Nat /\ IsFiniteSet(Debtors(v))
        /\ Cardinality(Debtors(v)) \in Nat
        /\ Number(down[v], F) \in Nat /\ Number(up[v], G) \in Nat
    BY <1>1, CountTypes
  <2>2. Number(down[v], F) = 0 /\ Cardinality(Debtors(v)) = 0
    BY <1>2, <2>1 DEF Expected, F
  <2>3. Number(up[v], G) <= 1
    BY <1>1 DEF ReducerAccount, G
  <2>4. QED  BY <1>2, <2>1, <2>2, <2>3, FS_EmptySet
<1>6. v[2] \in Addressed
  BY <1>3, <1>5 DEF Debtors
<1>7. ASSUME NEW w \in mappers
      PROVE  Owes(w, v[2]) = 0
  <2>1. Owes(w, v[2]) # 1
    BY <1>5 DEF Debtors
  <2>2. Owes(w, v[2]) <= 1
    BY <1>6 DEF Accounts, MapperAccount
  <2>3. Owes(w, v[2]) \in Nat
    BY <1>1, CountTypes
  <2>4. QED  BY <2>1, <2>2, <2>3
<1>8. /\ Followed(down[v], Data(REDUCE_DATATYPE), F)
      /\ Followed(up[v], Data(RESULT_DATATYPE), G)
  BY <1>1, <1>5 DEF ReducerAccount, F, G
<1>9. /\ Number(down[v], Data(REDUCE_DATATYPE)) = 0
      /\ Number(up[v], Data(RESULT_DATATYPE)) = 0
  BY <1>1, <1>5, <1>8, FollowedSteps
<1>10. /\ \A m \in ToSet(down[v]) : m \notin F /\ m \notin Data(REDUCE_DATATYPE)
       /\ \A m \in ToSet(up[v]) : m \notin G /\ m \notin Data(RESULT_DATATYPE)
  BY <1>1, <1>5, <1>9, NumberType
<1>11. QED  BY <1>4, <1>6, <1>7, <1>10 DEF F, G

LEMMA AllMapped ==
  ASSUME TypeInv, Accounts, NEW w \in mappers, NEW d \in Addressed,
         Owes(w, d) = 0
  PROVE  /\ outbuff[w] = NoPairs
         /\ \A m \in ToSet(up[Client]) :
              /\ m \notin EndsTo(MAP_DATATYPE, w[2])
              /\ m \notin DataTo(MAP_DATATYPE, w[2])
         /\ \A m \in ToSet(down[w]) :
              m \notin Ends(MAP_DATATYPE) /\ m \notin Data(MAP_DATATYPE)
         /\ \A m \in ToSet(up[w]) :
              /\ m \notin EndsTo(REDUCE_DATATYPE, d)
              /\ m \notin Data(REDUCE_DATATYPE)
<1> DEFINE E == EndsTo(MAP_DATATYPE, w[2])
           F == Ends(MAP_DATATYPE)
           G == EndsTo(REDUCE_DATATYPE, d)
<1>1. /\ w \in Mapper /\ w \in Node /\ Client \in Node /\ MapperAccount(w)
      /\ up[w] \in Seq(Message) /\ down[w] \in Seq(Publication)
      /\ up[Client] \in Seq(Message)
  BY Roles, QueueTypes DEF Accounts, TypeInv, TypeOK, ClientTypeOK
<1> HIDE DEF E, F, G
<1>2. /\ Number(up[Client], E) = 0 /\ Number(down[w], F) = 0
      /\ Number(up[w], G) = 0 /\ EndsFor(w) = 0
  <2>1. /\ Number(up[Client], E) \in Nat /\ Number(down[w], F) \in Nat
        /\ Number(up[w], G) \in Nat
    BY <1>1, CountTypes
  <2>2. /\ EndsFor(w) = Number(up[Client], E) + Number(down[w], F)
        /\ Owes(w, d) = EndsFor(w) + Number(up[w], G)
    BY DEF EndsFor, Owes, E, F, G
  <2>3. QED  BY <2>1, <2>2
<1>3. /\ Followed(up[Client], DataTo(MAP_DATATYPE, w[2]), E)
      /\ Followed(down[w], Data(MAP_DATATYPE), F)
      /\ Followed(up[w], Data(REDUCE_DATATYPE), G)
      /\ outbuff[w] = NoPairs
  <2>1. EndsFor(w) # 1 /\ Number(up[Client], E) # 1
    BY <1>2
  <2>2. QED  BY <1>1, <2>1 DEF MapperAccount, E, F, G
<1>4. /\ Number(up[Client], DataTo(MAP_DATATYPE, w[2])) = 0
      /\ Number(down[w], Data(MAP_DATATYPE)) = 0
      /\ Number(up[w], Data(REDUCE_DATATYPE)) = 0
  BY <1>1, <1>2, <1>3, FollowedSteps
<1>5. /\ \A m \in ToSet(up[Client]) :
           m \notin E /\ m \notin DataTo(MAP_DATATYPE, w[2])
      /\ \A m \in ToSet(down[w]) : m \notin F /\ m \notin Data(MAP_DATATYPE)
      /\ \A m \in ToSet(up[w]) : m \notin G /\ m \notin Data(REDUCE_DATATYPE)
  BY <1>1, <1>2, <1>4, NumberType
<1>6. QED  BY <1>3, <1>5 DEF E, F, G

NothingLeft ==
  /\ \A n \in Node : \A m \in ToSet(up[n]) : \A t \in DataTypes : ~Is(m, t)
  /\ \A n \in Worker : \A m \in ToSet(down[n]) : \A t \in DataTypes : ~Is(m, t)
  /\ \A w \in Mapper : outbuff[w] = NoPairs
  /\ \A v \in Reducer :
       rState[v] = IF v \in reducers THEN "WAIT_NEXT" ELSE "EXPECT_CODE"

LEMMA RoundOver ==
  ASSUME TypeInv, SubscribedInv, ~late, Sane, AllParts, Accounts,
         Reporting = {}
  PROVE  NothingLeft
<1>1. /\ mappers \subseteq Mapper /\ reducers \subseteq Reducer
      /\ Worker \subseteq Node
      /\ \A w \in Worker : w # Client
      /\ Mapper \subseteq Worker /\ Reducer \subseteq Worker
  BY Roles DEF TypeInv, TypeOK, ClientTypeOK, Worker
<1>2. \A v \in reducers :
        /\ rState[v] = "WAIT_NEXT" /\ v[2] \in Addressed
        /\ \A w \in mappers : Owes(w, v[2]) = 0
        /\ \A m \in ToSet(down[v]) :
             m \notin Ends(REDUCE_DATATYPE) /\ m \notin Data(REDUCE_DATATYPE)
        /\ \A m \in ToSet(up[v]) :
             m \notin Ends(RESULT_DATATYPE) /\ m \notin Data(RESULT_DATATYPE)
  BY AllReported
<1>3. PICK v0 \in reducers : TRUE
  BY SaneCounts
<1>4. ASSUME NEW w \in mappers
      PROVE  /\ outbuff[w] = NoPairs
             /\ \A m \in ToSet(up[Client]) :
                  /\ m \notin EndsTo(MAP_DATATYPE, w[2])
                  /\ m \notin DataTo(MAP_DATATYPE, w[2])
             /\ \A m \in ToSet(down[w]) :
                  m \notin Ends(MAP_DATATYPE) /\ m \notin Data(MAP_DATATYPE)
             /\ \A m \in ToSet(up[w]) : m \notin Data(REDUCE_DATATYPE)
             /\ \A m \in ToSet(up[w]) : \A v \in reducers :
                  m \notin EndsTo(REDUCE_DATATYPE, v[2])
  BY <1>2, <1>3, AllMapped
<1>5. \A d \in Below : \E v \in reducers : v[2] = d
  BY <1>2, AllAddressed
<1>6. ASSUME NEW w \in mappers, NEW m \in ToSet(up[w])
      PROVE  m \notin Ends(REDUCE_DATATYPE)
  <2>1. SUFFICES ASSUME m \in Ends(REDUCE_DATATYPE)
                 PROVE  FALSE
    OBVIOUS
  <2>2. m.dst \in Below
    BY <2>1 DEF Accounts, MapperAccount
  <2>3. PICK v \in reducers : v[2] = m.dst
    BY <1>5, <2>2
  <2>4. m \in EndsTo(REDUCE_DATATYPE, v[2])
    BY <2>1, <2>3 DEF EndsTo
  <2>5. QED  BY <1>4, <2>4
<1>7. \A n \in Node : \A m \in ToSet(up[n]) \cup ToSet(down[n]) :
        /\ m \in Message
        /\ \A t \in DataTypes : Is(m, t) => m \in Ends(t) \/ m \in Data(t)
  <2>1. ASSUME NEW n \in Node, NEW m \in ToSet(up[n]) \cup ToSet(down[n])
        PROVE  m \in Message
    <3>1. up[n] \in Seq(Message) /\ down[n] \in Seq(Publication)
      BY QueueTypes
    <3>2. ToSet(up[n]) \subseteq Message /\ ToSet(down[n]) \subseteq Publication
      BY <3>1, ToSetQueue
    <3>3. QED  BY <3>2 DEF Message
  <2>2. QED  BY <2>1 DEF Ends, Data
<1>8. ASSUME NEW n \in Node, NEW m \in ToSet(up[n]), NEW t \in DataTypes,
             Is(m, t)
      PROVE  FALSE
  <2>1. SentBy(n, m)
    BY DEF AllParts, PartsOf
  <2>2. m \in Ends(t) \/ m \in Data(t)
    BY <1>7, <1>8
  <2>3. CASE t = MAP_DATATYPE
    <3>1. n = Client
      BY <1>8, <2>1, <2>3 DEF SentBy
    <3>2. Proper(m)
      BY DEF SubscribedInv, UpProper, ToSet
    <3>3. PICK w \in mappers : w[2] = m.dst
      BY <1>8, <2>3, <3>2 DEF Proper, Is
    <3>4. m \in EndsTo(MAP_DATATYPE, w[2]) \/ m \in DataTo(MAP_DATATYPE, w[2])
      BY <2>2, <2>3, <3>3 DEF EndsTo, DataTo
    <3>5. QED  BY <1>4, <3>1, <3>4
  <2>4. CASE t = REDUCE_DATATYPE
    <3>1. n \in mappers
      BY <1>8, <2>1, <2>4 DEF SentBy
    <3>2. QED  BY <1>4, <1>6, <2>2, <2>4, <3>1
  <2>5. CASE t = RESULT_DATATYPE
    <3>1. n \in reducers
      BY <1>8, <2>1, <2>5 DEF SentBy
    <3>2. QED  BY <1>2, <2>2, <2>5, <3>1
  <2>6. QED  BY <2>3, <2>4, <2>5 DEF DataTypes
<1>9. ASSUME NEW n \in Worker, NEW m \in ToSet(down[n]), NEW t \in DataTypes,
             Is(m, t)
      PROVE  FALSE
  <2>1. TakePart(n, m) /\ m.type = t /\ n # Client
    BY <1>1, <1>9 DEF AllParts, PartsOf, Is
  <2>2. m \in Ends(t) \/ m \in Data(t)
    BY <1>1, <1>7, <1>9
  <2>3. CASE t = MAP_DATATYPE
    <3>1. n \in mappers
      BY <2>1, <2>3 DEF TakePart
    <3>2. QED  BY <1>4, <2>2, <2>3, <3>1
  <2>4. CASE t = REDUCE_DATATYPE
    <3>1. n \in reducers
      BY <2>1, <2>4 DEF TakePart
    <3>2. QED  BY <1>2, <2>2, <2>4, <3>1
  <2>5. CASE t = RESULT_DATATYPE
    BY <2>1, <2>5 DEF TakePart
  <2>6. QED  BY <2>3, <2>4, <2>5 DEF DataTypes
<1>10. \A w \in Mapper : outbuff[w] = NoPairs
  BY <1>4 DEF AllParts, HoldsPairs
<1>11. \A v \in Reducer :
         rState[v] = IF v \in reducers THEN "WAIT_NEXT" ELSE "EXPECT_CODE"
  BY <1>2 DEF AllParts, BuffersPairs
<1>12. QED  BY <1>8, <1>9, <1>10, <1>11 DEF NothingLeft
-----------------------------------------------------------------------------
(* A round starts: each mapper is sent its lines, and then its marker. *)
SentRound(q) == \A w \in mappers :
  /\ Number(q, EndsTo(MAP_DATATYPE, w[2])) = 1
  /\ Followed(q, DataTo(MAP_DATATYPE, w[2]), EndsTo(MAP_DATATYPE, w[2]))

LEMMA BurstCount ==
  ASSUME mappers \in SUBSET Mapper, NEW h \in 1..MaxRounds,
         NEW lines \in Seq(Seq(Items)), mappers = {} => lines = <<>>
  PROVE  /\ DataBurst(mappers, lines, h) \in Seq(Message)
         /\ SentRound(DataBurst(mappers, lines, h))
         /\ \A m \in ToSet(DataBurst(mappers, lines, h)) :
              /\ m \in Data(MAP_DATATYPE) \/ m \in Ends(MAP_DATATYPE)
              /\ m \in Data(MAP_DATATYPE) => m.body.header = h
<1> DEFINE p == BurstLines(mappers, lines, h)
           q == BurstEnds(mappers)
<1>1. /\ DataBurst(mappers, lines, h) = p \o q
      /\ p \in Seq(Message) /\ q \in Seq(Message)
      /\ \A m \in ToSet(p) : m \in Data(MAP_DATATYPE) /\ m.body.header = h
      /\ \A m \in ToSet(q) : m \in Ends(MAP_DATATYPE)
      /\ \A w \in mappers : Number(q, EndsTo(MAP_DATATYPE, w[2])) = 1
  BY BurstForm
<1> HIDE DEF p, q
<1>2. p \o q \in Seq(Message) /\ ToSet(p \o q) = ToSet(p) \cup ToSet(q)
  BY <1>1, Together
<1>3. \A m : ~(m \in Data(MAP_DATATYPE) /\ m \in Ends(MAP_DATATYPE))
  BY DEF Data, Ends
<1>4. ASSUME NEW w \in mappers
      PROVE  /\ Number(p \o q, EndsTo(MAP_DATATYPE, w[2])) = 1
             /\ Followed(p \o q, DataTo(MAP_DATATYPE, w[2]),
                         EndsTo(MAP_DATATYPE, w[2]))
  <2> DEFINE S == DataTo(MAP_DATATYPE, w[2])
             T == EndsTo(MAP_DATATYPE, w[2])
  <2>1. /\ \A m \in ToSet(p) : m \notin T
        /\ \A m \in ToSet(q) : m \notin S
        /\ Number(q, T) = 1
    BY <1>1, <1>3 DEF EndsTo, DataTo
  <2> HIDE DEF S, T
  <2>2. Number(p, T) = 0
    BY <1>1, <2>1, NumberType
  <2>3. Number(p \o q, T) = Number(p, T) + Number(q, T)
    BY <1>1, NumberConcat
  <2>4. Followed(q, S, T) /\ Number(q, T) # 0
    BY <2>1 DEF Followed, ToSet
  <2>5. Followed(p \o q, S, T)
    BY <1>1, <2>4, FollowedSteps
  <2>6. QED  BY <2>1, <2>2, <2>3, <2>5 DEF S, T
<1>5. QED  BY <1>1, <1>2, <1>3, <1>4 DEF SentRound

(* It comes behind what is no data for mappers. *)
LEMMA RoundBehind ==
  ASSUME NEW r \in Seq(Message), NEW b \in Seq(Message), SentRound(b),
         \A m \in ToSet(r) : ~Is(m, MAP_DATATYPE)
  PROVE  SentRound(r \o b)
<1> SUFFICES ASSUME NEW w \in mappers
             PROVE  /\ Number(r \o b, EndsTo(MAP_DATATYPE, w[2])) = 1
                    /\ Followed(r \o b, DataTo(MAP_DATATYPE, w[2]),
                                EndsTo(MAP_DATATYPE, w[2]))
  BY DEF SentRound
<1> DEFINE S == DataTo(MAP_DATATYPE, w[2])
           T == EndsTo(MAP_DATATYPE, w[2])
<1>1. /\ \A m \in ToSet(r) : m \notin T
      /\ Number(b, T) = 1 /\ Followed(b, S, T)
  BY DEF SentRound, EndsTo, Ends
<1> HIDE DEF S, T
<1>2. Number(r, T) = 0
  BY <1>1, NumberType
<1>3. Number(r \o b, T) = Number(r, T) + Number(b, T)
  BY NumberConcat
<1>4. Number(b, T) # 0
  BY <1>1
<1>5. Followed(r \o b, S, T)
  BY <1>1, <1>4, FollowedSteps
<1>6. QED  BY <1>1, <1>2, <1>3, <1>5 DEF S, T

LEMMA RoundStarts ==
  ASSUME TypeInv, TypeInv', Sane, mappers' = mappers, reducers' = reducers,
         SentRound(up'[Client]),
         \A n \in Worker : \A m \in ToSet(up'[n]) \cup ToSet(down'[n]) :
           \A t \in DataTypes : ~Is(m, t),
         \A m \in ToSet(down'[Client]) : ~Is(m, RESULT_DATATYPE),
         \A v \in reducers :
           /\ DoneBefore(v)' = 0
           /\ rState'[v] # "EXPECT_CODE" =>
                mapper_count'[v] = Cardinality(mappers),
         status' = "running" => reducers_done' = 0
  PROVE  Accounts'
<1>1. /\ mappers \subseteq Mapper /\ reducers \subseteq Reducer
      /\ Mapper \subseteq Worker /\ Reducer \subseteq Worker
      /\ Worker \subseteq Node /\ Client \in Node
      /\ \A n \in Node :
           up'[n] \in Seq(Message) /\ down'[n] \in Seq(Publication)
  <2>1. mappers \subseteq Mapper /\ reducers \subseteq Reducer
    BY DEF TypeInv, TypeOK, ClientTypeOK
  <2>2. up' \in [Node -> Seq(Message)] /\ down' \in [Node -> Seq(Publication)]
    BY DEF TypeInv, TypeOK
  <2>3. QED  BY <2>1, <2>2, Roles DEF Worker, Node
<1>2. /\ mappers # {} /\ Cardinality(mappers) \in Nat \ {0}
      /\ reducers # {} /\ Cardinality(reducers) \in Nat \ {0}
  BY SaneCounts
<1>3. ASSUME NEW n \in Worker, NEW t \in DataTypes,
             NEW S, S \subseteq DataOf(t)
      PROVE  /\ Number(up'[n], S) = 0 /\ Number(down'[n], S) = 0
             /\ \A T : Followed(up'[n], S, T) /\ Followed(down'[n], S, T)
  <2>1. \A m \in ToSet(up'[n]) \cup ToSet(down'[n]) : m \notin S
    BY <1>3 DEF DataOf
  <2>2. Number(up'[n], S) = 0 /\ Number(down'[n], S) = 0
    BY <1>1, <2>1, NumberType
  <2>3. \A T : Followed(up'[n], S, T) /\ Followed(down'[n], S, T)
    BY <2>1 DEF Followed, ToSet
  <2>4. QED  BY <2>2, <2>3
<1>4. \A t \in DataTypes : \A d :
        /\ Ends(t) \subseteq DataOf(t) /\ Data(t) \subseteq DataOf(t)
        /\ EndsTo(t, d) \subseteq DataOf(t)
  BY DEF Ends, Data, DataOf, EndsTo
<1>5. {MAP_DATATYPE, REDUCE_DATATYPE, RESULT_DATATYPE} = DataTypes
  BY DEF DataTypes
<1>6. ASSUME NEW w \in mappers
      PROVE  /\ MapperAccount(w)'
             /\ \A d : Owes(w, d)' = 1
  <2>1. /\ Number(up'[Client], EndsTo(MAP_DATATYPE, w[2])) = 1
        /\ Followed(up'[Client], DataTo(MAP_DATATYPE, w[2]),
                    EndsTo(MAP_DATATYPE, w[2]))
    BY DEF SentRound
  <2>2. EndsFor(w)' = 1
    <3>1. Number(down'[w], Ends(MAP_DATATYPE)) = 0
      BY <1>1, <1>3, <1>4, <1>5
    <3>2. QED  BY <2>1, <3>1 DEF EndsFor
  <2>3. \A d : Owes(w, d)' = 1
    <3>1. \A d : Number(up'[w], EndsTo(REDUCE_DATATYPE, d)) = 0
      BY <1>1, <1>3, <1>4, <1>5
    <3>2. QED  BY <2>2, <3>1 DEF Owes
  <2>4. \A m \in ToSet(up'[w]) : m \notin Ends(REDUCE_DATATYPE)
    BY <1>1, <1>5 DEF Ends
  <2>5. MapperAccount(w)'
    BY <2>1, <2>2, <2>3, <2>4 DEF MapperAccount
  <2>6. QED  BY <2>3, <2>5
<1>7. ASSUME NEW v \in reducers
      PROVE  ReducerAccount(v)' /\ Expected(v)' = Cardinality(mappers)
  <2>1. Debtors(v)' = mappers
    BY <1>6 DEF Debtors
  <2>2. /\ Number(down'[v], Ends(REDUCE_DATATYPE)) = 0
        /\ Number(up'[v], Ends(RESULT_DATATYPE)) = 0
        /\ Followed(up'[v], Data(RESULT_DATATYPE), Ends(RESULT_DATATYPE))
    BY <1>1, <1>3, <1>4, <1>5
  <2>3. Expected(v)' = Cardinality(mappers)
    BY <1>2, <2>1, <2>2 DEF Expected
  <2>4. ReducerAccount(v)'
    BY <1>2, <2>1, <2>2, <2>3 DEF ReducerAccount
  <2>5. QED  BY <2>3, <2>4
<1>8. ClientAccount'
  <2>1. Reporting' = reducers
    BY <1>2, <1>7 DEF Reporting
  <2>2. Number(down'[Client], Ends(RESULT_DATATYPE)) = 0
    <3>1. \A m \in ToSet(down'[Client]) : m \notin Ends(RESULT_DATATYPE)
      BY DEF Ends
    <3>2. QED  BY <1>1, <3>1, NumberType
  <2>3. QED  BY <1>2, <2>1, <2>2 DEF ClientAccount
<1>9. QED  BY <1>6, <1>7, <1>8 DEF Accounts

(* When the client takes the last marker of a round, only results it has   *)
(* taken already are left of the round.                                    *)
LEMMA RoundEnds ==
  ASSUME TypeInv, SubscribedInv, ~late, Sane, AllParts, Accounts,
         TakesResult, Head(down[Client]).body.end,
         reducers_done + 1 = Cardinality(reducers)
  PROVE  /\ Reporting = {} /\ NothingLeft
         /\ ToSet(down'[Client]) \subseteq ToSet(down[Client])
         /\ \A m \in ToSet(down'[Client]) : \A t \in DataTypes : ~Is(m, t)
<1> DEFINE h == Head(down[Client])
           F == Ends(RESULT_DATATYPE)
<1>1. h.body.end /\ reducers_done + 1 = Cardinality(reducers)
  OBVIOUS
<1>2. /\ status = "running" /\ Client \in Node
      /\ down[Client] \in Seq(Publication)
      /\ down'[Client] = Tail(down[Client]) /\ Receive(Client)
      /\ Number(down[Client], F)
           = Number(down'[Client], F) + (IF h.body.end THEN 1 ELSE 0)
      /\ Number(down'[Client], F) \in Nat
      /\ Followed(down[Client], Data(RESULT_DATATYPE), F)
           => Followed(down'[Client], Data(RESULT_DATATYPE), F)
  BY ResultTaken
<1> HIDE DEF h, F
<1>3. Reporting = {} /\ Number(down'[Client], F) = 0
  <2>1. /\ reducers_done \in Nat /\ IsFiniteSet(Reporting)
        /\ Cardinality(Reporting) \in Nat
    BY CountTypes DEF TypeInv, TypeOK, ClientTypeOK
  <2>2. reducers_done + Number(down[Client], F) + Cardinality(Reporting)
          = Cardinality(reducers)
    BY <1>2 DEF Accounts, ClientAccount, F
  <2>3. Cardinality(Reporting) = 0 /\ Number(down'[Client], F) = 0
    BY <1>1, <1>2, <2>1, <2>2
  <2>4. QED  BY <2>1, <2>3, FS_EmptySet
<1>4. NothingLeft
  BY <1>3, RoundOver
<1>5. /\ down'[Client] \in Seq(Publication)
      /\ ToSet(down'[Client]) \subseteq ToSet(down[Client])
      /\ ToSet(down'[Client]) \subseteq Publication
  <2>1. down[Client] # <<>>
    BY <1>2 DEF Receive
  <2>2. ToSet(down[Client]) =
          {Head(down[Client])} \cup ToSet(Tail(down[Client]))
    BY <1>2, <2>1, ToSetQueue
  <2>3. down'[Client] \in Seq(Publication)
    BY <1>2, <2>1
  <2>4. QED  BY <1>2, <2>2, <2>3, ToSetQueue
<1>6. ASSUME NEW m \in ToSet(down'[Client]), NEW t \in DataTypes, Is(m, t)
      PROVE  FALSE
  <2>1. TakePart(Client, m) /\ m.type = t
    BY <1>2, <1>5, <1>6 DEF AllParts, PartsOf, Is
  <2>2. Client \notin mappers /\ Client \notin reducers
    BY Roles DEF TypeInv, TypeOK, ClientTypeOK, Worker
  <2>3. t = RESULT_DATATYPE
    BY <2>1, <2>2 DEF TakePart, DataTypes
  <2>4. m \in F \/ m \in Data(RESULT_DATATYPE)
    BY <1>5, <1>6, <2>3 DEF F, Ends, Data, Message
  <2>5. Followed(down'[Client], Data(RESULT_DATATYPE), F)
    BY <1>2, <1>3 DEF Accounts, ClientAccount, F
  <2>6. Number(down'[Client], Data(RESULT_DATATYPE)) = 0
    BY <1>3, <1>5, <2>5, FollowedSteps
  <2>7. m \notin F /\ m \notin Data(RESULT_DATATYPE)
    BY <1>3, <1>5, <2>6, NumberType
  <2>8. QED  BY <2>4, <2>7
<1>7. QED  BY <1>3, <1>4, <1>5, <1>6

(* The last result of a round starts the next. *)
LEMMA NewRound ==
  ASSUME TypeInv, TypeInv', SubscribedInv, ~late, fires > 0, Sane, AllParts,
         Accounts, ClientNext, fire_new_round
  PROVE  AllParts' /\ Accounts'
<1> DEFINE h == Head(down[Client])
           F == Ends(RESULT_DATATYPE)
           b == DataBurst(mappers, mappers_data, round_ + 1)
<1>1. /\ UNCHANGED <<mapperVars, reducerVars>> /\ TakesResult /\ h.body.end
      /\ reducers_done + 1 = Cardinality(reducers) /\ App = "KMEANS"
      /\ fires' = fires /\ round_' = round_ + 1 /\ round_ < MaxRounds
      /\ reducers_done' = 0 /\ Send(Client, b)
  BY DEF ClientNext, fire_new_round, KMeansRound, ReducerDone, LastReducer,
    TakesResult
<1>2. /\ status = "running" /\ Client \in Node
      /\ mappers' = mappers /\ reducers' = reducers
      /\ down[Client] \in Seq(Publication)
      /\ down'[Client] = Tail(down[Client]) /\ Receive(Client)
      /\ \A n \in Node : n # Client => down'[n] = down[n]
      /\ Number(down[Client], F)
           = Number(down'[Client], F) + (IF h.body.end THEN 1 ELSE 0)
      /\ Number(down'[Client], F) \in Nat
      /\ Followed(down[Client], Data(RESULT_DATATYPE), F)
           => Followed(down'[Client], Data(RESULT_DATATYPE), F)
  BY <1>1, ResultTaken
<1> HIDE DEF h, F, b
<1>3. /\ NothingLeft
      /\ ToSet(down'[Client]) \subseteq ToSet(down[Client])
      /\ \A m \in ToSet(down'[Client]) : \A t \in DataTypes : ~Is(m, t)
  BY <1>1, RoundEnds DEF h
<1>4. /\ b \in Seq(Message) /\ SentRound(b)
      /\ \A m \in ToSet(b) :
           /\ m \in Data(MAP_DATATYPE) \/ m \in Ends(MAP_DATATYPE)
           /\ m \in Data(MAP_DATATYPE) => m.body.header = round_ + 1
  <2>1. /\ mappers \in SUBSET Mapper /\ round_ + 1 \in 1..MaxRounds
        /\ mappers_data \in Seq(Seq(Items))
        /\ mappers = {} => mappers_data = <<>>
    BY <1>1, ProtocolAssumption DEF TypeInv, TypeOK, ClientTypeOK,
      DealtToMappers
  <2>2. QED  BY <2>1, BurstCount DEF b
<1>5. /\ up[Client] \in Seq(Message) /\ up'[Client] = up[Client] \o b
      /\ \A n \in Node : n # Client => up'[n] = up[n]
  BY <1>1, <1>2, <1>4, NodeMoves
<1>6. AllParts'
  <2>1. Round' = round_ + 1
    BY <1>1 DEF Round
  <2>2. \A m \in ToSet(b) : SentBy(Client, m)' /\ Current(m)'
    BY <1>4, <2>1 DEF SentBy, Current, Data, Ends, Is, MAP_DATATYPE,
      REDUCE_DATATYPE, RESULT_DATATYPE
  <2>3. \A n \in Node : n = Client \/ n \in Worker
    BY DEF Node
  <2>4. ASSUME NEW n \in Node
        PROVE  /\ ToSet(down'[n]) \subseteq ToSet(down[n])
               /\ \A m \in ToSet(up[n]) \cup ToSet(down'[n]) :
                    \A t \in DataTypes : ~Is(m, t)
    BY <1>2, <1>3, <2>3 DEF NothingLeft
  <2>5. /\ \A w \in Mapper : outbuff[w] = NoPairs
        /\ \A v \in Reducer : rState[v] # "EXPECT_DATA"
    BY <1>3 DEF NothingLeft
  <2>6. fires' > 0
    BY <1>1
  <2>7. QED  BY <1>1, <1>2, <1>4, <2>2, <2>4, <2>5, <2>6, FreshParts
<1>7. Accounts'
  <2>1. SentRound(up'[Client])
    <3>1. \A m \in ToSet(up[Client]) : ~Is(m, MAP_DATATYPE)
      BY <1>2, <1>3 DEF NothingLeft, DataTypes
    <3>2. QED  BY <1>4, <1>5, <3>1, RoundBehind
  <2>2. \A n \in Worker : \A m \in ToSet(up'[n]) \cup ToSet(down'[n]) :
          \A t \in DataTypes : ~Is(m, t)
    <3>1. \A n \in Worker : n \in Node /\ n # Client
      BY Roles DEF Node
    <3>2. QED  BY <1>2, <1>3, <1>5, <3>1 DEF NothingLeft
  <2>3. \A m \in ToSet(down'[Client]) : ~Is(m, RESULT_DATATYPE)
    BY <1>3 DEF DataTypes
  <2>4. ASSUME NEW v \in reducers
        PROVE  /\ DoneBefore(v)' = 0
               /\ rState'[v] # "EXPECT_CODE" =>
                    mapper_count'[v] = Cardinality(mappers)
    <3>1. v \in Reducer /\ ReducerAccount(v)
      BY DEF Accounts, TypeInv, TypeOK, ClientTypeOK
    <3>2. rState[v] = "WAIT_NEXT"
      BY <1>3, <3>1 DEF NothingLeft
    <3>3. mapper_count[v] = Cardinality(mappers)
      BY <3>1, <3>2 DEF ReducerAccount
    <3>4. QED  BY <1>1, <3>2, <3>3 DEF reducerVars, DoneBefore
  <2>5. QED  BY <1>1, <1>2, <2>1, <2>2, <2>3, <2>4, RoundStarts
<1>8. QED  BY <1>6, <1>7

(* The firing of the job starts the first. *)
LEMMA FireAccounts ==
  ASSUME TypeInv, TypeInv', SubscribedInv, ~late, OrderInv, Sane, AllParts,
         ClientNext, fire_jobs
  PROVE  Accounts'
<1>1. /\ UNCHANGED <<mapperVars, reducerVars, mappers, reducers>>
      /\ ~(fires > 0) /\ down' = down /\ reducers_done' = reducers_done
  BY DEF ClientNext, fire_jobs, FireWordcount, FireKMeans, FireCrash, Fires,
    Ticks, resultVars, TypeInv, TypeOK, ClientTypeOK, OrderInv, FiredOnce
<1>2. /\ \A n \in Node : \A m \in ToSet(up[n]) \cup ToSet(down[n]) :
           \A t \in DataTypes : ~Is(m, t)
      /\ \A v \in Reducer : rState[v] = "EXPECT_CODE"
      /\ reducers_done = 0
  BY <1>1, UnfiredQueues
<1>3. mappers # {}
  BY SaneCounts
<1>4. PICK lines \in Seq(Seq(Items)) :
        Send(Client, Codes \o DataBurst(mappers, lines, 1))
  BY <1>1, <1>3, FireSendsRound
<1> DEFINE b == DataBurst(mappers, lines, 1)
<1>5. b \in Seq(Message) /\ SentRound(b)
  <2>1. mappers \in SUBSET Mapper /\ 1 \in 1..MaxRounds
    BY ProtocolAssumption DEF TypeInv, TypeOK, ClientTypeOK
  <2>2. QED  BY <1>3, <2>1, BurstCount
<1>6. Send(Client, Codes \o b)
  BY <1>4
<1> HIDE DEF b
<1>7. /\ Codes \in Seq(Message)
      /\ \A m \in ToSet(Codes) : ~Is(m, MAP_DATATYPE)
  BY CodesAreCode DEF DataTypes
<1> DEFINE c == Codes \o b
<1>8. c \in Seq(Message) /\ SentRound(c)
  BY <1>5, <1>7, RoundBehind, Together
<1>9. Send(Client, c)
  BY <1>6
<1> HIDE DEF c
<1>10. /\ up[Client] \in Seq(Message) /\ up'[Client] = up[Client] \o c
       /\ \A n \in Node : n # Client => up'[n] = up[n]
       /\ Client \in Node
  <2>1. up \in [Node -> Seq(Message)] /\ Client \in Node
    BY QueueTypes, Roles
  <2>2. QED  BY <1>8, <1>9, <2>1, FillQueue
<1>11. SentRound(up'[Client])
  <2>1. \A m \in ToSet(up[Client]) : ~Is(m, MAP_DATATYPE)
    BY <1>2, <1>10 DEF DataTypes
  <2>2. QED  BY <1>8, <1>10, <2>1, RoundBehind
<1>12. \A n \in Worker : \A m \in ToSet(up'[n]) \cup ToSet(down'[n]) :
         \A t \in DataTypes : ~Is(m, t)
  <2>1. \A n \in Worker : n \in Node /\ n # Client
    BY Roles DEF Node
  <2>2. QED  BY <1>1, <1>2, <1>10, <2>1
<1>13. \A m \in ToSet(down'[Client]) : ~Is(m, RESULT_DATATYPE)
  BY <1>1, <1>2, <1>10 DEF DataTypes
<1>14. ASSUME NEW v \in reducers
       PROVE  /\ DoneBefore(v)' = 0
              /\ rState'[v] # "EXPECT_CODE" =>
                   mapper_count'[v] = Cardinality(mappers)
  <2>1. v \in Reducer
    BY DEF TypeInv, TypeOK, ClientTypeOK
  <2>2. rState[v] = "EXPECT_CODE" /\ mappers_done[v] = 0
    BY <1>2, <2>1 DEF AllParts, BuffersPairs
  <2>3. QED  BY <1>1, <2>2 DEF reducerVars, DoneBefore
<1>15. QED  BY <1>1, <1>2, <1>11, <1>12, <1>13, <1>14, RoundStarts
-----------------------------------------------------------------------------
(* With numbers the workers do not take, there is nothing to account for. *)
Harmless(m) == /\ ~Is(m, RESULT_DATATYPE)
               /\ ~ValidCount(Cardinality(reducers)) => ~Is(m, REDUCE_DATATYPE)
NoneStarts ==
  /\ ~ValidCount(Cardinality(reducers)) =>
       \A w \in Mapper : mState[w] = "EXPECT_CODE"
  /\ ~ValidCount(Cardinality(mappers)) =>
       \A v \in Reducer : rState[v] = "EXPECT_CODE"

LEMMA NoMoreForm ==
  /\ NoMore <=> /\ NoneStarts
                /\ \A n \in Node : \A m \in ToSet(up[n]) \cup ToSet(down[n]) :
                     Harmless(m)
  /\ NoMore' <=> /\ NoneStarts'
                 /\ \A n \in Node :
                      \A m \in ToSet(up'[n]) \cup ToSet(down'[n]) : Harmless(m)'
  BY DEF NoMore, NoneStarts, Harmless

LEMMA WorkerNoMore ==
  ASSUME TypeInv, NoMore, NEW w \in Node, Receive(w), UNCHANGED clientVars,
         NEW out \in Seq(Message), Send(w, out),
         \A m \in ToSet(out) : Harmless(m), NoneStarts'
  PROVE  NoMore'
<1>1. /\ ToSet(down'[w]) \subseteq ToSet(down[w])
      /\ \A n \in Node : n # w => down'[n] = down[n]
      /\ ToSet(up'[w]) = ToSet(up[w]) \cup ToSet(out)
      /\ \A n \in Node : n # w => up'[n] = up[n]
  BY NodeMoves
<1>2. \A n \in Node : \A m \in ToSet(up[n]) \cup ToSet(down[n]) : Harmless(m)
  BY NoMoreForm
<1>3. \A m : Harmless(m)' <=> Harmless(m)
  BY DEF Harmless, clientVars
<1>4. \A n \in Node : \A m \in ToSet(up'[n]) \cup ToSet(down'[n]) : Harmless(m)
  BY <1>1, <1>2
<1>5. QED  BY <1>3, <1>4, NoMoreForm

LEMMA RouterNoMore ==
  ASSUME TypeInv, NoMore, NEW n \in Node, RouterNext(n)
  PROVE  NoMore'
<1> DEFINE h == Head(up[n])
<1>1. /\ UNCHANGED <<mapperVars, reducerVars, clientVars>>
      /\ h \in ToSet(up[n]) /\ ToSet(up'[n]) \subseteq ToSet(up[n])
      /\ \A m \in Node : m # n => up'[m] = up[m]
      /\ \A m \in Node : \/ down'[m] = down[m]
                         \/ ToSet(down'[m]) = ToSet(down[m]) \cup {h}
  BY RouterMoves
<1> HIDE DEF h
<1>2. \A k \in Node : \A m \in ToSet(up[k]) \cup ToSet(down[k]) : Harmless(m)
  BY NoMoreForm
<1>3. \A k \in Node : \A m \in ToSet(up'[k]) \cup ToSet(down'[k]) : Harmless(m)
  BY <1>1, <1>2
<1>4. (\A m : Harmless(m)' <=> Harmless(m)) /\ (NoneStarts' <=> NoneStarts)
  BY <1>1 DEF Harmless, NoneStarts, clientVars, mapperVars, reducerVars
<1>5. QED  BY <1>3, <1>4, NoMoreForm

LEMMA StartNoMore ==
  ASSUME TypeInv, NoMore, NEW w \in Worker, StartNext(w)
  PROVE  NoMore'
<1>1. /\ w \in Node /\ Receive(w) /\ Send(w, <<JobRequest(w)>>)
      /\ UNCHANGED <<mapperVars, reducerVars, clientVars>>
  BY Roles DEF StartNext, startsession
<1>2. /\ <<JobRequest(w)>> \in Seq(Message)
      /\ \A m \in ToSet(<<JobRequest(w)>>) : Harmless(m)
  <2>1. JobRequest(w) \in Message /\ JobRequest(w).type = JOB_REQUEST
    BY JobRequestType DEF Message, JobRequest, Pub
  <2>2. \A m \in ToSet(<<JobRequest(w)>>) : m = JobRequest(w)
    BY DEF ToSet
  <2>3. QED
    BY <2>1, <2>2 DEF Harmless, Is, JOB_REQUEST, RESULT_DATATYPE,
      REDUCE_DATATYPE
<1>3. NoneStarts'
  BY <1>1, NoMoreForm DEF NoneStarts, clientVars, mapperVars, reducerVars
<1>4. UNCHANGED clientVars
  BY <1>1
<1>5. QED  BY <1>1, <1>2, <1>3, <1>4, WorkerNoMore

LEMMA MapperNoMore ==
  ASSUME TypeInv, OrderInv, NoMore, NEW w \in Mapper, MapperNext(w)
  PROVE  NoMore'
<1>1. /\ w \in Node /\ Receive(w) /\ UNCHANGED <<reducerVars, clientVars>>
      /\ MapperTypeOK /\ NoneStarts
  BY Roles, NoMoreForm DEF MapperNext, MapperStep, MapCode, MapData,
    finish_round, MapReject, TakesMapData, TakesData, TypeInv, TypeOK
<1>2. NoneStarts'
  <2>1. ASSUME ~ValidCount(Cardinality(reducers))
        PROVE  mState' = mState
    <3>1. mState[w] = "EXPECT_CODE"
      BY <1>1, <2>1 DEF NoneStarts
    <3>2. CASE MapCode(w)
      <4>1. /\ Head(down[w]) \in ToSet(down[w]) /\ Head(down[w]).op = "pub"
            /\ Head(down[w]).type = MAP_CODETYPE
        BY <1>1, <3>2, NodeHead DEF MapCode, TakesData
      <4>2. Head(down[w]).body.count = Cardinality(reducers)
        BY <1>1, <4>1 DEF OrderInv, MessagesSound, Sound
      <4>3. QED  BY <1>1, <2>1, <3>2, <4>2 DEF MapCode, MapperTypeOK
    <3>3. CASE MapReject(w)
      BY <3>3 DEF MapReject
    <3>4. QED
      BY <3>1, <3>2, <3>3 DEF MapperNext, MapperStep, MapData, finish_round,
        TakesMapData
  <2>2. QED  BY <1>1, <2>1 DEF NoneStarts, reducerVars, clientVars
<1>3. PICK out \in Seq(Message) :
        Send(w, out) /\ \A m \in ToSet(out) : Harmless(m)
  <2>1. CASE up' = up
    BY <1>1, <2>1, NodeReads, NothingSent
  <2>2. CASE mState[w] # "EXPECT_CODE"
             /\ \E out \in Seq(MapperMessage(w)) : Send(w, out)
    <3>1. PICK out \in Seq(MapperMessage(w)) : Send(w, out)
      BY <2>2
    <3>2. out \in Seq(Message) /\ ToSet(out) \subseteq MapperMessage(w)
      BY SentAreMessages, ToSetQueue
    <3>3. ValidCount(Cardinality(reducers))
      BY <1>1, <2>2 DEF NoneStarts
    <3>4. \A m \in ToSet(out) : Harmless(m)
      BY <3>2, <3>3 DEF Harmless, Is, MapperMessage, RESULT_DATATYPE,
        REDUCE_DATATYPE
    <3>5. QED  BY <3>1, <3>2, <3>4
  <2>3. QED  BY <2>1, <2>2, MapperSends
<1>4. UNCHANGED clientVars
  BY <1>1
<1>5. QED  BY <1>1, <1>2, <1>3, <1>4, WorkerNoMore

LEMMA ReducerNoMore ==
  ASSUME TypeInv, OrderInv, ~Sane, NoMore, NEW v \in Reducer, ReducerNext(v)
  PROVE  NoMore'
<1>1. /\ v \in Node /\ Receive(v) /\ UNCHANGED <<mapperVars, clientVars>>
      /\ ReducerTypeOK /\ NoneStarts
  BY Roles, NoMoreForm DEF ReducerNext, ReducerStep, ReduceCode, ReduceData,
    MoreMappers, start_process, ReduceReject, MapperDone, TakesReduceData,
    TakesData, TypeInv, TypeOK
<1>2. /\ Head(down[v]) \in ToSet(down[v]) /\ Head(down[v]).op = "pub"
      /\ Harmless(Head(down[v]))
  BY <1>1, NodeHead, NoMoreForm
<1>3. ReduceCode(v) \/ ReduceReject(v)
  <2>1. SUFFICES ASSUME TakesReduceData(v) PROVE FALSE
    BY DEF ReducerNext, ReducerStep, ReduceData, MoreMappers, start_process,
      MapperDone
  <2>2. Head(down[v]).type = REDUCE_DATATYPE /\ rState[v] # "EXPECT_CODE"
    BY <2>1 DEF TakesReduceData, TakesData
  <2>3. ValidCount(Cardinality(mappers))
    BY <1>1, <2>2 DEF NoneStarts
  <2>4. ~ValidCount(Cardinality(reducers))
    BY <2>3 DEF Sane
  <2>5. QED  BY <1>2, <2>2, <2>4 DEF Harmless, Is
<1>4. up' = up
  BY <1>3 DEF ReduceCode, ReduceReject
<1>5. NoneStarts'
  <2>1. ASSUME ~ValidCount(Cardinality(mappers))
        PROVE  rState' = rState
    <3>1. CASE ReduceCode(v)
      <4>1. Head(down[v]).type = REDUCE_CODETYPE
        BY <3>1 DEF ReduceCode, TakesData
      <4>2. Head(down[v]).body.count = Cardinality(mappers)
        BY <1>1, <1>2, <4>1 DEF OrderInv, MessagesSound, Sound
      <4>3. Head(down[v]).body.count \notin 1..999
        BY <2>1, <4>2, ZenonT(40) DEF ValidCount
      <4>4. rState' = [rState EXCEPT ![v] = rState[v]]
        BY <3>1, <4>3 DEF ReduceCode, ValidCount
      <4>5. QED  BY <1>1, <4>4 DEF ReducerTypeOK
    <3>2. CASE ReduceReject(v)
      BY <3>2 DEF ReduceReject, reducerVars
    <3>3. QED  BY <1>3, <3>1, <3>2
  <2>2. QED  BY <1>1, <2>1 DEF NoneStarts, mapperVars, clientVars
<1>6. Send(v, <<>>) /\ UNCHANGED clientVars
  BY <1>1, <1>4, NodeReads
<1>7. QED  BY <1>1, <1>5, <1>6, NothingSent, WorkerNoMore

LEMMA NoResultTaken ==
  ASSUME TypeInv, NoMore, TakesResult
  PROVE  FALSE
<1>1. /\ Client \in Node /\ Receive(Client)
      /\ Head(down[Client]).type = RESULT_DATATYPE
  BY Roles DEF TakesResult, Takes
<1>2. Head(down[Client]) \in ToSet(down[Client])
      /\ Head(down[Client]).op = "pub"
  BY <1>1, NodeHead
<1>3. QED  BY <1>1, <1>2, NoMoreForm DEF Harmless, Is

LEMMA FireNoMore ==
  ASSUME TypeInv, SubscribedInv, ~late, OrderInv, AllParts, ClientNext,
         fire_jobs
  PROVE  NoMore'
<1>1. /\ UNCHANGED <<mapperVars, reducerVars, mappers, reducers>>
      /\ ~(fires > 0) /\ down' = down
  BY DEF ClientNext, fire_jobs, FireWordcount, FireKMeans, FireCrash, Fires,
    Ticks, TypeInv, TypeOK, ClientTypeOK, OrderInv, FiredOnce
<1>2. /\ \A n \in Node : \A m \in ToSet(up[n]) \cup ToSet(down[n]) : Harmless(m)
      /\ NoneStarts
  BY <1>1, UnfiredQueues DEF Harmless, NoneStarts, DataTypes
<1>3. PICK out \in Seq(ClientMessage) : Send(Client, out)
  BY JobTypes
<1>4. /\ out \in Seq(Message) /\ ToSet(out) \subseteq ClientMessage
      /\ up \in [Node -> Seq(Message)] /\ Client \in Node
  BY SentAreMessages, ToSetQueue, QueueTypes, Roles
<1>5. \A m \in ToSet(out) : Harmless(m)
  BY <1>4 DEF ClientMessage, CodeMessage, DataMessage, Harmless, Is,
    MAP_CODETYPE, REDUCE_CODETYPE, MAP_DATATYPE, REDUCE_DATATYPE,
    RESULT_DATATYPE
<1>6. /\ ToSet(up'[Client]) = ToSet(up[Client]) \cup ToSet(out)
      /\ \A n \in Node : n # Client => up'[n] = up[n]
  BY <1>3, <1>4, FillQueue
<1>7. \A n \in Node : \A m \in ToSet(up'[n]) \cup ToSet(down'[n]) : Harmless(m)
  BY <1>1, <1>2, <1>4, <1>5, <1>6
<1>8. (\A m : Harmless(m)' <=> Harmless(m)) /\ (NoneStarts' <=> NoneStarts)
  BY <1>1 DEF Harmless, NoneStarts, mapperVars, reducerVars
<1>9. QED  BY <1>2, <1>7, <1>8, NoMoreForm
-----------------------------------------------------------------------------
(* The steps taken together: who keeps the accounts, by the type of the    *)
(* message that is taken.                                                  *)
LEMMA InitRound == Init => RoundInv
<1> SUFFICES ASSUME Init  PROVE RoundInv
  OBVIOUS
<1>1. /\ fires = 0 /\ reducers_done = 0
      /\ \A w \in Mapper : mState[w] = "EXPECT_CODE" /\ outbuff[w] = NoPairs
      /\ \A v \in Reducer : /\ rState[v] = "EXPECT_CODE"
                            /\ data_buff[v] = NoPairs /\ mappers_done[v] = 0
  BY DEF Init, ClientInit, MapperInit, ReducerInit
<1>2. ASSUME NEW n \in Node
      PROVE  PartsOf(n)
  <2>1. /\ ToSet(up[n]) = ToSet(IF n = Client THEN init ELSE initialsub(n))
        /\ ToSet(down[n]) = {}
    BY DEF Init, ToSet
  <2>2. \A m \in ToSet(up[n]) : m.op = "sub" \/ m.type = JOB_ADVERTISE
    <3>1. CASE n = Client
      BY <2>1, <3>1 DEF init, ToSet, Sub, Pub
    <3>2. CASE n # Client
      BY <2>1, <3>2 DEF initialsub, ToSet, Sub
    <3>3. QED  BY <3>1, <3>2
  <2>3. QED
    BY <2>1, <2>2 DEF PartsOf, SentBy, Current, Data, Is, JOB_ADVERTISE,
      MAP_DATATYPE, REDUCE_DATATYPE, RESULT_DATATYPE
<1>3. QED
  BY <1>1, <1>2, EmptyOfRound DEF RoundInv, AllParts, HoldsPairs, BuffersPairs

LEMMA RouterAccounts ==
  ASSUME TypeInv, TypeInv', SubscribedInv, OrderInv, AllParts, ~late, Accounts,
         NEW n \in Node, RouterNext(n)
  PROVE  Accounts' /\ Settled
  BY RouterNeutral, RouteMapData, RouteReduceData, RouteResult DEF DataTypes

LEMMA MapperAccounts ==
  ASSUME TypeInv, TypeInv', SubscribedInv, OrderInv, Sane, AllParts, ~late,
         Accounts, NEW w \in Mapper, MapperNext(w)
  PROVE  Accounts' /\ Settled
  BY MapCodeNeutral, MapDataAccounts, FinishAccounts DEF MapperNext, MapperStep

LEMMA ReducerAccounts ==
  ASSUME TypeInv, TypeInv', OrderInv, Sane, AllParts, Accounts,
         NEW v \in Reducer, ReducerNext(v)
  PROVE  Accounts' /\ Settled
  BY ReduceCodeNeutral, ReduceDataAccounts, StartProcessAccounts
    DEF ReducerNext, ReducerStep

(* A step of the client registers a worker, fires the job, takes a result, *)
(* starts a round or counts down.                                          *)
LEMMA ClientParts ==
  ASSUME TypeInv, TypeInv', SubscribedInv, OrderInv, RoundInv, ClientNext,
         ~late'
  PROVE  AllParts'
<1>1. ~late /\ AllParts
  BY StaysLate DEF Next, RoundInv
<1>2. CASE HandleJobRequest
  BY <1>1, <1>2, RequestParts
<1>3. CASE fire_jobs
  BY <1>1, <1>3, FireParts
<1>4. CASE fire_new_round
  <2>1. TakesResult
    BY <1>4 DEF fire_new_round, KMeansRound, ReducerDone
  <2>2. /\ Client \in Node /\ Receive(Client)
        /\ Is(Head(down[Client]), RESULT_DATATYPE)
    BY <2>1, ResultTaken
  <2>3. fires > 0
    BY <1>1, <2>2, NodeHead, ServedWasFired, DataServe DEF DataTypes
  <2>4. Sane
    BY <1>1, <2>1, <2>3, NoResultTaken DEF RoundInv
  <2>5. QED  BY <1>1, <1>4, <2>3, <2>4, NewRound DEF RoundInv
<1>5. CASE HandlePair \/ MoreReducers \/ WordcountFinish \/ KMeansFinish
  <2>1. /\ TakesResult
        /\ up' = up /\ round_' = round_
    BY <1>5 DEF HandlePair, MoreReducers, WordcountFinish, KMeansFinish,
      KMeansRound, ReducerDone
  <2>2. Receive(Client) /\ Is(Head(down[Client]), RESULT_DATATYPE)
    BY <2>1, ResultTaken
  <2>3. mappers' = mappers /\ reducers' = reducers /\ fires' = fires
    BY <2>1 DEF TakesResult
  <2>4. QED  BY <1>1, <2>1, <2>2, <2>3, QuietParts
<1>6. CASE CountDown \/ FileError
  <2>1. /\ up' = up /\ round_' = round_ /\ fires' = fires /\ down' = down
        /\ mappers' = mappers /\ reducers' = reducers
        /\ reducers_done' = reducers_done
    BY <1>6 DEF CountDown, FileError, Ticks, firingVars, resultVars
  <2>2. QED  BY <1>1, <2>1, QuietParts
<1>7. QED
  BY <1>2, <1>3, <1>4, <1>5, <1>6 DEF ClientNext, ClientStep

LEMMA ClientAccounts ==
  ASSUME TypeInv, TypeInv', SubscribedInv, OrderInv, RoundInv, ClientNext,
         ~late', fires' > 0
  PROVE  IF Sane' THEN Accounts' ELSE NoMore'
<1>1. ~late /\ AllParts /\ (fires > 0 => IF Sane THEN Accounts ELSE NoMore)
  BY StaysLate DEF Next, RoundInv
<1>2. CASE HandleJobRequest
  BY <1>1, <1>2 DEF HandleJobRequest, firingVars
<1>3. CASE fire_jobs
  <2>1. Sane' <=> Sane
    BY <1>3 DEF fire_jobs, FireWordcount, FireKMeans, FireCrash, Fires, Ticks,
      Sane
  <2>2. QED  BY <1>1, <1>3, <2>1, FireAccounts, FireNoMore
<1>4. CASE TakesResult
  <2>1. /\ Client \in Node /\ Receive(Client)
        /\ Is(Head(down[Client]), RESULT_DATATYPE)
    BY <1>4, ResultTaken
  <2>2. fires > 0
    BY <1>1, <2>1, NodeHead, ServedWasFired, DataServe DEF DataTypes
  <2>3. Sane /\ Accounts
    BY <1>1, <1>4, <2>2, NoResultTaken
  <2>4. Sane'
    BY <1>4, <2>3 DEF TakesResult, Sane
  <2>5. CASE fire_new_round
    BY <1>1, <2>2, <2>3, <2>4, <2>5, NewRound
  <2>6. CASE HandlePair \/ MoreReducers \/ WordcountFinish \/ KMeansFinish
    BY <2>3, <2>4, <2>6, ResultAccounts
  <2>7. CASE HandleJobRequest \/ CountDown \/ FileError \/ fire_jobs
    BY <1>2, <1>3, <1>4, <2>2, <2>7 DEF CountDown, FileError, OrderInv,
      FiredOnce
  <2>8. QED  BY <2>5, <2>6, <2>7 DEF ClientNext, ClientStep
<1>5. CASE CountDown \/ FileError
  BY <1>5 DEF CountDown, FileError, firingVars, OrderInv, FiredOnce, TypeInv,
    TypeOK, ClientTypeOK
<1>6. QED
  BY <1>2, <1>3, <1>4, <1>5 DEF ClientNext, ClientStep, HandlePair,
    MoreReducers, WordcountFinish, fire_new_round, KMeansFinish, KMeansRound,
    ReducerDone

LEMMA StutterRound ==
  ASSUME RoundInv, UNCHANGED vars
  PROVE  RoundInv'
<1>1. /\ up' = up /\ down' = down
      /\ UNCHANGED <<mapperVars, reducerVars, clientVars>>
  BY DEF vars, netVars
<1>2. AllParts' <=> AllParts
  BY <1>1 DEF mapperVars, reducerVars, clientVars, firingVars, resultVars,
    AllParts, PartsOf, HoldsPairs, BuffersPairs, SentBy, TakePart, Current,
    Sorted, LeadsTo, DestOf, Mapped, OfRound, Round
<1>3. NoMore' <=> NoMore
  BY <1>1 DEF mapperVars, reducerVars, clientVars, NoMore
<1>4. \A w, d : /\ EndsFor(w)' = EndsFor(w) /\ Owes(w, d)' = Owes(w, d)
  BY <1>1 DEF EndsFor, Owes
<1>5. Addressed' = Addressed /\ Below' = Below
  BY <1>1 DEF clientVars, Addressed, Below
<1>6. \A w : MapperAccount(w)' <=> MapperAccount(w)
  BY <1>1, <1>4, <1>5 DEF MapperAccount, mapperVars
<1>7. \A v : Expected(v)' = Expected(v) /\ Debtors(v)' = Debtors(v)
  BY <1>1, <1>4, <1>5 DEF Expected, Debtors, DoneBefore, reducerVars, clientVars
<1>8. \A v : ReducerAccount(v)' <=> ReducerAccount(v)
  BY <1>1, <1>7 DEF ReducerAccount, reducerVars, clientVars
<1>9. Reporting' = Reporting
  BY <1>1, <1>7 DEF Reporting, clientVars
<1>10. ClientAccount' <=> ClientAccount
  BY <1>1, <1>9 DEF ClientAccount, clientVars, resultVars
<1>11. Accounts' <=> Accounts
  BY <1>1, <1>6, <1>8, <1>10 DEF Accounts, clientVars
<1>12. (Sane' <=> Sane) /\ fires' = fires /\ late' = late
  BY <1>1 DEF Sane, clientVars, firingVars
<1>13. QED  BY <1>2, <1>3, <1>11, <1>12 DEF RoundInv

LEMMA StepRound ==
  TypeInv /\ SubscribedInv /\ ProtocolInv /\ RoundInv /\ [Next]_vars
    => RoundInv'
<1> SUFFICES ASSUME TypeInv, SubscribedInv, ProtocolInv, RoundInv,
                    [Next]_vars, ~late'
             PROVE  RoundInv'
  BY DEF RoundInv
<1>1. /\ TypeInv' /\ ~late /\ OrderInv /\ AllParts
      /\ fires > 0 => IF Sane THEN Accounts ELSE NoMore
  BY StepTypes, StaysLate DEF ProtocolInv, RoundInv
<1>2. UNCHANGED clientVars => fires' = fires /\ (Sane' <=> Sane)
  BY DEF clientVars, firingVars, Sane
<1>3. ASSUME NEW n \in Node, RouterNext(n)
      PROVE  RoundInv'
  BY <1>1, <1>2, <1>3, RouterParts, RouterAccounts, RouterNoMore
    DEF RouterNext, RoundInv
<1>4. ASSUME NEW w \in Worker, StartNext(w)
      PROVE  RoundInv'
  BY <1>1, <1>2, <1>4, StartParts, StartNeutral, StartNoMore
    DEF StartNext, RoundInv
<1>5. ASSUME NEW w \in Mapper, MapperNext(w)
      PROVE  RoundInv'
  BY <1>1, <1>2, <1>5, MapperParts, MapperAccounts, MapperNoMore
    DEF MapperNext, RoundInv
<1>6. ASSUME NEW v \in Reducer, ReducerNext(v)
      PROVE  RoundInv'
  BY <1>1, <1>2, <1>6, ReducerParts, ReducerAccounts, ReducerNoMore
    DEF ReducerNext, RoundInv
<1>7. CASE ClientNext
  BY <1>1, <1>7, ClientParts, ClientAccounts DEF RoundInv
<1>8. CASE UNCHANGED vars
  BY <1>8, StutterRound
<1>9. QED
  BY <1>3, <1>4, <1>5, <1>6, <1>7, <1>8 DEF Next

LEMMA RoundFollows == TypeInv /\ RoundInv => RoundsDoNotMix
<1> SUFFICES ASSUME TypeInv, AllParts
             PROVE  /\ \A n \in Node :
                         \A p \in PairsIn(up[n]) \cup PairsIn(down[n]) :
                           p.key[1] = Round
                    /\ \A w \in Mapper : OfRound(outbuff[w])
                    /\ \A v \in Reducer :
                         rState[v] = "EXPECT_DATA" => OfRound(data_buff[v])
  BY DEF RoundInv, RoundsDoNotMix
<1>1. ASSUME NEW q \in Seq(Message), \A m \in ToSet(q) : Current(m),
             NEW p \in PairsIn(q)
      PROVE  p.key[1] = Round
  <2>1. PICK i \in DOMAIN q :
          /\ p = q[i].body /\ q[i].op = "pub" /\ ~q[i].body.end
          /\ q[i].type \in {REDUCE_DATATYPE, RESULT_DATATYPE}
    BY DEF PairsIn
  <2>2. q[i] \in ToSet(q) /\ q[i] \in Message
    BY DEF ToSet
  <2>3. QED  BY <1>1, <2>1, <2>2 DEF Current, Data, Is
<1>2. \A n \in Node :
        /\ up[n] \in Seq(Message) /\ down[n] \in Seq(Publication)
        /\ \A m \in ToSet(up[n]) : Current(m)
        /\ \A m \in ToSet(down[n]) : Current(m)
  BY QueueTypes DEF AllParts, PartsOf
<1>3. \A n \in Node : down[n] \in Seq(Message)
  <2>1. Publication \subseteq Message
    BY DEF Publication, Message
  <2>2. QED  BY <1>2, <2>1
<1>4. \A n \in Node : \A p \in PairsIn(up[n]) \cup PairsIn(down[n]) :
        p.key[1] = Round
  <2> TAKE n \in Node
  <2>1. \A p \in PairsIn(up[n]) : p.key[1] = Round
    BY <1>1, <1>2
  <2>2. \A p \in PairsIn(down[n]) : p.key[1] = Round
    BY <1>1, <1>2, <1>3
  <2>3. QED  BY <2>1, <2>2
<1>5. QED  BY <1>4 DEF AllParts, HoldsPairs, BuffersPairs, Sorted

(* Rounds do not mix: in a job that nobody joins late, for any number of   *)
(* mappers and reducers and whatever the interleaving, no pair of an       *)
(* earlier or later round is ever in a queue, in a mapper's buffer or in   *)
(* that of a reducer that is not through, though nothing in the code but   *)
(* the counting of end markers separates rounds (mappers_done against      *)
(* mapper_count in the reducer, reducers_done in the client).              *)
THEOREM RoundsKeptApart == Spec => []RoundsDoNotMix
  BY InitTypes, StepTypes, InitSubscribed, StepSubscribed, InitOrder,
    StepOrder, InitRound, StepRound, RoundFollows, PTL DEF Spec
=============================================================================
