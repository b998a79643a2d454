--------------------------- MODULE EnclavedMapper ---------------------------
(***************************************************************************)
(* The mapper's automaton inside the enclave: EnclavedMapper::income_data  *)
(* with all it calls, the map script's pushes included (enclaved_mapper.cpp*)
(* and the mapper's share of enclave_mapreduce.cpp).                       *)
(***************************************************************************)
EXTENDS WorkerProtocol

VARIABLES
  mState,         \* state_
  reducer_count,  \* reducers_.size() when the job was fired
  outbuff,        \* outbuff_: pairs kept back for combine, summed per key
  writethrough,   \* config.writethrough: push sends at once
  dataOnce        \* static "once": no MAP_DATATYPE message seen yet

mapperVars == <<mState, reducer_count, outbuff, writethrough, dataOnce>>

MapperInit ==
  /\ mState = [w \in Mapper |-> "EXPECT_CODE"]
  /\ reducer_count = [w \in Mapper |-> 0]
  /\ outbuff = [w \in Mapper |-> NoPairs]
  /\ writethrough = [w \in Mapper |-> FALSE]
  /\ dataOnce = [w \in Mapper |-> TRUE]

-----------------------------------------------------------------------------
ValidCount(n) == n \in 1..999

(* getdestination: the script's hash, a number below count, becomes the    *)
(* single character '0' + hash, which only spells a decimal up to 9.       *)
CharDst(h) == IF h % 256 <= 9 THEN h % 256 ELSE BadDst
getdestination(w, k) == CharDst(HashOf[k[2]] % reducer_count[w])

ToReducer(w, k, v) == Pub(REDUCE_DATATYPE, getdestination(w, k), Pair(k, v))

(* What one call of the script's map pushes for a line under header h: one *)
(* message per item, or, stored for combine, a sum per key.                *)
MapOutput(w, h, line) ==
  [j \in 1..Len(line) |-> ToReducer(w, MapKey(h, line[j]), One(line[j]))]
Pushed(h, line) ==
  [k \in Key |-> [x \in Items |->
     Cardinality({j \in 1..Len(line) : line[j] = x /\ MapKey(h, x) = k})]]
store_outputOverwrites(buff, pushed) == pushed
store_output(buff, pushed) == [k \in Key |-> Plus(buff[k], pushed[k])]

(* combine is called once per stored key, and pushes one pair for it. *)
StoredKeys(w) == {k \in Key : outbuff[w][k] # Zero}
flush_output(w) ==
  IF HasCombine
  THEN LET ks == SetToSeq(StoredKeys(w))
       IN [i \in 1..Len(ks) |-> ToReducer(w, ks[i], outbuff[w][ks[i]])]
  ELSE <<>>

(* One marker to each reducer, which finish_round takes to be 0..count-1. *)
MarkersFrom1(w) ==
  [i \in 1..reducer_count[w] |-> Pub(REDUCE_DATATYPE, i, EndOfRound)]
MarkersToReducers(w) ==
  [i \in 1..reducer_count[w] |-> Pub(REDUCE_DATATYPE, i - 1, EndOfRound)]

(* ecall_inputdata, on the first MAP_DATATYPE message only: pairs are      *)
(* written through if the interpreter holds no combine function.           *)
WriteThrough(w) ==
  IF dataOnce[w] THEN ~HasCombine \/ mState[w] = "EXPECT_CODE"
                 ELSE writethrough[w]

-----------------------------------------------------------------------------
MapCode(w) ==
  /\ TakesData(w, {MAP_CODETYPE}) /\ mState[w] = "EXPECT_CODE"
  /\ LET count == Head(down[w]).body.count
     IN /\ reducer_count' = [reducer_count EXCEPT ![w] = count]
        /\ mState' = [mState EXCEPT ![w] =
                        IF ValidCount(count) THEN "EXPECT_DATA" ELSE @]
  /\ UNCHANGED <<up, outbuff, writethrough, dataOnce>>

(* WAIT_NEXT treats data as EXPECT_DATA does: a new round has begun. *)
TakesMapData(w) ==
  /\ TakesData(w, {MAP_DATATYPE}) /\ mState[w] # "EXPECT_CODE"
  /\ dataOnce' = [dataOnce EXCEPT ![w] = FALSE]
  /\ UNCHANGED reducer_count

MapData(w) ==
  /\ TakesMapData(w) /\ ~Head(down[w]).body.end
  /\ mState' = [mState EXCEPT ![w] = "EXPECT_DATA"]
  /\ writethrough' = [writethrough EXCEPT ![w] = WriteThrough(w)]
  /\ LET in == Head(down[w]).body
     IN \/ /\ WriteThrough(w)
           /\ Send(w, MapOutput(w, in.header, in.line))
           /\ UNCHANGED outbuff
        \/ /\ ~WriteThrough(w)
           /\ outbuff' = [outbuff EXCEPT ![w] =
                            store_output(@, Pushed(in.header, in.line))]
           /\ UNCHANGED up

(* apply_combine leaves writethrough set, so that later rounds do not      *)
(* combine.                                                                *)
finish_round(w) ==
  /\ TakesMapData(w) /\ Head(down[w]).body.end
  /\ Send(w, flush_output(w) \o MarkersToReducers(w))
  /\ outbuff' = [outbuff EXCEPT ![w] = NoPairs]
  /\ writethrough' = [writethrough EXCEPT ![w] =
       WriteThrough(w) \/ (HasCombine /\ StoredKeys(w) # {})]
  /\ mState' = [mState EXCEPT ![w] = "WAIT_NEXT"]

(* proterror: the message is dropped. *)
MapReject(w) ==
  /\ \/ /\ mState[w] = "EXPECT_CODE" /\ TakesData(w, {MAP_DATATYPE})
        /\ writethrough' = [writethrough EXCEPT ![w] = WriteThrough(w)]
        /\ dataOnce' = [dataOnce EXCEPT ![w] = FALSE]
     \/ /\ mState[w] # "EXPECT_CODE" /\ TakesData(w, {MAP_CODETYPE})
        /\ UNCHANGED <<writethrough, dataOnce>>
  /\ UNCHANGED <<up, mState, reducer_count, outbuff>>

MapperStep(w) == MapCode(w) \/ MapData(w) \/ finish_round(w) \/ MapReject(w)

MapperTypeOK ==
  /\ mState \in [Mapper -> State]
  /\ reducer_count \in [Mapper -> Nat]
  /\ outbuff \in [Mapper -> [Key -> Value]]
  /\ writethrough \in [Mapper -> BOOLEAN]
  /\ dataOnce \in [Mapper -> BOOLEAN]
=============================================================================
