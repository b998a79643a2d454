--------------------------- MODULE EnclavedReducer --------------------------
(***************************************************************************)
(* The reducer's automaton inside the enclave: EnclavedReducer::income_data*)
(* with all it calls, the reduce script's pushes included                  *)
(* (enclaved_reducer.cpp).                                                 *)
(***************************************************************************)
EXTENDS WorkerProtocol

VARIABLES
  rState,        \* state_
  mapper_count,  \* mappers_.size() when the job was fired
  mappers_done,  \* end markers seen in this round
  data_buff      \* data_buff_: pairs of this round, summed per key

reducerVars == <<rState, mapper_count, mappers_done, data_buff>>

ReducerInit ==
  /\ rState = [w \in Reducer |-> "EXPECT_CODE"]
  /\ mapper_count = [w \in Reducer |-> 0]
  /\ mappers_done = [w \in Reducer |-> 0]
  /\ data_buff = [w \in Reducer |-> NoPairs]

-----------------------------------------------------------------------------
ReduceCode(w) ==
  /\ TakesData(w, {REDUCE_CODETYPE}) /\ rState[w] = "EXPECT_CODE"
  /\ LET count == Head(down[w]).body.count
     IN /\ mapper_count' = [mapper_count EXCEPT ![w] = count]
        /\ rState' = [rState EXCEPT ![w] =
                        IF count \in 1..999 THEN "EXPECT_DATA" ELSE @]
  /\ UNCHANGED <<up, mappers_done, data_buff>>

(* Data end the wait for the next round, which clears what was counted and *)
(* buffered before the message is looked at: the counter and the buffer    *)
(* that a data message finds.                                              *)
DoneNeverReset(w) == mappers_done[w]
DoneBefore(w) == IF rState[w] = "WAIT_NEXT" THEN 0 ELSE mappers_done[w]
BufferNeverCleared(w) == data_buff[w]
BufferAlwaysCleared(w) == NoPairs
BufferBefore(w) == IF rState[w] = "WAIT_NEXT" THEN NoPairs ELSE data_buff[w]

TakesReduceData(w) ==
  /\ TakesData(w, {REDUCE_DATATYPE}) /\ rState[w] # "EXPECT_CODE"
  /\ UNCHANGED mapper_count

ReduceData(w) ==
  /\ TakesReduceData(w) /\ ~Head(down[w]).body.end
  /\ LET pair == Head(down[w]).body
     IN data_buff' = [data_buff EXCEPT ![w] =
          [BufferBefore(w) EXCEPT ![pair.key] = Plus(@, pair.value)]]
  /\ mappers_done' = [mappers_done EXCEPT ![w] = DoneBefore(w)]
  /\ rState' = [rState EXCEPT ![w] = "EXPECT_DATA"]
  /\ UNCHANGED up

(* The end marker of one mapper. *)
MapperDone(w) ==
  /\ TakesReduceData(w) /\ Head(down[w]).body.end
  /\ mappers_done' = [mappers_done EXCEPT ![w] = DoneBefore(w) + 1]
  /\ data_buff' = [data_buff EXCEPT ![w] = BufferBefore(w)]

MoreMappers(w) ==
  /\ MapperDone(w) /\ DoneBefore(w) + 1 # mapper_count[w]
  /\ rState' = [rState EXCEPT ![w] = "EXPECT_DATA"]
  /\ UNCHANGED up

(* The reduce script is called once per key and pushes one pair for it. *)
ReduceOutput(buff) ==
  LET ks == SetToSeq({k \in Key : buff[k] # Zero})
  IN [i \in 1..Len(ks) |->
        Pub(RESULT_DATATYPE, NoDst, Pair(ks[i], buff[ks[i]]))]

(* The client takes the marker for the end of what this reducer sends.     *)
MarkerThenOutput(buff) ==
  <<Pub(RESULT_DATATYPE, NoDst, EndOfRound)>> \o ReduceOutput(buff)
OutputThenMarker(buff) ==
  ReduceOutput(buff) \o <<Pub(RESULT_DATATYPE, NoDst, EndOfRound)>>

start_process(w) ==
  /\ MapperDone(w) /\ DoneBefore(w) + 1 = mapper_count[w]
  /\ Send(w, OutputThenMarker(BufferBefore(w)))
  /\ rState' = [rState EXCEPT ![w] = "WAIT_NEXT"]

(* proterror, or code while waiting for a round: the message is dropped. *)
ReduceReject(w) ==
  /\ \/ rState[w] = "EXPECT_CODE" /\ TakesData(w, {REDUCE_DATATYPE})
     \/ rState[w] # "EXPECT_CODE" /\ TakesData(w, {REDUCE_CODETYPE})
  /\ UNCHANGED <<up, reducerVars>>

ReducerStep(w) ==
  \/ ReduceCode(w) \/ ReduceData(w)
  \/ MoreMappers(w) \/ start_process(w) \/ ReduceReject(w)

ReducerTypeOK ==
  /\ rState \in [Reducer -> State]
  /\ mapper_count \in [Reducer -> Nat]
  /\ mappers_done \in [Reducer -> Nat]
  /\ data_buff \in [Reducer -> [Key -> Value]]
=============================================================================
