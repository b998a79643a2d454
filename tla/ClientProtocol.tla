--------------------------- MODULE ClientProtocol ---------------------------
(***************************************************************************)
(* The client: the polling loop of client.cpp and the protocol object it   *)
(* drives (client_protocol.cpp).  The loop reads a message or none; unless *)
(* the message was a job request, the same iteration then counts down to   *)
(* the firing of the job.                                                  *)
(***************************************************************************)
EXTENDS SCBR, Partition

CONSTANTS
  Quiet,    \* polls without a job request before the job is fired (1000)
  MaxFires  \* bound: firings of the job explored

ASSUME ClientAssumption == Quiet \in Nat \ {0} /\ MaxFires \in Nat \ {0}

VARIABLES
  mappers, reducers,  \* the workers registered so far, by role
  counter,            \* polls left before the job is fired; 0: not counting
  polled,             \* a result was handled, the iteration has yet to tick
  reducers_done,      \* end markers of reducers seen in this round
  round_,             \* k-means round
  mappers_data,       \* the lines, or the partitions, sent each round
  last_result,        \* the multimap of results received in this round
  status,             \* "running", "exited" or "crashed"
  answers,            \* history: what each completed round answered
  fires,              \* history: firings of the job
  late                \* history: a worker asked for a job already fired

clientVars == <<mappers, reducers, counter, polled, reducers_done, round_,
                mappers_data, last_result, status, answers, fires, late>>
resultVars == <<reducers_done, last_result, answers>>
firingVars == <<round_, mappers_data, fires>>

NoResult == [k \in Key |-> <<>>]

ClientInit ==
  /\ mappers = {} /\ reducers = {} /\ counter = 0 /\ polled = FALSE
  /\ reducers_done = 0 /\ round_ = 0 /\ mappers_data = <<>>
  /\ last_result = NoResult /\ status = "running"
  /\ answers = <<>> /\ fires = 0 /\ late = FALSE

(* init: the job is advertised before the client subscribes to requests.   *)
init == <<Pub(JOB_ADVERTISE, NoDst, Session),
          Sub(Client, JOB_REQUEST, NoDst),
          Sub(Client, RESULT_DATATYPE, NoDst)>>

-----------------------------------------------------------------------------
(* handle_msg *)
Takes(t) ==
  /\ status = "running" /\ ~polled
  /\ down[Client] # <<>> /\ Head(down[Client]).type = t
  /\ Receive(Client)
  /\ UNCHANGED subs

RequestingAnyRole(wanted, types) == {s.node : s \in ToSet(wanted)}
Requesting(wanted, types) ==
  {s.node : s \in {t \in ToSet(wanted) : t.type \in types}}

(* The workers are registered and their subscriptions forwarded. *)
HandleJobRequest ==
  /\ Takes(JOB_REQUEST)
  /\ LET wanted == Head(down[Client]).body.subs
     IN /\ mappers' = mappers
             \cup Requesting(wanted, {MAP_CODETYPE, MAP_DATATYPE})
        /\ reducers' = reducers
             \cup Requesting(wanted, {REDUCE_CODETYPE, REDUCE_DATATYPE})
        /\ Send(Client, wanted)
  /\ counter' = Quiet
  /\ late' = (late \/ fires > 0)
  /\ UNCHANGED <<polled, resultVars, firingVars, status>>

TakesResult ==
  /\ Takes(RESULT_DATATYPE)
  /\ polled' = (counter > 0)
  /\ UNCHANGED <<mappers, reducers, counter, mappers_data, fires, late>>

HandlePair ==
  /\ TakesResult /\ ~Head(down[Client]).body.end
  /\ LET pair == Head(down[Client]).body
     IN last_result' = [last_result EXCEPT ![pair.key] = Append(@, pair.value)]
  /\ UNCHANGED <<up, reducers_done, answers, round_, status>>

ReducerDone == TakesResult /\ Head(down[Client]).body.end
AnyReducer == TRUE
LastReducer == reducers_done + 1 = Cardinality(reducers)

MoreReducers ==
  /\ ReducerDone /\ ~LastReducer
  /\ reducers_done' = reducers_done + 1
  /\ UNCHANGED <<up, last_result, answers, round_, status>>

(* Word count prints the results and exits. *)
WordcountFinish ==
  /\ ReducerDone /\ LastReducer /\ App = "WORDCOUNT"
  /\ reducers_done' = reducers_done + 1
  /\ answers' = Append(answers, last_result)
  /\ status' = "exited"
  /\ UNCHANGED <<up, last_result, round_>>

(* k-means: combine_results adds to the new centers the previous center of *)
(* every id that is missing; whether the centers have settled depends on   *)
(* coordinates, which are not modelled.  kmeans_output, which gives up if  *)
(* the number of centers has changed, is modelled as far as it goes on:    *)
(* CentersKept, in module MapReduce, says that it always does.             *)
ResultCount == Cardinality(UNION {{k} \X DOMAIN last_result[k] : k \in Key})
MissingIds == KeyIds \ {k[2] : k \in {j \in Key : last_result[j] # <<>>}}
CentersMatch == ResultCount + Cardinality(MissingIds) = Cardinality(KeyIds)

KMeansRound ==
  /\ ReducerDone /\ LastReducer /\ App = "KMEANS"
  /\ reducers_done' = 0
  /\ last_result' = NoResult
  /\ answers' = Append(answers, last_result)

fire_new_round ==
  /\ KMeansRound /\ CentersMatch /\ round_ < MaxRounds
  /\ round_' = round_ + 1
  /\ Send(Client, DataBurst(mappers, mappers_data, round_ + 1))
  /\ UNCHANGED status

KMeansFinish ==
  /\ KMeansRound /\ CentersMatch
  /\ status' = "exited"
  /\ UNCHANGED <<up, round_>>

-----------------------------------------------------------------------------
(* The end of an iteration that read no job request. *)
Ticks ==
  /\ status = "running"
  /\ polled' = FALSE
  /\ UNCHANGED <<subs, down, mappers, reducers, resultVars, late>>

CountDown ==
  /\ Ticks /\ counter > 1
  /\ counter' = counter - 1
  /\ UNCHANGED <<up, firingVars, status>>

(* openfiles: scripts and data are opened no sooner than now, and a file   *)
(* that cannot be opened ends the client.                                  *)
FileError ==
  /\ Ticks /\ counter = 1
  /\ counter' = 0
  /\ status' = "crashed"
  /\ UNCHANGED <<up, firingVars>>

Fires ==
  /\ Ticks /\ counter = 1 /\ fires < MaxFires
  /\ counter' = 0
  /\ fires' = fires + 1

Codes == <<Pub(MAP_CODETYPE, NoDst, CountOf(Cardinality(reducers))),
           Pub(REDUCE_CODETYPE, NoDst, CountOf(Cardinality(mappers)))>>

(* Code goes out before the data that are to be processed with it. *)
JobMessagesDataFirst(lines) == DataBurst(mappers, lines, 1) \o Codes
JobMessages(lines) == Codes \o DataBurst(mappers, lines, 1)

(* push_data appends the file's lines to those of an earlier firing. *)
FireWordcount ==
  /\ Fires /\ App = "WORDCOUNT" /\ mappers # {}
  /\ mappers_data' = mappers_data \o Lines
  /\ Send(Client, JobMessages(mappers_data \o Lines))
  /\ UNCHANGED <<round_, status>>

FireKMeans ==
  /\ Fires /\ App = "KMEANS" /\ mappers # {} /\ fires = 0
  /\ mappers_data' = Partitions(Lines, Cardinality(mappers))
  /\ round_' = 1
  /\ Send(Client, JobMessages(Partitions(Lines, Cardinality(mappers))))
  /\ UNCHANGED status

(* With the code already sent, the client dies: lines are dealt modulo the *)
(* number of mappers, and a second firing of k-means parses partitions as  *)
(* points.                                                                 *)
FireCrash ==
  /\ Fires /\ (mappers = {} \/ (App = "KMEANS" /\ fires > 0))
  /\ Send(Client, Codes)
  /\ status' = "crashed"
  /\ UNCHANGED <<mappers_data, round_>>

(* fire_jobs *)
fire_jobs == FireWordcount \/ FireKMeans \/ FireCrash

ClientStep ==
  \/ HandleJobRequest \/ HandlePair \/ MoreReducers \/ WordcountFinish
  \/ fire_new_round \/ KMeansFinish
  \/ CountDown \/ FileError \/ fire_jobs

ClientTypeOK ==
  /\ mappers \in SUBSET Mapper /\ reducers \in SUBSET Reducer
  /\ counter \in 0..Quiet /\ polled \in BOOLEAN
  /\ reducers_done \in Nat /\ round_ \in 0..MaxRounds
  /\ mappers_data \in Seq(Seq(Items))
  /\ last_result \in [Key -> Seq(Value)]
  /\ status \in {"running", "exited", "crashed"}
  /\ answers \in Seq([Key -> Seq(Value)])
  /\ fires \in 0..MaxFires /\ late \in BOOLEAN
=============================================================================
