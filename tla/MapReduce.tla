----------------------------- MODULE MapReduce ------------------------------
(***************************************************************************)
(* The system: one client, its mappers and reducers, and the router that   *)
(* connects them.  Every process runs at its own pace; a step of one       *)
(* leaves the others' variables alone.                                     *)
(***************************************************************************)
EXTENDS EnclavedMapper, EnclavedReducer, ClientProtocol

vars == <<netVars, started, mapperVars, reducerVars, clientVars>>

(* Every process has queued what it sends on starting.  When it started    *)
(* does not matter: the router may take these messages at any later time.  *)
Init ==
  /\ subs = {}
  /\ up = [n \in Node |-> IF n = Client THEN init ELSE initialsub(n)]
  /\ down = [n \in Node |-> <<>>]
  /\ started = [w \in Worker |-> FALSE]
  /\ MapperInit /\ ReducerInit /\ ClientInit

RouterNext(n) ==
  Route(n) /\ UNCHANGED <<started, mapperVars, reducerVars, clientVars>>
StartNext(w) ==
  startsession(w) /\ UNCHANGED <<mapperVars, reducerVars, clientVars>>
MapperNext(w) == MapperStep(w) /\ UNCHANGED <<reducerVars, clientVars>>
ReducerNext(w) == ReducerStep(w) /\ UNCHANGED <<mapperVars, clientVars>>
ClientNext == ClientStep /\ UNCHANGED <<started, mapperVars, reducerVars>>

Next ==
  \/ \E n \in Node : RouterNext(n)
  \/ \E w \in Worker : StartNext(w)
  \/ \E w \in Mapper : MapperNext(w)
  \/ \E w \in Reducer : ReducerNext(w)
  \/ ClientNext

Spec == Init /\ [][Next]_vars

(* Every process polls forever and the router forwards what it is given.   *)
Fairness ==
  /\ \A n \in Node : WF_vars(RouterNext(n))
  /\ \A w \in Worker : WF_vars(StartNext(w))
  /\ \A w \in Mapper : WF_vars(MapperNext(w))
  /\ \A w \in Reducer : WF_vars(ReducerNext(w))
  /\ WF_vars(ClientNext)

FairSpec == Spec /\ Fairness

(* A later state of Spec to start from when only the flow of data is of    *)
(* interest: every worker has registered and the client is about to fire.  *)
JoinedInit ==
  /\ subs = {Sub(w, JOB_ADVERTISE, NoDst) : w \in Worker}
       \cup UNION {ToSet(JobRequest(w).body.subs) : w \in Worker}
       \cup {Sub(Client, t, NoDst) : t \in {JOB_REQUEST, RESULT_DATATYPE}}
  /\ up = [n \in Node |-> <<>>]
  /\ down = [n \in Node |-> <<>>]
  /\ started = [w \in Worker |-> TRUE]
  /\ MapperInit /\ ReducerInit
  /\ mappers = Mapper /\ reducers = Reducer /\ counter = 1 /\ polled = FALSE
  /\ reducers_done = 0 /\ round_ = 0 /\ mappers_data = <<>>
  /\ last_result = NoResult /\ status = "running"
  /\ answers = <<>> /\ fires = 0 /\ late = FALSE

SpecJoined == JoinedInit /\ [][Next]_vars
FairSpecJoined == SpecJoined /\ Fairness

-----------------------------------------------------------------------------
(* Every variable holds what its declaration says it does. *)
TypeOK ==
  /\ subs \in SUBSET Subscription
  /\ up \in [Node -> Seq(Message)]
  /\ down \in [Node -> Seq(Publication)]
  /\ started \in [Worker -> BOOLEAN]
  /\ MapperTypeOK /\ ReducerTypeOK /\ ClientTypeOK

(* Only a count from 1 to 999 takes a mapper past EXPECT_CODE, so that no  *)
(* hash is ever taken modulo zero.                                         *)
CountsTaken == \A w \in Mapper :
  mState[w] # "EXPECT_CODE" => ValidCount(reducer_count[w])
(* Lines are dealt out only when there are mappers to deal them to.        *)
DealtToMappers == mappers = {} => mappers_data = <<>>
TypeInv == TypeOK /\ CountsTaken /\ DealtToMappers

(* The job's result for a round: under each key, each item of the file     *)
(* that the script maps to it, as often as it occurs.                      *)
Occurrences(x) ==
  Cardinality(UNION {{i} \X {j \in 1..Len(Lines[i]) : Lines[i][j] = x} :
                       i \in DOMAIN Lines})
Computed(r, k) ==
  [x \in Items |-> IF MapKey(r, x) = k THEN Occurrences(x) ELSE 0]
Exact(r) ==
  [k \in Key |-> IF Computed(r, k) = Zero THEN <<>> ELSE <<Computed(r, k)>>]

(* What the client can rely on: no worker asks for a job already fired, and *)
(* there are no more reducers than the one digit of a pair's destination   *)
(* tells apart.                                                            *)
Regular == ~late /\ Cardinality(reducers) <= 10

(* In a regular job each completed round answers every key once, with      *)
(* exactly the occurrences of its items: no line, pair or partial sum is   *)
(* lost, repeated or put under another key between handle_msg printing the *)
(* results and the lines it sent.                                          *)
AnswersExact == Regular => \A r \in DOMAIN answers : answers[r] = Exact(r)

(* Rounds are separated by end markers alone: unless a worker is late, all *)
(* pairs on their way, and all that mappers or unfinished reducers hold,   *)
(* belong to the client's present round.                                   *)
Round == IF App = "KMEANS" THEN round_ ELSE 1
OfRound(buff) == \A k \in Key : buff[k] # Zero => k[1] = Round
PairsIn(q) == {q[i].body : i \in {j \in DOMAIN q :
  q[j].op = "pub" /\ q[j].type \in {REDUCE_DATATYPE, RESULT_DATATYPE}
    /\ ~q[j].body.end}}
RoundsDoNotMix == ~late =>
  /\ \A n \in Node : \A p \in PairsIn(up[n]) \cup PairsIn(down[n]) :
       p.key[1] = Round
  /\ \A w \in Mapper : OfRound(outbuff[w])
  /\ \A w \in Reducer : rState[w] = "EXPECT_DATA" => OfRound(data_buff[w])

(* No worker ever answers "Protocol Error": whatever the interleaving, the *)
(* code reaches a worker before data do and carries a count the worker     *)
(* takes, if the job has from 1 to 999 workers of either role and nobody   *)
(* is late.                                                                *)
Unacceptable(w, state, m) ==
  \/ state = "EXPECT_CODE" /\ m.type # codetype(w)
  \/ state # "EXPECT_CODE" /\ m.type # datatype(w)
  \/ m.type = codetype(w) /\ ~ValidCount(m.body.count)
ProtocolErrorFree ==
  (/\ ~late
   /\ ValidCount(Cardinality(mappers)) /\ ValidCount(Cardinality(reducers))) =>
  \A w \in Worker : started[w] /\ down[w] # <<>> =>
    ~Unacceptable(w, IF w \in Mapper THEN mState[w] ELSE rState[w],
                  Head(down[w]))

(* Both barriers compare a counter with "==", so it must never pass the    *)
(* value it is compared with: not in a reducer collecting markers (even if *)
(* the job is fired again), and not in the client, whose set of reducers   *)
(* may still grow.                                                         *)
CountersBelow ==
  /\ \A w \in Reducer :
       rState[w] = "EXPECT_DATA" => mappers_done[w] < mapper_count[w]
  /\ status = "running" /\ reducers # {} =>
       reducers_done < Cardinality(reducers)

(* What CountersBelow rests on.  A reducer has counted nothing before it   *)
(* got its code, and from then on expects a marker at least.               *)
ReducerCounts == \A w \in Reducer :
  IF rState[w] = "EXPECT_CODE" THEN mappers_done[w] = 0 ELSE mapper_count[w] > 0
(* Code reaches a reducer, and a result the client, only once the reducer  *)
(* is registered: a marker never finds the client without reducers.        *)
Registered(m) ==
  /\ m.op = "sub" /\ m.type = REDUCE_CODETYPE => m.node \in reducers
  /\ m.op = "pub" /\ m.type = RESULT_DATATYPE => reducers # {}
RegisteredFirst ==
  /\ \A s \in subs : Registered(s)
  /\ \A n \in Node : \A i \in DOMAIN up[n] : Registered(up[n][i])
  /\ \A n \in Node : \A i \in DOMAIN down[n] :
       /\ Registered(down[n][i])
       /\ down[n][i].type = REDUCE_CODETYPE => n \in reducers
  /\ \A w \in Reducer : rState[w] # "EXPECT_CODE" => w \in reducers
NoneDoneUnregistered == reducers = {} => reducers_done = 0
BarrierInv ==
  /\ RegisteredFirst /\ NoneDoneUnregistered
  /\ ReducerCounts /\ CountersBelow

(* kmeans_output exits with "Oops..." if the centers of a round, completed *)
(* by combine_results, are not as many as the file holds.  That cannot     *)
(* happen: whenever the results are looked at, no center has two of them.  *)
CentersKept == App = "KMEANS" => CentersMatch

(* The client subscribes on behalf of the workers, and mappers address     *)
(* reducers by counting from 0.  When the reducers are numbered that way,  *)
(* and are ten at most, no data are published to a destination the router  *)
(* does not know yet: a subscription is already held or travels ahead in   *)
(* the same queue.                                                         *)
NumberedFrom0 == {w[2] : w \in reducers} = 0..(Cardinality(reducers) - 1)
KnownBefore(n, i) ==
  \/ \E s \in subs : Matches(s, up[n][i])
  \/ \E j \in 1..(i - 1) : up[n][j].op = "sub" /\ Matches(up[n][j], up[n][i])
DataTypes == {MAP_DATATYPE, REDUCE_DATATYPE, RESULT_DATATYPE}
SubscribedBeforePublished ==
  Regular /\ NumberedFrom0 =>
  \A n \in Node : \A i \in DOMAIN up[n] :
    up[n][i].op = "pub" /\ up[n][i].type \in DataTypes => KnownBefore(n, i)

(* What SubscribedBeforePublished rests on.  Unless a worker is late, what  *)
(* the job needs of the router was asked for ahead of all code and data,   *)
(* which are addressed as mappers and reducers have registered; whoever    *)
(* has got any of it can count on the router.                              *)
Required == {Sub(Client, RESULT_DATATYPE, NoDst)}
  \cup UNION {ToSet(JobRequest(w).body.subs) : w \in mappers \cup reducers}
Granted == Required \subseteq subs
Ahead(n, i) == \A s \in Required :
  s \in subs \/ \E j \in 1..(i - 1) : up[n][j] = s
Serving(m) == m.op = "pub" /\ m.type \notin {JOB_ADVERTISE, JOB_REQUEST}
Proper(m) == m.op = "pub" =>
  /\ Serving(m) => fires > 0
  /\ m.type = JOB_REQUEST => \E w \in Worker : m = JobRequest(w)
  /\ m.type = MAP_CODETYPE => m.body.count = Cardinality(reducers)
  /\ m.type = MAP_DATATYPE => m.dst \in {w[2] : w \in mappers}
  /\ m.type = REDUCE_DATATYPE /\ Cardinality(reducers) <= 10 =>
       m.dst \in 0..(Cardinality(reducers) - 1)
AskedFor == Ahead(Client, Len(up[Client]) + 1)
UpProper == \A n \in Node : \A i \in DOMAIN up[n] :
  Proper(up[n][i]) /\ (Serving(up[n][i]) => Ahead(n, i))
DownProper == \A n \in Node : \A i \in DOMAIN down[n] :
  Proper(down[n][i]) /\ (Serving(down[n][i]) => Granted)
WorkersServed ==
  /\ \A w \in Mapper : mState[w] # "EXPECT_CODE" =>
       Granted /\ fires > 0 /\ reducer_count[w] = Cardinality(reducers)
  /\ \A w \in Reducer : rState[w] # "EXPECT_CODE" => Granted /\ fires > 0
SubscribedInv == ~late => AskedFor /\ UpProper /\ DownProper /\ WorkersServed

(* A job fired with mappers and properly numbered reducers ends, unless a  *)
(* worker turns up late: no end marker is lost and nobody waits for one    *)
(* that is not coming.  (That k-means converges, here within MaxRounds, is *)
(* a matter of coordinates and assumed.)                                   *)
Fired == fires = 1 /\ ~late /\ mappers # {} /\ reducers # {} /\ NumberedFrom0
JobCompletes == Fired ~> (status = "exited" \/ late)

(* The whole system implements the job it offers: seen from the client's   *)
(* output, every step is one of MapReduceJob or none, so that the answers  *)
(* come in order, none is withdrawn or follows the exit, and a job fails   *)
(* before it has answered or not at all.                                   *)
Job == INSTANCE MapReduceJob WITH
  Iterates <- App = "KMEANS",
  MaxAnswers <- MaxRounds,
  ResultOf <- [r \in 1..MaxRounds |-> Exact(r)],
  output <- IF Regular THEN answers ELSE <<>>,
  outcome <- IF Regular THEN status ELSE "void"
ImplementsJob == Job!JobSpec

-----------------------------------------------------------------------------
(* Claims of the documentation that the code does not live up to.          *)

(* "Happens only once", says the comment above fire_jobs.                  *)
FireOnce == fires <= 1

(* The README: the JOB_REQUEST publication "conveys data that allows a     *)
(* worker to be assigned to a given task".  A worker that answers the      *)
(* advertisement while the client waits is assigned in the end.            *)
AnsweredIsAssigned == \A w \in Worker :
  started[w] ~> (w \in mappers \cup reducers \/ status # "running")

(* The README: dst is the "identification of a node intended to receive    *)
(* messages".  Data published with a dst are for a node that exists.       *)
DstIdentifiesNode ==
  \A n \in Node : \A i \in DOMAIN up[n] :
    up[n][i].op = "pub" /\ up[n][i].type = REDUCE_DATATYPE
      => up[n][i].dst \in {w[2] : w \in reducers}
=============================================================================
