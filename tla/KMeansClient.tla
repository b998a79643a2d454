---------------------------- MODULE KMeansClient ----------------------------
(***************************************************************************)
(* The arithmetic of a k-means job: the client's combine_results,          *)
(* kmeans_error and kmeans_output (client_protocol.cpp), with what the     *)
(* scripts (kmeans_map.lua, kmeans_reduce.lua) and the reducer's keys      *)
(* contribute to a round.  Points and centers lie on a line, y = 0, where  *)
(* Euclid's distance is the difference of coordinates.  The transport is   *)
(* that of MapReduce, of which this module uses that the rounds do not mix *)
(* and that every pair arrives.  A result is any reducer's next one.       *)
(* Coordinates are multiples of every number of points that may have to be *)
(* divided by, so that barycenters are integers and nothing is rounded.    *)
(***************************************************************************)
EXTENDS Integers, FiniteSetsExt, Functions, Subsequence, OrderJson

CONSTANTS
  NumMappers,  \* mappers that take part
  Jobs,        \* pairs of files a client may be given
  Orders       \* orders in which a Lua state may write the fields

ASSUME KMeansAssumption ==
  /\ NumMappers \in Nat \ {0}
  /\ \A job \in Jobs :
       /\ job.points \in Seq(Int) /\ job.points # <<>>
       /\ job.centers \in Seq(Int) /\ job.centers # <<>>
       /\ \A i, n \in DOMAIN job.points : job.points[i] % n = 0
  /\ \A order \in Orders :
       /\ order \in [1..3 -> FieldName]
       /\ \A f \in FieldName : \E i \in 1..3 : order[i] = f

VARIABLES
  points, kmeans_centers,  \* the files: sequences of coordinates
  previous_result,  \* the centers of the round before, in order of arrival
  last_result,      \* the results of this round, in order of arrival
  round_, kerror_,
  centersfile,      \* steps.json
  mapped,           \* mappers that have run in this round
  data_buff,        \* the reducers' buffers: pairs of a key and a point
  status            \* "idle", "running", "exited", "oops"

files == <<points, kmeans_centers>>
vars == <<files, previous_result, last_result, round_, kerror_,
          centersfile, mapped, data_buff, status>>

Mappers == 0..(NumMappers - 1)
NumCenters == Len(kmeans_centers)
Ids == 0..(NumCenters - 1)

NoError == <<0, 1>>
threshold_ == <<1, 1000>>

Init ==
  /\ \E job \in Jobs : points = job.points /\ kmeans_centers = job.centers
  /\ previous_result = <<>> /\ last_result = <<>>
  /\ round_ = 0 /\ kerror_ = NoError /\ centersfile = <<>>
  /\ mapped = {} /\ data_buff = {} /\ status = "idle"

-----------------------------------------------------------------------------
(* jsonpair keeps the extremes of all coordinates it is given.             *)
diagonal_range ==
  LET seen == ToSet(points) \cup ToSet(kmeans_centers)
  IN Max(seen) - Min(seen)

Distance(x, y) == IF x < y THEN y - x ELSE x - y
ParseError == <<1000000, 1>>

Center(id, x) == [id |-> id, x |-> x, y |-> 0]

(* kmeans_output: the next entry of steps.json.  The step is the round;    *)
(* the initial centers are step 0 and open round 1.                        *)
CountOK(result) == Len(result) = NumCenters
kmeans_outputFrom1(result) ==
  centersfile' =
    Append(centersfile, [step |-> IF round_ = 0 THEN 1 ELSE round_,
                         centers |-> result])
kmeans_output(result) ==
  centersfile' = Append(centersfile, [step |-> round_, centers |-> result])

(* fire_jobs: kmeans_preprocess makes the initial centers, with their      *)
(* position in the file as id, and kmeans_output stores them.              *)
fire_jobs ==
  /\ status = "idle"
  /\ previous_result' =
       [i \in 1..NumCenters |-> Center(i - 1, kmeans_centers[i])]
  /\ kmeans_output(previous_result')
  /\ round_' = 1
  /\ status' = "running"
  /\ UNCHANGED <<files, last_result, kerror_, mapped, data_buff>>

-----------------------------------------------------------------------------
(* The points of mapper m: partitions dealt out one by one. *)
PartitionOf(i) == (i - 1) \div (1 + Len(points) \div NumMappers)
Share(m) == {i \in DOMAIN points : PartitionOf(i) % NumMappers = m}

(* map: the first center in the list that no other is nearer than; with    *)
(* the minimum never updated, it would be the last of all.                 *)
LastInList(p) == Last(previous_result)
NearestCenter(p) ==
  LET near(i) == \A j \in DOMAIN previous_result :
                   Distance(previous_result[i].x, p)
                     <= Distance(previous_result[j].x, p)
  IN previous_result[Min({i \in DOMAIN previous_result : near(i)})]

(* A mapper pushes each of its points under the text of its center; the    *)
(* reducer the center's id leads to keeps it under the ordered text.       *)
MapperRuns(m, order) ==
  /\ status = "running" /\ m \notin mapped
  /\ mapped' = mapped \cup {m}
  /\ data_buff' = data_buff \cup
       {[key |-> orderjson(encode(NearestCenter(points[i]), order)),
         point |-> i] : i \in Share(m)}
  /\ UNCHANGED <<files, previous_result, last_result, round_, kerror_,
                 centersfile, status>>

(* reduce: the barycenter of the points under a key; it keeps the id. *)
baryCenter(own, id) ==
  Center(id, SumFunctionOnSet(points, own) \div Cardinality(own))

Result(key) ==
  /\ status = "running" /\ mapped = Mappers
  /\ LET pairs == {d \in data_buff : d.key = key}
     IN /\ last_result' =
             Append(last_result,
                    baryCenter({d.point : d \in pairs}, decode(key).id))
        /\ data_buff' = data_buff \ pairs
  /\ UNCHANGED <<files, previous_result, round_, kerror_, centersfile,
                 mapped, status>>

-----------------------------------------------------------------------------
(* combine_results: previous centers whose id is missing are appended. *)
Recalculated == {last_result[i].id : i \in DOMAIN last_result}
combine_resultsNewOnly == last_result
combine_results ==
  last_result \o Picked(previous_result,
                        {i \in DOMAIN previous_result :
                           previous_result[i].id \notin Recalculated})

(* extract_points: coordinates at the index id modulo the number of        *)
(* centers, 0 where there is none.                                         *)
extract_pointsInOrder(source) ==
  [idx \in 0..(Len(source) - 1) |-> source[idx + 1].x]
extract_points(source) ==
  LET n == Len(source)
      at(idx) == {i \in 1..n : source[i].id % n = idx}
  IN [idx \in 0..(n - 1) |->
        IF at(idx) = {} THEN 0 ELSE source[Max(at(idx))].x]

(* kmeans_error: a mean <<sum, n>>.  A parse error is a movement beyond    *)
(* all thresholds.                                                         *)
kmeans_errorSum(before, after) ==
  LET cprev == extract_points(before)
      ccur == extract_points(after)
  IN <<SumFunction([i \in DOMAIN cprev |-> Distance(cprev[i], ccur[i])]), 1>>
kmeans_error(before, after) ==
  LET cprev == extract_points(before)
      ccur == extract_points(after)
      n == Len(before)
  IN IF n = 0 \/ n # Len(after) THEN ParseError
     ELSE <<SumFunction([i \in 0..(n - 1) |-> Distance(cprev[i], ccur[i])]),
            n>>

(* The last reducer's end marker: the round is over. *)
RoundEnds ==
  /\ status = "running" /\ mapped = Mappers /\ data_buff = {}
  /\ previous_result' = combine_results
  /\ last_result' = <<>>
  /\ kerror_' = kmeans_error(previous_result, combine_results)
  /\ UNCHANGED <<files, data_buff>>

Moving(error) ==
  error[1] * threshold_[2] > threshold_[1] * diagonal_range * error[2]

fire_new_round ==
  /\ RoundEnds /\ CountOK(previous_result') /\ Moving(kerror_')
  /\ kmeans_output(previous_result')
  /\ round_' = round_ + 1
  /\ mapped' = {}
  /\ UNCHANGED status

(* The threshold is reached, or the number of centers has changed, which   *)
(* is a "k-means Oops": kmeans_output exits at once.                       *)
JobEnds ==
  /\ RoundEnds /\ ~(CountOK(previous_result') /\ Moving(kerror_'))
  /\ IF CountOK(previous_result')
     THEN kmeans_output(previous_result') /\ status' = "exited"
     ELSE status' = "oops" /\ UNCHANGED centersfile
  /\ UNCHANGED <<round_, mapped>>

Next ==
  \/ fire_jobs
  \/ \E m \in Mappers, order \in Orders : MapperRuns(m, order)
  \/ \E key \in {d.key : d \in data_buff} : Result(key)
  \/ fire_new_round \/ JobEnds

(* Client and workers keep polling, and forward whatever they have. *)
Spec == Init /\ [][Next]_vars /\ WF_vars(Next)

-----------------------------------------------------------------------------
(* The refinement: where each center is, by its id, whatever the order in  *)
(* which the results came.                                                 *)
CentersById ==
  IF status = "idle" THEN [k \in Ids |-> kmeans_centers[k + 1]]
  ELSE [k \in Ids |->
          (CHOOSE c \in ToSet(previous_result) : c.id = k).x]

L == INSTANCE Lloyd WITH
       Threshold <- threshold_, diagonal <- diagonal_range,
       centers <- CentersById, done <- (status = "exited")

(* The job computes Lloyd's iteration: however the points are dealt out,   *)
(* whatever the order of fields and of results, the combined list of       *)
(* centers is that of one step, the error is the distance between centers  *)
(* of the same id (kmeans_error), a center that lost all its points stays  *)
(* (combine_results), and the job ends at the threshold and not before.    *)
ImplementsLloyd == L!Spec

(* Every job ends by reaching its threshold: never with "k-means Oops"     *)
(* (kmeans_output), and never by going round in circles, which a step that *)
(* moves the centers by more than the threshold leaves possible.           *)
Converges == <>(status = "exited")

(* A new round is fired only for centers strictly better than those of the *)
(* round before: ties, which the order of results decides differently in   *)
(* each round (kmeans_map.lua), cannot make it undo what it has done.      *)
CostFalls ==
  [][round_' > round_ /\ round_ > 0
     => L!Cost(CentersById') < L!Cost(CentersById)]_vars

(* steps.json has the steps 0, 1, 2, ... in order, each with every center  *)
(* once: the viewer asks for steps by their number (visualrepresentation). *)
StepsInOrder ==
  \A i \in DOMAIN centersfile :
    LET entry == centersfile[i]
    IN /\ entry.step = i - 1
       /\ Len(entry.centers) = NumCenters
       /\ {c.id : c \in ToSet(entry.centers)} = Ids
=============================================================================
