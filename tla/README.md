# A formal model of the lightweight MapReduce for SGX

This directory models the MapReduce framework of this repository in TLA+: a
client, mappers and reducers that run Lua scripts inside SGX enclaves, connected
by a content-based publish/subscribe router (SCBR). TLC checks the model on small
instances; TLAPS proves theorems about it for every instance.

## 1. The system

A *client* publishes a job: scripts, and a data file. *Workers*, each started as
mapper (`-m ID`) or reducer (`-r ID`), wait for a job, register for it and
process what it sends. Nobody talks to anybody directly: everything is a
*publication* with a small header (session, type, and for data a destination),
which the router hands to the nodes that *subscribed* to that header.

    client                     router               mapper          reducer
      |-- JOB_ADVERTISE --------->|------------------->|--------------->|
      |<------ JOB_REQUEST (the subscriptions I want) -|----------------|
      |-- those subscriptions --->|
      |   (1000 polls without a request)
      |-- MAP_CODE, REDUCE_CODE ->|------------------->|--------------->|
      |-- MAP_DATA line, dst i -->|------------------->|
      |-- MAP_DATA end,  dst i -->|------------------->|
      |                           |<- REDUCE_DATA pair, dst hash -|---->|
      |                           |<- REDUCE_DATA end,  dst 0..n-1 ---->|
      |<--------------- RESULT_DATA pairs, RESULT_DATA end -------------|

For word count the client then prints and exits; for k-means it completes the
list of centers and sends its data again under the new list, until the centers
settle.

### Components, their state and what makes them correct

| Component | State | Operations | Correct when |
|---|---|---|---|
| Client loop (`client.cpp`) | countdown `counter` | poll, count down, open files, fire | the job is fired once, with everybody it was waiting for |
| Client protocol (`client_protocol.cpp`) | `mappers_`, `reducers_`, `reducers_done_`, `round_`, `mappers_data_`, `last_result_` | `init`, `handle_msg`, `fire_jobs`, `push_data`, `senddata_mappers`, `kmeans_preprocess`, `combine_results`, `kmeans_output`, `fire_new_round` | each round answers every key exactly; the end of a round is recognised once; no center is lost |
| Worker protocol (`worker_protocol.cpp`) | session id, role | `initialsub`, `startsession`, `outputpair` | its request reaches the client, its pairs reach a reducer |
| Mapper (`enclaved_mapper.cpp`) | `state_`, `reducer_count_`, `outbuff_`, and the bridge's `writethrough`, `once` | `income_data`, `store_output`, `flush_output`, `finish_round` | every pair of a line leaves exactly once, before the end markers |
| Reducer (`enclaved_reducer.cpp`) | `state_`, `mapper_count_`, `mappers_done_`, `data_buff_` | `income_data`, `start_process`, `orderjson` | it reduces when all mappers are done, with all their pairs and no other round's |
| Enclave bridge (`enclave_mapreduce.cpp`) | the objects above, the Lua state | `ecall_inputdata`, `getdestination`, `apply_combine`, `buffer_output` | dispatches by type; a key always goes to the same, existing reducer |
| Worker host (`worker.cpp`, `ocalls.cpp`) | statistics | poll, forward to and from the enclave | nothing is reordered |
| SCBR router (another repository) | subscriptions | subscribe, publish | per-connection order, no loss |
| Scripts (`*-utils/*.lua`) | none (k-means map: the list of centers) | `map`, `combine`, `reduce`, `hash` | combining does not change the result |
| Viewer (`visualrepresentation/`) | current step, timer | play, stop, next, previous | shows each step once, in order |

### What is hard here

* **No common order.** Code comes from the client and pairs from mappers, over
  different connections; only the router's per-connection order, together with
  the order in which the client writes, keeps a pair from overtaking the code.
* **The client subscribes for the workers**, so that it is the client that must
  do so before it (or a mapper it started) publishes to them.
* **Both barriers are counters compared with `==`** (`mappers_done_ ==
  mapper_count_`, `reducers_done_ == reducers_.size()`); one side of the second
  grows while workers join.
* **Rounds are separated by end markers only**: no message carries the number of
  its round.
* **Workers join whenever they like**, before the job is fired, after, or
  between rounds, and requests are counted down rather than counted.
* **No timeouts, retries or restarts**: whatever is lost is waited for forever.

PROJECT.json lists each of these at its line of code, with the properties that
would catch it going wrong.

## 2. Modules

| Module | Models | Notes |
|---|---|---|
| `MRProtocol` | `mrprotocol.h`, `scbrmsg.h`, `enclaved_common.h` | nodes, types, messages, values; all constants of a job |
| `SCBR` | the router and its connections (external) | `subs`; `up[n]`, `down[n]`: the two FIFO queues of node n; `Route` |
| `WorkerProtocol` | `worker_protocol.cpp`, first-message rule of `ecall_inputdata` | `initialsub`, `JobRequest`, `startsession`, `TakesData` |
| `EnclavedMapper` | `enclaved_mapper.cpp` and the bridge's part of a mapper | `MapCode`, `MapData`, `finish_round`, `MapReject` |
| `EnclavedReducer` | `enclaved_reducer.cpp` | `ReduceCode`, `ReduceData`, `MoreMappers`, `start_process`, `ReduceReject` |
| `Partition` | how the file is cut and dealt out (`kmeans_preprocess`, `senddata_mappers`) | operators only |
| `ClientProtocol` | `client.cpp`, `client_protocol.cpp` | one action per branch of `handle_msg` and of the polling loop |
| `MapReduceJob` | nothing: the abstract specification of a job | rounds answered in order, then exit; or failure before the first answer |
| `MapReduce` | the composition | `Next`, fairness, all properties, the refinement mapping |
| `MCMapReduce` | nothing: instances for TLC | files, scripts, numbers of workers |
| `KMeansClient` | the arithmetic of k-means: `combine_results`, `kmeans_error`, `extract_points`, `kmeans_output`, the k-means scripts | refines `Lloyd` |
| `OrderJson` | the text of a center: `cjson.encode`, `orderjson`, `value_index` | operators only |
| `Subsequence` | picking entries in order, as `combine_results` and `strtok` do | operators only |
| `Lloyd` | nothing: the abstract specification of k-means | Lloyd's iteration, and its cost |
| `PartitionLoop` | the countdown loop of `kmeans_preprocess`, turn by turn | agrees with `Partition` |
| `Sessions` | clients one after the other: session ids, encryption on or off, what a worker does with a second advertisement | EXTENDS `WorkerProtocol`; shares the network of `SCBR` |
| `Framing` | the text of payloads and headers: `outputpair`, `split`, `extractwt`, the reducer's `strchr` | one mapper, one reducer, one client |
| `StepViewer` | `visualrepresentation.js`, `animation.js` | timers, buttons, arrival of the data |
| `MCKMeans`, `MCPartition`, `MCSessions`, `MCFraming` | nothing: instances for TLC | |
| `DataLemmas` | nothing: lemmas | sequences and queues, sums over sets, the n-th of a set of numbers, induction for a set of those that are good |
| `ProtocolProofs` | nothing: theorems | type correctness; the barriers' counters stay below what they are compared with; data are published behind the subscriptions they need; workers get their code first, once and with the right count; end markers keep rounds apart |
| `AnswerProofs` | nothing: theorems | answers are exact, no center is lost, and the system implements `MapReduceJob` |
| `PartitionProofs` | nothing: theorems | the partition loop keeps every point, closes every partition and computes what `Partition` defines |
| `SessionProofs` | nothing: theorems | workers take messages of their own session only, clients of ids they are subscribed to, and nobody stops his own workers |
| `KMeansProofs` | nothing: theorems | `steps.json` is complete and in order, k-means is Lloyd's iteration, its cost falls |
| `FramingProofs` | nothing: theorems | what scripts push is given to the reduce script and to the client, whole and by keys; markers and requests are never mistaken |
| `ViewerProofs` | nothing: theorems | the step drawn is the current one |

How the others relate to the composition: `KMeansClient` fills in what `MapReduce`
leaves open, whether k-means goes on after a round, and uses what `MapReduce`
establishes, that rounds do not mix and every pair arrives. `PartitionLoop` computes
what `Partition` defines. `Sessions` and `Framing` look at one job from the sides
`MapReduce` abstracts: whose job a message belongs to, and how it is written.

`MapReduce` EXTENDS the mapper's, the reducer's and the client's modules. These
share the network variables of `SCBR` and nothing else; a step of one leaves the
others' variables alone. One message read from a connection, with everything the
handler does, is one action: a process handles a message without yielding, and
others can see only what it sends, which the queues keep in order. The client's
loop body is two steps, as a result message is followed by a tick of the
countdown in the same iteration (`polled`).

### Abstractions

* **Data.** The file is a sequence of lines, a line a sequence of items (the words
  of a line; one point). A pair's value records how often each item is accounted
  for in it. Adding values is what `combine` and `reduce` do to counts and sums.
  An item lost, repeated or put under a wrong key anywhere is visible in the
  result.
* **Scripts** are the constants `KeyOf`, `HashOf`, `HasCombine`. For k-means `KeyOf`
  gives a point's nearest center in each round, so every movement of centers is
  some `KeyOf`.
* **Convergence** depends on coordinates: after any round the client may go on or
  stop. `MaxRounds` bounds the rounds.
* **Map order.** A `std::map` or `std::set` is walked in some fixed order
  (`SetToSeq`).
* **Destinations** keep their spelling as far as it matters: the destination of a
  pair is one character, `'0' + hash`; that of an end marker is a decimal number.
* **The router** is modelled from its use: connections are FIFO and lose nothing,
  a subscription holds from the moment it is read, publications are matched
  against type and destination. It keeps no publication for later subscribers.
* **Encryption** is left out of the core: every message is read by its receiver. In
  `Sessions` it is a flag of the advertisement: a worker decrypts in any case.
* **History variables** `answers`, `fires` and `late` guide no action, except that
  `fires < MaxFires` bounds the exploration.

### Abstractions of the other modules

* `KMeansClient`: points and centers lie on a line (`y = 0`), at integer coordinates
  that are divisible by every number of points that may share a center, so that
  distances and barycenters are exact. What is examined is the order of fields and
  of results, ties, centers without points and the threshold, not floating point. A
  mapper runs in one step and results come one by one in any order.
* `Sessions`: clients run one after the other under the node id `Client01`. Subscriptions
  name that node (`client_protocol.cpp:30-44`), and no code here shows what the router
  does with them when a connection ends. So `StartClient` leaves it open
  (`Reconnected`): it keeps them or forgets them, and delivers to the next client any
  last part of what was queued for the one before. What a client had sent when it
  ended is lost but for a first part (`rest`), which the router may read at any later
  time (`ReadRest`), the subscriptions in it included. The router reads headers with
  and without encryption. Workers run with `-e`. A client without `-e` cannot read what
  workers send (`Unreadable`): it prints it, or `stoi` throws and it ends (`StopClient`).
  Ids have two digits and stand for numbers of up to ten. What workers compute is
  reduced to passing a line on, as only the session a message belongs to matters;
  `ids`, `left`, `bound`, `taken`, `stopper` and the mark `life` of publications are
  history.
* `Framing`: keys have no commas or braces, so that `orderjson` only braces them; a
  number, a word of a header and a type are one character each. A message is
  its payload, and arrives (routing is `MapReduce`'s subject). A reducer has one
  mapper. `data_buff_` and `last_result_` are functions from keys to the values
  inserted under them, in the order of insertion. In which order the `std::map` and the
  `std::multimap` are walked is left out, as nothing here depends on it: the reduce
  script, called for one key after the other, may push any texts for any of them, so
  that every order of replies is among the behaviours. So is how the values of a key
  are joined by commas for the script.
* `StepViewer`: JavaScript's `null` counts as 0 in arithmetic and equals no number; a
  step that is not found throws. The data may never arrive.

### Bounds

`MaxRounds` (rounds of k-means), `MaxFires` (firings) and `Quiet` (the 1000 polls of
the countdown, at least 1) are the only bounds in `MapReduce`. A small `Quiet` loses
nothing: an idle client may tick at any time, so requests arrive early or late at
every value, and 2 already makes a tick different from firing. Two firings are
enough for a stale count, marker or pair of the first to meet the second. Two
mappers and two reducers are needed for two senders of one key and two receivers of
one sender; three rounds for a round that is neither first nor last; the file has an
item on two lines, and keys for both reducers. The script of `kmeans_joined`
combines, that of `kmeans_joining` does not. Queues need no bound: what is sent is
bounded by the file, the rounds and the firings.

`KMeansClient` has no bound: the files are finite sets, and that jobs end is
`Converges`, not a bound. Three points and two centers over four coordinates hold
ties, centers that coincide, and centers without points. With three centers far
apart two lose their points at once, and the mean movement is below, at and above
a thousandth of the diagonal, the threshold of the code. `PartitionLoop` has 1 to
12 points, 1 to 5 mappers: every remainder, more mappers than points, partitions of
one point; the theorems are for all. `Sessions`: `MaxLives` clients; two let a message
of the first meet the second, and a third differs in nothing from the second for
a worker, which stays with its first. One mapper and one reducer: the session of a
worker does not depend on any other's, and `SessionProofs` is for any number of them.
One of the three ids begins with 2, one of the two digits that stop a worker.
`Framing`: `PushTexts`, `ReplyTexts`, `MaxPairs`, `MaxReplies`: texts that are empty, clean, a separator only, or end in one, and keys that are the
same, or differ in length; two pairs may share a key or not, and a round ended early
leaves one behind. `StepViewer`: `MaxTimers` alive at a time; three let two
fall together while one is started.

### Fairness

Client and workers poll in an endless loop without blocking on anything but their
own connection, and the router forwards whatever it reads; so every process, and the
router on every connection, is weakly fair. No fairness is assumed between the
branches of a choice: the client may always find its file missing (`FileError`), and
nothing forces k-means to go on after a round. In `KMeansClient` some
step is taken as long as one can be (weak fairness of `Next`), which is weaker. In
`Framing` the reducer and the client read on as long as there is something to read
(weak fairness of `ReducerReads` and `ClientReads`, which every step of theirs that
reads contains), and scripts end (of `Finish` and `EndRound`). In `StepViewer`
each interval timer of the page fires in the end. `Sessions` is only checked for
safety. Deadlock is not checked in any run because the system does stop: the client
exits, and the workers wait for a job that never comes; k-means exits, and a page
whose data never arrive waits for clicks.

## 3. Checks

| Run | Instance | Properties |
|---|---|---|
| `words_joining` | word count, 2 mappers, 1 reducer, from the start of all processes, up to 2 firings | `TypeOK`, `ProtocolErrorFree`, `CountersBelow`, `AnswersExact`, `ImplementsJob` |
| `kmeans_joining` | 2 points, 2 rounds, 2 x 2 workers from the start of all processes, up to 2 firings, fair | `CentersKept`, `SubscribedBeforePublished`, `ImplementsJob`, `JobCompletes` |
| `kmeans_joined` | 3 points, 3 rounds, a script with combine, 2 x 2 workers, all registered, fair | `RoundsDoNotMix`, `AnswersExact`, `CentersKept`, `ImplementsJob`, `JobCompletes` |
| `kmeans` | 3 points and 2 centers on a grid of 4, or 3 centers far apart; 2 mappers, fields in 2 orders | `StepsInOrder`, `ImplementsLloyd`, `Converges`, `CostFalls` |
| `partition_loop` | 1 to 12 points, 1 to 5 mappers | `LoopTypeOK`, `InOrder`, `AllClosed`, `OnePerMapper`, `ClosedForm` |
| `sessions` | 2 clients, with or without `-e`, 1 mapper, 1 reducer, 3 seconds, the same or different ones | `OwnSession`, `RegisteredBound`, `NotStoppedByOwn` |
| `framing` | 4 texts of up to 2 characters for either script, up to 2 pairs pushed by each, fair | `GivenIsPushed`, `ReducedIsRead`, `NoEarlyEnd`, `RolesRead`, `Ends` |
| `viewer` | 4 steps, 3 timers | `ShownIsCurrent`, `AllShown` |
| `fire_once`, `request_lost`, `eleven_reducers`, `advert_crosses` | see Findings | one documented claim each |

* `AnswersExact`: if no worker asked for a job already fired, and there are no more
  than ten reducers (together: `Regular`), each completed round answers each key
  once, with exactly the occurrences of its items in the file. This holds although
  only the first round combines (`apply_combine` leaves `writethrough` set), and for
  k-means although data are dealt out anew each round.
* `RoundsDoNotMix`: all pairs in flight or buffered belong to the client's present
  round. This is what the end markers have to achieve.
* `ProtocolErrorFree`: no worker answers "Protocol Error": code always overtakes
  data. The condition on the numbers of workers, 1 to 999 of either role, is needed:
  with no reducers a mapper receives the count 0, refuses it and then refuses its
  data, and a count of four digits is refused the same way.
* `CountersBelow`: neither barrier's counter ever passes the value it is compared
  with, late workers and repeated firings included.
* `SubscribedBeforePublished`: data go only to subscriptions already held or
  travelling ahead of them in the same queue. The conditions are needed: end markers
  go to 0..count-1 whatever the ids are, and pairs to one character.
* `CentersKept`: `kmeans_output` never gives up with "Oops...".
* `ImplementsJob`: the client's output refines `MapReduceJob`: answers come in
  order, none is withdrawn or follows the exit, and the job fails before it has
  answered or not at all. Once a worker is late, or an eleventh reducer registers,
  the job promises nothing (`"void"`).
* `JobCompletes`: a job fired with mappers and with reducers numbered from 0 ends,
  unless a worker is late.
* `ImplementsLloyd`: each round of a k-means job is one step of Lloyd's iteration on
  the centers, whatever the order in which fields are written and results come, and
  the job ends at the threshold and not before. `extract_points` has to match
  centers by id for this, and `combine_results` to keep those without points.
* `CostFalls`: a new round is fired only for strictly better centers. Ties are
  decided by the order of the last results, differently in each round; this is why
  they cannot make a job go round in circles. With `Converges`: every job ends at
  its threshold, and never with "k-means Oops". (`Lloyd` promises steps only; that
  it comes to an end is `Converges`.)
* `StepsInOrder`: `steps.json` has the steps 0, 1, 2, ..., each with every center,
  which is what the viewer relies on.
* `InOrder`, `AllClosed`, `OnePerMapper`: the partition loop keeps every point, once
  and in order, leaves no bracket open and makes no more partitions than there are
  mappers. `ClosedForm`: it computes what `Partition` defines.
* `OwnSession`: a worker takes code and data under the id of its own session only, in
  whatever order and over whatever connections they come; a client takes requests and
  results under its own id, or one that somebody was still subscribed to under its
  node id when it started (`left`: subscriptions the router kept, messages it had
  queued, subscriptions it was still to read). `RegisteredBound`: the same of the
  workers a client registers. The client does not check a session itself, and this is
  all its subscriptions give. `NotStoppedByOwn`: no worker is stopped by a message of
  the client whose session it is in. An advertisement is fatal to a worker in a
  session, if its id begins with 2 or 4; a client's own is harmless only because there
  is exactly one, and it is in front of everything else the client sends. To advertise
  again after subscribing, a likely way to repair `request_lost`, would break this. None
  of the three depends on what ids are drawn.
* `GivenIsPushed`: when the reducer starts, it calls the reduce script for exactly the
  keys pushed, each with all its values in the order in which they were pushed.
  `ReducedIsRead`: the client ends with what the reduce script pushed, by keys;
  pairs with an empty text are lost, which is stated there. `NoEarlyEnd`: only a pair
  of two empty texts, or a reply of nothing but separators, can end a round early or
  leave results unread; other texts cannot, separators or not. `Ends`: no text keeps
  the client from its result. `RolesRead`: `extractwt` reads the right field of a
  header, and its uninitialised `type` is never used unset.
* `ShownIsCurrent`, `AllShown`: the step drawn is the one the page goes on from; an
  animation that has a step to start from shows all of them, however many timers
  earlier clicks have left.

For each property of each run, PROJECT.json names a change to the code that breaks
it: data sent before code, a reducer that never resets its counter or its buffer,
end markers counted from 1, a last short partition forgotten, a store that
overwrites, a barrier that opens at any marker, keys left as they were written, a
partition size rounded down, subscriptions without a session id, an
advertisement sent twice, an insertion that overwrites, a test for either
text empty instead of both.

### Findings

* **fire_jobs does not happen only once** (`fire_once`). A request that arrives
  after the firing restarts the countdown. Word count is then dealt out twice;
  k-means parses its partitions as points and dies.
* **A worker may answer and never be assigned** (`request_lost`). The advertisement
  is published before the client's subscription to the answers.
* **From the eleventh reducer on pairs are lost** (`eleven_reducers`). Hash 10
  becomes the destination `:`.
* **An advertisement may stop the workers of another session** (`advert_crosses`).
  Workers stay subscribed to advertisements; in a session, one is told by its first
  character, the first digit of the id. 2 and 4 lead to `abort()`.

Conditions that the properties state, and what the code does without them:

* `OwnSession` and `RegisteredBound` speak of ids, not of clients. `handle_msg` takes
  what it is delivered and compares no session: if the router still has a
  subscription of an earlier client, or reads one late, the next client registers
  workers of that session and waits for them. (With `wsid[w] = sid` for
  `RegisteredBound` TLC shows this in eleven steps.) Whether the router does is not to be
  seen here; `left` is what it may still have. And `generatessid` calls `srand(time(0))`:
  two clients of one second share their id and their workers. (With `taken[w]
  \subseteq {bound[w]}` for `OwnSession` TLC shows a worker of the first taking code of
  the second.)
* In `Sessions` a client without `-e` starts nobody (`Dropped`): workers decrypt
  whatever comes, and an id in the clear is shorter than an initialisation vector.
* In `StepViewer`, a click on next or previous before the data arrive loses the
  current step, so that the first step is not drawn when they do; after a click on
  play, their arrival disables the stop button of an animation that runs.
  `ShownIsCurrent` holds all the same, and `AllShown` speaks of animations that have
  a step.

## 4. Theorems

The theorems about `MapReduce` hold for any finite sets of workers, any file and any
scripts, under `ProtocolAssumption` and `ClientAssumption` alone. `AnswerProofs` builds
on `ProtocolProofs`, and all that need them on `DataLemmas`.

`TypeCorrect` (`ProtocolProofs`): `Spec => []TypeOK`. `TypeOK` says more than the
shape of variables: only well-formed messages travel, each type with its own payload
and destination; only mappers are registered as mappers; indices into partitions and
mappers stay in range.

`TypeOK` is not inductive. A pair's destination is the hash modulo the reducer count,
which is undefined for 0: `CountsTaken` says that a mapper past EXPECT_CODE has a
count from 1 to 999. Lines are dealt modulo the number of mappers: `DealtToMappers`
says that with no mappers there are no lines. `TypeInv` is the conjunction of the
three. Lemmas show what each message-making operator returns; then one
lemma per process (`MapperTypes`, `ReducerTypes`, `ClientTypes`, `RouterTypes`,
`StartTypes`) shows that its step preserves `TypeInv`.

`BarriersHold` (`ProtocolProofs`): `Spec => []CountersBelow`. This one has no
condition: it holds with late workers and repeated firings. The strengthening is
`BarrierInv`. For a reducer, `ReducerCounts`: nothing is counted before the code
comes, and one marker at least is expected after. For the client, the danger is a
marker of a reducer that finds the set of reducers empty, as the counter would
start above the size: `RegisteredFirst` follows registration through the
subscription the client sends, the router's table, the code and the reducer's
state to the results, and `NoneDoneUnregistered` concludes that nothing was
counted without reducers. Later registrations only raise the size.

`NothingUnheard` (`ProtocolProofs`): `Spec => []SubscribedBeforePublished`. The
strengthening is `SubscribedInv`, all of it under "no worker is late".
`Required` is what the job needs of the router: the client's own subscription to
results, and those of every registered worker. `AskedFor`: each of them is held or
is in the client's queue. `UpProper`: each is held or is *ahead* of any code or data
in that queue, and what is queued is addressed as workers have registered.
`DownProper` and `WorkersServed`: whoever was sent, or has read, any code or data
can count on all of `Required` being held, so mappers and reducers may publish
without asking. A registration enlarges `Required`; it happens only while nothing
was fired (`~late`), when no code or data exist that would have to be behind it.

`NoProtocolErrors` (`ProtocolProofs`): `Spec => []ProtocolErrorFree`. A worker
refuses what does not fit its state, so the theorem is about order. The
strengthening is `OrderInv`, under "no worker is late", for the client's queue, the
router's table and the workers' queues together. `MessagesSound`: code carries the
number of registered workers of the other role, requests come from workers that have
started, and no subscriptions exist but those made on starting and those of
registered workers. `CodeFirst`: in the client's queue the advertisement leads, each
code is there at most once, and no data are ahead of it; as long as code is queued,
those it is for have got nothing, and no mapper has data from which pairs could
reach a reducer by another connection. `WorkersInOrder`: in a worker's queue code can
only be first, and whoever waits for code has it at the head, or it is still queued.
That the code reaches every registered worker is `SubscribedInv` again.
`FiredOnce` says that a job nobody joins late is fired once.

`RoundsKeptApart` (`ProtocolProofs`): `Spec => []RoundsDoNotMix`. The barriers count
markers that say neither who sent them nor for which round, so that whether rounds mix
depends on every marker in the system. `RoundInv` keeps the accounts, as long as nobody
is late. `AllParts`: only registered workers take part, and what is in flight or
buffered is of the present round. `MapperAccount`: the markers for a mapper in the
client's queue and its own are one at most, pairs in its buffer or data ahead mean
that there is one, and each destination below the count is owed one marker, by that
one or by the mapper's own queue. `ReducerAccount`: markers counted, markers queued and
mappers that owe one add up to the number of mappers, or to none when the reducer is
through; its own marker to the client is sent when they do. `ClientAccount`: markers
counted, markers queued and reducers that are to report add up to the number of
reducers. In each account, data are followed by a marker in the same queue, which is
what "behind" means in a FIFO connection. So when the client has counted the last
marker, nothing is owed by anybody (`RoundOver`), every queue and buffer is empty of
data, and the next round starts as the first did (`NewRound`). With a number of workers
that the workers refuse (`~Sane`), nothing is ever accounted for: `NoMore` says that
then no result comes and no second round starts.

`AnswersAreExact` (`AnswerProofs`): `Spec => []AnswersExact`. What a round answers is
a sum over the whole round, and the sum has to be followed while lines become pairs,
pairs partial sums and partial sums results, in queues and buffers of all workers at
once. `AnswerInv` weighs them. For an item of the file, `Load` says how much of it is
with each node: in its two queues (lines count an item's occurrences, pairs and
results its value), in a mapper's or a reducer's buffer under the key the item maps
to, or among the client's results. `Balanced`: the loads of all nodes add up to the
item's occurrences in the file. A step moves weight from one node to another and
leaves the total alone: the router's, because each message has one subscriber, which
`SubscribedInv` and `OrderInv` give; the mapper's, because what is buffered is sent
with the round's end (`NoneKept` where there is no combine function); the reducer's,
because what it is through with, it has sent. Weight could only be lost on the way to
a reducer that does not exist (`NoneLost`). That a key is answered by one result, not
by several that add up, is a second count: `Tickets` are the results there are of a
key, and one for the reducer that the key leads to as long as it is not through.
`OneAnswer`: there is one at most. When the client counts the last marker, `RoundInv`
says that queues and buffers are empty, so all the weight is in the results, and each
key has one at most, of items that map to it (`ResultsMapped`): that is `Exact`.
`Dealt` opens the round: the lines or partitions the client sends hold each item as
often as the file, for points by the bijection between places in the file and places
in the partitions that `DealtPartitions` gives. `Unanswered` ties the number of
answers to the round. The total of a function is the cardinality of a set (`Units`),
so that no sum over data needs induction.

`JobIsImplemented` (`AnswerProofs`): `Spec => ImplementsJob`, the refinement of
`MapReduceJob` for all constants: `JobStarts` for the initial state, `JobGoesOn` for
the steps. The last marker of a round is an `Answer`, by `AnswersAreExact`'s
invariant (`LastIsAnswer`); a script or file that cannot be opened, and the crash
without mappers, is a `Fail`, as nothing was answered while the countdown is on
(`CountingUnanswered`); the registration of a late worker or of an eleventh reducer
is `Void`, and final (`StaysIrregular`); everything else stutters.

`NoCenterLost` (`AnswerProofs`): `Spec => [](~late => CentersKept)`. While results
are collected, `OneAnswer` and `ResultsMapped` give a result a center at most, all of
the round; `CentersInv` adds that at other times there are none. The runs check
`CentersKept` without the condition. It holds there because a late worker gets no code
before the client has crashed, which is outside of what the accounts follow.

`LoopTypeCorrect`, `PointsInOrder`, `PartitionsClosed`, `NoMoreThanMappers`
(`PartitionProofs`): `Spec => []LoopTypeOK` and the same for `InOrder`, `AllClosed`,
`OnePerMapper`, for all numbers of points and mappers, under `LoopAssumption` alone:
there is a point and a mapper. None is inductive: what a turn does to the partitions
depends on what the countdown stands for. `LoopInv` says it outright: after `k`
points, partition `j` is the interval of the points from `(j - 1) * pz + 1`, `pz` of
them or what is left, closed if full; the last is short of `pz` by what `i` still
counts. A turn that finds `i = pz` finds the last partition full, so that a new one
starts where it ends; any other finds room in it. That `n` points make at most `m`
parts of `1 + n \div m` is shown last, by multiplication: more would hold over `m *
pz > n` points. `LoopComputesPartitions`, `Spec => []ClosedForm`, follows from the same
invariant: when the loop is over, `n` is `pz` times the number of full partitions
before the last and the last one's size, so that their number is the quotient
`Partition` rounds up, and each has the points `Partition` gives it. The model of the
client, which deals out `Partitions` in one step, is thereby that of the loop.

`OwnSessionsOnly`, `RegisteredAreBound`, `NeverStoppedByTheirOwn` (`SessionProofs`):
`Spec => []OwnSession` and so on, for any number of workers and of clients, any ids,
equal ones included, and a router that may keep, forget or read late what a client
leaves behind. The strengthening `SessionInv` has four parts besides the types.
`MessagesSound`: publications carry the id their client drew; a worker's subscriptions
and requests carry the id of the session it is in; a subscription under the client's
node id carries the present client's id or one of `left`, wherever it is (with the
router, in a queue, in the rest of a connection), and nobody is delivered anything but
advertisements and what it was subscribed to. `AdvertsOnce`: an advertisement is the
first message of a connection; while it is there no worker has seen it, and no worker
is sent it twice, or after it is bound by it. `Tidy`: a client leaves nothing behind
before it has run. `HistoryOk`: what the three properties say, in terms of ids drawn.

`DrawnIsCurrent` (`ViewerProofs`): `Spec => []ShownIsCurrent`, for any number of steps
and timers, with `currentStep \in Steps \cup {None}` as the strengthening: from a step
every button and timer leads to a step.

`StepsAreInOrder` (`KMeansProofs`): `Spec => []StepsInOrder`, for all files, any number
of mappers and any order of fields and of results. That the file `steps.json` is in
order rests on the list of centers never losing or repeating an id, and so on the
buffers. `KMeansInv` says that the list has every center once (`EveryCenter`); that
what is buffered are points that were mapped, each under the ordered text of its
nearest center, whose result is not there yet, and that no mapped point is in neither
(`BufferOk`; `OneText`: a center has one ordered text, in whatever order its fields
were written); and that results are of different centers that have points, each the
mean of all of them (`ResultsOk`). So when the last result is in,
`combine_results` appends exactly the centers that are missing (`Combined`).

`JobIsLloyds` (`KMeansProofs`): `Spec => ImplementsLloyd`, the refinement of `Lloyd`,
under the same invariant. `LloydInit` for the initial state; `LloydGoesOn` for the steps:
`fire_jobs`, mappers and results leave the centers by id alone, and the end of a round
is a step of Lloyd's iteration (`LloydStep`). There the nearest center in the list is
one of the nearest by id (`NearestOf`), a result is the mean of the points assigned to
it, and `kmeans_error`, which finds centers by `id % n`, is the sum of the distances
between centers of the same id (`Extracted`, `ErrorOf`). The job ends with
"exited", never with "Oops" (`EndKeeps`).

`CostAlwaysFalls` (`KMeansProofs`): `Spec => CostFalls`. The points of a center cost what
they do at their mean, and on top of it the square of the center's distance to the
mean for each point (`MeanIsBest`), so that moving to the mean costs less, and
strictly less if the center moved; `EveryCenterFalls` adds this up center by center.
Then points go to their nearest centers, which costs no more. A new round is fired
only if the error is above the threshold, and so some center with points has moved
(`SomeMove`). That a mean is exact is the divisibility in `KMeansAssumption`, which
stands for coordinates that are not rounded (`ExactMean`). Sums over points are
opened with `SumStep`, and what holds for all points or centers is shown by induction
for the set of those that are good, as the library's induction theorems are not to be
had here.

`RolesAreRead` (`FramingProofs`): `Spec => []RolesRead`, for any characters and texts
of any length, as all that follows. The invariant `AnyScript` says that the client is
sent its two requests first and as written (`RequestsFirst`), then payloads of type 5,
whose first field `strtok` leaves alone whatever follows it (`ResultFields`).

`NobodyEndsEarly`, `PushedIsGiven`, `ReducedReachesClient` (`FramingProofs`): the
invariant `Sides` says where everything pushed is, as long as neither script pushes
what reads like a marker. On the map side the first `n` pairs are with the reducer, and
the rest are on their way with the marker behind them (`Reading`), or all have been
read and nothing follows (`AllRead`); on the reduce side the same with the client
(`Answering`, `Over`). `Queue` is what a connection then holds, and `QueueMore`,
`QueueEnd`, `QueueLess`, `QueueLast` what sending and reading do to it. What the two
parsers make of a payload is shown for all texts: `IncomeRead`, where `strchr` cuts, at
a separator of the key or behind it; `SplitPayload`, where fields start for `strtok`
(`Pieces`), three of them, or two if a text is empty, and such a pair is dropped. That
both sides hold the values of each key in order, however keys are spread, is
`GroupedMore`: a pair more is an insertion into what there is (`Inserted`).

Only model-checked: `CentersKept` in jobs that somebody joins late (see above); and, as
liveness is out of the prover's reach, `JobCompletes`, `Converges`, `Ends`, `AllShown`.
Every other property that the passing runs check has its theorem.

## 5. Not modelled

* **Crashes of workers and of the router**: the code has no timeout and no restart,
  so there is no behaviour after one but to wait. (A client that ends is modelled,
  in `Sessions`.)
* **Clients that run at the same time**: they would need two connections with one
  node id, and what the router does then is not to be seen in this repository.
* **Errors of Lua scripts**: they are printed, and the pair or line is lost; the
  scripts of the repository have none. A `hash` that fails ends in a null pointer.
* **Encryption and `is_cipher`**, which live in another repository: that a message
  is decrypted to what was encrypted is assumed.
* **An empty file of points**: `back()` of an empty vector is undefined
  (`LoopAssumption`).
* **Floating point**, and coordinates of two dimensions: rounding could make
  `CostFalls` fail, and is not what the client's code is about.
* **The rest**: statistics, options, the input generator, the batch script, the
  viewer's server and drawing, vendored code. They keep no state, or none that
  anything else depends on.

## 6. Plan

1. *Done*: the core: protocol, router, both automata, client, abstract job; type
   correctness, both barriers and the order of subscriptions proved.
2. *Done*: `KMeansClient`, `OrderJson`, `Lloyd`, `PartitionLoop` with its proofs,
   `Sessions`, `Framing`, `StepViewer`.
3. *Done*: every safety invariant about the protocol proved: `ProtocolErrorFree`,
   `RoundsDoNotMix`, the properties of `Sessions`, `ClosedForm`, `ShownIsCurrent`.
4. *Done*: what depends on data: `AnswersExact`, the refinement of `MapReduceJob`,
   `CentersKept` in jobs that nobody joins late.
5. *Done*: the arithmetic of k-means and its refinement of `Lloyd`, and `Framing`.
6. Left: `CentersKept` with late workers, for which the accounts that keep rounds apart
   (`RoundInv`) would have to be about the workers that were sent code.
