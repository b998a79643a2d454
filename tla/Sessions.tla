------------------------------ MODULE Sessions ------------------------------
(***************************************************************************)
(* Clients that come and go while the workers stay.  A client is started,  *)
(* draws a session id, advertises its job and may end at any time: it has  *)
(* its results, is interrupted, or cannot open a file.  The next one has   *)
(* the same node id, as "Client01" is fixed in client.cpp.  What keeps     *)
(* them apart is the session id of headers, the only thing a subscription  *)
(* is bound to.  Of the router nothing is assumed here that would keep     *)
(* them apart: it may keep what a client subscribed to when the client is  *)
(* gone, deliver to the next one what was meant for it, and read the rest  *)
(* of its connection at any later time.  What workers compute is left out: *)
(* a mapper passes a line on to the reducers, a reducer to the client.     *)
(***************************************************************************)
EXTENDS WorkerProtocol

CONSTANTS
  SidAt,       \* SidAt[t]: what rand gives when seeded in second t
  SameSecond,  \* may a client start in the second its predecessor did?
  Encrypts,    \* clients started with -e, clients without, or both
  MaxLives     \* bound: clients started one after the other

(* Ids have two digits here, so that the first is easy to tell.            *)
ASSUME SessionAssumption ==
  /\ SidAt \in Seq(10..99) /\ SidAt # <<>>
  /\ SameSecond \in BOOLEAN /\ Encrypts \in (SUBSET BOOLEAN) \ {{}}
  /\ MaxLives \in Nat \ {0}

VARIABLES
  rest,        \* what clients that ended had sent and the router has not read
  second,      \* time(0)
  life,        \* the client running, or the last that ran
  running,     \* is it running?
  sid,         \* its sid_
  encrypts,    \* its encrypt_
  drawn,       \* the second its session id was drawn in
  registered,  \* its mappers_ and reducers_
  fired,       \* has it fired its job?
  wsid,        \* sid_ of each worker
  aborted,     \* workers whose enclave called abort()
  ids,         \* history: the session id of every client so far
  left,        \* history: ids of earlier clients a client may be sent
  bound,       \* history: the client whose session a node is in
  taken,       \* history: the clients whose messages it took
  stopper      \* history: the client whose message stopped a worker

clientVars == <<life, running, sid, encrypts, drawn, registered, fired>>
workerVars == <<started, wsid, aborted>>
historyVars == <<ids, left, bound, taken, stopper>>
vars == <<netVars, rest, second, clientVars, workerVars, historyVars>>

NoSid == 0
SubTo(n, t, s, d) ==
  [op |-> "sub", node |-> n, type |-> t, sid |-> s, dst |-> d]
(* Every publication is marked with the client it is due to (history).     *)
PubOf(t, s, d, l, b) ==
  [op |-> "pub", type |-> t, sid |-> s, dst |-> d, life |-> l, body |-> b]

Init ==
  /\ subs = {} /\ down = [n \in Node |-> <<>>]
  /\ up = [n \in Node |-> IF n = Client THEN <<>>
                          ELSE <<SubTo(n, JOB_ADVERTISE, NoSid, NoDst)>>]
  /\ rest = [l \in 1..MaxLives |-> <<>>] /\ second = 1
  /\ life = 0 /\ running = FALSE /\ sid = NoSid /\ drawn = 0
  /\ encrypts = FALSE
  /\ registered = {} /\ fired = FALSE
  /\ started = [w \in Worker |-> FALSE] /\ wsid = [w \in Worker |-> NoSid]
  /\ aborted = {}
  /\ ids = <<>> /\ left = {}
  /\ bound = [n \in Node |-> 0] /\ taken = [n \in Node |-> {}]
  /\ stopper = [w \in Worker |-> 0]

-----------------------------------------------------------------------------
(* The router, which here also compares session ids. *)
Reaches(s, p) ==
  s.type = p.type /\ s.sid \in {NoSid, p.sid} /\ s.dst \in {NoDst, p.dst}

Deliver(p) ==
  down' = [m \in Node |-> IF \E s \in subs : s.node = m /\ Reaches(s, p)
                          THEN Append(down[m], p) ELSE down[m]]

Publish(n) ==
  /\ up[n] # <<>> /\ Head(up[n]).op = "pub"
  /\ up' = [up EXCEPT ![n] = Tail(@)]
  /\ Deliver(Head(up[n]))
  /\ UNCHANGED subs

RouteNext(n) ==
  /\ RouteSubscription(n) \/ Publish(n)
  /\ UNCHANGED <<rest, second, clientVars, workerVars, historyVars>>

(* It reads on from the connection of a client that has ended. *)
ReadRest(l) ==
  /\ rest[l] # <<>>
  /\ rest' = [rest EXCEPT ![l] = Tail(@)]
  /\ \/ Head(rest[l]).op = "sub" /\ subs' = subs \cup {Head(rest[l])}
        /\ UNCHANGED down
     \/ Head(rest[l]).op = "pub" /\ Deliver(Head(rest[l]))
        /\ UNCHANGED subs
  /\ UNCHANGED <<up, second, clientVars, workerVars, historyVars>>

-----------------------------------------------------------------------------
(* The client *)
Tick ==
  /\ second < Len(SidAt)
  /\ second' = second + 1
  /\ UNCHANGED <<netVars, rest, clientVars, workerVars, historyVars>>

generatessid == SidAt[second]
AnyId(s) == NoSid
OwnId(s) == s

(* init: the body of the advertisement is the session id.                  *)
Announce(l, s, encrypt) ==
  PubOf(JOB_ADVERTISE, NoSid, NoDst, l, [sid |-> s, cipher |-> encrypt])
initTwice(l, s, encrypt) ==
  <<Announce(l, s, encrypt),
    SubTo(Client, JOB_REQUEST, OwnId(s), NoDst),
    SubTo(Client, RESULT_DATATYPE, OwnId(s), NoDst), Announce(l, s, encrypt)>>
init(l, s, encrypt) ==
  <<Announce(l, s, encrypt),
    SubTo(Client, JOB_REQUEST, OwnId(s), NoDst),
    SubTo(Client, RESULT_DATATYPE, OwnId(s), NoDst)>>

(* A client connects under the node id of the one before.  Subscriptions   *)
(* name that node, and whether the router drops them when a connection     *)
(* ends is not known from here: it keeps them or forgets them, and loses   *)
(* any first part of what it had to deliver to the node.                   *)
OfClient(msgs) == {s \in msgs : s.op = "sub" /\ s.node = Client}
Reconnected ==
  /\ subs' \in {subs, subs \ OfClient(subs)}
  /\ \E i \in 0..Len(down[Client]) :
       down' = [down EXCEPT ![Client] = SubSeq(@, i + 1, Len(@))]
SidsOf(msgs) == {m.sid : m \in msgs}

StartClient ==
  /\ ~running /\ life < MaxLives
  /\ second = drawn => SameSecond
  /\ Reconnected
  /\ life' = life + 1 /\ running' = TRUE
  /\ sid' = generatessid /\ drawn' = second
  /\ \E encrypt \in Encrypts :
       /\ encrypts' = encrypt
       /\ Send(Client, init(life + 1, generatessid, encrypt))
  /\ registered' = {} /\ fired' = FALSE
  /\ ids' = Append(ids, generatessid)
  /\ left' = SidsOf(OfClient(subs')) \cup SidsOf(ToSet(down'[Client]))
                \cup UNION {SidsOf(OfClient(ToSet(q))) : q \in Range(rest)}
  /\ bound' = [bound EXCEPT ![Client] = life + 1]
  /\ taken' = [taken EXCEPT ![Client] = {}]
  /\ UNCHANGED <<rest, second, workerVars, stopper>>

(* handle_msg looks at the type of a message, and never at its session.    *)
ClientTakes(t) ==
  /\ running /\ encrypts
  /\ down[Client] # <<>> /\ Head(down[Client]).type = t
  /\ Receive(Client)
  /\ taken' = [taken EXCEPT ![Client] = @ \cup {Head(down[Client]).life}]
  /\ UNCHANGED <<subs, rest, second, workerVars, ids, left, bound, stopper>>

HandleRequest ==
  /\ ClientTakes(JOB_REQUEST)
  /\ LET wanted == Head(down[Client]).body.subs
     IN /\ registered' = registered \cup {s.node : s \in ToSet(wanted)}
        /\ Send(Client, wanted)
  /\ UNCHANGED <<life, running, sid, encrypts, drawn, fired>>

HandleResult == ClientTakes(RESULT_DATATYPE) /\ UNCHANGED <<up, clientVars>>

(* Workers encrypt what they send.  A client without -e is in no session   *)
(* with one; what is left for it of an earlier one is bytes, which it      *)
(* prints, or stoi throws at them and it ends (StopClient).                *)
Unreadable ==
  /\ running /\ ~encrypts
  /\ Receive(Client)
  /\ UNCHANGED <<subs, up, rest, second, clientVars, workerVars, historyVars>>

Line(t, d) == PubOf(t, sid, d, life, [lines |-> 1])
FireJob ==
  /\ running /\ ~fired /\ registered \cap Mapper # {}
  /\ fired' = TRUE
  /\ Send(Client,
       <<Line(MAP_CODETYPE, NoDst), Line(REDUCE_CODETYPE, NoDst)>>
       \o [i \in 1..Cardinality(registered \cap Mapper) |->
             Line(MAP_DATATYPE, SetToSeq(registered \cap Mapper)[i][2])])
  /\ UNCHANGED <<subs, down, rest, second, life, running, sid, encrypts, drawn,
                 registered, workerVars, historyVars>>

(* The process ends: what it has sent may be lost, but for a first part.   *)
StopClient ==
  /\ running /\ running' = FALSE
  /\ \E i \in 0..Len(up[Client]) :
       rest' = [rest EXCEPT ![life] = SubSeq(up[Client], 1, i)]
  /\ up' = [up EXCEPT ![Client] = <<>>]
  /\ UNCHANGED <<subs, down, second, life, sid, encrypts, drawn, registered,
                 fired, workerVars, historyVars>>

-----------------------------------------------------------------------------
(* The worker: ecall_inputdata *)
Reads(w) ==
  /\ w \notin aborted
  /\ Receive(w)
  /\ UNCHANGED <<subs, rest, second, clientVars, ids, left>>
NextIn(w) == Head(down[w])

(* Every message is decrypted; one in the clear with an id for body is     *)
(* shorter than the initialisation vector and dropped.                     *)
Dropped(w) ==
  /\ Reads(w) /\ NextIn(w).type = JOB_ADVERTISE /\ ~NextIn(w).body.cipher
  /\ UNCHANGED <<up, workerVars, bound, taken, stopper>>

(* The first message is taken for a session id.                            *)
AnySub(w, t, d) == SubTo(w, t, NoSid, d)
OwnSub(w, t, d) == SubTo(w, t, NextIn(w).body.sid, d)
TakeSession(w) ==
  /\ Reads(w) /\ ~started[w] /\ NextIn(w).body.cipher
  /\ started' = [started EXCEPT ![w] = TRUE]
  /\ wsid' = [wsid EXCEPT ![w] = NextIn(w).body.sid]
  /\ bound' = [bound EXCEPT ![w] = NextIn(w).life]
  /\ Send(w, <<PubOf(JOB_REQUEST, NextIn(w).body.sid, NoDst, NextIn(w).life,
                 Wanted(<<OwnSub(w, codetype(w), NoDst),
                          OwnSub(w, datatype(w), w[2])>>))>>)
  /\ UNCHANGED <<aborted, taken, stopper>>

(* Any other is told by its first character, which in an advertisement is  *)
(* the first digit of its id: 2 and 4 hand it to the reducer, which does   *)
(* not find a separator and aborts, whatever the worker's role; the mapper *)
(* and the default only print.  (3 also makes the bridge choose whether to *)
(* write through, of which this module has no state.)                      *)
TakesAdvert(w) ==
  /\ Reads(w) /\ started[w]
  /\ NextIn(w).type = JOB_ADVERTISE /\ NextIn(w).body.cipher
  /\ UNCHANGED <<up, started, wsid, bound, taken>>
FirstDigit(s) == s \div 10
IgnoreAdvert(w) ==
  /\ TakesAdvert(w)
  /\ FirstDigit(NextIn(w).body.sid) \notin {REDUCE_CODETYPE, REDUCE_DATATYPE}
  /\ UNCHANGED <<aborted, stopper>>
AbortOnAdvert(w) ==
  /\ TakesAdvert(w)
  /\ FirstDigit(NextIn(w).body.sid) \in {REDUCE_CODETYPE, REDUCE_DATATYPE}
  /\ aborted' = aborted \cup {w}
  /\ stopper' = [stopper EXCEPT ![w] = NextIn(w).life]

Takes(w, t) ==
  /\ Reads(w) /\ started[w] /\ NextIn(w).type = t
  /\ taken' = [taken EXCEPT ![w] = @ \cup {NextIn(w).life}]
  /\ UNCHANGED <<workerVars, bound, stopper>>
TakeCode(w) == Takes(w, codetype(w)) /\ UNCHANGED up
PassOn(w, t, d) == PubOf(t, wsid[w], d, NextIn(w).life, [lines |-> 1])
Map(w) ==
  /\ w \in Mapper /\ Takes(w, MAP_DATATYPE)
  /\ Send(w, SetToSeq({PassOn(w, REDUCE_DATATYPE, r) : r \in ReducerIds}))
Reduce(w) ==
  /\ w \in Reducer /\ Takes(w, REDUCE_DATATYPE)
  /\ Send(w, <<PassOn(w, RESULT_DATATYPE, NoDst)>>)

WorkerStep(w) ==
  \/ Dropped(w) \/ TakeSession(w) \/ IgnoreAdvert(w) \/ AbortOnAdvert(w)
  \/ TakeCode(w) \/ Map(w) \/ Reduce(w)

-----------------------------------------------------------------------------
ClientStep == HandleRequest \/ HandleResult \/ Unreadable \/ FireJob

Next ==
  \/ Tick \/ StartClient \/ StopClient \/ ClientStep
  \/ \E n \in Node : RouteNext(n)
  \/ \E l \in 1..MaxLives : ReadRest(l)
  \/ \E w \in Worker : WorkerStep(w)

Spec == Init /\ [][Next]_vars

-----------------------------------------------------------------------------
(* A worker takes code and data with the id of the session it is in only,  *)
(* whatever the order and the connections they come by; and a client takes *)
(* requests and results with its own id, or with one that somebody was     *)
(* still subscribed to under its node id when it started.                  *)
OwnSession ==
  /\ \A w \in Worker : \A l \in taken[w] : ids[l] = ids[bound[w]]
  /\ \A l \in taken[Client] : ids[l] \in {sid} \cup left

(* The workers a client registers, to wait for them, are in its session,   *)
(* or in one whose subscriptions it took over with the node id.            *)
RegisteredBound == \A w \in registered : wsid[w] \in {sid} \cup left

(* A worker is stopped by no message of the client whose session it is in: *)
(* an advertisement is fatal to a worker that is in a session, and a       *)
(* client's own one is, whatever is sent when, in front of all it does.    *)
NotStoppedByOwn == \A w \in aborted : stopper[w] # bound[w]

(* README.md: "messages belonging to distinct [sessions] are not mixed".   *)
(* The enclave of a worker that is in a session is not stopped by the      *)
(* message of another.                                                     *)
NotStoppedByOthers == aborted = {}
=============================================================================
