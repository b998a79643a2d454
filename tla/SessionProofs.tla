---------------------------- MODULE SessionProofs ----------------------------
(***************************************************************************)
(* What session ids keep apart, whatever the router does with what a       *)
(* client leaves behind: theorems about Sessions, for any numbers of       *)
(* workers and of clients, and any ids they draw.                          *)
(***************************************************************************)
EXTENDS Sessions, DataLemmas

-----------------------------------------------------------------------------
(* Roles do not overlap, and nobody is the client but the client. *)
LEMMA Roles ==
  /\ Mapper \cap Reducer = {}
  /\ Client \notin Worker
  /\ \A w \in Worker : w[2] \in Nat
  /\ Mapper \subseteq Node /\ Reducer \subseteq Node
  /\ Worker \subseteq Node /\ Client \in Node
  BY ProtocolAssumption DEF Mapper, Reducer, Worker, Client, Node

LEMMA RolesFinite == IsFiniteSet(Mapper) /\ IsFiniteSet(Reducer)
  BY ProtocolAssumption, FS_Product, FS_Singleton DEF Mapper, Reducer

(* A node reads its queue, or adds to it. *)
LEMMA ReadQueue ==
  ASSUME NEW S, down \in [Node -> Seq(S)], NEW n \in Node, Receive(n)
  PROVE  /\ down' \in [Node -> Seq(S)]
         /\ down[n] \in Seq(S) /\ down[n] # <<>> /\ Head(down[n]) \in S
         /\ down'[n] = Tail(down[n])
         /\ ToSet(down[n]) = {Head(down[n])} \cup ToSet(down'[n])
         /\ \A m \in Node : m # n => down'[m] = down[m]
<1>1. /\ down[n] \in Seq(S) /\ down[n] # <<>>
      /\ down'[n] = Tail(down[n])
      /\ \A m \in Node : m # n => down'[m] = down[m]
  BY DEF Receive
<1>2. ToSet(down[n]) = {Head(down[n])} \cup ToSet(Tail(down[n]))
  BY <1>1, ToSetQueue
<1>3. Head(down[n]) \in S /\ Tail(down[n]) \in Seq(S)
  BY <1>1
<1>4. down' \in [Node -> Seq(S)]
  BY <1>3 DEF Receive
<1>5. QED  BY <1>1, <1>2, <1>3, <1>4

LEMMA FillQueue ==
  ASSUME NEW S, up \in [Node -> Seq(S)], NEW n \in Node,
         NEW out \in Seq(S), Send(n, out)
  PROVE  /\ up' \in [Node -> Seq(S)] /\ up'[n] = up[n] \o out
         /\ ToSet(up'[n]) = ToSet(up[n]) \cup ToSet(out)
         /\ \A m \in Node : m # n => up'[m] = up[m]
<1>1. /\ up[n] \in Seq(S) /\ up'[n] = up[n] \o out
      /\ \A m \in Node : m # n => up'[m] = up[m]
  BY DEF Send
<1>2. ToSet(up[n] \o out) = ToSet(up[n]) \cup ToSet(out)
  BY <1>1, ToSetQueue
<1>3. up[n] \o out \in Seq(S)
  BY <1>1
<1>4. up' \in [Node -> Seq(S)]
  BY <1>3 DEF Send
<1>5. QED  BY <1>1, <1>2, <1>4

(* The router takes the first message of a node, or of what a client left. *)
LEMMA PopQueue ==
  ASSUME NEW S, up \in [Node -> Seq(S)], NEW n \in Node, up[n] # <<>>,
         up' = [up EXCEPT ![n] = Tail(@)]
  PROVE  /\ up' \in [Node -> Seq(S)]
         /\ up[n] \in Seq(S) /\ Head(up[n]) \in S
         /\ Head(up[n]) = up[n][1] /\ 1 \in DOMAIN up[n]
         /\ up'[n] = Tail(up[n])
         /\ ToSet(up[n]) = {Head(up[n])} \cup ToSet(up'[n])
         /\ \A m \in Node : m # n => up'[m] = up[m]
<1>1. /\ up[n] \in Seq(S)
      /\ up'[n] = Tail(up[n])
      /\ \A m \in Node : m # n => up'[m] = up[m]
  OBVIOUS
<1>2. ToSet(up[n]) = {Head(up[n])} \cup ToSet(Tail(up[n]))
  BY <1>1, ToSetQueue
<1>3. Head(up[n]) \in S /\ Tail(up[n]) \in Seq(S)
      /\ Head(up[n]) = up[n][1] /\ 1 \in DOMAIN up[n]
  BY <1>1
<1>4. up' \in [Node -> Seq(S)]
  BY <1>3
<1>5. QED  BY <1>1, <1>2, <1>3, <1>4

LEMMA PopRest ==
  ASSUME NEW S, rest \in [1..MaxLives -> Seq(S)],
         NEW k \in 1..MaxLives, rest[k] # <<>>,
         rest' = [rest EXCEPT ![k] = Tail(@)]
  PROVE  /\ rest' \in [1..MaxLives -> Seq(S)]
         /\ rest[k] \in Seq(S) /\ Head(rest[k]) \in S
         /\ Head(rest[k]) = rest[k][1] /\ 1 \in DOMAIN rest[k]
         /\ rest'[k] = Tail(rest[k])
         /\ ToSet(rest[k]) = {Head(rest[k])} \cup ToSet(rest'[k])
         /\ \A m \in 1..MaxLives : m # k => rest'[m] = rest[m]
<1>1. /\ rest[k] \in Seq(S)
      /\ rest'[k] = Tail(rest[k])
      /\ \A m \in 1..MaxLives : m # k => rest'[m] = rest[m]
  OBVIOUS
<1>2. ToSet(rest[k]) = {Head(rest[k])} \cup ToSet(Tail(rest[k]))
  BY <1>1, ToSetQueue
<1>3. Head(rest[k]) \in S /\ Tail(rest[k]) \in Seq(S)
      /\ Head(rest[k]) = rest[k][1] /\ 1 \in DOMAIN rest[k]
  BY <1>1
<1>4. rest' \in [1..MaxLives -> Seq(S)]
  BY <1>3
<1>5. QED  BY <1>1, <1>2, <1>3, <1>4

(* The rest of a queue lies one further on in it. *)
LEMMA TailIndex ==
  ASSUME NEW S, NEW q \in Seq(S), q # <<>>
  PROVE  \A i \in DOMAIN Tail(q) : /\ i \in Nat \ {0}
                                   /\ i + 1 \in DOMAIN q /\ i + 1 # 1
                                   /\ Tail(q)[i] = q[i + 1]
  OBVIOUS

-----------------------------------------------------------------------------
(* The types of messages and variables. *)
Sid == {NoSid} \cup 10..99
SubMessage ==
  [op : {"sub"}, node : Node, type : MsgType, sid : Sid, dst : Dst]
PubMessage ==
  [op : {"pub"}, type : {JOB_ADVERTISE}, sid : {NoSid}, dst : {NoDst},
   life : Nat, body : [sid : 10..99, cipher : BOOLEAN]]
  \cup [op : {"pub"}, type : {JOB_REQUEST}, sid : Sid, dst : {NoDst},
        life : Nat, body : [subs : Seq(SubMessage)]]
  \cup [op : {"pub"}, type : MsgType \ {JOB_ADVERTISE, JOB_REQUEST},
        sid : Sid, dst : Dst, life : Nat, body : [lines : {1}]]
InTransit == SubMessage \cup PubMessage

TypeInv ==
  /\ subs \in SUBSET SubMessage
  /\ up \in [Node -> Seq(InTransit)]
  /\ down \in [Node -> Seq(PubMessage)]
  /\ rest \in [1..MaxLives -> Seq(InTransit)]
  /\ second \in DOMAIN SidAt
  /\ life \in 0..MaxLives /\ running \in BOOLEAN
  /\ running => life # 0
  /\ sid \in Sid /\ ids \in Seq(10..99) /\ Len(ids) = life
  /\ registered \in SUBSET Worker /\ aborted \in SUBSET Worker
  /\ started \in [Worker -> BOOLEAN] /\ wsid \in [Worker -> Sid]
  /\ \A w \in Worker : started[w] => wsid[w] # NoSid
  /\ bound \in [Node -> Nat] /\ taken \in [Node -> SUBSET Nat]
  /\ stopper \in [Worker -> Nat]

(* Subscriptions carry the id of their node's session, the client's that   *)
(* or one that was left; a worker that has started makes one request, in   *)
(* its session; and where a client is named together with a session id,    *)
(* the id is the one that client drew.                                     *)
Drew(l, s) == l \in 1..life /\ ids[l] = s
Known(s) == s # NoSid /\ s \in {sid} \cup left
RequestOf(w) == PubOf(JOB_REQUEST, wsid[w], NoDst, bound[w],
  Wanted(<<SubTo(w, codetype(w), wsid[w], NoDst),
           SubTo(w, datatype(w), wsid[w], w[2])>>))
SubOk(s) ==
  IF s.node = Client
  THEN s.type \in {JOB_REQUEST, RESULT_DATATYPE} /\ Known(s.sid)
  ELSE \/ s.type = JOB_ADVERTISE
       \/ /\ started[s.node] /\ s.type \in {codetype(s.node), datatype(s.node)}
          /\ s.sid = wsid[s.node] /\ s.sid # NoSid
Marked(p) ==
  Drew(p.life, IF p.type = JOB_ADVERTISE THEN p.body.sid ELSE p.sid)
Sound(m) ==
  /\ m.op = "sub" => SubOk(m)
  /\ m.op = "pub" => Marked(m)
  /\ m.op = "pub" /\ m.type = JOB_REQUEST =>
       \E w \in Worker : started[w] /\ m = RequestOf(w)

(* Only the client advertises and subscribes for itself.                   *)
Queued(n, m) ==
  /\ Sound(m)
  /\ n # Client => IF m.op = "sub" THEN m.node # Client
                                   ELSE m.type # JOB_ADVERTISE
Delivered(n, p) ==
  /\ Sound(p)
  /\ n = Client => p.type \in {JOB_REQUEST, RESULT_DATATYPE} /\ Known(p.sid)
  /\ n # Client => \/ p.type = JOB_ADVERTISE
                   \/ /\ started[n] /\ p.type \in {codetype(n), datatype(n)}
                      /\ p.sid = wsid[n]
MessagesSound ==
  /\ \A s \in subs : SubOk(s)
  /\ \A n \in Node : \A m \in ToSet(up[n]) : Queued(n, m)
  /\ \A l \in 1..MaxLives : \A m \in ToSet(rest[l]) : Queued(Client, m)
  /\ \A n \in Node : \A p \in ToSet(down[n]) : Delivered(n, p)

(* An advertisement is the first a client sends, and reaches a worker      *)
(* once: not while it is on its way to the router, nor after the worker    *)
(* took it.                                                                *)
Advert(m) == m.op = "pub" /\ m.type = JOB_ADVERTISE
Unseen(l, w) ==
  bound[w] # l /\ \A p \in ToSet(down[w]) : Advert(p) => p.life # l
Fresh(l) == \A w \in Worker : Unseen(l, w)
AdvertFirst(q, l) == \A i \in DOMAIN q :
  Advert(q[i]) => i = 1 /\ q[i].life = l /\ Fresh(l)
Apart(w) == \A i \in DOMAIN down[w] : Advert(down[w][i]) =>
  /\ bound[w] # down[w][i].life
  /\ \A j \in DOMAIN down[w] :
       i # j /\ Advert(down[w][j]) => down[w][i].life # down[w][j].life
AdvertsOnce ==
  /\ AdvertFirst(up[Client], life)
  /\ \A l \in 1..MaxLives : AdvertFirst(rest[l], l)
  /\ \A w \in Worker : Apart(w)

(* Nothing is left behind by a client that runs, or by one yet to start.   *)
Tidy ==
  /\ ~running => up[Client] = <<>>
  /\ \A l \in 1..MaxLives :
       rest[l] # <<>> => l < life \/ (l = life /\ ~running)

(* Whose session a worker is in, what was taken, who is registered, and    *)
(* who was stopped.                                                        *)
HistoryOk ==
  /\ life # 0 => sid = ids[life]
  /\ \A w \in Worker : started[w] => Drew(bound[w], wsid[w])
  /\ \A w \in Worker : ~started[w] => bound[w] = 0 /\ taken[w] = {}
  /\ \A w \in Worker : \A l \in taken[w] : Drew(l, wsid[w])
  /\ \A l \in taken[Client] : l \in 1..life /\ ids[l] \in {sid} \cup left
  /\ \A w \in registered : wsid[w] \in {sid} \cup left /\ started[w]
  /\ \A w \in aborted : started[w] /\ stopper[w] # bound[w]

SessionInv ==
  /\ TypeInv /\ MessagesSound /\ AdvertsOnce /\ Tidy /\ HistoryOk

-----------------------------------------------------------------------------
(* Messages. *)
LEMMA SentTypes ==
  /\ \A s \in 10..99, l \in Nat, e \in BOOLEAN :
       PubOf(JOB_ADVERTISE, NoSid, NoDst, l, [sid |-> s, cipher |-> e])
         \in PubMessage
  /\ \A s \in Sid, l \in Nat, q \in Seq(SubMessage) :
       PubOf(JOB_REQUEST, s, NoDst, l, Wanted(q)) \in PubMessage
  /\ \A t \in MsgType \ {JOB_ADVERTISE, JOB_REQUEST}, s \in Sid, d \in Dst,
        l \in Nat : PubOf(t, s, d, l, [lines |-> 1]) \in PubMessage
  /\ \A n \in Node, t \in MsgType, s \in Sid, d \in Dst :
       SubTo(n, t, s, d) \in SubMessage
<1>1. \A s \in 10..99, l \in Nat, e \in BOOLEAN :
        PubOf(JOB_ADVERTISE, NoSid, NoDst, l, [sid |-> s, cipher |-> e])
          \in PubMessage
  BY DEF PubOf, PubMessage
<1>2. \A s \in Sid, l \in Nat, q \in Seq(SubMessage) :
        PubOf(JOB_REQUEST, s, NoDst, l, Wanted(q)) \in PubMessage
  BY DEF PubOf, PubMessage, Wanted
<1>3. \A t \in MsgType \ {JOB_ADVERTISE, JOB_REQUEST}, s \in Sid, d \in Dst,
         l \in Nat : PubOf(t, s, d, l, [lines |-> 1]) \in PubMessage
  BY DEF PubOf, PubMessage
<1>4. \A n \in Node, t \in MsgType, s \in Sid, d \in Dst :
        SubTo(n, t, s, d) \in SubMessage
  BY DEF SubTo, SubMessage
<1>5. QED  BY <1>1, <1>2, <1>3, <1>4

LEMMA ReadTypes ==
  /\ \A p \in PubMessage :
       /\ p.op = "pub" /\ p.life \in Nat /\ p.sid \in Sid
       /\ p.type = JOB_ADVERTISE =>
            p.body.sid \in 10..99 /\ p.body.cipher \in BOOLEAN
       /\ p.type = JOB_REQUEST => p.body.subs \in Seq(SubMessage)
  /\ \A s \in SubMessage :
       /\ s.op = "sub" /\ s.node \in Node /\ s.sid \in Sid
       /\ s.type \in MsgType
<1>1. \A p \in PubMessage :
        /\ p.op = "pub" /\ p.life \in Nat /\ p.sid \in Sid
        /\ p.type = JOB_ADVERTISE =>
             p.body.sid \in 10..99 /\ p.body.cipher \in BOOLEAN
        /\ p.type = JOB_REQUEST => p.body.subs \in Seq(SubMessage)
  <2> SUFFICES ASSUME NEW p \in PubMessage
               PROVE  /\ p.op = "pub" /\ p.life \in Nat /\ p.sid \in Sid
                      /\ p.type = JOB_ADVERTISE =>
                           p.body.sid \in 10..99 /\ p.body.cipher \in BOOLEAN
                      /\ p.type = JOB_REQUEST => p.body.subs \in Seq(SubMessage)
    OBVIOUS
  <2>1. p.op = "pub" /\ p.life \in Nat
    BY DEF PubMessage
  <2>2. p.sid \in Sid
    BY DEF PubMessage, Sid
  <2>3. p.type = JOB_ADVERTISE =>
          p.body.sid \in 10..99 /\ p.body.cipher \in BOOLEAN
    BY DEF PubMessage, JOB_ADVERTISE, JOB_REQUEST
  <2>4. p.type = JOB_REQUEST => p.body.subs \in Seq(SubMessage)
    BY DEF PubMessage, JOB_ADVERTISE, JOB_REQUEST
  <2>5. QED  BY <2>1, <2>2, <2>3, <2>4
<1>2. \A s \in SubMessage : /\ s.op = "sub" /\ s.node \in Node
                            /\ s.sid \in Sid /\ s.type \in MsgType
  BY DEF SubMessage
<1>3. QED  BY <1>1, <1>2

(* Types of code and data are neither those of adverts nor of requests.    *)
LEMMA WorkTypes ==
  /\ MsgType = 1..7
  /\ {JOB_ADVERTISE, JOB_REQUEST} \subseteq MsgType
  /\ JOB_ADVERTISE # JOB_REQUEST
  /\ {MAP_CODETYPE, REDUCE_CODETYPE, MAP_DATATYPE, REDUCE_DATATYPE,
      RESULT_DATATYPE} \subseteq MsgType \ {JOB_ADVERTISE, JOB_REQUEST}
  /\ \A w : {codetype(w), datatype(w)}
              \subseteq MsgType \ {JOB_ADVERTISE, JOB_REQUEST}
  BY DEF MsgType, codetype, datatype, MAP_CODETYPE, REDUCE_CODETYPE,
    MAP_DATATYPE, REDUCE_DATATYPE, RESULT_DATATYPE, JOB_ADVERTISE, JOB_REQUEST

LEMMA DstTypes == Nat \subseteq Dst /\ NoDst \in Dst
  BY DEF Dst

LEMMA RequestTypes ==
  ASSUME NEW w \in Worker, wsid[w] \in Sid, bound[w] \in Nat
  PROVE  /\ RequestOf(w) \in PubMessage
         /\ RequestOf(w).op = "pub" /\ RequestOf(w).type = JOB_REQUEST
         /\ RequestOf(w).sid = wsid[w] /\ RequestOf(w).life = bound[w]
         /\ ToSet(RequestOf(w).body.subs) =
              {SubTo(w, codetype(w), wsid[w], NoDst),
               SubTo(w, datatype(w), wsid[w], w[2])}
<1> DEFINE q == <<SubTo(w, codetype(w), wsid[w], NoDst),
                  SubTo(w, datatype(w), wsid[w], w[2])>>
<1>1. w \in Node /\ w[2] \in Nat
  BY Roles
<1>2. SubTo(w, codetype(w), wsid[w], NoDst) \in SubMessage
      /\ SubTo(w, datatype(w), wsid[w], w[2]) \in SubMessage
  BY <1>1, SentTypes, WorkTypes, DstTypes
<1>3. q \in Seq(SubMessage)
      /\ ToSet(q) = {SubTo(w, codetype(w), wsid[w], NoDst),
                     SubTo(w, datatype(w), wsid[w], w[2])}
  BY <1>2 DEF ToSet
<1>4. RequestOf(w) = PubOf(JOB_REQUEST, wsid[w], NoDst, bound[w], Wanted(q))
  BY DEF RequestOf
<1> HIDE DEF q
<1>5. RequestOf(w) \in PubMessage
  BY <1>3, <1>4, SentTypes
<1>6. RequestOf(w).body.subs = q
  BY <1>4 DEF PubOf, Wanted
<1>7. QED  BY <1>3, <1>4, <1>5, <1>6 DEF PubOf

LEMMA RequestIs ==
  \A v \in Worker : wsid[v] \in Sid /\ bound[v] \in Nat =>
    /\ RequestOf(v) \in PubMessage
    /\ RequestOf(v).op = "pub" /\ RequestOf(v).type = JOB_REQUEST
    /\ RequestOf(v).sid = wsid[v] /\ RequestOf(v).life = bound[v]
  BY RequestTypes

-----------------------------------------------------------------------------
(* Steps that leave sessions alone: messages are read, and what is added   *)
(* is sound and no advertisement.                                          *)
SessionVars == <<life, sid, ids, left, started, wsid, bound>>

LEMMA SameSound ==
  ASSUME UNCHANGED SessionVars
  PROVE  /\ \A s : SubOk(s)' <=> SubOk(s)
         /\ \A m : Sound(m)' <=> Sound(m)
         /\ \A n, m : Queued(n, m)' <=> Queued(n, m)
         /\ \A n, p : Delivered(n, p)' <=> Delivered(n, p)
  BY DEF SessionVars, SubOk, Sound, Marked, Drew, Known, Queued, Delivered,
    RequestOf

(* An advertisement is never behind another message of its client.         *)
LEMMA FirstTaken ==
  ASSUME NEW S, NEW q \in Seq(S), NEW l, AdvertFirst(q, l), q # <<>>
  PROVE  \A i \in DOMAIN Tail(q) : ~Advert(Tail(q)[i])
  BY TailIndex DEF AdvertFirst

LEMMA NoneBehind ==
  ASSUME NEW q, NEW l, \A i \in DOMAIN q : ~Advert(q[i])
  PROVE  AdvertFirst(q, l)
  BY DEF AdvertFirst

(* Reading makes nothing of what was unseen seen. *)
LEMMA ReadingKeeps ==
  ASSUME NEW w \in Worker, down[w] \in Seq(PubMessage), bound' = bound,
         down'[w] = down[w] \/ (down[w] # <<>> /\ down'[w] = Tail(down[w])),
         Apart(w)
  PROVE  /\ \A l : Unseen(l, w) => Unseen(l, w)'
         /\ Apart(w)'
<1>1. ToSet(down'[w]) \subseteq ToSet(down[w])
  BY ToSetQueue
<1>2. \A l : Unseen(l, w) => Unseen(l, w)'
  BY <1>1 DEF Unseen, Advert
<1>3. CASE down'[w] = down[w]
  BY <1>2, <1>3 DEF Apart, Advert
<1>4. CASE down[w] # <<>> /\ down'[w] = Tail(down[w])
  <2>1. \A k \in DOMAIN down'[w] :
          /\ k \in Nat \ {0} /\ k + 1 \in DOMAIN down[w]
          /\ down'[w][k] = down[w][k + 1]
    BY <1>4, TailIndex
  <2>2. \A i, j \in DOMAIN down'[w] : i # j => i + 1 # j + 1
    BY <2>1
  <2>3. ASSUME NEW i \in DOMAIN down'[w], Advert(down'[w][i])
        PROVE  /\ bound[w] # down'[w][i].life
               /\ \A j \in DOMAIN down'[w] :
                    i # j /\ Advert(down'[w][j]) =>
                      down'[w][i].life # down'[w][j].life
    <3>1. Advert(down[w][i + 1]) /\ i + 1 \in DOMAIN down[w]
      BY <2>1, <2>3
    <3>2. /\ bound[w] # down[w][i + 1].life
          /\ \A j \in DOMAIN down[w] :
               i + 1 # j /\ Advert(down[w][j]) =>
                 down[w][i + 1].life # down[w][j].life
      BY <3>1 DEF Apart
    <3>3. QED  BY <2>1, <2>2, <3>2
  <2>4. QED  BY <1>2, <2>3 DEF Apart, Advert
<1>5. QED  BY <1>3, <1>4

LEMMA FlowKept ==
  ASSUME TypeInv, MessagesSound, AdvertsOnce, UNCHANGED SessionVars,
         \A s \in subs' : SubOk(s),
         \A n \in Node : \A m \in ToSet(up'[n]) :
           m \in ToSet(up[n]) \/ Queued(n, m),
         \A l \in 1..MaxLives : \A m \in ToSet(rest'[l]) : Queued(Client, m),
         AdvertFirst(up'[Client], life),
         \A l \in 1..MaxLives : AdvertFirst(rest'[l], l),
         \A n \in Node : \/ down'[n] = down[n]
                         \/ down[n] # <<>> /\ down'[n] = Tail(down[n])
  PROVE  MessagesSound' /\ AdvertsOnce'
<1>1. /\ \A w \in Worker : w \in Node
      /\ \A n \in Node : down[n] \in Seq(PubMessage)
  BY Roles DEF TypeInv
<1>2. \A n \in Node : ToSet(down'[n]) \subseteq ToSet(down[n])
  <2>1. ASSUME NEW n \in Node, down[n] # <<>>, down'[n] = Tail(down[n])
        PROVE  ToSet(down'[n]) \subseteq ToSet(down[n])
    BY <1>1, <2>1, ToSetQueue
  <2>2. QED  BY <2>1
<1>3. MessagesSound'
  BY <1>2, SameSound DEF MessagesSound
<1>4. \A w \in Worker : /\ \A l : Unseen(l, w) => Unseen(l, w)'
                        /\ Apart(w)'
  BY <1>1, ReadingKeeps DEF AdvertsOnce, SessionVars
<1>5. \A l : Fresh(l) => Fresh(l)'
  BY <1>4 DEF Fresh
<1>6. AdvertFirst(up[Client], life)'
  BY <1>5 DEF AdvertFirst, Advert, SessionVars
<1>7. \A l \in 1..MaxLives : AdvertFirst(rest[l], l)'
  BY <1>5 DEF AdvertFirst, Advert
<1>8. QED  BY <1>3, <1>4, <1>6, <1>7 DEF AdvertsOnce

(* What was taken, registered and stopped, when the step does not touch it.*)
LEMMA HistoryKept ==
  ASSUME HistoryOk, UNCHANGED SessionVars,
         UNCHANGED <<registered, taken, aborted, stopper>>
  PROVE  HistoryOk'
  BY DEF SessionVars, HistoryOk, Drew

-----------------------------------------------------------------------------
(* The router. *)
RouterKeeps ==
  UNCHANGED <<second, clientVars, workerVars, historyVars>>

LEMMA RouterLeaves ==
  ASSUME RouterKeeps
  PROVE  UNCHANGED <<SessionVars, second, running, registered, taken, aborted,
                     stopper>>
  BY DEF RouterKeeps, clientVars, workerVars, historyVars, SessionVars

(* It reads a subscription, from a connection or the rest of one. *)
LEMMA SubscribedKeeps ==
  ASSUME SessionInv, RouterKeeps, NEW h \in InTransit, h.op = "sub", Sound(h),
         subs' = subs \cup {h}, down' = down,
         up' \in [Node -> Seq(InTransit)],
         rest' \in [1..MaxLives -> Seq(InTransit)],
         \A n \in Node : \A m \in ToSet(up'[n]) : m \in ToSet(up[n]),
         \A l \in 1..MaxLives :
           \A m \in ToSet(rest'[l]) : m \in ToSet(rest[l]),
         AdvertFirst(up'[Client], life),
         \A l \in 1..MaxLives : AdvertFirst(rest'[l], l), Tidy'
  PROVE  SessionInv'
<1>1. UNCHANGED <<SessionVars, second, running, registered, taken, aborted,
                  stopper>>
  BY RouterLeaves
<1>2. h \in SubMessage /\ SubOk(h)
  BY ReadTypes DEF InTransit, Sound
<1>3. TypeInv'
  BY <1>1, <1>2 DEF SessionInv, TypeInv, SessionVars
<1>4. \A s \in subs' : SubOk(s)
  BY <1>2 DEF SessionInv, MessagesSound
<1>5. \A l \in 1..MaxLives : \A m \in ToSet(rest'[l]) : Queued(Client, m)
  BY DEF SessionInv, MessagesSound
<1>6. MessagesSound' /\ AdvertsOnce'
  BY <1>1, <1>4, <1>5, FlowKept DEF SessionInv
<1>7. HistoryOk'
  BY <1>1, HistoryKept DEF SessionInv
<1>8. QED  BY <1>3, <1>6, <1>7 DEF SessionInv

(* It delivers a publication, from a connection or the rest of one: it     *)
(* goes by the session id to those that are in the session, or were left.  *)
LEMMA DeliveredTo ==
  ASSUME SessionInv, NEW h \in PubMessage, Sound(h), Deliver(h),
         NEW n \in Node
  PROVE  \/ down'[n] = down[n]
         \/ /\ down'[n] = Append(down[n], h)
            /\ ToSet(down'[n]) = ToSet(down[n]) \cup {h}
            /\ Delivered(n, h)
<1>1. down \in [Node -> Seq(PubMessage)] /\ h.op = "pub"
  BY ReadTypes DEF SessionInv, TypeInv
<1>2. CASE \E s \in subs : s.node = n /\ Reaches(s, h)
  <2>1. PICK s \in subs : s.node = n /\ Reaches(s, h)
    BY <1>2
  <2>2. down'[n] = Append(down[n], h)
    BY <1>2 DEF Deliver
  <2>3. ToSet(down'[n]) = ToSet(down[n]) \cup {h}
    BY <1>1, <2>2, ToSetQueue
  <2>4. SubOk(s)
    BY DEF SessionInv, MessagesSound
  <2>5. Delivered(n, h)
    BY <2>1, <2>4 DEF Delivered, SubOk, Known, Reaches
  <2>6. QED  BY <2>2, <2>3, <2>5
<1>3. CASE ~\E s \in subs : s.node = n /\ Reaches(s, h)
  BY <1>3 DEF Deliver
<1>4. QED  BY <1>2, <1>3

(* The advertisement it delivers is new to whom it is delivered to. *)
LEMMA AddedApart ==
  ASSUME NEW w \in Worker, down[w] \in Seq(PubMessage), bound' = bound,
         NEW h, down'[w] = Append(down[w], h), Apart(w),
         Advert(h) => Unseen(h.life, w)
  PROVE  Apart(w)'
<1> DEFINE q == down[w]
           k == Len(down[w])
           Clash(i, j) ==
             i # j /\ Advert(down'[w][i]) /\ Advert(down'[w][j])
             /\ down'[w][i].life = down'[w][j].life
<1>1. /\ k \in Nat /\ DOMAIN q = 1..k /\ DOMAIN down'[w] = 1..(k + 1)
      /\ \A i \in 1..k : down'[w][i] = q[i] /\ q[i] \in ToSet(q)
      /\ down'[w][k + 1] = h
  BY DEF ToSet
<1>2. \A i \in DOMAIN down'[w] : i \in 1..k \/ i = k + 1
  BY <1>1
<1>3. \A i \in 1..k : i # k + 1
  BY <1>1
<1>4. \A i, j \in 1..k : ~Clash(i, j)
  BY <1>1 DEF Apart
<1>5. \A i \in 1..k : ~Clash(i, k + 1) /\ ~Clash(k + 1, i)
  BY <1>1 DEF Unseen
<1>6. \A i, j \in DOMAIN down'[w] : ~Clash(i, j)
  <2> HIDE DEF Clash
  <2>1. ~Clash(k + 1, k + 1)
    BY DEF Clash
  <2>2. QED  BY <1>2, <1>4, <1>5, <2>1
<1>7. \A i \in DOMAIN down'[w] : Advert(down'[w][i]) =>
        bound[w] # down'[w][i].life
  <2>1. \A i \in 1..k : Advert(down'[w][i]) => bound[w] # down'[w][i].life
    BY <1>1 DEF Apart
  <2>2. Advert(h) => bound[w] # h.life
    BY DEF Unseen
  <2>3. QED  BY <1>1, <1>2, <2>1, <2>2
<1>8. QED  BY <1>6, <1>7 DEF Apart, Advert

LEMMA DeliverKeeps ==
  ASSUME SessionInv, RouterKeeps, NEW h \in PubMessage, Sound(h), Deliver(h),
         subs' = subs,
         up' \in [Node -> Seq(InTransit)],
         rest' \in [1..MaxLives -> Seq(InTransit)],
         \A n \in Node : \A m \in ToSet(up'[n]) : m \in ToSet(up[n]),
         \A l \in 1..MaxLives :
           \A m \in ToSet(rest'[l]) : m \in ToSet(rest[l]),
         AdvertFirst(up'[Client], life),
         \A l \in 1..MaxLives : AdvertFirst(rest'[l], l), Tidy',
         Advert(h) => Fresh(h.life),
         Advert(h) => \A i \in DOMAIN up'[Client] :
                        Advert(up'[Client][i]) => h.life # life,
         Advert(h) => \A l \in 1..MaxLives : \A i \in DOMAIN rest'[l] :
                        Advert(rest'[l][i]) => h.life # l
  PROVE  SessionInv'
<1>1. UNCHANGED <<SessionVars, second, running, registered, taken, aborted,
                  stopper>>
  BY RouterLeaves
<1>2. /\ \A w \in Worker : w \in Node
      /\ down \in [Node -> Seq(PubMessage)]
  BY Roles DEF SessionInv, TypeInv
<1>3. ASSUME NEW n \in Node
      PROVE  \/ down'[n] = down[n]
             \/ /\ down'[n] = Append(down[n], h)
                /\ ToSet(down'[n]) = ToSet(down[n]) \cup {h}
                /\ Delivered(n, h)
  BY DeliveredTo
<1>4. TypeInv'
  <2>1. \A n \in Node : Append(down[n], h) \in Seq(PubMessage)
    BY <1>2
  <2>2. down' \in [Node -> Seq(PubMessage)]
    BY <1>2, <2>1 DEF Deliver
  <2>3. QED  BY <1>1, <2>2 DEF SessionInv, TypeInv, SessionVars
<1>5. MessagesSound'
  <2>1. \A n \in Node : \A p \in ToSet(down'[n]) : Delivered(n, p)
    BY <1>3 DEF SessionInv, MessagesSound
  <2>2. QED  BY <1>1, <2>1, SameSound DEF SessionInv, MessagesSound
<1>6. ASSUME NEW l, Fresh(l), Advert(h) => h.life # l
      PROVE  Fresh(l)'
  <2>1. ASSUME NEW w \in Worker
        PROVE  Unseen(l, w)'
    <3>1. Unseen(l, w)
      BY <1>6 DEF Fresh
    <3>2. \A p \in ToSet(down'[w]) : p \in ToSet(down[w]) \/ p = h
      BY <1>2, <1>3
    <3>3. QED  BY <1>1, <1>6, <3>1, <3>2 DEF Unseen, Advert, SessionVars
  <2>2. QED  BY <2>1 DEF Fresh
<1>7. AdvertsOnce'
  <2>1. AdvertFirst(up[Client], life)'
    BY <1>1, <1>6 DEF AdvertFirst, Advert, SessionVars
  <2>2. \A l \in 1..MaxLives : AdvertFirst(rest[l], l)'
    BY <1>6 DEF AdvertFirst, Advert
  <2>3. ASSUME NEW w \in Worker
        PROVE  Apart(w)'
    <3>1. Apart(w) /\ down[w] \in Seq(PubMessage) /\ bound' = bound
      BY <1>1, <1>2 DEF SessionInv, AdvertsOnce, SessionVars
    <3>2. CASE down'[w] = down[w]
      BY <3>1, <3>2, ReadingKeeps
    <3>3. CASE down'[w] = Append(down[w], h)
      <4>1. Advert(h) => Unseen(h.life, w)
        BY DEF Fresh
      <4>2. QED  BY <3>1, <3>3, <4>1, AddedApart
    <3>4. QED  BY <1>2, <1>3, <3>2, <3>3
  <2>4. QED  BY <2>1, <2>2, <2>3 DEF AdvertsOnce
<1>8. HistoryOk'
  BY <1>1, HistoryKept DEF SessionInv
<1>9. QED  BY <1>4, <1>5, <1>7, <1>8 DEF SessionInv

LEMMA RouteSubscriptionKeeps ==
  ASSUME SessionInv, NEW n \in Node, RouteSubscription(n),
         UNCHANGED rest, RouterKeeps
  PROVE  SessionInv'
<1> USE DEF SessionInv
<1> DEFINE h == Head(up[n])
<1>1. /\ up \in [Node -> Seq(InTransit)] /\ up[n] # <<>> /\ h.op = "sub"
      /\ up' = [up EXCEPT ![n] = Tail(@)] /\ Client \in Node
      /\ subs' = subs \cup {h} /\ down' = down /\ rest' = rest
  BY Roles DEF RouteSubscription, TypeInv
<1>2. /\ up' \in [Node -> Seq(InTransit)] /\ up[n] \in Seq(InTransit)
      /\ h \in InTransit /\ up'[n] = Tail(up[n])
      /\ ToSet(up[n]) = {h} \cup ToSet(up'[n])
      /\ \A m \in Node : m # n => up'[m] = up[m]
  BY <1>1, PopQueue
<1> HIDE DEF h
<1>3. Sound(h)
  BY <1>2 DEF MessagesSound, Queued
<1>4. \A m \in Node : \A p \in ToSet(up'[m]) : p \in ToSet(up[m])
  BY <1>2
<1>5. AdvertFirst(up'[Client], life)
  <2>1. CASE n = Client
    BY <1>1, <1>2, <2>1, FirstTaken, NoneBehind DEF AdvertsOnce
  <2>2. CASE n # Client
    BY <1>1, <1>2, <2>2 DEF AdvertsOnce
  <2>3. QED  BY <2>1, <2>2
<1>6. \A l \in 1..MaxLives : AdvertFirst(rest'[l], l)
  BY <1>1 DEF AdvertsOnce
<1>7. Tidy'
  <2>1. running' = running /\ life' = life
    BY RouterLeaves DEF SessionVars
  <2>2. up[Client] = <<>> => up'[Client] = <<>>
    BY <1>1, <1>2
  <2>3. QED  BY <1>1, <2>1, <2>2 DEF Tidy
<1>8. rest' \in [1..MaxLives -> Seq(InTransit)]
  BY <1>1 DEF TypeInv
<1>9. QED
  BY <1>1, <1>2, <1>3, <1>4, <1>5, <1>6, <1>7, <1>8, SubscribedKeeps

(* A client that runs has left nothing behind, so that its advertisement   *)
(* is in one place only.                                                   *)
LEMMA PublishKeeps ==
  ASSUME SessionInv, NEW n \in Node, Publish(n), UNCHANGED rest, RouterKeeps
  PROVE  SessionInv'
<1> USE DEF SessionInv
<1> DEFINE h == Head(up[n])
<1>1. /\ up \in [Node -> Seq(InTransit)] /\ up[n] # <<>> /\ h.op = "pub"
      /\ up' = [up EXCEPT ![n] = Tail(@)] /\ subs' = subs /\ Deliver(h)
      /\ rest' = rest /\ Client \in Node
  BY Roles DEF Publish, TypeInv
<1>2. /\ up' \in [Node -> Seq(InTransit)] /\ up[n] \in Seq(InTransit)
      /\ h \in InTransit /\ up'[n] = Tail(up[n])
      /\ h = up[n][1] /\ 1 \in DOMAIN up[n]
      /\ ToSet(up[n]) = {h} \cup ToSet(up'[n])
      /\ \A m \in Node : m # n => up'[m] = up[m]
  BY <1>1, PopQueue
<1> HIDE DEF h
<1>3. h \in PubMessage /\ Sound(h) /\ Queued(n, h)
  <2>1. Queued(n, h)
    BY <1>2 DEF MessagesSound
  <2>2. QED  BY <1>1, <1>2, <2>1, ReadTypes DEF InTransit, Queued
<1>4. \A m \in Node : \A p \in ToSet(up'[m]) : p \in ToSet(up[m])
  BY <1>2
<1>5. n = Client => \A i \in DOMAIN up'[Client] : ~Advert(up'[Client][i])
  BY <1>1, <1>2, FirstTaken DEF AdvertsOnce
<1>6. AdvertFirst(up'[Client], life)
  <2>1. CASE n = Client
    BY <1>5, <2>1, NoneBehind
  <2>2. CASE n # Client
    BY <1>1, <1>2, <2>2 DEF AdvertsOnce
  <2>3. QED  BY <2>1, <2>2
<1>7. \A l \in 1..MaxLives : AdvertFirst(rest'[l], l)
  BY <1>1 DEF AdvertsOnce
<1>8. Tidy'
  <2>1. running' = running /\ life' = life
    BY RouterLeaves DEF SessionVars
  <2>2. up[Client] = <<>> => up'[Client] = <<>>
    BY <1>1, <1>2
  <2>3. QED  BY <1>1, <2>1, <2>2 DEF Tidy
<1>9. Advert(h) => n = Client /\ h.life = life /\ Fresh(h.life)
  <2>1. Advert(h) => n = Client
    BY <1>3 DEF Advert, Queued
  <2>2. QED  BY <1>2, <2>1 DEF AdvertsOnce, AdvertFirst
<1>10. Advert(h) => \A l \in 1..MaxLives : \A i \in DOMAIN rest'[l] :
                      Advert(rest'[l][i]) => h.life # l
  <2>1. ASSUME Advert(h), NEW l \in 1..MaxLives, rest[l] # <<>>
        PROVE  l # life
    <3>1. running /\ life \in Nat /\ l \in Nat
      BY <1>1, <1>9, <2>1, SessionAssumption DEF Tidy, TypeInv
    <3>2. QED  BY <2>1, <3>1 DEF Tidy
  <2>2. \A l \in 1..MaxLives : \A i \in DOMAIN rest[l] : rest[l] # <<>>
    OBVIOUS
  <2>3. QED  BY <1>1, <1>9, <2>1, <2>2
<1>11. Advert(h) => \A i \in DOMAIN up'[Client] :
                      Advert(up'[Client][i]) => h.life # life
  BY <1>5, <1>9
<1>12. rest' \in [1..MaxLives -> Seq(InTransit)]
  BY <1>1 DEF TypeInv
<1>13. Advert(h) => Fresh(h.life)
  BY <1>9
<1>14. \A l \in 1..MaxLives : \A m \in ToSet(rest'[l]) : m \in ToSet(rest[l])
  BY <1>1
<1>15. QED
  BY <1>1, <1>2, <1>3, <1>4, <1>6, <1>7, <1>8, <1>10, <1>11, <1>12, <1>13,
    <1>14, DeliverKeeps

LEMMA ReadRestKeeps ==
  ASSUME SessionInv, NEW k \in 1..MaxLives, ReadRest(k)
  PROVE  SessionInv'
<1> USE DEF SessionInv
<1> DEFINE h == Head(rest[k])
<1>1. /\ rest \in [1..MaxLives -> Seq(InTransit)] /\ rest[k] # <<>>
      /\ rest' = [rest EXCEPT ![k] = Tail(@)] /\ up' = up /\ RouterKeeps
      /\ \/ h.op = "sub" /\ subs' = subs \cup {h} /\ down' = down
         \/ h.op = "pub" /\ Deliver(h) /\ subs' = subs
  BY DEF ReadRest, TypeInv, RouterKeeps
<1>2. /\ rest' \in [1..MaxLives -> Seq(InTransit)]
      /\ rest[k] \in Seq(InTransit)
      /\ h \in InTransit /\ rest'[k] = Tail(rest[k])
      /\ h = rest[k][1] /\ 1 \in DOMAIN rest[k]
      /\ ToSet(rest[k]) = {h} \cup ToSet(rest'[k])
      /\ \A l \in 1..MaxLives : l # k => rest'[l] = rest[l]
  BY <1>1, PopRest
<1> HIDE DEF h
<1>3. Sound(h)
  BY <1>2 DEF MessagesSound, Queued
<1>4. \A l \in 1..MaxLives : \A m \in ToSet(rest'[l]) : m \in ToSet(rest[l])
  BY <1>2
<1>5. \A i \in DOMAIN rest'[k] : ~Advert(rest'[k][i])
  BY <1>1, <1>2, FirstTaken DEF AdvertsOnce
<1>6. \A l \in 1..MaxLives : AdvertFirst(rest'[l], l)
  BY <1>2, <1>5, NoneBehind DEF AdvertsOnce
<1>7. AdvertFirst(up'[Client], life)
  BY <1>1 DEF AdvertsOnce
<1>8. running' = running /\ life' = life /\ life \in Nat
  BY <1>1, RouterLeaves, SessionAssumption DEF SessionVars, TypeInv
<1>9. Tidy'
  <2>1. \A l \in 1..MaxLives : rest'[l] # <<>> => rest[l] # <<>>
    BY <1>1, <1>2
  <2>2. QED  BY <1>1, <1>8, <2>1 DEF Tidy
<1>10. up' \in [Node -> Seq(InTransit)]
       /\ \A n \in Node : \A m \in ToSet(up'[n]) : m \in ToSet(up[n])
  BY <1>1 DEF TypeInv
<1>11. CASE h.op = "sub" /\ subs' = subs \cup {h} /\ down' = down
  BY <1>1, <1>2, <1>3, <1>4, <1>6, <1>7, <1>9, <1>10, <1>11, SubscribedKeeps
<1>12. CASE h.op = "pub" /\ Deliver(h) /\ subs' = subs
  <2>1. h \in PubMessage
    BY <1>2, <1>12, ReadTypes DEF InTransit
  <2>2. Advert(h) => h.life = k /\ Fresh(h.life)
    BY <1>2 DEF AdvertsOnce, AdvertFirst
  <2>3. Advert(h) => \A l \in 1..MaxLives : \A i \in DOMAIN rest'[l] :
                       Advert(rest'[l][i]) => h.life # l
    BY <1>5, <2>2
  <2>4. Advert(h) => \A i \in DOMAIN up'[Client] :
                       Advert(up'[Client][i]) => h.life # life
    <3>1. ASSUME up[Client] # <<>>
          PROVE  k # life
      <4>1. running /\ k \in Nat
        BY <3>1, SessionAssumption DEF Tidy, TypeInv
      <4>2. QED  BY <1>1, <1>8, <4>1 DEF Tidy
    <3>2. \A i \in DOMAIN up[Client] : up[Client] # <<>>
      OBVIOUS
    <3>3. QED  BY <1>1, <2>2, <3>1, <3>2
  <2>5. Advert(h) => Fresh(h.life)
    BY <2>2
  <2>6. QED
    BY <1>1, <1>2, <1>3, <1>4, <1>6, <1>7, <1>9, <1>10, <1>12, <2>1, <2>3,
      <2>4, <2>5, DeliverKeeps
<1>13. QED  BY <1>1, <1>11, <1>12
-----------------------------------------------------------------------------
(* A node reads a message or none, and sends what is sound: nothing, for   *)
(* many a step.                                                            *)
LEMMA NoneSent ==
  /\ <<>> \in Seq(InTransit) /\ ToSet(<<>>) = {}
  /\ \A n \in Node : up \in [Node -> Seq(InTransit)] /\ up' = up =>
                       Send(n, <<>>)
<1>1. <<>> \in Seq(InTransit) /\ ToSet(<<>>) = {}
  BY DEF ToSet
<1>2. ASSUME NEW n \in Node, up \in [Node -> Seq(InTransit)], up' = up
      PROVE  Send(n, <<>>)
  <2>1. up[n] \o <<>> = up[n]
    BY <1>2
  <2>2. QED  BY <1>2, <2>1 DEF Send
<1>3. QED  BY <1>1, <1>2

LEMMA NodeKeeps ==
  ASSUME SessionInv, UNCHANGED <<SessionVars, subs, rest, second, running>>,
         registered' \in SUBSET Worker, aborted' \in SUBSET Worker,
         taken' \in [Node -> SUBSET Nat], stopper' \in [Worker -> Nat],
         NEW n \in Node, n = Client => running, down' = down \/ Receive(n),
         NEW out \in Seq(InTransit), Send(n, out),
         \A m \in ToSet(out) : Queued(n, m) /\ ~Advert(m)
  PROVE  TypeInv' /\ MessagesSound' /\ AdvertsOnce' /\ Tidy'
<1> USE DEF SessionInv
<1>1. /\ up \in [Node -> Seq(InTransit)] /\ down \in [Node -> Seq(PubMessage)]
      /\ subs' = subs /\ rest' = rest /\ Client \in Node
  BY Roles DEF TypeInv
<1>2. /\ up' \in [Node -> Seq(InTransit)] /\ up'[n] = up[n] \o out
      /\ up[n] \in Seq(InTransit)
      /\ ToSet(up'[n]) = ToSet(up[n]) \cup ToSet(out)
      /\ \A m \in Node : m # n => up'[m] = up[m]
  <2>1. up[n] \in Seq(InTransit)
    BY <1>1
  <2>2. /\ up' \in [Node -> Seq(InTransit)] /\ up'[n] = up[n] \o out
        /\ ToSet(up'[n]) = ToSet(up[n]) \cup ToSet(out)
        /\ \A m \in Node : m # n => up'[m] = up[m]
    BY <1>1, FillQueue, Zenon
  <2>3. QED  BY <2>1, <2>2
<1>3. /\ down' \in [Node -> Seq(PubMessage)]
      /\ \A m \in Node : \/ down'[m] = down[m]
                         \/ down[m] # <<>> /\ down'[m] = Tail(down[m])
  BY <1>1, ReadQueue
<1>4. TypeInv'
  BY <1>1, <1>2, <1>3 DEF TypeInv, SessionVars
<1>5. ASSUME NEW i \in DOMAIN up'[Client], Advert(up'[Client][i])
      PROVE  i \in DOMAIN up[Client] /\ up'[Client][i] = up[Client][i]
  <2>1. CASE n # Client
    BY <1>1, <1>2, <1>5, <2>1
  <2>2. CASE n = Client
    <3>1. /\ DOMAIN up[n] = 1..Len(up[n]) /\ DOMAIN out = 1..Len(out)
          /\ Len(up[n]) \in Nat /\ Len(out) \in Nat
          /\ DOMAIN up'[n] = 1..(Len(up[n]) + Len(out))
          /\ \A k \in 1..Len(up[n]) : up'[n][k] = up[n][k]
          /\ \A k \in 1..Len(out) : up'[n][Len(up[n]) + k] = out[k]
      BY <1>2, Concatenation
    <3>2. CASE i \in 1..Len(up[n])
      BY <2>2, <3>1, <3>2
    <3>3. CASE i \notin 1..Len(up[n])
      <4> DEFINE a == Len(up[n])
                 b == Len(out)
      <4>0. a \in Nat /\ b \in Nat /\ i \in 1..(a + b) /\ i \notin 1..a
        BY <1>5, <2>2, <3>1, <3>3
      <4>1. /\ i - Len(up[n]) \in 1..Len(out)
            /\ i = Len(up[n]) + (i - Len(up[n]))
        <5> HIDE DEF a, b
        <5>1. i - a \in 1..b /\ i = a + (i - a)
          BY <4>0
        <5>2. QED  BY <5>1 DEF a, b
      <4>2. up'[n][i] = out[i - Len(up[n])]
            /\ out[i - Len(up[n])] \in ToSet(out)
        BY <3>1, <4>1 DEF ToSet
      <4>3. QED  BY <1>5, <2>2, <4>2
    <3>4. QED  BY <3>2, <3>3
  <2>3. QED  BY <2>1, <2>2
<1>6. AdvertFirst(up'[Client], life)
  BY <1>5 DEF AdvertsOnce, AdvertFirst
<1>7. \A m \in Node : \A p \in ToSet(up'[m]) :
        p \in ToSet(up[m]) \/ Queued(m, p)
  BY <1>2
<1>8. /\ \A s \in subs' : SubOk(s)
      /\ \A l \in 1..MaxLives : \A m \in ToSet(rest'[l]) : Queued(Client, m)
      /\ \A l \in 1..MaxLives : AdvertFirst(rest'[l], l)
  BY <1>1 DEF MessagesSound, AdvertsOnce
<1>9. MessagesSound' /\ AdvertsOnce'
  BY <1>3, <1>6, <1>7, <1>8, FlowKept
<1>10. Tidy'
  BY <1>1, <1>2 DEF Tidy, SessionVars
<1>11. QED  BY <1>4, <1>9, <1>10

-----------------------------------------------------------------------------
(* The client. *)
LEMMA TickKeeps ==
  ASSUME SessionInv, Tick
  PROVE  SessionInv'
<1> USE DEF SessionInv
<1>1. /\ UNCHANGED <<SessionVars, registered, aborted, taken, stopper, running>>
      /\ UNCHANGED <<subs, up, down, rest>>
      /\ second' = second + 1 /\ second < Len(SidAt)
  BY DEF Tick, netVars, clientVars, workerVars, historyVars, SessionVars
<1>2. DOMAIN SidAt = 1..Len(SidAt) /\ Len(SidAt) \in Nat
  BY SessionAssumption
<1>3. TypeInv'
  BY <1>1, <1>2 DEF TypeInv, SessionVars
<1>4. MessagesSound' /\ AdvertsOnce' /\ Tidy'
  BY <1>1, SameSound DEF MessagesSound, AdvertsOnce, AdvertFirst, Fresh,
    Unseen, Apart, Advert, Tidy, SessionVars
<1>5. QED  BY <1>1, <1>3, <1>4, HistoryKept

(* What a node reads. *)
LEMMA HeadRead ==
  ASSUME SessionInv, NEW n \in Node, Receive(n)
  PROVE  LET h == Head(down[n])
         IN /\ h \in PubMessage /\ Delivered(n, h) /\ Marked(h)
            /\ down[n] # <<>> /\ h = down[n][1] /\ 1 \in DOMAIN down[n]
            /\ down'[n] = Tail(down[n]) /\ down[n] \in Seq(PubMessage)
            /\ h.life \in Nat /\ h.op = "pub" /\ h.sid \in Sid
<1>1. down \in [Node -> Seq(PubMessage)]
  BY DEF SessionInv, TypeInv
<1>2. /\ down[n] \in Seq(PubMessage) /\ down[n] # <<>>
      /\ Head(down[n]) \in PubMessage /\ down'[n] = Tail(down[n])
      /\ ToSet(down[n]) = {Head(down[n])} \cup ToSet(down'[n])
  BY <1>1, ReadQueue, Zenon
<1>3. Delivered(n, Head(down[n]))
  BY <1>2 DEF SessionInv, MessagesSound
<1>4. Marked(Head(down[n]))
  BY <1>2, <1>3, ReadTypes DEF Delivered, Sound
<1>5. Head(down[n]) = down[n][1] /\ 1 \in DOMAIN down[n]
  BY <1>2
<1>6. QED  BY <1>2, <1>3, <1>4, <1>5, ReadTypes

(* What a client takes is of a session it is in, or that was left.         *)
LEMMA ClientTakesKeeps ==
  ASSUME SessionInv, NEW t \in {JOB_REQUEST, RESULT_DATATYPE}, ClientTakes(t)
  PROVE  LET h == Head(down[Client])
         IN /\ h \in PubMessage /\ Delivered(Client, h) /\ h.type = t
            /\ h.op = "pub" /\ Receive(Client) /\ running
            /\ \A l \in taken'[Client] :
                 l \in 1..life /\ ids[l] \in {sid} \cup left
            /\ taken' \in [Node -> SUBSET Nat]
            /\ \A w \in Worker : taken'[w] = taken[w]
<1> DEFINE h == Head(down[Client])
<1>1. /\ Client \in Node /\ Receive(Client) /\ running /\ h.type = t
      /\ taken' = [taken EXCEPT ![Client] = @ \cup {h.life}]
  BY Roles DEF ClientTakes
<1>2. /\ h \in PubMessage /\ Delivered(Client, h) /\ Marked(h)
      /\ h.life \in Nat /\ h.op = "pub"
  BY <1>1, HeadRead
<1> HIDE DEF h
<1>3. h.life \in 1..life /\ ids[h.life] \in {sid} \cup left
  BY <1>1, <1>2, WorkTypes DEF Delivered, Marked, Drew, Known
<1>4. /\ taken' \in [Node -> SUBSET Nat]
      /\ taken'[Client] = taken[Client] \cup {h.life}
      /\ \A w \in Worker : taken'[w] = taken[w]
  BY <1>1, <1>2, Roles DEF SessionInv, TypeInv
<1>5. \A l \in taken'[Client] : l \in 1..life /\ ids[l] \in {sid} \cup left
  BY <1>3, <1>4 DEF SessionInv, HistoryOk
<1>6. QED  BY <1>1, <1>2, <1>4, <1>5 DEF h

LEMMA HandleRequestKeeps ==
  ASSUME SessionInv, HandleRequest
  PROVE  SessionInv'
<1> USE DEF SessionInv
<1> DEFINE h == Head(down[Client])
           wanted == h.body.subs
<1>1. /\ UNCHANGED <<SessionVars, aborted, stopper, subs, rest, second,
                     running>>
      /\ Client \in Node /\ Send(Client, wanted)
      /\ registered' = registered \cup {s.node : s \in ToSet(wanted)}
      /\ ClientTakes(JOB_REQUEST)
  BY Roles DEF HandleRequest, ClientTakes, workerVars, SessionVars
<1>2. /\ h \in PubMessage /\ Delivered(Client, h) /\ h.type = JOB_REQUEST
      /\ h.op = "pub" /\ Receive(Client) /\ running
      /\ \A l \in taken'[Client] : l \in 1..life /\ ids[l] \in {sid} \cup left
      /\ taken' \in [Node -> SUBSET Nat]
      /\ \A w \in Worker : taken'[w] = taken[w]
  BY <1>1, ClientTakesKeeps
<1>3. PICK w \in Worker : started[w] /\ h = RequestOf(w) /\ Known(h.sid)
  BY <1>2 DEF Delivered, Sound
<1>4. /\ wsid[w] \in {sid} \cup left /\ wsid[w] \in Sid
      /\ ToSet(wanted) = {SubTo(w, codetype(w), wsid[w], NoDst),
                          SubTo(w, datatype(w), wsid[w], w[2])}
      /\ wanted \in Seq(SubMessage)
  <2>1. wsid[w] \in Sid /\ bound[w] \in Nat
    BY Roles DEF TypeInv
  <2>2. wanted \in Seq(SubMessage)
    BY <1>2, ReadTypes
  <2>3. h.sid = wsid[w]
        /\ ToSet(h.body.subs) = {SubTo(w, codetype(w), wsid[w], NoDst),
                                 SubTo(w, datatype(w), wsid[w], w[2])}
    BY <1>3, <2>1, RequestTypes
  <2>4. QED  BY <1>3, <2>1, <2>2, <2>3 DEF Known
<1>5. wsid[w] # NoSid
  BY <1>3 DEF TypeInv
<1> HIDE DEF h, wanted
<1>6. \A m \in ToSet(wanted) : /\ m.op = "sub" /\ m.node = w
                               /\ Queued(Client, m) /\ ~Advert(m)
  BY <1>3, <1>4, <1>5, Roles DEF SubTo, Queued, Sound, SubOk, Advert
<1>7. {s.node : s \in ToSet(wanted)} = {w}
  BY <1>4 DEF SubTo
<1>8. registered' \in SUBSET Worker /\ aborted' \in SUBSET Worker
      /\ stopper' \in [Worker -> Nat]
  BY <1>1, <1>7 DEF TypeInv
<1>9. wanted \in Seq(InTransit)
  BY <1>4, SeqMonotone DEF InTransit
<1>10. TypeInv' /\ MessagesSound' /\ AdvertsOnce' /\ Tidy'
  BY <1>1, <1>2, <1>6, <1>8, <1>9, NodeKeeps
<1>11. HistoryOk'
  BY <1>1, <1>2, <1>3, <1>4, <1>7 DEF HistoryOk, Drew, SessionVars
<1>12. QED  BY <1>10, <1>11

LEMMA HandleResultKeeps ==
  ASSUME SessionInv, HandleResult \/ Unreadable
  PROVE  SessionInv'
<1>1. /\ UNCHANGED <<SessionVars, aborted, stopper, registered, subs, rest,
                     second, running>>
      /\ Client \in Node /\ Receive(Client) /\ up' = up /\ running
  BY Roles DEF HandleResult, Unreadable, ClientTakes, workerVars, clientVars,
    historyVars, SessionVars
<1>2. /\ \A l \in taken'[Client] : l \in 1..life /\ ids[l] \in {sid} \cup left
      /\ taken' \in [Node -> SUBSET Nat]
      /\ \A w \in Worker : taken'[w] = taken[w]
  <2>1. CASE HandleResult
    BY <2>1, ClientTakesKeeps DEF HandleResult
  <2>2. CASE Unreadable
    BY <2>2 DEF Unreadable, historyVars, SessionInv, TypeInv, HistoryOk
  <2>3. QED  BY <2>1, <2>2
<1>3. /\ registered' \in SUBSET Worker /\ aborted' \in SUBSET Worker
      /\ stopper' \in [Worker -> Nat]
  BY <1>1 DEF SessionInv, TypeInv
<1>4. Send(Client, <<>>) /\ <<>> \in Seq(InTransit) /\ ToSet(<<>>) = {}
  BY <1>1, NoneSent DEF SessionInv, TypeInv
<1>5. TypeInv' /\ MessagesSound' /\ AdvertsOnce' /\ Tidy'
  BY <1>1, <1>2, <1>3, <1>4, NodeKeeps
<1>6. HistoryOk'
  BY <1>1, <1>2 DEF SessionInv, HistoryOk, Drew, SessionVars
<1>7. QED  BY <1>5, <1>6 DEF SessionInv

LEMMA FireJobKeeps ==
  ASSUME SessionInv, FireJob
  PROVE  SessionInv'
<1> DEFINE M == registered \cap Mapper
           k == Cardinality(M)
           code == <<Line(MAP_CODETYPE, NoDst), Line(REDUCE_CODETYPE, NoDst)>>
           data == [i \in 1..k |-> Line(MAP_DATATYPE, SetToSeq(M)[i][2])]
<1>1. /\ UNCHANGED <<SessionVars, aborted, stopper, registered, taken, subs,
                     rest, second, running>>
      /\ Client \in Node /\ down' = down /\ Send(Client, code \o data)
      /\ running
  BY Roles DEF FireJob, workerVars, historyVars, SessionVars
<1>2. SetToSeq(M) \in [1..k -> M] /\ k \in Nat
  BY RolesFinite, FS_Subset, SetToSeqType
<1>3. \A i \in 1..k : SetToSeq(M)[i][2] \in Dst
  BY <1>2, Roles, DstTypes DEF Worker
<1>4. sid \in Sid /\ life \in Nat /\ Drew(life, sid)
  <2>1. sid \in Sid /\ life \in 1..MaxLives
    BY <1>1, SessionAssumption DEF SessionInv, TypeInv
  <2>2. sid = ids[life]
    BY <2>1 DEF SessionInv, HistoryOk
  <2>3. QED  BY <2>1, <2>2, SessionAssumption DEF Drew
<1>5. \A ty \in {MAP_CODETYPE, REDUCE_CODETYPE, MAP_DATATYPE}, d \in Dst :
        /\ Line(ty, d) \in InTransit /\ Line(ty, d).op = "pub"
        /\ Line(ty, d).type = ty
        /\ Line(ty, d).life = life /\ Line(ty, d).sid = sid
  BY <1>4, SentTypes, WorkTypes DEF Line, PubOf, InTransit
<1> DEFINE Lines1 == {Line(ty, d) : ty \in {MAP_CODETYPE, REDUCE_CODETYPE,
                                            MAP_DATATYPE}, d \in Dst}
<1>6. code \in Seq(Lines1) /\ data \in Seq(Lines1)
  <2>1. code \in Seq(Lines1)
    BY DstTypes
  <2>2. data \in [1..k -> Lines1]
    BY <1>3
  <2> HIDE DEF data, Lines1, k
  <2>3. data \in Seq(Lines1)
    BY <1>2, <2>2, FunctionIsSeq
  <2>4. QED  BY <2>1, <2>3
<1> HIDE DEF code, data
<1>7. code \o data \in Seq(Lines1) /\ ToSet(code \o data) \subseteq Lines1
  <2> HIDE DEF Lines1
  <2>1. code \o data \in Seq(Lines1)
    BY <1>6
  <2>2. QED  BY <2>1, ToSetQueue
<1>8. Lines1 \subseteq InTransit
  BY <1>5
<1>9. code \o data \in Seq(InTransit)
  BY <1>7, <1>8, SeqMonotone
<1>10. \A m \in ToSet(code \o data) : Queued(Client, m) /\ ~Advert(m)
  <2>1. ASSUME NEW m \in ToSet(code \o data)
        PROVE  /\ m.op = "pub" /\ m.type \notin {JOB_ADVERTISE, JOB_REQUEST}
               /\ m.life = life /\ m.sid = sid
    <3>1. PICK ty \in {MAP_CODETYPE, REDUCE_CODETYPE, MAP_DATATYPE}, d \in Dst :
            m = Line(ty, d)
      BY <1>7
    <3>2. QED  BY <1>5, <3>1, WorkTypes
  <2>2. QED  BY <1>4, <2>1 DEF Queued, Sound, Marked, Advert
<1>11. /\ registered' \in SUBSET Worker /\ aborted' \in SUBSET Worker
       /\ taken' \in [Node -> SUBSET Nat] /\ stopper' \in [Worker -> Nat]
  BY <1>1 DEF SessionInv, TypeInv
<1>12. TypeInv' /\ MessagesSound' /\ AdvertsOnce' /\ Tidy'
  BY <1>1, <1>9, <1>10, <1>11, NodeKeeps
<1>13. QED  BY <1>1, <1>12, HistoryKept DEF SessionInv

(* A client that ends leaves a first part of what the router has not read. *)
LEMMA StopKeeps ==
  ASSUME SessionInv, StopClient
  PROVE  SessionInv'
<1>1. PICK k \in 0..Len(up[Client]) :
        rest' = [rest EXCEPT ![life] = SubSeq(up[Client], 1, k)]
  BY DEF StopClient
<1>2. /\ UNCHANGED <<SessionVars, aborted, stopper, registered, taken, subs,
                     second>>
      /\ down' = down /\ Client \in Node /\ up' = [up EXCEPT ![Client] = <<>>]
      /\ running /\ running' = FALSE /\ life \in 1..MaxLives /\ life' = life
  BY Roles, SessionAssumption DEF StopClient, workerVars, historyVars,
    SessionVars, SessionInv, TypeInv
<1>3. /\ up \in [Node -> Seq(InTransit)]
      /\ rest \in [1..MaxLives -> Seq(InTransit)]
  BY DEF SessionInv, TypeInv
<1>4. /\ up[Client] \in Seq(InTransit) /\ up'[Client] = <<>>
      /\ \A m \in Node : m # Client => up'[m] = up[m]
      /\ rest'[life] = SubSeq(up[Client], 1, k)
      /\ \A l \in 1..MaxLives : l # life => rest'[l] = rest[l]
  BY <1>1, <1>2, <1>3
<1>5. /\ SubSeq(up[Client], 1, k) \in Seq(InTransit)
      /\ DOMAIN SubSeq(up[Client], 1, k) = 1..k
      /\ \A i \in 1..k : /\ SubSeq(up[Client], 1, k)[i] = up[Client][i]
                         /\ i \in DOMAIN up[Client]
  BY <1>1, <1>4
<1>6. up' \in [Node -> Seq(InTransit)]
      /\ rest' \in [1..MaxLives -> Seq(InTransit)]
  BY <1>1, <1>2, <1>3, <1>5
<1>7. TypeInv'
  BY <1>2, <1>6 DEF SessionInv, TypeInv, SessionVars
<1>8. \A m \in Node : \A p \in ToSet(up'[m]) : p \in ToSet(up[m])
  BY <1>4 DEF ToSet
<1>9. \A l \in 1..MaxLives : \A m \in ToSet(rest'[l]) : Queued(Client, m)
  <2>1. \A m \in ToSet(rest'[life]) : m \in ToSet(up[Client])
    BY <1>4, <1>5 DEF ToSet
  <2>2. QED  BY <1>2, <1>4, <2>1 DEF SessionInv, MessagesSound
<1>10. /\ AdvertFirst(up'[Client], life)
       /\ \A l \in 1..MaxLives : AdvertFirst(rest'[l], l)
  BY <1>4, <1>5 DEF SessionInv, AdvertsOnce, AdvertFirst
<1>11. \A s \in subs' : SubOk(s)
  BY <1>2 DEF SessionInv, MessagesSound
<1>12. MessagesSound' /\ AdvertsOnce'
  BY <1>2, <1>8, <1>9, <1>10, <1>11, FlowKept DEF SessionInv
<1>13. Tidy'
  BY <1>2, <1>4 DEF SessionInv, Tidy
<1>14. QED  BY <1>2, <1>7, <1>12, <1>13, HistoryKept DEF SessionInv

-----------------------------------------------------------------------------
(* Workers. *)
LEMMA IgnoreKeeps ==
  ASSUME SessionInv, NEW w \in Worker,
         Dropped(w) \/ IgnoreAdvert(w)
  PROVE  SessionInv'
<1>1. /\ UNCHANGED <<SessionVars, aborted, stopper, registered, taken, subs,
                     rest, second, running>>
      /\ w \in Node /\ w # Client /\ Receive(w) /\ up' = up
  BY Roles DEF Dropped, IgnoreAdvert, TakesAdvert, Reads, workerVars,
    clientVars, SessionVars
<1>2. Send(w, <<>>) /\ <<>> \in Seq(InTransit) /\ ToSet(<<>>) = {}
  BY <1>1, NoneSent DEF SessionInv, TypeInv
<1>3. /\ registered' \in SUBSET Worker /\ aborted' \in SUBSET Worker
      /\ taken' \in [Node -> SUBSET Nat] /\ stopper' \in [Worker -> Nat]
  BY <1>1 DEF SessionInv, TypeInv
<1>4. TypeInv' /\ MessagesSound' /\ AdvertsOnce' /\ Tidy'
  BY <1>1, <1>2, <1>3, NodeKeeps
<1>5. QED  BY <1>1, <1>4, HistoryKept DEF SessionInv

(* What stops a worker is the advertisement of another client than its     *)
(* own: that one it took already, and no advertisement comes twice.        *)
LEMMA AbortKeeps ==
  ASSUME SessionInv, NEW w \in Worker, AbortOnAdvert(w)
  PROVE  SessionInv'
<1> DEFINE h == Head(down[w])
<1>1. /\ UNCHANGED <<SessionVars, registered, taken, subs, rest, second,
                     running>>
      /\ w \in Node /\ w # Client /\ Receive(w) /\ up' = up
      /\ aborted' = aborted \cup {w} /\ started[w]
      /\ stopper' = [stopper EXCEPT ![w] = h.life]
      /\ h.type = JOB_ADVERTISE
  BY Roles DEF AbortOnAdvert, TakesAdvert, Reads, NextIn, clientVars,
    SessionVars
<1>2. Send(w, <<>>) /\ <<>> \in Seq(InTransit) /\ ToSet(<<>>) = {}
  BY <1>1, NoneSent DEF SessionInv, TypeInv
<1>3. bound[w] # h.life /\ h.life \in Nat
  <2>1. /\ 1 \in DOMAIN down[w] /\ down[w][1] = h
        /\ Advert(down[w][1]) /\ h.life \in Nat
    BY <1>1, HeadRead DEF Advert
  <2>2. QED  BY <2>1 DEF SessionInv, AdvertsOnce, Apart
<1> HIDE DEF h
<1>4. /\ registered' \in SUBSET Worker /\ aborted' \in SUBSET Worker
      /\ taken' \in [Node -> SUBSET Nat]
      /\ stopper' \in [Worker -> Nat] /\ stopper'[w] = h.life
      /\ \A v \in Worker : v # w => stopper'[v] = stopper[v]
  BY <1>1, <1>3 DEF SessionInv, TypeInv
<1>5. TypeInv' /\ MessagesSound' /\ AdvertsOnce' /\ Tidy'
  BY <1>1, <1>2, <1>4, NodeKeeps
<1>6. HistoryOk'
  <2>1. \A v \in aborted' : started[v] /\ stopper'[v] # bound[v]
    <3>1. \A v \in aborted : started[v] /\ stopper[v] # bound[v] /\ v \in Worker
      BY DEF SessionInv, HistoryOk, TypeInv
    <3>2. QED  BY <1>1, <1>3, <1>4, <3>1
  <2>2. QED  BY <1>1, <2>1 DEF SessionInv, HistoryOk, Drew, SessionVars
<1>7. QED  BY <1>5, <1>6 DEF SessionInv

(* Code and data are of the worker's session. *)
LEMMA WorkTaken ==
  ASSUME SessionInv, NEW w \in Worker, NEW ty, Takes(w, ty),
         ty \in {codetype(w), datatype(w)},
         NEW out \in Seq(InTransit), Send(w, out),
         \A m \in ToSet(out) :
           \E t \in {REDUCE_DATATYPE, RESULT_DATATYPE}, d \in Dst :
             m = PassOn(w, t, d)
  PROVE  SessionInv'
<1> DEFINE h == Head(down[w])
<1>1. /\ UNCHANGED <<SessionVars, aborted, stopper, registered, subs, rest,
                     second, running>>
      /\ w \in Node /\ w # Client /\ Receive(w) /\ started[w]
      /\ taken' = [taken EXCEPT ![w] = @ \cup {h.life}]
      /\ h.type = ty
  BY Roles DEF Takes, Reads, NextIn, clientVars, workerVars, SessionVars
<1>2. /\ Delivered(w, h) /\ Marked(h) /\ h.life \in Nat
  BY <1>1, HeadRead
<1> HIDE DEF h
<1>3. ty # JOB_ADVERTISE
  BY WorkTypes
<1>4. Drew(h.life, wsid[w])
  <2>1. h.sid = wsid[w]
    BY <1>1, <1>2, <1>3 DEF Delivered
  <2>2. QED  BY <1>1, <1>2, <1>3, <2>1 DEF Marked
<1>5. /\ taken' \in [Node -> SUBSET Nat]
      /\ taken'[w] = taken[w] \cup {h.life}
      /\ \A n \in Node : n # w => taken'[n] = taken[n]
  BY <1>1, <1>2 DEF SessionInv, TypeInv
<1>6. \A m \in ToSet(out) : Queued(w, m) /\ ~Advert(m)
  <2>1. ASSUME NEW m \in ToSet(out)
        PROVE  /\ m.op = "pub" /\ m.type \notin {JOB_ADVERTISE, JOB_REQUEST}
               /\ m.sid = wsid[w] /\ m.life = h.life
    <3>1. PICK t \in {REDUCE_DATATYPE, RESULT_DATATYPE}, d \in Dst :
            m = PassOn(w, t, d)
      BY <2>1
    <3>2. m.op = "pub" /\ m.type = t /\ m.sid = wsid[w] /\ m.life = h.life
      BY <3>1 DEF PassOn, PubOf, NextIn, h
    <3>3. QED  BY <3>2, WorkTypes
  <2>2. QED  BY <1>4, <2>1 DEF Queued, Sound, Marked, Advert
<1>7. /\ registered' \in SUBSET Worker /\ aborted' \in SUBSET Worker
      /\ stopper' \in [Worker -> Nat]
  BY <1>1 DEF SessionInv, TypeInv
<1>8. TypeInv' /\ MessagesSound' /\ AdvertsOnce' /\ Tidy'
  BY <1>1, <1>5, <1>6, <1>7, NodeKeeps
<1>9. HistoryOk'
  <2>1. \A v \in Worker : \A l \in taken'[v] : Drew(l, wsid[v])
    BY <1>4, <1>5, Roles DEF SessionInv, HistoryOk
  <2>2. \A v \in Worker : ~started[v] => taken'[v] = {}
    BY <1>1, <1>5, Roles DEF SessionInv, HistoryOk
  <2>3. taken'[Client] = taken[Client]
    BY <1>1, <1>5, Roles
  <2>4. QED
    BY <1>1, <2>1, <2>2, <2>3 DEF SessionInv, HistoryOk, Drew, SessionVars
<1>10. QED  BY <1>8, <1>9 DEF SessionInv

LEMMA WorkKeeps ==
  ASSUME SessionInv, NEW w \in Worker, TakeCode(w) \/ Map(w) \/ Reduce(w)
  PROVE  SessionInv'
<1>1. w \in Node /\ wsid[w] \in Sid /\ w[2] \in Dst
  BY Roles, DstTypes DEF SessionInv, TypeInv
<1>2. \A t \in {REDUCE_DATATYPE, RESULT_DATATYPE}, d \in Dst :
        Takes(w, MAP_DATATYPE) \/ Takes(w, REDUCE_DATATYPE)
          => PassOn(w, t, d) \in InTransit
  <2>1. Takes(w, MAP_DATATYPE) \/ Takes(w, REDUCE_DATATYPE)
          => NextIn(w).life \in Nat
    BY <1>1, HeadRead DEF Takes, Reads, NextIn
  <2>2. QED  BY <1>1, <2>1, SentTypes, WorkTypes DEF PassOn, InTransit
<1>3. CASE TakeCode(w)
  <2>1. Takes(w, codetype(w)) /\ up' = up
    BY <1>3 DEF TakeCode
  <2>2. Send(w, <<>>) /\ <<>> \in Seq(InTransit) /\ ToSet(<<>>) = {}
    BY <1>1, <2>1, NoneSent DEF SessionInv, TypeInv
  <2>3. QED  BY <2>1, <2>2, WorkTaken
<1>4. CASE Map(w)
  <2> DEFINE S == {PassOn(w, REDUCE_DATATYPE, r) : r \in ReducerIds}
  <2>1. w \in Mapper /\ Takes(w, MAP_DATATYPE) /\ Send(w, SetToSeq(S))
    BY <1>4 DEF Map
  <2>2. MAP_DATATYPE = datatype(w)
    BY <2>1 DEF datatype
  <2>3. ReducerIds \subseteq Dst /\ IsFiniteSet(ReducerIds)
    BY ProtocolAssumption, DstTypes
  <2>4. S \subseteq InTransit
    BY <1>2, <2>1, <2>3
  <2>5. IsFiniteSet(S)
    <3> DEFINE f == [r \in ReducerIds |-> PassOn(w, REDUCE_DATATYPE, r)]
    <3>1. f \in Surjection(ReducerIds, S)
      BY DEF Surjection
    <3> HIDE DEF f, S
    <3>2. QED  BY <2>3, <3>1, FS_Surjection
  <2>6. SetToSeq(S) \in Seq(S)
    <3> HIDE DEF S
    <3>1. SetToSeq(S) \in [1..Cardinality(S) -> S] /\ Cardinality(S) \in Nat
      BY <2>5, SetToSeqType
    <3>2. QED  BY <3>1, FunctionIsSeq
  <2>7. SetToSeq(S) \in Seq(InTransit) /\ ToSet(SetToSeq(S)) \subseteq S
    <3> HIDE DEF S
    <3>1. QED  BY <2>4, <2>6, SeqMonotone, ToSetQueue
  <2>8. \A m \in ToSet(SetToSeq(S)) :
          \E t \in {REDUCE_DATATYPE, RESULT_DATATYPE}, d \in Dst :
            m = PassOn(w, t, d)
    BY <2>3, <2>7
  <2>9. QED  BY <2>1, <2>2, <2>7, <2>8, WorkTaken
<1>5. CASE Reduce(w)
  <2> DEFINE p == PassOn(w, RESULT_DATATYPE, NoDst)
  <2>1. w \in Reducer /\ Takes(w, REDUCE_DATATYPE) /\ Send(w, <<p>>)
    BY <1>5 DEF Reduce
  <2>2. REDUCE_DATATYPE = datatype(w)
    BY <2>1, Roles DEF datatype
  <2>3. p \in InTransit
    BY <1>2, <2>1, DstTypes
  <2>4. <<p>> \in Seq(InTransit) /\ ToSet(<<p>>) = {p}
    <3> HIDE DEF p
    <3>1. QED  BY <2>3 DEF ToSet
  <2>5. \A m \in ToSet(<<p>>) :
          \E t \in {REDUCE_DATATYPE, RESULT_DATATYPE}, d \in Dst :
            m = PassOn(w, t, d)
    BY <2>4, DstTypes
  <2>6. QED  BY <2>1, <2>2, <2>4, <2>5, WorkTaken
<1>6. QED  BY <1>3, <1>4, <1>5

(* The first advertisement a worker reads gives it its session. *)
LEMMA TakeSessionKeeps ==
  ASSUME SessionInv, NEW w \in Worker, TakeSession(w)
  PROVE  SessionInv'
<1> USE DEF SessionInv
<1> DEFINE h == Head(down[w])
           new == h.body.sid
<1>1. /\ UNCHANGED <<life, sid, ids, left, subs, rest, second, running>>
      /\ UNCHANGED <<registered, aborted, taken, stopper>>
      /\ w \in Node /\ w # Client /\ Receive(w) /\ ~started[w]
      /\ w \notin aborted /\ bound' = [bound EXCEPT ![w] = h.life]
      /\ started' = [started EXCEPT ![w] = TRUE]
      /\ wsid' = [wsid EXCEPT ![w] = new]
      /\ Send(w, <<PubOf(JOB_REQUEST, new, NoDst, h.life,
                     Wanted(<<SubTo(w, codetype(w), new, NoDst),
                              SubTo(w, datatype(w), new, w[2])>>))>>)
  BY Roles DEF TakeSession, Reads, NextIn, OwnSub, clientVars
<1>2. /\ h \in PubMessage /\ Delivered(w, h) /\ Marked(h)
      /\ down[w] # <<>> /\ h = down[w][1] /\ 1 \in DOMAIN down[w]
      /\ down'[w] = Tail(down[w]) /\ down[w] \in Seq(PubMessage)
      /\ h.life \in Nat /\ h.op = "pub"
  BY <1>1, HeadRead
<1>3. h.type = JOB_ADVERTISE /\ new \in 10..99 /\ Drew(h.life, new)
      /\ Advert(h)
  BY <1>1, <1>2, ReadTypes DEF Delivered, Marked, Advert
<1> HIDE DEF h, new
<1>4. /\ bound' \in [Node -> Nat] /\ wsid' \in [Worker -> Sid]
      /\ started' \in [Worker -> BOOLEAN]
      /\ started'[w] /\ wsid'[w] = new /\ bound'[w] = h.life
      /\ \A v \in Worker : v # w =>
           started'[v] = started[v] /\ wsid'[v] = wsid[v]
      /\ \A n \in Node : n # w => bound'[n] = bound[n]
  <2>1. bound \in [Node -> Nat] /\ wsid \in [Worker -> Sid]
        /\ started \in [Worker -> BOOLEAN]
    BY DEF TypeInv
  <2>2. new \in Sid
    BY <1>3 DEF Sid
  <2>3. QED  BY <1>1, <1>2, <2>1, <2>2
<1>5. PICK req : req = RequestOf(w)'
  OBVIOUS
<1>6. /\ req \in PubMessage /\ req.op = "pub" /\ req.type = JOB_REQUEST
      /\ req.sid = new /\ req.life = h.life
  <2>1. wsid'[w] \in Sid /\ bound'[w] \in Nat
    BY <1>1, <1>4
  <2>2. (/\ RequestOf(w) \in PubMessage
         /\ RequestOf(w).op = "pub" /\ RequestOf(w).type = JOB_REQUEST
         /\ RequestOf(w).sid = wsid[w] /\ RequestOf(w).life = bound[w])'
    <3>1. (\A v \in Worker : wsid[v] \in Sid /\ bound[v] \in Nat =>
             /\ RequestOf(v) \in PubMessage
             /\ RequestOf(v).op = "pub" /\ RequestOf(v).type = JOB_REQUEST
             /\ RequestOf(v).sid = wsid[v] /\ RequestOf(v).life = bound[v])'
      BY RequestIs, PTL
    <3>2. QED  BY <2>1, <3>1
  <2>3. QED  BY <1>5, <1>4, <2>2
<1>7. Send(w, <<req>>)
  BY <1>5, <1>1, <1>4 DEF RequestOf
<1>8. /\ up' \in [Node -> Seq(InTransit)]
      /\ ToSet(up'[w]) = ToSet(up[w]) \cup {req}
      /\ \A n \in Node : n # w => up'[n] = up[n]
  <2>1. up \in [Node -> Seq(InTransit)]
    BY DEF TypeInv
  <2>2. <<req>> \in Seq(InTransit) /\ ToSet(<<req>>) = {req}
    BY <1>6 DEF ToSet, InTransit
  <2>3. /\ up' \in [Node -> Seq(InTransit)]
        /\ ToSet(up'[w]) = ToSet(up[w]) \cup ToSet(<<req>>)
        /\ \A n \in Node : n # w => up'[n] = up[n]
    <3> DEFINE out == <<req>>
    <3>1. w \in Node /\ Send(w, out) /\ out \in Seq(InTransit)
      BY <1>1, <1>7, <2>2
    <3> HIDE DEF out
    <3>2. /\ up' \in [Node -> Seq(InTransit)]
          /\ ToSet(up'[w]) = ToSet(up[w]) \cup ToSet(out)
          /\ \A n \in Node : n # w => up'[n] = up[n]
      BY <2>1, <3>1, FillQueue
    <3>3. QED  BY <3>2 DEF out
  <2>4. QED  BY <2>2, <2>3
<1>9. /\ down' \in [Node -> Seq(PubMessage)]
      /\ ToSet(down[w]) = {h} \cup ToSet(down'[w])
      /\ \A n \in Node : n # w => down'[n] = down[n]
  <2>1. down \in [Node -> Seq(PubMessage)]
    BY DEF TypeInv
  <2>2. /\ down' \in [Node -> Seq(PubMessage)]
        /\ ToSet(down[w]) = {Head(down[w])} \cup ToSet(down'[w])
        /\ \A n \in Node : n # w => down'[n] = down[n]
    BY <1>1, <2>1, ReadQueue, Zenon
  <2>3. QED  BY <2>2 DEF h
<1>10. TypeInv'
  <2>1. \A v \in Worker : started'[v] => wsid'[v] # NoSid
    <3>1. new # NoSid
      BY <1>3 DEF NoSid
    <3>2. QED  BY <1>4, <3>1 DEF TypeInv
  <2>2. QED  BY <1>1, <1>4, <1>8, <1>9, <2>1 DEF TypeInv
<1>11. MessagesSound'
  <2>1. ASSUME NEW s \in SubMessage, SubOk(s)
        PROVE  SubOk(s)'
    <3>1. CASE s.node = Client
      BY <1>1, <2>1, <3>1 DEF SubOk, Known
    <3>2. CASE s.node # Client
      <4>1. s.node \in Worker
        BY <3>2, ReadTypes DEF Node
      <4>2. QED  BY <1>1, <1>4, <2>1, <3>2, <4>1 DEF SubOk
    <3>3. QED  BY <3>1, <3>2
  <2>2. \A v \in Worker : started[v] =>
          started'[v] /\ RequestOf(v)' = RequestOf(v)
    BY <1>1, <1>4, Roles DEF RequestOf
  <2>3. ASSUME NEW m \in InTransit, Sound(m)
        PROVE  Sound(m)'
    <3>1. m.op = "sub" => m \in SubMessage
      BY ReadTypes DEF InTransit
    <3>2. Marked(m)' <=> Marked(m)
      BY <1>1 DEF Marked, Drew
    <3>3. QED  BY <2>1, <2>2, <2>3, <3>1, <3>2 DEF Sound
  <2>4. Queued(w, req)'
    <3>1. Marked(req)'
      BY <1>1, <1>3, <1>6, WorkTypes DEF Marked, Drew
    <3>2. QED  BY <1>5, <1>4, <1>6, <3>1, WorkTypes DEF Queued, Sound
  <2>5. ASSUME NEW n, NEW m \in InTransit, Queued(n, m)
        PROVE  Queued(n, m)'
    BY <2>3, <2>5 DEF Queued
  <2>6. \A n \in Node : \A m \in ToSet(up'[n]) : Queued(n, m)'
    <3>1. ASSUME NEW n \in Node, NEW m \in ToSet(up[n])
          PROVE  Queued(n, m)'
      <4>1. m \in InTransit
        <5>1. up[n] \in Seq(InTransit)
          BY DEF TypeInv
        <5>2. QED  BY <5>1, ToSetQueue
      <4>2. QED  BY <2>5, <4>1 DEF MessagesSound
    <3>2. QED  BY <1>8, <2>4, <3>1
  <2>7. \A l \in 1..MaxLives : \A m \in ToSet(rest'[l]) : Queued(Client, m)'
    <3>1. ASSUME NEW l \in 1..MaxLives, NEW m \in ToSet(rest[l])
          PROVE  Queued(Client, m)'
      <4>1. m \in InTransit
        <5>1. rest[l] \in Seq(InTransit)
          BY DEF TypeInv
        <5>2. QED  BY <5>1, ToSetQueue
      <4>2. QED  BY <2>5, <4>1 DEF MessagesSound
    <3>2. QED  BY <1>1, <3>1
  <2>8. ASSUME NEW n \in Node, NEW p \in ToSet(down'[n])
        PROVE  Delivered(n, p)'
    <3>1. p \in ToSet(down[n]) /\ Delivered(n, p)
      BY <1>9 DEF MessagesSound
    <3>2. p \in InTransit
      <4>1. down[n] \in Seq(PubMessage)
        BY DEF TypeInv
      <4>2. QED  BY <3>1, <4>1, ToSetQueue DEF InTransit
    <3>3. Sound(p)'
      BY <2>3, <3>1, <3>2 DEF Delivered
    <3>4. n # Client => n \in Worker
      BY DEF Node
    <3>5. QED  BY <1>1, <1>4, <3>1, <3>3, <3>4 DEF Delivered, Known
  <2>9. \A s \in subs' : SubOk(s)'
    BY <1>1, <2>1 DEF MessagesSound, TypeInv
  <2>10. QED  BY <2>6, <2>7, <2>8, <2>9 DEF MessagesSound
<1>12. \A v \in Worker : \A l : Unseen(l, v) => Unseen(l, v)'
  <2>1. ASSUME NEW v \in Worker, NEW l, Unseen(l, v)
        PROVE  Unseen(l, v)'
    <3>1. CASE v = w
      <4>1. h.life # l
        BY <1>3, <1>9, <2>1, <3>1 DEF Unseen
      <4>2. QED  BY <1>4, <1>9, <2>1, <3>1, <4>1 DEF Unseen, Advert
    <3>2. CASE v # w
      BY <1>4, <1>9, <2>1, <3>2, Roles DEF Unseen, Advert
    <3>3. QED  BY <3>1, <3>2
  <2>2. QED  BY <2>1
<1>13. AdvertsOnce'
  <2>1. \A l : Fresh(l) => Fresh(l)'
    BY <1>12 DEF Fresh
  <2>2. up'[Client] = up[Client]
    BY <1>1, <1>8, Roles
  <2>3. AdvertFirst(up[Client], life)'
    BY <1>1, <2>1, <2>2 DEF AdvertsOnce, AdvertFirst, Advert
  <2>4. \A l \in 1..MaxLives : AdvertFirst(rest[l], l)'
    BY <1>1, <2>1 DEF AdvertsOnce, AdvertFirst, Advert
  <2>5. ASSUME NEW v \in Worker, NEW i \in DOMAIN down'[v],
               Advert(down'[v][i])
        PROVE  /\ bound'[v] # down'[v][i].life
               /\ \A j \in DOMAIN down'[v] :
                    i # j /\ Advert(down'[v][j]) =>
                      down'[v][i].life # down'[v][j].life
    <3>1. Apart(v)
      BY DEF AdvertsOnce
    <3>2. CASE v # w
      <4>1. bound'[v] = bound[v] /\ down'[v] = down[v]
        BY <1>4, <1>9, <3>2, Roles
      <4>2. QED  BY <2>5, <3>1, <4>1 DEF Apart
    <3>3. CASE v = w
      <4>1. \A k \in DOMAIN down'[w] :
              /\ k \in Nat \ {0} /\ k + 1 \in DOMAIN down[w]
              /\ k + 1 # 1 /\ down'[w][k] = down[w][k + 1]
        BY <1>2, TailIndex
      <4>2. \A k \in DOMAIN down'[w] : i # k => i + 1 # k + 1
        BY <2>5, <3>3, <4>1
      <4>3. i + 1 \in DOMAIN down[w] /\ Advert(down[w][i + 1])
            /\ i + 1 # 1
        BY <2>5, <3>3, <4>1
      <4>4. h.life # down[w][i + 1].life
        BY <1>2, <1>3, <3>1, <3>3, <4>3 DEF Apart
      <4>5. \A j \in DOMAIN down[w] : i + 1 # j /\ Advert(down[w][j]) =>
              down[w][i + 1].life # down[w][j].life
        BY <3>1, <3>3, <4>3 DEF Apart
      <4>6. QED  BY <1>4, <2>5, <3>3, <4>1, <4>2, <4>4, <4>5
    <3>4. QED  BY <3>2, <3>3
  <2>6. QED  BY <2>3, <2>4, <2>5 DEF AdvertsOnce, Apart, Advert
<1>14. Tidy'
  BY <1>1, <1>8, Roles DEF Tidy
<1>15. HistoryOk'
  <2>1. w \notin registered /\ w \notin aborted /\ taken[w] = {}
    BY <1>1 DEF HistoryOk
  <2>2. \A v \in Worker : v \in Node
    BY Roles
  <2>3. \A v \in Worker : v # w => /\ started'[v] = started[v]
                                   /\ wsid'[v] = wsid[v] /\ bound'[v] = bound[v]
    BY <1>4, <2>2
  <2>4. /\ \A v \in registered : v \in Worker
        /\ \A v \in aborted : v \in Worker
    BY DEF TypeInv
  <2>5. Drew(bound'[w], wsid'[w])
    BY <1>3, <1>4
  <2>6. QED  BY <1>1, <1>4, <2>1, <2>3, <2>4, <2>5 DEF HistoryOk, Drew
<1>16. QED  BY <1>10, <1>11, <1>13, <1>14, <1>15

(* A new client starts: what it can be sent of others is what was left.    *)
LEMMA StartKeeps ==
  ASSUME SessionInv, StartClient
  PROVE  SessionInv'
<1> USE DEF SessionInv
<1>0. PICK s, l : s = SidAt[second] /\ l = life + 1
  OBVIOUS
<1>1. /\ UNCHANGED <<second, started, wsid, aborted, stopper, rest>>
      /\ ~running /\ running' = TRUE /\ life < MaxLives
      /\ subs' \in {subs, subs \ OfClient(subs)}
      /\ sid' = s /\ life' = l /\ registered' = {} /\ ids' = Append(ids, s)
      /\ left' = SidsOf(OfClient(subs')) \cup SidsOf(ToSet(down'[Client]))
                   \cup UNION {SidsOf(OfClient(ToSet(q))) : q \in Range(rest)}
      /\ bound' = [bound EXCEPT ![Client] = l]
      /\ taken' = [taken EXCEPT ![Client] = {}]
  BY <1>0 DEF StartClient, Reconnected, generatessid, workerVars
<1>2. PICK e \in BOOLEAN : Send(Client, init(l, s, e))
  BY <1>0, SessionAssumption DEF StartClient, generatessid
<1>3. PICK i \in 0..Len(down[Client]) :
        down' = [down EXCEPT ![Client] =
                   SubSeq(down[Client], i + 1, Len(down[Client]))]
  BY DEF StartClient, Reconnected
<1>4. /\ s \in 10..99 /\ s \in Sid /\ s # NoSid /\ MaxLives \in Nat
      /\ life \in Nat /\ l \in 1..MaxLives /\ l = life + 1
  <2>1. second \in DOMAIN SidAt /\ life \in 0..MaxLives
    BY DEF TypeInv
  <2>2. SidAt \in Seq(10..99)
    BY SessionAssumption
  <2>3. s \in 10..99
    <3>1. DOMAIN SidAt = 1..Len(SidAt)
      BY <2>2
    <3>2. \A t \in 1..Len(SidAt) : SidAt[t] \in 10..99
      BY <2>2, ElementOfSeq
    <3>3. QED  BY <1>0, <2>1, <3>1, <3>2
  <2>4. s \in Sid /\ s # NoSid
    BY <2>3 DEF Sid, NoSid
  <2>5. QED  BY <1>0, <1>1, <2>1, <2>3, <2>4, SessionAssumption
<1>5. /\ ids \in Seq(10..99) /\ Len(ids) = life
      /\ ids' \in Seq(10..99) /\ Len(ids') = l /\ ids'[l] = s
      /\ \A k \in 1..life : ids'[k] = ids[k] /\ k \in 1..l
  <2>1. ids \in Seq(10..99) /\ Len(ids) = life
    BY DEF TypeInv
  <2>2. QED  BY <1>1, <1>4, <2>1
<1>6. \A k, t : Drew(k, t) => Drew(k, t)'
  BY <1>1, <1>5 DEF Drew
<1>7. Drew(l, s)'
  BY <1>1, <1>4, <1>5 DEF Drew
<1> DEFINE adv == PubOf(JOB_ADVERTISE, NoSid, NoDst, l,
                        [sid |-> s, cipher |-> e])
           req == SubTo(Client, JOB_REQUEST, s, NoDst)
           res == SubTo(Client, RESULT_DATATYPE, s, NoDst)
<1>8. init(l, s, e) = <<adv, req, res>>
  BY DEF init, Announce, OwnId
<1>9. /\ adv \in PubMessage /\ req \in SubMessage /\ res \in SubMessage
      /\ adv.op = "pub" /\ adv.type = JOB_ADVERTISE /\ adv.life = l
      /\ adv.body.sid = s
      /\ req.op = "sub" /\ req.node = Client /\ req.sid = s
      /\ res.op = "sub" /\ res.node = Client /\ res.sid = s
      /\ req.type = JOB_REQUEST /\ res.type = RESULT_DATATYPE
  <2>1. l \in Nat
    BY <1>4
  <2>2. adv \in PubMessage
    BY <1>4, <2>1, SentTypes
  <2>3. req \in SubMessage /\ res \in SubMessage
    BY <1>4, Roles, SentTypes, WorkTypes, DstTypes
  <2>4. QED  BY <2>2, <2>3 DEF PubOf, SubTo
<1> HIDE DEF adv, req, res
<1>10. /\ init(l, s, e) \in Seq(InTransit)
       /\ ToSet(init(l, s, e)) = {adv, req, res}
       /\ DOMAIN init(l, s, e) = 1..3 /\ init(l, s, e)[1] = adv
       /\ init(l, s, e)[2] = req /\ init(l, s, e)[3] = res
  BY <1>8, <1>9 DEF ToSet, InTransit
<1>11. /\ up' \in [Node -> Seq(InTransit)] /\ up'[Client] = init(l, s, e)
       /\ \A n \in Node : n # Client => up'[n] = up[n]
  <2>1. up \in [Node -> Seq(InTransit)] /\ Client \in Node
    BY Roles DEF TypeInv
  <2>2. /\ up' \in [Node -> Seq(InTransit)]
        /\ up'[Client] = up[Client] \o init(l, s, e)
        /\ \A n \in Node : n # Client => up'[n] = up[n]
    <3>1. Send(Client, init(l, s, e)) /\ init(l, s, e) \in Seq(InTransit)
      BY <1>2, <1>10
    <3>2. QED  BY <2>1, <3>1, FillQueue
  <2>3. <<>> \o init(l, s, e) = init(l, s, e)
    BY <1>10
  <2>4. up[Client] = <<>>
    BY <1>1 DEF Tidy
  <2>5. QED  BY <2>2, <2>3, <2>4
<1>12. /\ down' \in [Node -> Seq(PubMessage)]
       /\ ToSet(down'[Client]) \subseteq ToSet(down[Client])
       /\ \A n \in Node : n # Client => down'[n] = down[n]
  <2>1. down \in [Node -> Seq(PubMessage)] /\ Client \in Node
        /\ down[Client] \in Seq(PubMessage)
    BY Roles DEF TypeInv
  <2>2. PICK q, d : q = down[Client]
                    /\ d = SubSeq(down[Client], i + 1, Len(down[Client]))
    OBVIOUS
  <2>3. d \in Seq(PubMessage) /\ ToSet(d) \subseteq ToSet(q)
    <3>1. q \in Seq(PubMessage) /\ i \in 0..Len(q)
          /\ d = SubSeq(q, i + 1, Len(q))
      BY <2>1, <2>2
    <3>2. /\ d \in Seq(PubMessage) /\ DOMAIN d = 1..(Len(q) - i)
          /\ \A k \in DOMAIN d : d[k] = q[k + i] /\ k + i \in DOMAIN q
      BY <3>1
    <3>3. QED  BY <3>2 DEF ToSet
  <2>4. QED  BY <1>3, <2>1, <2>2, <2>3
<1>13. /\ bound' \in [Node -> Nat] /\ taken' \in [Node -> SUBSET Nat]
       /\ taken'[Client] = {}
       /\ \A n \in Node : n # Client => bound'[n] = bound[n]
                                        /\ taken'[n] = taken[n]
  BY <1>1, <1>4, Roles DEF TypeInv
<1>14. \A w \in Worker : w \in Node /\ w # Client
  BY Roles
<1>15. \A n \in Node : n # Client => n \in Worker
  BY DEF Node
<1>16. TypeInv'
  <2>1. subs' \in SUBSET SubMessage
    BY <1>1 DEF TypeInv
  <2>2. life' \in 0..MaxLives /\ sid' \in Sid /\ Len(ids') = life'
        /\ (running' => life' # 0)
    BY <1>1, <1>4, <1>5
  <2>3. QED  BY <1>1, <1>5, <1>11, <1>12, <1>13, <2>1, <2>2 DEF TypeInv
<1>17. MessagesSound'
  <2>1. \A m : SubOk(m) /\ m.node # Client => SubOk(m)'
    BY <1>1 DEF SubOk
  <2>2. ASSUME NEW m, SubOk(m), m.sid \in left'
        PROVE  SubOk(m)'
    <3>1. CASE m.node = Client
      BY <1>1, <2>2, <3>1 DEF SubOk, Known
    <3>2. QED  BY <2>1, <2>2, <3>1
  <2>3. \A v \in Worker : RequestOf(v)' = RequestOf(v)
    BY <1>1, <1>13, <1>14 DEF RequestOf
  <2>4. ASSUME NEW m, Sound(m), m.op = "sub" => SubOk(m)'
        PROVE  Sound(m)'
    <3>1. Marked(m) => Marked(m)'
      BY <1>6 DEF Marked
    <3>2. QED  BY <1>1, <2>3, <2>4, <3>1 DEF Sound
  <2>5. \A n \in Node : \A m \in ToSet(up'[n]) : Queued(n, m)'
    <3>1. Queued(Client, adv)' /\ Queued(Client, req)' /\ Queued(Client, res)'
      <4>1. Marked(adv)' /\ Known(s)'
        <5>1. Known(s)'
          BY <1>1, <1>4 DEF Known
        <5>2. Marked(adv)'
          BY <1>7, <1>9 DEF Marked, Drew
        <5>3. QED  BY <5>1, <5>2
      <4>2. QED  BY <1>9, <4>1, WorkTypes DEF Queued, Sound, SubOk
    <3>2. ASSUME NEW n \in Node, n # Client, NEW m \in ToSet(up[n])
          PROVE  Queued(n, m)'
      <4>1. Queued(n, m)
        BY DEF MessagesSound
      <4>2. m.op = "sub" => SubOk(m)'
        BY <2>1, <3>2, <4>1 DEF Queued, Sound
      <4>3. Sound(m)'
        BY <2>4, <4>1, <4>2 DEF Queued
      <4>4. QED  BY <3>2, <4>1, <4>3 DEF Queued
    <3>3. QED  BY <1>10, <1>11, <3>1, <3>2
  <2>6. ASSUME NEW k \in 1..MaxLives, NEW m \in ToSet(rest[k])
        PROVE  Queued(Client, m)'
    <3>1. Queued(Client, m)
      BY DEF MessagesSound
    <3>2. m.op = "sub" /\ m.node = Client => m.sid \in left'
      <4>1. rest[k] \in Range(rest)
        BY DEF TypeInv, Range
      <4>2. m.op = "sub" /\ m.node = Client =>
              m.sid \in SidsOf(OfClient(ToSet(rest[k])))
        BY DEF SidsOf, OfClient
      <4>3. QED  BY <1>1, <4>1, <4>2
    <3>3. m.op = "sub" => SubOk(m)'
      BY <2>1, <2>2, <3>1, <3>2 DEF Queued, Sound
    <3>4. QED  BY <2>4, <3>1, <3>3 DEF Queued
  <2>7. ASSUME NEW n \in Node, NEW p \in ToSet(down'[n])
        PROVE  Delivered(n, p)'
    <3>1. p \in ToSet(down[n]) /\ Delivered(n, p)
      BY <1>12 DEF MessagesSound
    <3>2. p.op = "pub"
      <4>1. down[n] \in Seq(PubMessage)
        BY DEF TypeInv
      <4>2. QED  BY <3>1, <4>1, ToSetQueue, ReadTypes
    <3>3. Sound(p)'
      BY <2>4, <3>1, <3>2 DEF Delivered
    <3>4. n = Client => Known(p.sid)'
      <4>1. n = Client => p.sid \in left'
        BY <1>1 DEF SidsOf
      <4>2. QED  BY <3>1, <4>1 DEF Delivered, Known
    <3>5. QED  BY <1>1, <3>1, <3>3, <3>4 DEF Delivered
  <2>8. ASSUME NEW m \in subs'
        PROVE  SubOk(m)'
    <3>1. m \in subs /\ SubOk(m) /\ m.op = "sub"
      BY <1>1, ReadTypes DEF MessagesSound, TypeInv
    <3>2. m.node = Client => m.sid \in left'
      BY <1>1, <3>1 DEF SidsOf, OfClient
    <3>3. QED  BY <2>1, <2>2, <3>1, <3>2
  <2>9. QED  BY <1>1, <2>5, <2>6, <2>7, <2>8 DEF MessagesSound
<1>18. \A w \in Worker : \A k : Unseen(k, w)' <=> Unseen(k, w)
  BY <1>12, <1>13, <1>14 DEF Unseen, Advert
<1>19. Fresh(l)
  <2>1. ASSUME NEW w \in Worker
        PROVE  Unseen(l, w)
    <3>1. bound[w] # l
      <4>1. bound[w] \in 1..life \/ bound[w] = 0
        BY DEF HistoryOk, Drew
      <4>2. QED  BY <1>4, <4>1
    <3>2. \A p \in ToSet(down[w]) : p.life # l
      <4>1. down[w] \in Seq(PubMessage)
        BY <1>14 DEF TypeInv
      <4>2. \A p \in ToSet(down[w]) : p \in PubMessage /\ Sound(p)
        BY <1>14, <4>1, ToSetQueue DEF MessagesSound, Delivered
      <4>3. \A p \in ToSet(down[w]) : p.life \in 1..life
        BY <4>2, ReadTypes DEF Sound, Marked, Drew
      <4>4. QED  BY <1>4, <4>3
    <3>3. QED  BY <3>1, <3>2 DEF Unseen
  <2>2. QED  BY <2>1 DEF Fresh
<1>20. AdvertsOnce'
  <2>1. \A k : Fresh(k) => Fresh(k)'
    BY <1>18 DEF Fresh
  <2>2. \A k \in DOMAIN up'[Client] : Advert(up'[Client][k]) =>
          k = 1 /\ up'[Client][k].life = l
    BY <1>9, <1>10, <1>11 DEF Advert
  <2>3. AdvertFirst(up[Client], life)'
    BY <1>1, <1>19, <2>1, <2>2 DEF AdvertFirst, Advert
  <2>4. \A k \in 1..MaxLives : AdvertFirst(rest[k], k)'
    BY <1>1, <2>1 DEF AdvertsOnce, AdvertFirst, Advert
  <2>5. ASSUME NEW w \in Worker
        PROVE  Apart(w)'
    <3>1. bound'[w] = bound[w] /\ down'[w] = down[w] /\ Apart(w)
      BY <1>12, <1>13, <1>14 DEF AdvertsOnce
    <3>2. QED  BY <3>1 DEF Apart, Advert
  <2>6. QED  BY <2>3, <2>4, <2>5 DEF AdvertsOnce
<1>21. Tidy'
  <2>1. \A k \in 1..MaxLives : rest[k] # <<>> => k < l
    BY <1>4 DEF Tidy
  <2>2. QED  BY <1>1, <2>1 DEF Tidy
<1>22. HistoryOk'
  <2>1. \A w \in Worker : bound'[w] = bound[w] /\ taken'[w] = taken[w]
    BY <1>13, <1>14
  <2>2. /\ \A w \in aborted : w \in Worker
        /\ life' # 0 => sid' = ids'[life']
    BY <1>1, <1>5 DEF TypeInv
  <2>3. /\ \A w \in Worker : started'[w] =>
             bound'[w] \in 1..life' /\ ids'[bound'[w]] = wsid'[w]
        /\ \A w \in Worker : \A k \in taken'[w] :
             k \in 1..life' /\ ids'[k] = wsid'[w]
    <3>1. ASSUME NEW w \in Worker, NEW k, Drew(k, wsid[w])
          PROVE  k \in 1..life' /\ ids'[k] = wsid'[w]
      BY <1>1, <1>6, <3>1 DEF Drew
    <3>2. QED  BY <1>1, <2>1, <3>1 DEF HistoryOk
  <2>4. /\ \A w \in Worker : ~started[w] => bound[w] = 0 /\ taken[w] = {}
        /\ \A w \in aborted : started[w] /\ stopper[w] # bound[w]
    BY DEF HistoryOk
  <2>5. /\ \A w \in Worker : ~started'[w] => bound'[w] = 0 /\ taken'[w] = {}
        /\ \A w \in aborted' : started'[w] /\ stopper'[w] # bound'[w]
    BY <1>1, <2>1, <2>2, <2>4
  <2>6. registered' = {} /\ taken'[Client] = {}
    BY <1>1, <1>13
  <2>7. /\ \A k \in taken'[Client] :
             k \in 1..life' /\ ids'[k] \in {sid'} \cup left'
        /\ \A w \in registered' :
             wsid'[w] \in {sid'} \cup left' /\ started'[w]
    BY <2>6
  <2>8. QED  BY <2>2, <2>3, <2>5, <2>7 DEF HistoryOk, Drew
<1>23. QED  BY <1>16, <1>17, <1>20, <1>21, <1>22

-----------------------------------------------------------------------------
(* The invariant. *)
LEMMA SessionInit ==
  ASSUME Init
  PROVE  SessionInv
<1>1. /\ Client \in Node /\ \A w \in Worker : w \in Node /\ w # Client
      /\ \A n \in Node : n # Client => n \in Worker
  BY Roles DEF Node
<1> DEFINE first(n) == SubTo(n, JOB_ADVERTISE, NoSid, NoDst)
<1>2. /\ \A n \in Node : /\ first(n) \in SubMessage /\ first(n).op = "sub"
                         /\ first(n).node = n /\ first(n).type = JOB_ADVERTISE
  BY SentTypes, WorkTypes, DstTypes DEF SubTo, Sid
<1>3. /\ subs = {} /\ \A n \in Node : down[n] = <<>>
      /\ up[Client] = <<>>
      /\ \A n \in Node : n # Client => up[n] = <<first(n)>>
      /\ \A l \in 1..MaxLives : rest[l] = <<>>
      /\ life = 0 /\ sid = NoSid /\ ids = <<>> /\ second = 1 /\ running = FALSE
      /\ registered = {} /\ aborted = {}
      /\ \A w \in Worker : ~started[w]
      /\ \A n \in Node : bound[n] = 0 /\ taken[n] = {}
  BY <1>1 DEF Init
<1> HIDE DEF first
<1>4. \A n \in Node : <<first(n)>> \in Seq(InTransit)
                      /\ ToSet(<<first(n)>>) = {first(n)}
  BY <1>2 DEF InTransit, ToSet
<1>5. ToSet(<<>>) = {}
  BY DEF ToSet
<1>6. TypeInv
  <2>1. up \in [Node -> Seq(InTransit)]
    BY <1>4 DEF Init, first
  <2>2. second \in DOMAIN SidAt
    BY <1>3, SessionAssumption
  <2>3. down \in [Node -> Seq(PubMessage)]
        /\ rest \in [1..MaxLives -> Seq(InTransit)]
    BY DEF Init
  <2>4. started \in [Worker -> BOOLEAN] /\ wsid \in [Worker -> Sid]
        /\ bound \in [Node -> Nat] /\ taken \in [Node -> SUBSET Nat]
        /\ sid \in Sid /\ stopper \in [Worker -> Nat]
    BY DEF Init, Sid
  <2>5. ids \in Seq(10..99) /\ Len(ids) = life /\ life \in 0..MaxLives
    BY <1>3, SessionAssumption
  <2>6. QED  BY <1>3, <2>1, <2>2, <2>3, <2>4, <2>5 DEF TypeInv
<1>7. /\ \A n \in Node : ToSet(down[n]) = {} /\ ToSet(up[Client]) = {}
      /\ \A n \in Node : n # Client => ToSet(up[n]) = {first(n)}
      /\ \A l \in 1..MaxLives : ToSet(rest[l]) = {}
  BY <1>3, <1>4, <1>5
<1>8. MessagesSound
  <2>1. \A n \in Node : n # Client => Queued(n, first(n))
    BY <1>2 DEF Queued, Sound, SubOk
  <2>2. QED  BY <1>3, <1>7, <2>1 DEF MessagesSound
<1>9. AdvertsOnce /\ Tidy /\ HistoryOk
  BY <1>1, <1>3 DEF AdvertsOnce, AdvertFirst, Apart, Tidy, HistoryOk
<1>10. QED  BY <1>6, <1>8, <1>9 DEF SessionInv

LEMMA SessionStep ==
  ASSUME SessionInv, [Next]_vars
  PROVE  SessionInv'
<1>1. CASE Next
  <2>1. CASE \E n \in Node : RouteNext(n)
    BY <2>1, RouteSubscriptionKeeps, PublishKeeps DEF RouteNext, RouterKeeps
  <2>2. CASE \E l \in 1..MaxLives : ReadRest(l)
    BY <2>2, ReadRestKeeps
  <2>3. CASE \E w \in Worker : WorkerStep(w)
    BY <2>3, IgnoreKeeps, TakeSessionKeeps, AbortKeeps, WorkKeeps
      DEF WorkerStep
  <2>4. QED
    BY <1>1, <2>1, <2>2, <2>3, TickKeeps, StartKeeps, StopKeeps,
      HandleRequestKeeps, HandleResultKeeps, FireJobKeeps DEF Next, ClientStep
<1>2. CASE UNCHANGED vars
  <2>1. /\ UNCHANGED <<SessionVars, registered, aborted, taken, stopper>>
        /\ UNCHANGED <<subs, up, down, rest, second, running>>
    BY <1>2 DEF vars, netVars, clientVars, workerVars, historyVars, SessionVars
  <2>2. TypeInv' <=> TypeInv
    BY <2>1 DEF TypeInv, SessionVars
  <2>3. MessagesSound' /\ AdvertsOnce' /\ Tidy'
    BY <2>1, SameSound DEF SessionInv, MessagesSound, AdvertsOnce, AdvertFirst,
      Fresh, Unseen, Apart, Advert, Tidy, SessionVars
  <2>4. QED  BY <2>1, <2>2, <2>3, HistoryKept DEF SessionInv
<1>3. QED  BY <1>1, <1>2

LEMMA SessionAlways == Spec => []SessionInv
<1>1. Init => SessionInv
  BY SessionInit
<1>2. SessionInv /\ [Next]_vars => SessionInv'
  BY SessionStep
<1>3. QED  BY <1>1, <1>2, PTL DEF Spec

-----------------------------------------------------------------------------
(* What follows from it. *)

(* A worker takes code and data with the id of its session only, whatever  *)
(* earlier clients left on the way when they ended and whenever the router *)
(* reads it; and what a client takes with another id than its own, somebody*)
(* was still subscribed to under its node id when it started.              *)
THEOREM OwnSessionsOnly == Spec => []OwnSession
<1>1. SessionInv => OwnSession
  <2> SUFFICES ASSUME SessionInv PROVE OwnSession
    OBVIOUS
  <2>1. ASSUME NEW w \in Worker, NEW l \in taken[w]
        PROVE  ids[l] = ids[bound[w]]
    <3>1. started[w]
      BY DEF SessionInv, HistoryOk
    <3>2. Drew(l, wsid[w]) /\ Drew(bound[w], wsid[w])
      BY <3>1 DEF SessionInv, HistoryOk
    <3>3. QED  BY <3>2 DEF Drew
  <2>2. QED  BY <2>1 DEF SessionInv, HistoryOk, OwnSession
<1>2. QED  BY <1>1, SessionAlways, PTL

(* The workers a client registers are in its session, or in one that was   *)
(* left: in any other they would never get their code and share of data.   *)
THEOREM RegisteredAreBound == Spec => []RegisteredBound
<1>1. SessionInv => RegisteredBound
  BY DEF SessionInv, HistoryOk, RegisteredBound
<1>2. QED  BY <1>1, SessionAlways, PTL

(* A worker is stopped by no message of the client whose session it is in, *)
(* in whatever order the router reads what clients left.                   *)
THEOREM NeverStoppedByTheirOwn == Spec => []NotStoppedByOwn
<1>1. SessionInv => NotStoppedByOwn
  BY DEF SessionInv, HistoryOk, NotStoppedByOwn
<1>2. QED  BY <1>1, SessionAlways, PTL

=============================================================================
