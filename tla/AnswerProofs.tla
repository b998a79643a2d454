---------------------------- MODULE AnswerProofs ----------------------------
(***************************************************************************)
(* The answers are exact: an item of the file is in one place at a time,   *)
(* as often as it occurs, from the line it is sent in to the result it is  *)
(* part of, and one reducer at most answers for a key, once.               *)
(***************************************************************************)
EXTENDS ProtocolProofs

-----------------------------------------------------------------------------
(* How often an item occurs in a line, and is accounted for in a message;  *)
(* the results there are of a key.                                         *)
Occurs(line, x) == Cardinality({j \in 1..Len(line) : line[j] = x})
InLine(x) == [line \in Seq(Items) |-> Occurs(line, x)]
ShareOf(x) == [m \in Message |->
  IF m \in Data(MAP_DATATYPE) THEN Occurs(m.body.line, x)
  ELSE IF m \in Data(REDUCE_DATATYPE) \cup Data(RESULT_DATATYPE)
  THEN m.body.value[x] ELSE 0]
Mark(k) == [m \in Message |->
  IF m \in Data(RESULT_DATATYPE) THEN IF m.body.key = k THEN 1 ELSE 0 ELSE 0]

(* What is on its way from and to each node, and what the node holds.      *)
Weight(u, d, g, H) ==
  [n \in Node |-> Along(u[n], g) + Along(d[n], g) + H[n]]

ValueAt(x) == [v \in Value |-> v[x]]
Held(x) ==
  LET k == MapKey(Round, x)
  IN [n \in Node |-> IF n \in Mapper THEN outbuff[n][k][x]
                     ELSE IF n \in Reducer THEN BufferBefore(n)[k][x]
                     ELSE Along(last_result[k], ValueAt(x))]
Load(x) == Weight(up, down, ShareOf(x), Held(x))

(* A key is answered by the reducer it leads to, unless that one is        *)
(* through with the round.                                                 *)
MayAnswer(n, k) == n \in reducers /\ n[2] = DestOf(k) /\ Expected(n) # 0
Answering(k) ==
  [n \in Node |-> IF n = Client THEN Len(last_result[k])
                  ELSE IF MayAnswer(n, k) THEN 1 ELSE 0]
Tickets(k) == Weight(up, down, Mark(k), Answering(k))

(* What the client deals out is the file, and what it has got is results. *)
Dealt == \A x \in Items : Along(mappers_data, InLine(x)) = Occurrences(x)
Result(k, v) == Mapped(k, v) /\ v # Zero
ResultsMapped ==
  \A k \in Key : \A i \in DOMAIN last_result[k] : Result(k, last_result[k][i])

(* Items can be lost only on the way to a reducer that does not exist.     *)
NoneLost == Cardinality(reducers) <= 10 /\ NumberedFrom0
Balanced == \A x \in Items : Total(Load(x)) = Occurrences(x)
OneAnswer == \A k \in Key : Total(Tickets(k)) <= 1
Weighed == ResultsMapped /\ OneAnswer /\ (NoneLost => Balanced)

(* Without a combine function nothing is ever kept back. *)
NoneKept == ~HasCombine => \A w \in Mapper :
  outbuff[w] = NoPairs /\ (dataOnce[w] \/ writethrough[w])

(* The rounds that have been answered. *)
Unanswered ==
  /\ fires = 0 => /\ answers = <<>> /\ last_result = NoResult
                  /\ mappers_data = <<>>
  /\ status = "running" /\ App = "WORDCOUNT" => answers = <<>>
  /\ status = "running" /\ App = "KMEANS" =>
       round_ = Len(answers) + (IF fires = 0 THEN 0 ELSE 1)

AnswerInv ==
  /\ NoneKept
  /\ ~late => /\ Unanswered /\ AnswersExact
              /\ fires > 0 /\ Sane /\ status = "running" => Dealt /\ Weighed
-----------------------------------------------------------------------------
(* Counting what is in a message, a line or a buffer gives a number.       *)
LEMMA NodesFinite == IsFiniteSet(Node)
<1>1. IsFiniteSet(Worker)
  BY RolesFinite, FS_Union DEF Worker
<1>2. QED  BY <1>1, FS_Singleton, FS_Union DEF Node

LEMMA OccursType ==
  ASSUME NEW line \in Seq(Items), NEW x
  PROVE  Occurs(line, x) \in Nat
<1>1. IsFiniteSet(1..Len(line))
  BY FS_Interval
<1>2. IsFiniteSet({j \in 1..Len(line) : line[j] = x})
  BY <1>1, FS_Subset
<1>3. QED  BY <1>2, FS_CardinalityType DEF Occurs

LEMMA DataBodies ==
  /\ \A m \in Data(MAP_DATATYPE) :
       m.body.line \in Seq(Items) /\ m.body.header \in 1..MaxRounds
  /\ \A m \in Data(REDUCE_DATATYPE) \cup Data(RESULT_DATATYPE) :
       m.body.key \in Key /\ m.body.value \in Value
<1>1. ASSUME NEW m \in Message, m.op = "pub"
      PROVE  m \in Publication
  BY <1>1 DEF Message, Subscription
<1>2. ASSUME NEW m \in Data(MAP_DATATYPE)
      PROVE  m.body.line \in Seq(Items) /\ m.body.header \in 1..MaxRounds
  <2>1. m \in Publication /\ m.type = MAP_DATATYPE /\ ~m.body.end
    BY <1>1 DEF Data, Is
  <2>2. QED  BY <2>1, BodyTypes, PairBody
<1>3. ASSUME NEW m \in Data(REDUCE_DATATYPE) \cup Data(RESULT_DATATYPE)
      PROVE  m.body.key \in Key /\ m.body.value \in Value
  <2>1. /\ m \in Publication /\ m.type \in {REDUCE_DATATYPE, RESULT_DATATYPE}
        /\ ~m.body.end
    BY <1>1 DEF Data, Is
  <2>2. QED  BY <2>1, BodyTypes, PairBody
<1>4. QED  BY <1>2, <1>3

LEMMA CountsAre ==
  ASSUME NEW x \in Items
  PROVE  /\ ShareOf(x) \in Counts(Message) /\ InLine(x) \in Counts(Seq(Items))
         /\ ValueAt(x) \in Counts(Value) /\ \A k : Mark(k) \in Counts(Message)
         /\ \A m \in Message :
              /\ m \in Data(MAP_DATATYPE) =>
                   ShareOf(x)[m] = Occurs(m.body.line, x)
              /\ m \in Data(REDUCE_DATATYPE) \cup Data(RESULT_DATATYPE) =>
                   ShareOf(x)[m] = m.body.value[x]
              /\ (\A t \in DataTypes : m \notin Data(t)) => ShareOf(x)[m] = 0
<1>1. ASSUME NEW m \in Message
      PROVE  ShareOf(x)[m] \in Nat
  <2>1. CASE m \in Data(MAP_DATATYPE)
    BY <2>1, DataBodies, OccursType DEF ShareOf
  <2>2. CASE /\ m \notin Data(MAP_DATATYPE)
             /\ m \in Data(REDUCE_DATATYPE) \cup Data(RESULT_DATATYPE)
    BY <2>2, DataBodies DEF ShareOf, Value
  <2>3. QED  BY <2>1, <2>2 DEF ShareOf
<1>2. ShareOf(x) \in Counts(Message)
  <2>1. ShareOf(x) = [m \in Message |-> ShareOf(x)[m]]
    BY DEF ShareOf
  <2>2. QED  BY <1>1, <2>1 DEF Counts
<1>3. InLine(x) \in Counts(Seq(Items)) /\ ValueAt(x) \in Counts(Value)
  BY OccursType DEF InLine, ValueAt, Value, Counts
<1>4. \A k : Mark(k) \in Counts(Message)
  BY DEF Mark, Counts
<1>5. Data(MAP_DATATYPE) \cap Data(REDUCE_DATATYPE) = {}
      /\ Data(MAP_DATATYPE) \cap Data(RESULT_DATATYPE) = {}
  BY DEF Data, Is, MAP_DATATYPE, REDUCE_DATATYPE, RESULT_DATATYPE
<1>6. QED  BY <1>2, <1>3, <1>4, <1>5 DEF ShareOf, DataTypes
-----------------------------------------------------------------------------
(* How a weight changes with a step of the router and of another node.     *)
LEMMA WeightType ==
  ASSUME NEW u \in [Node -> Seq(Message)], NEW d \in [Node -> Seq(Publication)],
         NEW g \in Counts(Message), NEW H \in Counts(Node)
  PROVE  /\ Weight(u, d, g, H) \in Counts(Node)
         /\ \A n \in Node :
              /\ Weight(u, d, g, H)[n]
                   = Along(u[n], g) + Along(d[n], g) + H[n]
              /\ Along(u[n], g) \in Nat /\ Along(d[n], g) \in Nat
              /\ H[n] \in Nat /\ u[n] \in Seq(Message)
              /\ d[n] \in Seq(Message)
<1>1. ASSUME NEW n \in Node
      PROVE  /\ u[n] \in Seq(Message) /\ d[n] \in Seq(Message)
             /\ Along(u[n], g) \in Nat /\ Along(d[n], g) \in Nat
  <2>1. Publication \in SUBSET Message
    BY DEF Message
  <2>2. u[n] \in Seq(Message) /\ d[n] \in Seq(Message)
    BY <2>1, SeqMonotone
  <2>3. QED  BY <2>2, AlongSteps
<1>2. H \in [Node -> Nat]
  BY DEF Counts
<1>3. QED  BY <1>1, <1>2 DEF Weight, Counts

LEMMA RouterWeight ==
  ASSUME TypeInv, TypeInv', NEW n \in Node, RouterNext(n),
         NEW g \in Counts(Message), NEW H \in Counts(Node),
         LET h == Head(up[n])
         IN \/ g[h] = 0
            \/ h.op = "pub" /\ \E d \in Node : d # n /\ Subscribers(h) = {d}
  PROVE  Total(Weight(up', down', g, H)) = Total(Weight(up, down, g, H))
<1> DEFINE h == Head(up[n])
           W == Weight(up, down, g, H)
           V == Weight(up', down', g, H)
<1>1. /\ up[n] \in Seq(Message) /\ up[n] # <<>> /\ h \in Message
      /\ up'[n] = Tail(up[n])
      /\ \A m \in Node : m # n => up'[m] = up[m]
      /\ \A m \in Node :
           \/ down'[m] = down[m] /\ (h.op = "pub" => m \notin Subscribers(h))
           \/ /\ h.op = "pub" /\ m \in Subscribers(h)
              /\ h \in Publication /\ down'[m] = Append(down[m], h)
  BY RouterMoves
<1>2. /\ up \in [Node -> Seq(Message)] /\ up' \in [Node -> Seq(Message)]
      /\ down \in [Node -> Seq(Publication)]
      /\ down' \in [Node -> Seq(Publication)]
  BY DEF TypeInv, TypeOK
<1>3. /\ W \in Counts(Node) /\ V \in Counts(Node)
      /\ \A m \in Node :
           /\ W[m] = Along(up[m], g) + Along(down[m], g) + H[m]
           /\ V[m] = Along(up'[m], g) + Along(down'[m], g) + H[m]
           /\ Along(up[m], g) \in Nat /\ Along(up'[m], g) \in Nat
           /\ Along(down[m], g) \in Nat /\ Along(down'[m], g) \in Nat
           /\ H[m] \in Nat /\ down[m] \in Seq(Message)
  <2>1. ASSUME NEW u \in [Node -> Seq(Message)],
               NEW d \in [Node -> Seq(Publication)]
        PROVE  /\ Weight(u, d, g, H) \in Counts(Node)
               /\ \A m \in Node :
                    /\ Weight(u, d, g, H)[m]
                         = Along(u[m], g) + Along(d[m], g) + H[m]
                    /\ Along(u[m], g) \in Nat /\ Along(d[m], g) \in Nat
                    /\ H[m] \in Nat /\ d[m] \in Seq(Message)
    BY WeightType
  <2>2. /\ W \in Counts(Node)
        /\ \A m \in Node :
             /\ W[m] = Along(up[m], g) + Along(down[m], g) + H[m]
             /\ Along(up[m], g) \in Nat /\ Along(down[m], g) \in Nat
             /\ H[m] \in Nat /\ down[m] \in Seq(Message)
    BY <1>2, <2>1, Zenon
  <2>3. /\ V \in Counts(Node)
        /\ \A m \in Node :
             /\ V[m] = Along(up'[m], g) + Along(down'[m], g) + H[m]
             /\ Along(up'[m], g) \in Nat /\ Along(down'[m], g) \in Nat
    BY <1>2, <2>1, Zenon
  <2>4. QED  BY <2>2, <2>3
<1> HIDE DEF h, W, V
<1>4. Along(up[n], g) = g[h] + Along(up'[n], g)
  BY <1>1, AlongSteps DEF h
<1>5. g[h] \in Nat
  BY <1>1 DEF Counts
<1>6. \A m \in Node :
        Along(Append(down[m], h), g) = Along(down[m], g) + g[h]
  <2>1. ASSUME NEW q \in Seq(Message)
        PROVE  Along(Append(q, h), g) = Along(q, g) + g[h]
    BY <1>1, AlongSteps
  <2>2. QED  BY <1>3, <2>1, Zenon
<1>7. CASE g[h] = 0
  <2>1. ASSUME NEW m \in Node
        PROVE  V[m] = W[m]
    <3>1. Along(up'[m], g) = Along(up[m], g)
      <4>1. Along(up'[n], g) \in Nat /\ Along(up[n], g) \in Nat
        BY <1>3
      <4>2. Along(up[n], g) = Along(up'[n], g)
        BY <1>4, <1>7, <4>1
      <4>3. QED  BY <1>1, <4>2
    <3>2. Along(down'[m], g) = Along(down[m], g)
      <4>1. Along(down[m], g) \in Nat
        BY <1>3
      <4>2. Along(Append(down[m], h), g) = Along(down[m], g)
        BY <1>6, <1>7, <4>1
      <4>3. QED  BY <1>1, <4>2
    <3>3. QED  BY <1>3, <3>1, <3>2
  <2>2. V = W
    BY <1>3, <2>1 DEF Counts
  <2>3. QED  BY <2>2 DEF V, W
<1>8. ASSUME h.op = "pub", NEW d \in Node, d # n, Subscribers(h) = {d}
      PROVE  Total(V) = Total(W)
  <2>1. \A m \in Node : m # n /\ m # d => V[m] = W[m]
    <3> SUFFICES ASSUME NEW m \in Node, m # n, m # d  PROVE V[m] = W[m]
      OBVIOUS
    <3>1. up'[m] = up[m] /\ down'[m] = down[m]
      BY <1>1, <1>8
    <3>2. QED  BY <1>3, <3>1
  <2>2. V[n] + g[h] = W[n]
    <3>1. down'[n] = down[n]
      BY <1>1, <1>8
    <3>2. /\ W[n] = Along(up[n], g) + Along(down[n], g) + H[n]
          /\ V[n] = Along(up'[n], g) + Along(down[n], g) + H[n]
          /\ Along(up[n], g) \in Nat /\ Along(up'[n], g) \in Nat
          /\ Along(down[n], g) \in Nat /\ H[n] \in Nat
      BY <1>3, <3>1
    <3>3. QED  BY <1>4, <1>5, <3>2
  <2>3. V[d] = W[d] + g[h]
    <3>1. down'[d] = Append(down[d], h) /\ up'[d] = up[d]
      BY <1>1, <1>8
    <3>2. /\ W[d] = Along(up[d], g) + Along(down[d], g) + H[d]
          /\ V[d] = Along(up[d], g) + Along(Append(down[d], h), g) + H[d]
          /\ Along(up[d], g) \in Nat /\ Along(down[d], g) \in Nat
          /\ H[d] \in Nat
          /\ Along(Append(down[d], h), g) = Along(down[d], g) + g[h]
      BY <1>3, <1>6, <3>1
    <3>3. QED  BY <1>5, <3>2
  <2>4. Total(V) + W[n] + W[d] = Total(W) + V[n] + V[d]
    BY <1>3, <1>8, <2>1, NodesFinite, TotalMoved
  <2>5. /\ Total(V) \in Nat /\ Total(W) \in Nat
        /\ V[n] \in Nat /\ W[n] \in Nat /\ V[d] \in Nat /\ W[d] \in Nat
    BY <1>3, NodesFinite, TotalType DEF Counts
  <2>6. QED  BY <1>5, <2>2, <2>3, <2>4, <2>5
<1>9. QED  BY <1>7, <1>8 DEF h, V, W

LEMMA NodeWeight ==
  ASSUME TypeInv, TypeInv', NEW w \in Node, Receive(w),
         NEW out \in Seq(Message), Send(w, out), NEW g \in Counts(Message),
         NEW H \in Counts(Node), NEW G \in Counts(Node)
  PROVE  LET W == Weight(up, down, g, H)
             V == Weight(up', down', g, G)
         IN /\ W \in Counts(Node) /\ V \in Counts(Node)
            /\ V[w] + g[Head(down[w])] + H[w] = W[w] + Along(out, g) + G[w]
            /\ \A n \in Node : n # w => V[n] + H[n] = W[n] + G[n]
            /\ g[Head(down[w])] \in Nat /\ Along(out, g) \in Nat
            /\ \A n \in Node : /\ V[n] \in Nat /\ W[n] \in Nat
                               /\ H[n] \in Nat /\ G[n] \in Nat
<1> DEFINE h == Head(down[w])
           W == Weight(up, down, g, H)
           V == Weight(up', down', g, G)
<1>1. /\ h \in Message /\ down[w] # <<>> /\ down'[w] = Tail(down[w])
      /\ \A n \in Node : n # w => down'[n] = down[n] /\ up'[n] = up[n]
      /\ up'[w] = up[w] \o out
  BY NodeMoves
<1>2. /\ up \in [Node -> Seq(Message)] /\ up' \in [Node -> Seq(Message)]
      /\ down \in [Node -> Seq(Publication)]
      /\ down' \in [Node -> Seq(Publication)]
  BY DEF TypeInv, TypeOK
<1>3. /\ W \in Counts(Node) /\ V \in Counts(Node)
      /\ \A m \in Node :
           /\ W[m] = Along(up[m], g) + Along(down[m], g) + H[m]
           /\ V[m] = Along(up'[m], g) + Along(down'[m], g) + G[m]
           /\ Along(up[m], g) \in Nat /\ Along(up'[m], g) \in Nat
           /\ Along(down[m], g) \in Nat /\ Along(down'[m], g) \in Nat
           /\ H[m] \in Nat /\ G[m] \in Nat
           /\ up[m] \in Seq(Message) /\ down[m] \in Seq(Message)
  BY <1>2, WeightType, ZenonT(40)
<1> HIDE DEF h, W, V
<1>4. g[h] \in Nat /\ Along(out, g) \in Nat
  BY <1>1, AlongSteps DEF Counts
<1>5. Along(down[w], g) = g[h] + Along(down'[w], g)
  BY <1>1, <1>3, AlongSteps, SMTT(30) DEF h
<1>6. Along(up'[w], g) = Along(up[w], g) + Along(out, g)
  BY <1>1, <1>3, AlongSteps, SMTT(30)
<1>7. V[w] + g[h] + H[w] = W[w] + Along(out, g) + G[w]
  <2>1. /\ W[w] = Along(up[w], g) + Along(down[w], g) + H[w]
        /\ V[w] = Along(up'[w], g) + Along(down'[w], g) + G[w]
        /\ Along(up[w], g) \in Nat /\ Along(down'[w], g) \in Nat
        /\ H[w] \in Nat /\ G[w] \in Nat
    BY <1>3
  <2>2. QED  BY <1>4, <1>5, <1>6, <2>1, SMTT(30)
<1>8. ASSUME NEW n \in Node, n # w
      PROVE  V[n] + H[n] = W[n] + G[n]
  <2>1. /\ W[n] = Along(up[n], g) + Along(down[n], g) + H[n]
        /\ V[n] = Along(up[n], g) + Along(down[n], g) + G[n]
        /\ Along(up[n], g) \in Nat /\ Along(down[n], g) \in Nat
        /\ H[n] \in Nat /\ G[n] \in Nat
    BY <1>1, <1>3, <1>8
  <2>2. QED  BY <2>1
<1>9. \A n \in Node : V[n] \in Nat /\ W[n] \in Nat
  BY <1>3 DEF Counts
<1>10. QED  BY <1>3, <1>4, <1>7, <1>8, <1>9 DEF h, V, W

(* Nothing is lost or added, or nothing is added, by what a node does.     *)
LEMMA NodeBalance ==
  ASSUME TypeInv, TypeInv', NEW w \in Node, Receive(w),
         NEW out \in Seq(Message), Send(w, out), NEW g \in Counts(Message),
         NEW H \in Counts(Node), NEW G \in Counts(Node),
         \A n \in Node : n # w => G[n] = H[n],
         g[Head(down[w])] + H[w] = Along(out, g) + G[w]
  PROVE  Total(Weight(up', down', g, G)) = Total(Weight(up, down, g, H))
<1> DEFINE h == Head(down[w])
           W == Weight(up, down, g, H)
           V == Weight(up', down', g, G)
<1>1. /\ W \in Counts(Node) /\ V \in Counts(Node)
      /\ V[w] + g[h] + H[w] = W[w] + Along(out, g) + G[w]
      /\ \A n \in Node : n # w => V[n] + H[n] = W[n] + G[n]
      /\ g[h] \in Nat /\ Along(out, g) \in Nat
      /\ \A n \in Node : /\ V[n] \in Nat /\ W[n] \in Nat
                         /\ H[n] \in Nat /\ G[n] \in Nat
  BY NodeWeight
<1> HIDE DEF W, V
<1>2. ASSUME NEW n \in Node
      PROVE  V[n] = W[n]
  <2>1. n # w => /\ V[n] \in Nat /\ W[n] \in Nat /\ H[n] \in Nat
                 /\ V[n] + H[n] = W[n] + H[n]
    BY <1>1
  <2> DEFINE a == V[w]  b == g[h]  c == H[w]
             d == W[w]  e == Along(out, g)  f == G[w]
  <2>2. /\ a \in Nat /\ b \in Nat /\ c \in Nat
        /\ d \in Nat /\ e \in Nat /\ f \in Nat
        /\ a + b + c = d + e + f /\ b + c = e + f
    BY <1>1
  <2>3. CASE n # w
    BY <2>1, <2>3
  <2>4. a = d
    <3> HIDE DEF a, b, c, d, e, f
    <3>1. QED  BY <2>2
  <2>5. QED  BY <2>3, <2>4
<1>3. V = W
  BY <1>1, <1>2 DEF Counts
<1>4. QED  BY <1>3 DEF V, W

LEMMA NodeGainsNone ==
  ASSUME TypeInv, TypeInv', NEW w \in Node, Receive(w),
         NEW out \in Seq(Message), Send(w, out), NEW g \in Counts(Message),
         NEW H \in Counts(Node), NEW G \in Counts(Node),
         \A n \in Node : n # w => G[n] <= H[n],
         Along(out, g) + G[w] <= g[Head(down[w])] + H[w]
  PROVE  Total(Weight(up', down', g, G)) <= Total(Weight(up, down, g, H))
<1> DEFINE h == Head(down[w])
           W == Weight(up, down, g, H)
           V == Weight(up', down', g, G)
<1>1. /\ W \in Counts(Node) /\ V \in Counts(Node)
      /\ V[w] + g[h] + H[w] = W[w] + Along(out, g) + G[w]
      /\ \A n \in Node : n # w => V[n] + H[n] = W[n] + G[n]
      /\ g[h] \in Nat /\ Along(out, g) \in Nat
      /\ \A n \in Node : /\ V[n] \in Nat /\ W[n] \in Nat
                         /\ H[n] \in Nat /\ G[n] \in Nat
  BY NodeWeight
<1> HIDE DEF W, V
<1>2. ASSUME NEW n \in Node
      PROVE  V[n] <= W[n]
  <2>1. n # w => /\ V[n] \in Nat /\ W[n] \in Nat
                 /\ H[n] \in Nat /\ G[n] \in Nat
                 /\ V[n] + H[n] = W[n] + G[n] /\ G[n] <= H[n]
    BY <1>1
  <2> DEFINE a == V[w]  b == g[h]  c == H[w]
             d == W[w]  e == Along(out, g)  f == G[w]
  <2>2. /\ a \in Nat /\ b \in Nat /\ c \in Nat
        /\ d \in Nat /\ e \in Nat /\ f \in Nat
        /\ a + b + c = d + e + f /\ e + f <= b + c
    BY <1>1
  <2>3. CASE n # w
    BY <2>1, <2>3
  <2>4. a <= d
    <3> HIDE DEF a, b, c, d, e, f
    <3>1. QED  BY <2>2
  <2>5. QED  BY <2>3, <2>4
<1>3. Total(V) <= Total(W)
  BY <1>1, <1>2, NodesFinite, TotalBelow
<1>4. QED  BY <1>3 DEF V, W

LEMMA WeightBelow ==
  ASSUME NEW u \in [Node -> Seq(Message)], NEW d \in [Node -> Seq(Publication)],
         NEW g \in Counts(Message), NEW H \in Counts(Node),
         NEW G \in Counts(Node), \A n \in Node : G[n] <= H[n]
  PROVE  Total(Weight(u, d, g, G)) <= Total(Weight(u, d, g, H))
<1> DEFINE W == Weight(u, d, g, H)
           V == Weight(u, d, g, G)
<1>1. W \in Counts(Node) /\ V \in Counts(Node)
  BY WeightType
<1>2. ASSUME NEW n \in Node
      PROVE  V[n] <= W[n]
  <2> DEFINE a == Along(u[n], g)  b == Along(d[n], g)  c == H[n]  e == G[n]
  <2>1. /\ W[n] = a + b + c /\ V[n] = a + b + e
        /\ a \in Nat /\ b \in Nat /\ c \in Nat /\ e \in Nat /\ e <= c
    BY WeightType
  <2> HIDE DEF a, b, c, e, W, V
  <2>2. QED  BY <2>1
<1> HIDE DEF W, V
<1>3. Total(V) <= Total(W)
  BY <1>1, <1>2, NodesFinite, TotalBelow
<1>4. QED  BY <1>3 DEF V, W
-----------------------------------------------------------------------------
(* What the nodes send, item by item and key by key.                       *)
LEMMA AlongSame ==
  ASSUME NEW q, NEW g, NEW p, NEW f, DOMAIN q = DOMAIN p,
         \A i \in DOMAIN q : g[q[i]] = f[p[i]]
  PROVE  Along(q, g) = Along(p, f)
<1>1. [i \in DOMAIN q |-> g[q[i]]] = [i \in DOMAIN p |-> f[p[i]]]
  OBVIOUS
<1>2. QED  BY <1>1 DEF Along

LEMMA NoShare ==
  ASSUME NEW q \in Seq(Message), NEW x \in Items, NEW k
  PROVE  /\ (\A m \in ToSet(q) : \A t \in DataTypes : m \notin Data(t))
              => Along(q, ShareOf(x)) = 0
         /\ (\A m \in ToSet(q) : m \notin Data(RESULT_DATATYPE))
              => Along(q, Mark(k)) = 0
<1>1. ToSet(q) \subseteq Message
  BY ToSetQueue
<1>2. ASSUME \A m \in ToSet(q) : \A t \in DataTypes : m \notin Data(t)
      PROVE  Along(q, ShareOf(x)) = 0
  <2>1. \A m \in ToSet(q) : ShareOf(x)[m] = 0
    BY <1>1, <1>2, CountsAre
  <2>2. QED  BY <2>1, CountsAre, AlongSteps
<1>3. ASSUME \A m \in ToSet(q) : m \notin Data(RESULT_DATATYPE)
      PROVE  Along(q, Mark(k)) = 0
  <2>1. \A m \in ToSet(q) : Mark(k)[m] = 0
    BY <1>1, <1>3 DEF Mark
  <2>2. QED  BY <2>1, CountsAre, AlongSteps
<1>4. QED  BY <1>2, <1>3

LEMMA PairShare ==
  ASSUME NEW k \in Key, NEW v \in Value, NEW x \in Items, NEW j, NEW d
  PROVE  /\ LET m == Pub(REDUCE_DATATYPE, d, Pair(k, v))
            IN m \in Message => m \in Data(REDUCE_DATATYPE)
                                /\ ShareOf(x)[m] = v[x] /\ Mark(j)[m] = 0
         /\ LET m == Pub(RESULT_DATATYPE, d, Pair(k, v))
            IN m \in Message => /\ m \in Data(RESULT_DATATYPE)
                                /\ ShareOf(x)[m] = v[x]
                                /\ Mark(j)[m] = IF k = j THEN 1 ELSE 0
<1>1. ASSUME NEW t \in {REDUCE_DATATYPE, RESULT_DATATYPE},
             Pub(t, d, Pair(k, v)) \in Message
      PROVE  LET m == Pub(t, d, Pair(k, v))
             IN m \in Data(t) /\ m.body.value = v /\ m.body.key = k
  BY <1>1 DEF Data, Is, Pub, Pair
<1>2. \A m : m \in Data(REDUCE_DATATYPE) => m \notin Data(RESULT_DATATYPE)
  BY DEF Data, Is, REDUCE_DATATYPE, RESULT_DATATYPE
<1>3. QED  BY <1>1, <1>2, CountsAre DEF Mark

LEMMA MapOutputAmount ==
  ASSUME TypeInv, NEW w \in Mapper, reducer_count[w] > 0,
         NEW h \in 1..MaxRounds, NEW line \in Seq(Items), NEW x \in Items,
         NEW k
  PROVE  /\ Along(MapOutput(w, h, line), ShareOf(x)) = Occurs(line, x)
         /\ Along(MapOutput(w, h, line), Mark(k)) = 0
<1> DEFINE q == MapOutput(w, h, line)
           I == 1..Len(line)
           S == {j \in I : line[j] = x}
<1>1. q \in Seq(Message) /\ DOMAIN q = I
      /\ \A j \in I : q[j] = ToReducer(w, MapKey(h, line[j]), One(line[j]))
  <2>1. q \in Seq(Message)
    BY MapOutputType, SentAreMessages DEF TypeInv, TypeOK, MapperTypeOK
  <2>2. QED  BY <2>1 DEF MapOutput
<1> HIDE DEF q
<1>2. ASSUME NEW j \in I
      PROVE  /\ ShareOf(x)[q[j]] = IF j \in S THEN 1 ELSE 0
             /\ Mark(k)[q[j]] = 0 /\ q[j] \notin Data(RESULT_DATATYPE)
  <2> DEFINE c == MapKey(h, line[j])
             v == One(line[j])
             d == getdestination(w, c)
  <2>1. line[j] \in Items /\ v \in Value /\ c \in Key
    BY ValueTypes, MapKeyType
  <2>2. q[j] = Pub(REDUCE_DATATYPE, d, Pair(c, v)) /\ q[j] \in Message
    BY <1>1 DEF ToReducer
  <2>3. v[x] = IF line[j] = x THEN 1 ELSE 0
    BY DEF One
  <2> HIDE DEF c, v, d
  <2>4. /\ q[j] \in Data(REDUCE_DATATYPE) /\ ShareOf(x)[q[j]] = v[x]
        /\ Mark(k)[q[j]] = 0
    BY <2>1, <2>2, PairShare
  <2>5. QED
    BY <2>3, <2>4 DEF Data, Is, REDUCE_DATATYPE, RESULT_DATATYPE
<1>3. Along(q, ShareOf(x)) = Total([j \in I |-> IF j \in S THEN 1 ELSE 0])
  <2>1. [j \in DOMAIN q |-> ShareOf(x)[q[j]]]
          = [j \in I |-> IF j \in S THEN 1 ELSE 0]
    BY <1>1, <1>2
  <2>2. QED  BY <2>1 DEF Along
<1>4. Total([j \in I |-> IF j \in S THEN 1 ELSE 0]) = Cardinality(S)
  <2>1. IsFiniteSet(I) /\ S \in SUBSET I
    BY FS_Interval
  <2> HIDE DEF I, S
  <2>2. QED  BY <2>1, TotalFlags, Zenon
<1>5. Along(q, Mark(k)) = 0
  <2>1. \A m \in ToSet(q) : m \notin Data(RESULT_DATATYPE)
    BY <1>1, <1>2 DEF ToSet
  <2>2. QED  BY <1>1, <2>1, NoShare
<1>6. QED  BY <1>3, <1>4, <1>5 DEF Occurs, q

LEMMA PushedAmount ==
  ASSUME NEW h \in 1..MaxRounds, NEW line \in Seq(Items), NEW x \in Items
  PROVE  Pushed(h, line)[MapKey(h, x)][x] = Occurs(line, x)
<1>1. MapKey(h, x) \in Key
  BY MapKeyType
<1>2. {j \in 1..Len(line) : line[j] = x /\ MapKey(h, x) = MapKey(h, x)}
        = {j \in 1..Len(line) : line[j] = x}
  OBVIOUS
<1>3. QED  BY <1>1, <1>2 DEF Pushed, Occurs

(* A buffer is sent in one message a key. *)
LEMMA AlongKeys ==
  ASSUME NEW buff \in [Key -> Value], NEW f \in Counts(Key), NEW k \in Key,
         \A j \in Key : j # k => f[j] = 0, buff[k] = Zero => f[k] = 0
  PROVE  Along(SetToSeq({j \in Key : buff[j] # Zero}), f) = f[k]
<1> DEFINE S == {j \in Key : buff[j] # Zero}
           g == [j \in S |-> f[j]]
           s == SetToSeq(S)
<1>1. IsFiniteSet(S)
  BY KeyFinite, FS_Subset
<1>2. g \in Counts(S) /\ \A j \in S : g[j] = f[j]
  BY DEF Counts
<1>3. ToSet(s) = S /\ s \in Seq(S)
  BY <1>1, SetToSeqLists
<1>4. Along(s, f) = Along(s, g)
  <2> HIDE DEF s, g
  <2>1. \A i \in DOMAIN s : f[s[i]] = g[s[i]]
    BY <1>2, <1>3
  <2>2. QED  BY <2>1, AlongSame
<1>5. Along(s, g) = Total(g)
  BY <1>1, <1>2, AlongSet
<1>6. Total(g) = f[k]
  <2> HIDE DEF g
  <2>1. CASE k \in S
    BY <1>1, <1>2, <2>1, TotalOnly
  <2>2. CASE k \notin S
    <3>1. f[k] = 0 /\ \A j \in S : g[j] = 0
      BY <1>2, <2>2
    <3>2. Total(g) = 0
      BY <1>1, <1>2, <3>1, TotalType
    <3>3. QED  BY <3>1, <3>2
  <2>3. QED  BY <2>1, <2>2
<1>7. QED  BY <1>4, <1>5, <1>6

LEMMA FlushAmount ==
  ASSUME TypeInv, NEW w \in Mapper, mState[w] # "EXPECT_CODE",
         Round \in 1..MaxRounds, Sorted(outbuff[w]), NoneKept,
         NEW x \in Items, NEW k
  PROVE  /\ Along(flush_output(w), ShareOf(x))
              = outbuff[w][MapKey(Round, x)][x]
         /\ Along(flush_output(w), Mark(k)) = 0
<1> DEFINE buff == outbuff[w]
           S == {j \in Key : buff[j] # Zero}
           ks == SetToSeq(S)
           q == flush_output(w)
           f == [j \in Key |-> buff[j][x]]
           c == MapKey(Round, x)
<1>1. /\ buff \in [Key -> Value] /\ c \in Key /\ reducer_count[w] > 0
      /\ q \in Seq(Message)
  <2>1. /\ outbuff \in [Mapper -> [Key -> Value]]
        /\ reducer_count \in [Mapper -> Nat] /\ reducer_count[w] \in 1..999
    BY DEF TypeInv, TypeOK, MapperTypeOK, CountsTaken, ValidCount
  <2>2. reducer_count[w] > 0
    BY <2>1
  <2>3. QED  BY <2>1, <2>2, FlushType, SentAreMessages, MapKeyType
<1>2. f \in Counts(Key)
  BY <1>1 DEF Counts, Value
<1>3. \A j \in Key : j # c => f[j] = 0
  BY DEF Sorted, Mapped
<1>4. buff[c] = Zero => f[c] = 0
  BY <1>1 DEF Zero
<1>5. CASE HasCombine
  <2>1. ks \in Seq(S) /\ ToSet(ks) = S
    <3>1. IsFiniteSet(S)
      BY KeyFinite, FS_Subset
    <3>2. QED  BY <3>1, SetToSeqLists
  <2>2. q = [i \in 1..Len(ks) |-> ToReducer(w, ks[i], buff[ks[i]])]
    BY <1>5 DEF flush_output, StoredKeys
  <2> HIDE DEF ks, q
  <2>3. DOMAIN q = DOMAIN ks /\ DOMAIN ks = 1..Len(ks)
    BY <2>1, <2>2
  <2>4. ASSUME NEW i \in DOMAIN ks
        PROVE  /\ ShareOf(x)[q[i]] = f[ks[i]]
               /\ q[i] \notin Data(RESULT_DATATYPE)
    <3> DEFINE j == ks[i]
               v == buff[j]
               d == getdestination(w, j)
    <3>1. j \in Key /\ v \in Value
      BY <1>1, <2>1
    <3>2. /\ q[i] = Pub(REDUCE_DATATYPE, d, Pair(j, v)) /\ q[i] \in Message
          /\ f[j] = v[x]
      BY <1>1, <2>2, <2>3, <3>1 DEF ToReducer
    <3> HIDE DEF f, j, v, d
    <3>3. q[i] \in Data(REDUCE_DATATYPE) /\ ShareOf(x)[q[i]] = v[x]
      BY <3>1, <3>2, PairShare
    <3>4. QED
      BY <3>2, <3>3 DEF Data, Is, REDUCE_DATATYPE, RESULT_DATATYPE, j
  <2> HIDE DEF f
  <2>5. Along(q, ShareOf(x)) = Along(ks, f)
    BY <2>3, <2>4, AlongSame
  <2>6. Along(ks, f) = f[c]
    BY <1>1, <1>2, <1>3, <1>4, AlongKeys DEF ks
  <2>7. Along(q, Mark(k)) = 0
    <3>1. \A m \in ToSet(q) : m \notin Data(RESULT_DATATYPE)
      BY <2>3, <2>4 DEF ToSet
    <3>2. QED  BY <1>1, <3>1, NoShare
  <2>8. QED  BY <1>1, <2>5, <2>6, <2>7 DEF f, q
<1>6. CASE ~HasCombine
  <2>1. q = <<>> /\ ToSet(q) = {}
    BY <1>6 DEF flush_output, ToSet
  <2>2. Along(q, ShareOf(x)) = 0 /\ Along(q, Mark(k)) = 0
    BY <1>1, <2>1, NoShare
  <2>3. buff[c] = Zero
    BY <1>1, <1>6 DEF NoneKept, NoPairs
  <2>4. QED  BY <2>2, <2>3 DEF Zero
<1>7. QED  BY <1>5, <1>6

LEMMA MarkersAmount ==
  ASSUME TypeInv, NEW w \in Mapper, NEW x \in Items, NEW k
  PROVE  /\ Along(MarkersToReducers(w), ShareOf(x)) = 0
         /\ Along(MarkersToReducers(w), Mark(k)) = 0
<1> DEFINE q == MarkersToReducers(w)
<1>1. q \in Seq(Message)
  BY MarkersType, SentAreMessages DEF TypeInv, TypeOK, MapperTypeOK
<1>2. \A m \in ToSet(q) : m.body.end
  BY InMarkers
<1>3. \A m \in ToSet(q) : \A t \in DataTypes : m \notin Data(t)
  BY <1>2 DEF Data
<1>4. QED  BY <1>1, <1>3, NoShare DEF DataTypes

LEMMA OutputAmount ==
  ASSUME NEW buff \in [Key -> Value], Round \in 1..MaxRounds, Sorted(buff),
         NEW x \in Items
  PROVE  Along(ReduceOutput(buff), ShareOf(x)) = buff[MapKey(Round, x)][x]
<1> DEFINE S == {j \in Key : buff[j] # Zero}
           ks == SetToSeq(S)
           q == ReduceOutput(buff)
           f == [j \in Key |-> buff[j][x]]
           c == MapKey(Round, x)
<1>1. q \in Seq(Message) /\ c \in Key
  BY ReduceOutputType, SentAreMessages, MapKeyType
<1>2. f \in Counts(Key)
  BY <1>1 DEF Counts, Value
<1>3. \A j \in Key : j # c => f[j] = 0
  BY DEF Sorted, Mapped
<1>4. buff[c] = Zero => f[c] = 0
  BY <1>1 DEF Zero
<1>5. ks \in Seq(S) /\ ToSet(ks) = S
  <2>1. IsFiniteSet(S)
    BY KeyFinite, FS_Subset
  <2>2. QED  BY <2>1, SetToSeqLists
<1>6. q = [i \in 1..Len(ks) |->
             Pub(RESULT_DATATYPE, NoDst, Pair(ks[i], buff[ks[i]]))]
  BY DEF ReduceOutput
<1> HIDE DEF ks, q
<1>7. DOMAIN q = DOMAIN ks /\ DOMAIN ks = 1..Len(ks)
  BY <1>5, <1>6
<1>8. ASSUME NEW i \in DOMAIN ks
      PROVE  ShareOf(x)[q[i]] = f[ks[i]]
  <2> DEFINE j == ks[i]
             v == buff[j]
  <2>1. j \in Key /\ v \in Value
    BY <1>5
  <2>2. /\ q[i] = Pub(RESULT_DATATYPE, NoDst, Pair(j, v)) /\ q[i] \in Message
        /\ f[j] = v[x]
    BY <1>1, <1>6, <1>7, <2>1
  <2> HIDE DEF f, j, v
  <2>3. ShareOf(x)[q[i]] = v[x]
    BY <2>1, <2>2, PairShare
  <2>4. QED  BY <2>2, <2>3 DEF j
<1> HIDE DEF f
<1>9. Along(q, ShareOf(x)) = Along(ks, f)
  BY <1>7, <1>8, AlongSame
<1>10. Along(ks, f) = f[c]
  BY <1>1, <1>2, <1>3, <1>4, AlongKeys DEF ks
<1>11. QED  BY <1>1, <1>9, <1>10 DEF f, q

LEMMA OutputMarks ==
  ASSUME NEW buff \in [Key -> Value], NEW k \in Key
  PROVE  Along(ReduceOutput(buff), Mark(k))
           = IF buff[k] # Zero THEN 1 ELSE 0
<1> DEFINE S == {j \in Key : buff[j] # Zero}
           ks == SetToSeq(S)
           q == ReduceOutput(buff)
           f == [j \in Key |-> IF j = k /\ buff[k] # Zero THEN 1 ELSE 0]
<1>1. q \in Seq(Message)
  BY ReduceOutputType, SentAreMessages
<1>2. /\ f \in Counts(Key) /\ \A j \in Key : j # k => f[j] = 0
      /\ buff[k] = Zero => f[k] = 0
  BY DEF Counts
<1>3. ks \in Seq(S) /\ ToSet(ks) = S
  <2>1. IsFiniteSet(S)
    BY KeyFinite, FS_Subset
  <2>2. QED  BY <2>1, SetToSeqLists
<1>4. q = [i \in 1..Len(ks) |->
             Pub(RESULT_DATATYPE, NoDst, Pair(ks[i], buff[ks[i]]))]
  BY DEF ReduceOutput
<1> HIDE DEF ks, q
<1>5. DOMAIN q = DOMAIN ks /\ DOMAIN ks = 1..Len(ks)
  BY <1>3, <1>4
<1>6. ASSUME NEW i \in DOMAIN ks
      PROVE  Mark(k)[q[i]] = f[ks[i]]
  <2> DEFINE j == ks[i]
             v == buff[j]
  <2>1. j \in Key /\ v \in Value /\ v # Zero
    BY <1>3
  <2>2. /\ q[i] = Pub(RESULT_DATATYPE, NoDst, Pair(j, v)) /\ q[i] \in Message
        /\ f[j] = IF j = k THEN 1 ELSE 0
    BY <1>1, <1>4, <1>5, <2>1
  <2> HIDE DEF f, j, v
  <2>3. Mark(k)[q[i]] = IF j = k THEN 1 ELSE 0
    <3>1. q[i] \in Data(RESULT_DATATYPE) /\ q[i].body.key = j
      BY <2>2 DEF Data, Is, Pub, Pair
    <3>2. QED  BY <2>2, <3>1 DEF Mark
  <2>4. QED  BY <2>2, <2>3 DEF j
<1> HIDE DEF f
<1>7. Along(q, Mark(k)) = Along(ks, f)
  BY <1>5, <1>6, AlongSame
<1>8. Along(ks, f) = f[k]
  BY <1>2, AlongKeys DEF ks
<1>9. QED  BY <1>7, <1>8 DEF f, q
-----------------------------------------------------------------------------
(* What the nodes hold.                                                    *)
LEMMA HeldType ==
  ASSUME TypeInv, Round \in 1..MaxRounds, NEW x \in Items
  PROVE  LET k == MapKey(Round, x)
         IN /\ k \in Key /\ Held(x) \in Counts(Node)
            /\ \A w \in Mapper : Held(x)[w] = outbuff[w][k][x]
            /\ \A v \in Reducer : Held(x)[v] = BufferBefore(v)[k][x]
            /\ Held(x)[Client] = Along(last_result[k], ValueAt(x))
<1> DEFINE k == MapKey(Round, x)
<1>1. k \in Key
  BY MapKeyType
<1>2. /\ \A w \in Mapper : outbuff[w] \in [Key -> Value]
      /\ \A v \in Reducer : BufferBefore(v) \in [Key -> Value]
      /\ last_result \in [Key -> Seq(Value)]
  BY ValueTypes DEF TypeInv, TypeOK, MapperTypeOK, ReducerTypeOK,
    ClientTypeOK, BufferBefore
<1>3. Along(last_result[k], ValueAt(x)) \in Nat
  BY <1>1, <1>2, CountsAre, AlongSteps
<1>4. /\ \A w \in Mapper : outbuff[w][k][x] \in Nat
      /\ \A v \in Reducer : BufferBefore(v)[k][x] \in Nat
  BY <1>1, <1>2 DEF Value
<1>5. /\ \A n \in Mapper : n \in Node /\ n \notin Reducer /\ n # Client
      /\ \A n \in Reducer : n \in Node /\ n \notin Mapper /\ n # Client
      /\ Client \in Node /\ Client \notin Mapper /\ Client \notin Reducer
      /\ \A n \in Node : n \in Mapper \/ n \in Reducer \/ n = Client
  BY Roles DEF Node, Worker
<1>6. Held(x) = [n \in Node |->
        IF n \in Mapper THEN outbuff[n][k][x]
        ELSE IF n \in Reducer THEN BufferBefore(n)[k][x]
        ELSE Along(last_result[k], ValueAt(x))]
  BY DEF Held
<1> HIDE DEF k
<1>7. Held(x) \in Counts(Node)
  BY <1>3, <1>4, <1>6 DEF Counts
<1>8. QED  BY <1>1, <1>5, <1>6, <1>7 DEF k

LEMMA AnsweringType ==
  ASSUME TypeInv, NEW k \in Key
  PROVE  /\ Answering(k) \in Counts(Node)
         /\ Answering(k)[Client] = Len(last_result[k])
         /\ \A n \in Worker :
              Answering(k)[n] = IF MayAnswer(n, k) THEN 1 ELSE 0
         /\ \A w \in Mapper : Answering(k)[w] = 0
<1>1. last_result[k] \in Seq(Value) /\ reducers \subseteq Reducer
  BY DEF TypeInv, TypeOK, ClientTypeOK
<1>2. Len(last_result[k]) \in Nat
  BY <1>1
<1>3. /\ \A n \in Worker : n \in Node /\ n # Client
      /\ \A n \in Mapper : n \in Worker /\ n \notin reducers
  BY <1>1, Roles DEF Worker
<1>4. Answering(k) \in Counts(Node)
  BY <1>2 DEF Answering, Counts
<1>5. QED  BY <1>3, <1>4, Roles DEF Answering, MayAnswer

(* And what they will hold. *)
LEMMA HeldNext ==
  ASSUME NEW x \in Items
  PROVE  (TypeInv /\ Round \in 1..MaxRounds => Held(x) \in Counts(Node))'
<1>1. TypeInv /\ Round \in 1..MaxRounds => Held(x) \in Counts(Node)
  BY HeldType
<1>2. QED  BY <1>1, PTL

LEMMA HeldAfter ==
  ASSUME Round' = Round, NEW x \in Items
  PROVE  LET k == MapKey(Round, x)
         IN /\ \A w \in Mapper : Held(x)'[w] = outbuff'[w][k][x]
            /\ \A v \in Reducer : Held(x)'[v] = BufferBefore(v)'[k][x]
            /\ Held(x)'[Client] = Along(last_result'[k], ValueAt(x))
<1> DEFINE k == MapKey(Round, x)
<1>1. Held(x)' = [n \in Node |->
        IF n \in Mapper THEN outbuff'[n][k'][x]
        ELSE IF n \in Reducer THEN BufferBefore(n)'[k'][x]
        ELSE Along(last_result'[k'], ValueAt(x))]
  BY DEF Held
<1>2. k' = k
  BY DEF MapKey
<1>3. /\ \A n \in Mapper : n \in Node
      /\ \A n \in Reducer : n \in Node /\ n \notin Mapper
      /\ Client \in Node /\ Client \notin Mapper /\ Client \notin Reducer
  BY Roles DEF Worker
<1> HIDE DEF k
<1>4. QED  BY <1>1, <1>2, <1>3 DEF k

LEMMA AnsweringNext ==
  ASSUME NEW k \in Key
  PROVE  (TypeInv => Answering(k) \in Counts(Node))'
<1>1. TypeInv => Answering(k) \in Counts(Node)
  BY AnsweringType
<1>2. QED  BY <1>1, PTL

LEMMA NotCounted ==
  ASSUME NEW m \in Message, NEW x \in Items, NEW k,
         \A t \in DataTypes : m \notin Data(t)
  PROVE  ShareOf(x)[m] = 0 /\ Mark(k)[m] = 0
  BY CountsAre DEF Mark, DataTypes

LEMMA HeldStays ==
  ASSUME TypeInv, TypeInv', Round' = Round, Round \in 1..MaxRounds,
         NEW n \in Node, n \in Mapper => outbuff'[n] = outbuff[n],
         n \in Reducer => BufferBefore(n)' = BufferBefore(n),
         n = Client => last_result' = last_result, NEW x \in Items
  PROVE  Held(x)'[n] = Held(x)[n]
<1> DEFINE k == MapKey(Round, x)
<1>1. /\ Held(x) = [m \in Node |->
           IF m \in Mapper THEN outbuff[m][k][x]
           ELSE IF m \in Reducer THEN BufferBefore(m)[k][x]
           ELSE Along(last_result[k], ValueAt(x))]
      /\ Held(x)' = [m \in Node |->
           IF m \in Mapper THEN outbuff'[m][k'][x]
           ELSE IF m \in Reducer THEN BufferBefore(m)'[k'][x]
           ELSE Along(last_result'[k'], ValueAt(x))]
  BY DEF Held
<1>2. k' = k
  BY DEF MapKey
<1>3. n \in Mapper \/ n \in Reducer \/ n = Client
  BY DEF Node, Worker
<1> HIDE DEF k
<1>4. QED  BY <1>1, <1>2, <1>3

(* A reducer that is through with the round answers no more. *)
LEMMA AnswersFewer ==
  ASSUME TypeInv, TypeInv', reducers' = reducers, Settled, NEW k \in Key
  PROVE  /\ Answering(k) \in Counts(Node) /\ Answering(k)' \in Counts(Node)
         /\ \A n \in Node : n # Client \/ last_result' = last_result =>
              Answering(k)'[n] <= Answering(k)[n]
<1> DEFINE H == Answering(k)
           G == Answering(k)'
<1>1. H \in Counts(Node) /\ G \in Counts(Node)
  BY AnsweringType, AnsweringNext
<1>2. ASSUME NEW n \in Node, n # Client \/ last_result' = last_result
      PROVE  G[n] <= H[n]
  <2>1. CASE n = Client
    <3>1. G[n] = H[n] /\ H[n] \in Nat
      BY <1>1, <1>2, <2>1 DEF Answering, Counts
    <3>2. QED  BY <3>1
  <2>2. CASE n # Client
    <3>1. /\ H[n] = IF MayAnswer(n, k) THEN 1 ELSE 0
          /\ G[n] = IF MayAnswer(n, k)' THEN 1 ELSE 0
      BY <2>2 DEF Answering
    <3>2. MayAnswer(n, k)' => MayAnswer(n, k)
      BY DEF MayAnswer, Settled, DestOf
    <3>3. QED  BY <3>1, <3>2
  <2>3. QED  BY <2>1, <2>2
<1>3. QED  BY <1>1, <1>2

(* The step of a node that loses no item and no result.                    *)
SameAnswers == /\ mappers' = mappers /\ reducers' = reducers
               /\ round_' = round_ /\ last_result' = last_result

LEMMA NodeWeighed ==
  ASSUME TypeInv, TypeInv', Round \in 1..MaxRounds, Weighed, Settled,
         NEW w \in Node, Receive(w), SameAnswers,
         NEW out \in Seq(Message), Send(w, out),
         \A n \in Node : n # w =>
           /\ n \in Mapper => outbuff'[n] = outbuff[n]
           /\ n \in Reducer => BufferBefore(n)' = BufferBefore(n),
         \A x \in Items : ShareOf(x)[Head(down[w])] + Held(x)[w]
                            = Along(out, ShareOf(x)) + Held(x)'[w],
         \A k \in Key : Along(out, Mark(k)) + Answering(k)'[w]
                          <= Mark(k)[Head(down[w])] + Answering(k)[w]
  PROVE  Weighed'
<1>1. /\ mappers' = mappers /\ reducers' = reducers /\ round_' = round_
      /\ last_result' = last_result
  BY DEF SameAnswers
<1>2. Round' = Round /\ \A k : DestOf(k)' = DestOf(k)
  BY <1>1 DEF Round, DestOf
<1>3. w \in Node
  OBVIOUS
<1>4. ResultsMapped'
  BY <1>1, <1>2 DEF Weighed, ResultsMapped, Result, Mapped
<1>5. ASSUME NEW k \in Key
      PROVE  Total(Tickets(k))' <= 1
  <2> DEFINE H == Answering(k)
             G == Answering(k)'
  <2>1. H \in Counts(Node) /\ G \in Counts(Node)
    BY <1>1, AnswersFewer
  <2>2. \A n \in Node : n # w => G[n] <= H[n]
    BY <1>1, AnswersFewer
  <2>3. Mark(k) \in Counts(Message)
    BY DEF Mark, Counts
  <2>4. Along(out, Mark(k)) + G[w] <= Mark(k)[Head(down[w])] + H[w]
    OBVIOUS
  <2>5. Total(Weight(up', down', Mark(k), G))
          <= Total(Weight(up, down, Mark(k), H))
    <3> HIDE DEF H, G
    <3>1. QED  BY <1>3, <2>1, <2>2, <2>3, <2>4, NodeGainsNone
  <2>6. Total(Weight(up, down, Mark(k), H)) <= 1
    BY DEF Weighed, OneAnswer, Tickets
  <2>7. /\ Total(Weight(up, down, Mark(k), H)) \in Nat
        /\ Total(Weight(up', down', Mark(k), G)) \in Nat
    <3>1. /\ up \in [Node -> Seq(Message)] /\ up' \in [Node -> Seq(Message)]
          /\ down \in [Node -> Seq(Publication)]
          /\ down' \in [Node -> Seq(Publication)]
      BY DEF TypeInv, TypeOK
    <3> HIDE DEF H, G
    <3>2. QED  BY <2>1, <2>3, <3>1, WeightType, NodesFinite, TotalType
  <2>8. Total(Tickets(k))' = Total(Weight(up', down', Mark(k), G))
    BY DEF Tickets
  <2> HIDE DEF H, G
  <2>9. QED  BY <2>5, <2>6, <2>7, <2>8
<1>6. ASSUME NoneLost', NEW x \in Items
      PROVE  Total(Load(x))' = Occurrences(x)
  <2> DEFINE H == Held(x)
             G == Held(x)'
  <2>1. H \in Counts(Node) /\ G \in Counts(Node)
    BY <1>2, HeldType, HeldNext
  <2>2. \A n \in Node : n # w => G[n] = H[n]
    BY <1>1, <1>2, HeldStays
  <2>3. ShareOf(x) \in Counts(Message)
    BY CountsAre
  <2>4. ShareOf(x)[Head(down[w])] + H[w] = Along(out, ShareOf(x)) + G[w]
    OBVIOUS
  <2>5. Total(Weight(up', down', ShareOf(x), G))
          = Total(Weight(up, down, ShareOf(x), H))
    <3> HIDE DEF H, G
    <3>1. QED  BY <1>3, <2>1, <2>2, <2>3, <2>4, NodeBalance
  <2>6. NoneLost
    BY <1>1, <1>6 DEF NoneLost, NumberedFrom0
  <2>7. Total(Weight(up, down, ShareOf(x), H)) = Occurrences(x)
    BY <2>6 DEF Weighed, Balanced, Load
  <2>8. Total(Load(x))' = Total(Weight(up', down', ShareOf(x), G))
    BY DEF Load
  <2>9. QED  BY <2>5, <2>7, <2>8
<1>7. OneAnswer'
  BY <1>5 DEF OneAnswer
<1>8. NoneLost' => Balanced'
  BY <1>6 DEF Balanced, Occurrences
<1>9. QED  BY <1>4, <1>7, <1>8 DEF Weighed

LEMMA WorkerWeighed ==
  ASSUME TypeInv, TypeInv', Round \in 1..MaxRounds, Weighed, Settled,
         NEW w \in Worker, Receive(w), UNCHANGED clientVars,
         NEW out \in Seq(Message), Send(w, out),
         \A n \in Node : n # w =>
           /\ n \in Mapper => outbuff'[n] = outbuff[n]
           /\ n \in Reducer => BufferBefore(n)' = BufferBefore(n),
         \A x \in Items : ShareOf(x)[Head(down[w])] + Held(x)[w]
                            = Along(out, ShareOf(x)) + Held(x)'[w],
         \A k \in Key : Along(out, Mark(k)) + Answering(k)'[w]
                          <= Mark(k)[Head(down[w])] + Answering(k)[w]
  PROVE  Weighed'
<1>1. w \in Node /\ SameAnswers
  BY Roles DEF clientVars, resultVars, firingVars, SameAnswers
<1>2. QED  BY <1>1, NodeWeighed

LEMMA OneOfNumber ==
  ASSUME NEW v \in Reducer, NEW w \in Reducer, v[2] = w[2]
  PROVE  v = w
<1>1. PICK i \in ReducerIds : v = <<"R", i>>
  BY DEF Reducer
<1>2. PICK j \in ReducerIds : w = <<"R", j>>
  BY DEF Reducer
<1>3. QED  BY <1>1, <1>2

LEMMA RouterWeighed ==
  ASSUME TypeInv, TypeInv', SubscribedInv, OrderInv, AllParts, ~late,
         Round \in 1..MaxRounds, Weighed, Settled, NEW n \in Node,
         RouterNext(n)
  PROVE  Weighed'
<1> DEFINE h == Head(up[n])
<1>1. /\ UNCHANGED <<mapperVars, reducerVars, clientVars>>
      /\ up[n] # <<>> /\ h \in Message /\ h \in ToSet(up[n])
  BY RouterMoves
<1>2. /\ mappers' = mappers /\ reducers' = reducers /\ round_' = round_
      /\ last_result' = last_result /\ outbuff' = outbuff
      /\ \A v : BufferBefore(v)' = BufferBefore(v)
  BY <1>1 DEF mapperVars, reducerVars, clientVars, BufferBefore
<1>3. Round' = Round
  BY <1>2 DEF Round
<1>4. ResultsMapped'
  BY <1>2, <1>3 DEF Weighed, ResultsMapped, Result, Mapped
<1>5. /\ up \in [Node -> Seq(Message)] /\ up' \in [Node -> Seq(Message)]
      /\ down \in [Node -> Seq(Publication)]
      /\ down' \in [Node -> Seq(Publication)]
      /\ mappers \subseteq Mapper /\ reducers \subseteq Reducer
  BY DEF TypeInv, TypeOK, ClientTypeOK
<1>6. \A w \in Worker : w \in Node /\ w # Client
  BY Roles
<1> HIDE DEF h
<1>7. h \in Data(MAP_DATATYPE) \cup Data(RESULT_DATATYPE) =>
        h.op = "pub" /\ \E d \in Node : d # n /\ Subscribers(h) = {d}
  <2>1. CASE h \in Data(MAP_DATATYPE)
    <3>1. Is(h, MAP_DATATYPE) /\ h.op = "pub"
      BY <2>1 DEF Data, Is
    <3>2. n = Client /\ \E w \in mappers : Subscribers(h) = {w}
      BY <1>1, <3>1, Reaches DEF h
    <3>3. QED  BY <1>5, <1>6, <3>1, <3>2 DEF Worker
  <2>2. CASE h \in Data(RESULT_DATATYPE)
    <3>1. Is(h, RESULT_DATATYPE) /\ h.op = "pub"
      BY <2>2 DEF Data, Is
    <3>2. n \in reducers /\ Subscribers(h) = {Client}
      BY <1>1, <3>1, Reaches DEF h
    <3>3. QED  BY <1>5, <1>6, <3>1, <3>2, Roles DEF Worker
  <2>3. QED  BY <2>1, <2>2
<1>8. ASSUME NoneLost, h \in Data(REDUCE_DATATYPE)
      PROVE  h.op = "pub" /\ \E d \in Node : d # n /\ Subscribers(h) = {d}
  <2>1. Is(h, REDUCE_DATATYPE) /\ h.op = "pub" /\ h.type = REDUCE_DATATYPE
    BY <1>8 DEF Data, Is
  <2>2. n \in mappers /\ Subscribers(h) = {v \in reducers : v[2] = h.dst}
    BY <1>1, <2>1, Reaches DEF h
  <2>3. Proper(h)
    BY <1>1, <1>5 DEF SubscribedInv, UpProper, h
  <2>4. h.dst \in {v[2] : v \in reducers}
    BY <1>8, <2>1, <2>3 DEF NoneLost, NumberedFrom0, Proper
  <2>5. PICK d \in reducers : d[2] = h.dst
    BY <2>4
  <2>6. \A v \in reducers : v[2] = h.dst => v = d
    BY <1>5, <2>5, OneOfNumber
  <2>7. Subscribers(h) = {d}
    BY <2>2, <2>5, <2>6
  <2>8. d \in Node /\ d # n
    BY <1>5, <1>6, <2>2, Roles DEF Worker
  <2>9. QED  BY <2>1, <2>7, <2>8
<1>9. ASSUME NEW k \in Key
      PROVE  Total(Tickets(k))' <= 1
  <2> DEFINE H == Answering(k)
             G == Answering(k)'
  <2>1. /\ H \in Counts(Node) /\ G \in Counts(Node)
        /\ \A m \in Node : G[m] <= H[m]
    BY <1>2, AnswersFewer
  <2>2. Mark(k) \in Counts(Message)
    BY DEF Mark, Counts
  <2>3. Mark(k)[h] = 0 \/ h \in Data(RESULT_DATATYPE)
    BY <1>1 DEF Mark
  <2>4. Total(Weight(up, down, Mark(k), H)) <= 1
    BY DEF Weighed, OneAnswer, Tickets
  <2>5. Total(Tickets(k))' = Total(Weight(up', down', Mark(k), G))
    BY DEF Tickets
  <2> HIDE DEF H, G
  <2>6. Total(Weight(up', down', Mark(k), H))
          = Total(Weight(up, down, Mark(k), H))
    BY <1>7, <2>1, <2>2, <2>3, RouterWeight DEF h
  <2>7. Total(Weight(up', down', Mark(k), G))
          <= Total(Weight(up', down', Mark(k), H))
    BY <1>5, <2>1, <2>2, WeightBelow
  <2>8. /\ Total(Weight(up', down', Mark(k), G)) \in Nat
        /\ Total(Weight(up', down', Mark(k), H)) \in Nat
    BY <1>5, <2>1, <2>2, WeightType, NodesFinite, TotalType
  <2>9. QED  BY <2>4, <2>5, <2>6, <2>7, <2>8
<1>10. ASSUME NoneLost', NEW x \in Items
       PROVE  Total(Load(x))' = Occurrences(x)
  <2> DEFINE H == Held(x)
  <2>1. H \in Counts(Node) /\ Held(x)' = H
    <3>1. H \in Counts(Node) /\ Held(x)' \in Counts(Node)
      BY <1>3, HeldType, HeldNext
    <3>2. \A m \in Node : Held(x)'[m] = H[m]
      BY <1>2, <1>3, HeldStays
    <3>3. QED  BY <3>1, <3>2 DEF Counts
  <2>2. ShareOf(x) \in Counts(Message)
    BY CountsAre
  <2>3. NoneLost
    BY <1>2, <1>10 DEF NoneLost, NumberedFrom0
  <2>4. \/ ShareOf(x)[h] = 0
        \/ h \in Data(MAP_DATATYPE) \cup Data(RESULT_DATATYPE)
        \/ h \in Data(REDUCE_DATATYPE)
    BY <1>1, CountsAre DEF DataTypes
  <2>5. Total(Weight(up, down, ShareOf(x), H)) = Occurrences(x)
    BY <2>3 DEF Weighed, Balanced, Load
  <2>6. Total(Load(x))' = Total(Weight(up', down', ShareOf(x), H))
    BY <2>1 DEF Load
  <2> HIDE DEF H
  <2>7. Total(Weight(up', down', ShareOf(x), H))
          = Total(Weight(up, down, ShareOf(x), H))
    BY <1>7, <1>8, <2>1, <2>2, <2>3, <2>4, RouterWeight DEF h
  <2>8. QED  BY <2>5, <2>6, <2>7
<1>11. OneAnswer'
  BY <1>9 DEF OneAnswer
<1>12. NoneLost' => Balanced'
  BY <1>10 DEF Balanced, Occurrences
<1>13. QED  BY <1>4, <1>11, <1>12 DEF Weighed
-----------------------------------------------------------------------------
(* The nodes, step by step.  One that reads no data and sends none:        *)
LEMMA NodeIdle ==
  ASSUME TypeInv, TypeInv', Round \in 1..MaxRounds, Weighed, Settled,
         NEW w \in Node, Receive(w), SameAnswers,
         NEW out \in Seq(Message), Send(w, out), outbuff' = outbuff,
         \A v \in Reducer : BufferBefore(v)' = BufferBefore(v),
         \A t \in DataTypes : Head(down[w]) \notin Data(t),
         \A m \in ToSet(out) : \A t \in DataTypes : m \notin Data(t)
  PROVE  Weighed'
<1>1. Head(down[w]) \in Message
  BY NodeHead
<1>2. /\ reducers' = reducers /\ last_result' = last_result /\ Round' = Round
  BY DEF SameAnswers, Round
<1>3. ASSUME NEW x \in Items
      PROVE  ShareOf(x)[Head(down[w])] + Held(x)[w]
               = Along(out, ShareOf(x)) + Held(x)'[w]
  <2>1. ShareOf(x)[Head(down[w])] = 0
    BY <1>1, NotCounted
  <2>2. Along(out, ShareOf(x)) = 0
    BY NoShare
  <2>3. Held(x)'[w] = Held(x)[w]
    BY <1>1, <1>2, HeldStays
  <2>4. QED  BY <2>1, <2>2, <2>3
<1>4. ASSUME NEW k \in Key
      PROVE  Along(out, Mark(k)) + Answering(k)'[w]
               <= Mark(k)[Head(down[w])] + Answering(k)[w]
  <2> DEFINE a == Answering(k)'[w]
             b == Answering(k)[w]
  <2>1. Mark(k)[Head(down[w])] = 0
    BY <1>1 DEF Mark, DataTypes
  <2>2. \A m \in ToSet(out) : Mark(k)[m] = 0
    BY ToSetQueue DEF Mark, DataTypes
  <2>3. Along(out, Mark(k)) = 0
    <3>1. Mark(k) \in Counts(Message)
      BY DEF Mark, Counts
    <3>2. QED  BY <2>2, <3>1, AlongSteps
  <2>4. a \in Nat /\ b \in Nat /\ a <= b
    BY <1>1, <1>2, AnswersFewer DEF Counts
  <2>5. QED  BY <2>1, <2>3, <2>4
<1>5. QED  BY <1>3, <1>4, NodeWeighed

LEMMA WorkerIdle ==
  ASSUME TypeInv, TypeInv', Round \in 1..MaxRounds, Weighed, Settled,
         NEW w \in Worker, Receive(w), UNCHANGED clientVars,
         NEW out \in Seq(Message), Send(w, out), outbuff' = outbuff,
         \A v \in Reducer : BufferBefore(v)' = BufferBefore(v),
         \A t \in DataTypes : Head(down[w]) \notin Data(t),
         \A m \in ToSet(out) : \A t \in DataTypes : m \notin Data(t)
  PROVE  Weighed'
<1>1. w \in Node /\ SameAnswers
  BY Roles DEF clientVars, resultVars, firingVars, SameAnswers
<1>2. QED  BY <1>1, NodeIdle

LEMMA StartWeighed ==
  ASSUME TypeInv, TypeInv', OrderInv, Sane, Round \in 1..MaxRounds, Weighed,
         Settled, NEW w \in Worker, StartNext(w)
  PROVE  Weighed'
<1>1. /\ UNCHANGED <<mapperVars, reducerVars, clientVars>>
      /\ ~started[w] /\ Receive(w) /\ Send(w, <<JobRequest(w)>>)
  BY DEF StartNext, startsession
<1>2. \A t \in DataTypes : Head(down[w]) \notin Data(t)
  BY <1>1, WorkerHead, CodesAreNoData DEF Data
<1>3. /\ <<JobRequest(w)>> \in Seq(Message)
      /\ \A m \in ToSet(<<JobRequest(w)>>) :
           \A t \in DataTypes : m \notin Data(t)
  <2>1. JobRequest(w) \in Message
    BY JobRequestType DEF Message
  <2>2. \A m \in ToSet(<<JobRequest(w)>>) : m = JobRequest(w)
    BY DEF ToSet
  <2>3. JobRequest(w).type = JOB_REQUEST
    BY DEF JobRequest, Pub
  <2>4. \A t \in DataTypes : ~Is(JobRequest(w), t)
    BY <2>3, CodesAreNoData
  <2>5. QED  BY <2>1, <2>2, <2>4 DEF Data
<1>4. outbuff' = outbuff /\ \A v : BufferBefore(v)' = BufferBefore(v)
  BY <1>1 DEF mapperVars, reducerVars, BufferBefore
<1>5. QED  BY <1>1, <1>2, <1>3, <1>4, WorkerIdle

LEMMA MapCodeWeighed ==
  ASSUME TypeInv, TypeInv', OrderInv, Sane, Round \in 1..MaxRounds, Weighed,
         Settled, NEW w \in Mapper, MapperNext(w), MapCode(w) \/ MapReject(w)
  PROVE  Weighed'
<1>1. /\ UNCHANGED <<reducerVars, clientVars>> /\ outbuff' = outbuff
      /\ started[w] /\ Receive(w) /\ w \in Worker /\ w \in Node /\ up' = up
      /\ codetype(w) = MAP_CODETYPE /\ StateOf(w) = mState[w]
      /\ mState[w] # "EXPECT_CODE" => Head(down[w]).type = MAP_CODETYPE
  BY Roles DEF MapperNext, MapCode, MapReject, TakesData, Worker, codetype,
    StateOf
<1>2. \A t \in DataTypes : Head(down[w]) \notin Data(t)
  BY <1>1, WorkerHead, CodesAreNoData DEF Data
<1>3. Send(w, <<>>)
  BY <1>1, NodeReads
<1>4. \A v : BufferBefore(v)' = BufferBefore(v)
  BY <1>1 DEF reducerVars, BufferBefore
<1>5. QED  BY <1>1, <1>2, <1>3, <1>4, NothingSent, WorkerIdle

LEMMA ReduceCodeWeighed ==
  ASSUME TypeInv, TypeInv', OrderInv, Sane, Round \in 1..MaxRounds, Weighed,
         Settled, NEW w \in Reducer, ReducerNext(w),
         ReduceCode(w) \/ ReduceReject(w)
  PROVE  Weighed'
<1>1. /\ UNCHANGED <<mapperVars, clientVars>>
      /\ started[w] /\ Receive(w) /\ w \in Worker /\ w \in Node
      /\ w \notin Mapper /\ up' = up /\ outbuff' = outbuff
      /\ codetype(w) = REDUCE_CODETYPE /\ StateOf(w) = rState[w]
      /\ rState[w] # "EXPECT_CODE" => Head(down[w]).type = REDUCE_CODETYPE
  BY Roles DEF ReducerNext, ReduceCode, ReduceReject, TakesData, Worker,
    codetype, StateOf, mapperVars
<1>2. \A t \in DataTypes : Head(down[w]) \notin Data(t)
  BY <1>1, WorkerHead, CodesAreNoData DEF Data
<1>3. Send(w, <<>>)
  BY <1>1, NodeReads
<1>4. ASSUME NEW v \in Reducer
      PROVE  BufferBefore(v)' = BufferBefore(v)
  <2>1. CASE ReduceReject(w)
    BY <2>1 DEF ReduceReject, reducerVars, BufferBefore
  <2>2. CASE ReduceCode(w)
    <3>1. /\ ReducerTypeOK /\ data_buff' = data_buff
          /\ rState[w] = "EXPECT_CODE"
          /\ rState' = [rState EXCEPT ![w] =
               IF Head(down[w]).body.count \in 1..999 THEN "EXPECT_DATA" ELSE @]
      BY <2>2 DEF ReduceCode, TypeInv, TypeOK
    <3>2. rState'[v] = "WAIT_NEXT" <=> rState[v] = "WAIT_NEXT"
      BY <3>1, ZenonT(40) DEF ReducerTypeOK
    <3>3. QED  BY <3>1, <3>2 DEF BufferBefore
  <2>3. QED  BY <2>1, <2>2
<1>5. QED  BY <1>1, <1>2, <1>3, <1>4, NothingSent, WorkerIdle

(* A mapper reads, and sends or stores, what it is to map. *)
LEMMA MapperReads ==
  ASSUME TypeInv, AllParts, NEW w \in Mapper, MapperNext(w),
         MapData(w) \/ finish_round(w)
  PROVE  /\ UNCHANGED <<reducerVars, clientVars>>
         /\ w \in Worker /\ w \in Node /\ Receive(w)
         /\ mState[w] # "EXPECT_CODE" /\ reducer_count[w] > 0
         /\ Head(down[w]) \in Message
         /\ Is(Head(down[w]), MAP_DATATYPE) /\ Current(Head(down[w]))
         /\ \A n \in Node : n # w =>
              /\ n \in Mapper => outbuff'[n] = outbuff[n]
              /\ n \in Reducer => BufferBefore(n)' = BufferBefore(n)
<1>1. /\ UNCHANGED <<reducerVars, clientVars>>
      /\ w \in Worker /\ w \in Node /\ Receive(w)
      /\ Head(down[w]).type = MAP_DATATYPE /\ mState[w] # "EXPECT_CODE"
  BY Roles DEF MapperNext, MapData, finish_round, TakesMapData, TakesData,
    Worker
<1>2. /\ outbuff \in [Mapper -> [Key -> Value]]
      /\ reducer_count \in [Mapper -> Nat] /\ reducer_count[w] \in 1..999
  BY <1>1 DEF TypeInv, TypeOK, MapperTypeOK, CountsTaken, ValidCount
<1>3. reducer_count[w] > 0
  BY <1>2
<1>4. /\ Head(down[w]) \in Message /\ Is(Head(down[w]), MAP_DATATYPE)
      /\ Current(Head(down[w]))
  BY <1>1, NodeHead DEF Is, AllParts, PartsOf
<1>5. \A n \in Mapper : n # w => outbuff'[n] = outbuff[n]
  BY <1>2 DEF MapData, finish_round
<1>6. \A n : BufferBefore(n)' = BufferBefore(n)
  BY <1>1 DEF reducerVars, BufferBefore
<1>7. QED  BY <1>1, <1>3, <1>4, <1>5, <1>6

LEMMA MapDataWeighed ==
  ASSUME TypeInv, TypeInv', AllParts, Round \in 1..MaxRounds, Weighed, Settled,
         NEW w \in Mapper, MapperNext(w), MapData(w)
  PROVE  Weighed'
<1> DEFINE h == Head(down[w])
           line == h.body.line
<1>1. /\ UNCHANGED <<reducerVars, clientVars>>
      /\ w \in Worker /\ w \in Node /\ Receive(w) /\ reducer_count[w] > 0
      /\ h \in Message /\ Is(h, MAP_DATATYPE) /\ Current(h)
      /\ \A n \in Node : n # w =>
           /\ n \in Mapper => outbuff'[n] = outbuff[n]
           /\ n \in Reducer => BufferBefore(n)' = BufferBefore(n)
  BY MapperReads
<1>2. h \in Data(MAP_DATATYPE) /\ h \notin Data(RESULT_DATATYPE)
  BY <1>1 DEF MapData, Data, Is, MAP_DATATYPE, RESULT_DATATYPE
<1>3. /\ h.body.header = Round /\ line \in Seq(Items)
      /\ h.body.header \in 1..MaxRounds
  BY <1>1, <1>2, DataBodies DEF Current
<1>4. /\ reducers' = reducers /\ last_result' = last_result
      /\ round_' = round_ /\ Round' = Round
  BY <1>1 DEF clientVars, resultVars, firingVars, Round
<1>5. ASSUME NEW k \in Key
      PROVE  /\ Mark(k)[h] = 0 /\ Answering(k)[w] = 0
             /\ Answering(k)'[w] <= 0
  <2>1. Answering(k)[w] = 0
    BY AnsweringType
  <2>2. Answering(k)'[w] <= Answering(k)[w]
    BY <1>1, <1>4, AnswersFewer
  <2>3. QED  BY <1>1, <1>2, <2>1, <2>2 DEF Mark
<1>6. \A k \in Key : Answering(k)'[w] \in Nat
  BY <1>1, AnsweringNext DEF Counts
<1>7. \A x \in Items : /\ ShareOf(x)[h] = Occurs(line, x)
                      /\ Occurs(line, x) \in Nat
  BY <1>1, <1>2, <1>3, CountsAre, OccursType
<1> HIDE DEF h, line
<1>8. CASE Send(w, MapOutput(w, h.body.header, line)) /\ UNCHANGED outbuff
  <2> DEFINE out == MapOutput(w, h.body.header, line)
  <2>1. out \in Seq(Message)
    BY <1>1, <1>3, MapOutputType, SentAreMessages
      DEF TypeInv, TypeOK, MapperTypeOK
  <2>2. ASSUME NEW x \in Items
        PROVE  ShareOf(x)[h] + Held(x)[w] = Along(out, ShareOf(x)) + Held(x)'[w]
    <3>1. Held(x)'[w] = Held(x)[w]
      BY <1>1, <1>4, <1>8, Roles, HeldStays
    <3>2. Along(out, ShareOf(x)) = Occurs(line, x)
      BY <1>1, <1>3, MapOutputAmount
    <3>3. QED  BY <1>7, <3>1, <3>2
  <2>3. ASSUME NEW k \in Key
        PROVE  Along(out, Mark(k)) + Answering(k)'[w]
                 <= Mark(k)[h] + Answering(k)[w]
    <3>1. Along(out, Mark(k)) = 0
      <4>1. \A m \in ToSet(out) : m \notin Data(RESULT_DATATYPE)
        <5>1. \A j \in DOMAIN out : out[j].type = REDUCE_DATATYPE
          BY DEF MapOutput, ToReducer, Pub
        <5>2. QED
          BY <5>1 DEF ToSet, Data, Is, REDUCE_DATATYPE, RESULT_DATATYPE
      <4>2. \A m \in ToSet(out) : Mark(k)[m] = 0
        BY <2>1, <4>1, ToSetQueue DEF Mark
      <4>3. Mark(k) \in Counts(Message)
        BY DEF Mark, Counts
      <4>4. QED  BY <2>1, <4>2, <4>3, AlongSteps
    <3>2. QED  BY <1>5, <1>6, <3>1
  <2> HIDE DEF out
  <2>4. QED
    BY <1>1, <1>8, <2>1, <2>2, <2>3, WorkerWeighed DEF h, out
<1>9. CASE /\ up' = up
           /\ outbuff' = [outbuff EXCEPT ![w] =
                store_output(@, Pushed(h.body.header, line))]
  <2>1. Send(w, <<>>) /\ <<>> \in Seq(Message)
    BY <1>1, <1>9, NodeReads
  <2>2. ASSUME NEW x \in Items
        PROVE  ShareOf(x)[h] + Held(x)[w]
                 = Along(<<>>, ShareOf(x)) + Held(x)'[w]
    <3> DEFINE k == MapKey(Round, x)
               p == Pushed(h.body.header, line)
    <3>1. k \in Key /\ Held(x)[w] = outbuff[w][k][x]
      BY HeldType
    <3>2. Held(x)'[w] = outbuff'[w][k][x]
      BY <1>4, HeldAfter
    <3>3. /\ p[k][x] = Occurs(line, x) /\ outbuff \in [Mapper -> [Key -> Value]]
      BY <1>3, PushedAmount DEF TypeInv, TypeOK, MapperTypeOK
    <3>4. outbuff'[w][k][x] = outbuff[w][k][x] + p[k][x]
      <4>1. outbuff'[w] = store_output(outbuff[w], p)
        BY <1>9, <3>3
      <4> HIDE DEF p, k
      <4>2. QED  BY <3>1, <4>1 DEF store_output, Plus
    <3>5. Along(<<>>, ShareOf(x)) = 0
      BY NothingSent, NoShare
    <3>6. outbuff[w][k][x] \in Nat
      BY <3>1, <3>3 DEF Value
    <3> HIDE DEF k, p
    <3>7. QED  BY <1>7, <3>1, <3>2, <3>3, <3>4, <3>5, <3>6
  <2>3. ASSUME NEW k \in Key
        PROVE  Along(<<>>, Mark(k)) + Answering(k)'[w]
                 <= Mark(k)[h] + Answering(k)[w]
    <3>1. Along(<<>>, Mark(k)) = 0
      <4>1. Mark(k) \in Counts(Message)
        BY DEF Mark, Counts
      <4>2. QED  BY <4>1, NothingSent, AlongSteps
    <3>2. QED  BY <1>5, <1>6, <3>1
  <2>4. QED
    BY <1>1, <2>1, <2>2, <2>3, WorkerWeighed DEF h
<1>10. QED  BY <1>8, <1>9 DEF MapData, h, line

LEMMA FinishWeighed ==
  ASSUME TypeInv, TypeInv', AllParts, NoneKept, Round \in 1..MaxRounds,
         Weighed, Settled, NEW w \in Mapper, MapperNext(w), finish_round(w)
  PROVE  Weighed'
<1> DEFINE h == Head(down[w])
           out == flush_output(w) \o MarkersToReducers(w)
<1>1. /\ UNCHANGED <<reducerVars, clientVars>>
      /\ w \in Worker /\ w \in Node /\ Receive(w)
      /\ mState[w] # "EXPECT_CODE" /\ reducer_count[w] > 0
      /\ h \in Message /\ Is(h, MAP_DATATYPE)
      /\ \A n \in Node : n # w =>
           /\ n \in Mapper => outbuff'[n] = outbuff[n]
           /\ n \in Reducer => BufferBefore(n)' = BufferBefore(n)
  BY MapperReads
<1>2. \A t \in DataTypes : h \notin Data(t)
  BY DEF finish_round, Data
<1>3. /\ flush_output(w) \in Seq(Message)
      /\ MarkersToReducers(w) \in Seq(Message)
      /\ out \in Seq(Message)
  BY <1>1, FlushType, MarkersType, SentAreMessages, Together
    DEF TypeInv, TypeOK, MapperTypeOK
<1>4. Sorted(outbuff[w])
  BY DEF AllParts, HoldsPairs
<1>5. /\ Send(w, out) /\ outbuff' = [outbuff EXCEPT ![w] = NoPairs]
      /\ outbuff \in [Mapper -> [Key -> Value]]
  BY DEF finish_round, TypeInv, TypeOK, MapperTypeOK
<1>6. /\ reducers' = reducers /\ last_result' = last_result
      /\ round_' = round_ /\ Round' = Round
  BY <1>1 DEF clientVars, resultVars, firingVars, Round
<1> HIDE DEF h
<1>7. ASSUME NEW x \in Items
      PROVE  ShareOf(x)[h] + Held(x)[w] = Along(out, ShareOf(x)) + Held(x)'[w]
  <2> DEFINE k == MapKey(Round, x)
             a == Along(flush_output(w), ShareOf(x))
             b == Along(MarkersToReducers(w), ShareOf(x))
  <2>1. ShareOf(x)[h] = 0
    BY <1>1, <1>2, NotCounted
  <2>2. k \in Key /\ Held(x)[w] = outbuff[w][k][x]
    BY HeldType
  <2>3. Held(x)'[w] = 0
    <3>1. Held(x)'[w] = outbuff'[w][k][x]
      BY <1>6, HeldAfter
    <3>2. outbuff'[w] = NoPairs
      BY <1>5
    <3> HIDE DEF k
    <3>3. QED  BY <2>2, <3>1, <3>2 DEF NoPairs, Zero
  <2>4. a = outbuff[w][k][x] /\ b = 0
    BY <1>1, <1>4, FlushAmount, MarkersAmount
  <2>5. Along(out, ShareOf(x)) = a + b
    BY <1>3, CountsAre, AlongSteps
  <2>6. a \in Nat
    BY <1>3, CountsAre, AlongSteps
  <2> HIDE DEF k, a, b, out
  <2>7. QED  BY <2>1, <2>2, <2>3, <2>4, <2>5, <2>6
<1>8. ASSUME NEW k \in Key
      PROVE  Along(out, Mark(k)) + Answering(k)'[w]
               <= Mark(k)[h] + Answering(k)[w]
  <2> DEFINE c == Answering(k)'[w]
  <2>1. Mark(k)[h] = 0
    BY <1>1, <1>2 DEF Mark, DataTypes
  <2>2. Mark(k) \in Counts(Message)
    BY DEF Mark, Counts
  <2>3. Along(out, Mark(k)) = 0
    <3>1. \A m \in ToSet(out) : m.type = REDUCE_DATATYPE
      <4>1. \A i \in DOMAIN flush_output(w) :
              flush_output(w)[i].type = REDUCE_DATATYPE
        BY DEF flush_output, ToReducer, Pub
      <4>2. \A i \in DOMAIN MarkersToReducers(w) :
              MarkersToReducers(w)[i].type = REDUCE_DATATYPE
        BY DEF MarkersToReducers, Pub
      <4>3. ToSet(out) = ToSet(flush_output(w)) \cup ToSet(MarkersToReducers(w))
        BY <1>3, Together
      <4>4. QED  BY <4>1, <4>2, <4>3 DEF ToSet
    <3>2. \A m \in ToSet(out) : m \notin Data(RESULT_DATATYPE)
      BY <3>1 DEF Data, Is, REDUCE_DATATYPE, RESULT_DATATYPE
    <3>3. \A m \in ToSet(out) : Mark(k)[m] = 0
      BY <1>3, <3>2, ToSetQueue DEF Mark
    <3>4. QED  BY <1>3, <2>2, <3>3, AlongSteps
  <2>4. c \in Nat /\ c <= Answering(k)[w] /\ Answering(k)[w] = 0
    BY <1>1, <1>6, AnswersFewer, AnsweringType DEF Counts
  <2> HIDE DEF c, out
  <2>5. QED  BY <2>1, <2>3, <2>4 DEF c
<1>9. QED  BY <1>1, <1>3, <1>5, <1>7, <1>8, WorkerWeighed DEF h

(* A reducer adds a pair to those of its key, counts a marker, or sends    *)
(* the sums and is through.                                                *)
LEMMA ReducerReads ==
  ASSUME TypeInv, TypeInv', AllParts, NEW v \in Reducer, ReducerNext(v),
         TakesReduceData(v),
         data_buff' = [data_buff EXCEPT ![v] = data_buff'[v]],
         rState' = [rState EXCEPT ![v] = rState'[v]]
  PROVE  /\ UNCHANGED <<mapperVars, clientVars>>
         /\ v \in Worker /\ v \in Node /\ Receive(v)
         /\ Head(down[v]) \in Message
         /\ Is(Head(down[v]), REDUCE_DATATYPE) /\ Current(Head(down[v]))
         /\ BufferBefore(v) \in [Key -> Value]
         /\ Sorted(BufferBefore(v)) /\ LeadsTo(v, BufferBefore(v))
         /\ \A n \in Node : n # v =>
              /\ n \in Mapper => outbuff'[n] = outbuff[n]
              /\ n \in Reducer => BufferBefore(n)' = BufferBefore(n)
<1>1. /\ UNCHANGED <<mapperVars, clientVars>>
      /\ v \in Worker /\ v \in Node /\ Receive(v)
      /\ Head(down[v]).type = REDUCE_DATATYPE /\ rState[v] # "EXPECT_CODE"
  BY Roles DEF ReducerNext, TakesReduceData, TakesData, Worker
<1>2. /\ data_buff \in [Reducer -> [Key -> Value]]
      /\ rState \in [Reducer -> State]
  BY DEF TypeInv, TypeOK, ReducerTypeOK
<1>3. /\ Head(down[v]) \in Message /\ Is(Head(down[v]), REDUCE_DATATYPE)
      /\ Current(Head(down[v]))
  BY <1>1, NodeHead DEF Is, AllParts, PartsOf
<1>4. \A n \in Reducer : n # v => BufferBefore(n)' = BufferBefore(n)
  BY <1>2 DEF BufferBefore
<1>5. outbuff' = outbuff
  BY <1>1 DEF mapperVars
<1>6. BufferBefore(v) \in [Key -> Value]
  BY <1>2, ValueTypes DEF BufferBefore
<1>7. Sorted(BufferBefore(v)) /\ LeadsTo(v, BufferBefore(v))
  <2>1. CASE rState[v] = "WAIT_NEXT"
    BY <2>1, EmptyOfRound DEF BufferBefore
  <2>2. CASE rState[v] = "EXPECT_DATA"
    BY <2>2 DEF BufferBefore, AllParts, BuffersPairs
  <2>3. QED  BY <1>1, <1>2, <2>1, <2>2 DEF State
<1>8. QED  BY <1>1, <1>3, <1>4, <1>5, <1>6, <1>7

LEMMA ReduceDataWeighed ==
  ASSUME TypeInv, TypeInv', AllParts, Round \in 1..MaxRounds, Weighed, Settled,
         NEW v \in Reducer, ReducerNext(v), ReduceData(v)
  PROVE  Weighed'
<1> DEFINE h == Head(down[v])
           key == h.body.key
           value == h.body.value
           buff == BufferBefore(v)
<1>1. /\ data_buff' = [data_buff EXCEPT ![v] =
           [buff EXCEPT ![key] = Plus(@, value)]]
      /\ rState' = [rState EXCEPT ![v] = "EXPECT_DATA"] /\ up' = up
      /\ TakesReduceData(v) /\ ~h.body.end
      /\ data_buff \in [Reducer -> [Key -> Value]]
      /\ rState \in [Reducer -> State]
  BY DEF ReduceData, TypeInv, TypeOK, ReducerTypeOK
<1>2. /\ data_buff'[v] = [buff EXCEPT ![key] = Plus(@, value)]
      /\ rState'[v] = "EXPECT_DATA"
      /\ data_buff' = [data_buff EXCEPT ![v] = data_buff'[v]]
      /\ rState' = [rState EXCEPT ![v] = rState'[v]]
  BY <1>1
<1>3. /\ UNCHANGED <<mapperVars, clientVars>>
      /\ v \in Worker /\ v \in Node /\ Receive(v) /\ h \in Message
      /\ Is(h, REDUCE_DATATYPE) /\ Current(h) /\ buff \in [Key -> Value]
      /\ \A n \in Node : n # v =>
           /\ n \in Mapper => outbuff'[n] = outbuff[n]
           /\ n \in Reducer => BufferBefore(n)' = BufferBefore(n)
  BY <1>1, <1>2, ReducerReads
<1>4. h \in Data(REDUCE_DATATYPE) /\ h \notin Data(RESULT_DATATYPE)
  BY <1>1, <1>3 DEF Data, Is, REDUCE_DATATYPE, RESULT_DATATYPE
<1>5. key \in Key /\ value \in Value /\ Mapped(key, value)
  BY <1>4, <1>3, DataBodies DEF Current
<1>6. /\ reducers' = reducers /\ last_result' = last_result
      /\ round_' = round_ /\ Round' = Round
  BY <1>3 DEF clientVars, resultVars, firingVars, Round
<1>7. \A x \in Items : ShareOf(x)[h] = value[x]
  BY <1>3, <1>4, CountsAre
<1>8. Send(v, <<>>) /\ <<>> \in Seq(Message)
  BY <1>1, <1>3, NodeReads
<1> HIDE DEF h, key, value, buff
<1>9. ASSUME NEW x \in Items
      PROVE  ShareOf(x)[h] + Held(x)[v] = Along(<<>>, ShareOf(x)) + Held(x)'[v]
  <2> DEFINE k == MapKey(Round, x)
  <2>1. k \in Key /\ Held(x)[v] = buff[k][x]
    BY HeldType DEF buff
  <2>2. Held(x)'[v] = data_buff'[v][k][x]
    <3>1. BufferBefore(v)' = data_buff'[v]
      BY <1>2 DEF BufferBefore
    <3>2. QED  BY <1>6, <3>1, HeldAfter
  <2>3. Along(<<>>, ShareOf(x)) = 0
    BY NothingSent, NoShare
  <2>4. value[x] \in Nat /\ buff[k][x] \in Nat
    BY <1>3, <1>5, <2>1 DEF Value
  <2>5. key # k => value[x] = 0
    BY <1>5 DEF Mapped
  <2> HIDE DEF k
  <2>6. data_buff'[v][k][x] = buff[k][x] + value[x]
    BY <1>2, <1>3, <2>1, <2>4, <2>5 DEF Plus
  <2>7. QED  BY <1>7, <2>1, <2>2, <2>3, <2>4, <2>6
<1>10. ASSUME NEW k \in Key
       PROVE  Along(<<>>, Mark(k)) + Answering(k)'[v]
                <= Mark(k)[h] + Answering(k)[v]
  <2> DEFINE a == Answering(k)'[v]
             b == Answering(k)[v]
  <2>1. Mark(k)[h] = 0
    BY <1>3, <1>4 DEF Mark
  <2>2. Along(<<>>, Mark(k)) = 0
    <3>1. Mark(k) \in Counts(Message)
      BY DEF Mark, Counts
    <3>2. QED  BY <3>1, NothingSent, AlongSteps
  <2>3. a \in Nat /\ b \in Nat /\ a <= b
    BY <1>3, <1>6, AnswersFewer DEF Counts
  <2>4. QED  BY <2>1, <2>2, <2>3
<1>11. QED
  BY <1>3, <1>8, <1>9, <1>10, WorkerWeighed DEF h

LEMMA MoreMappersWeighed ==
  ASSUME TypeInv, TypeInv', AllParts, Round \in 1..MaxRounds, Weighed, Settled,
         NEW v \in Reducer, ReducerNext(v), MoreMappers(v)
  PROVE  Weighed'
<1>1. /\ data_buff' = [data_buff EXCEPT ![v] = BufferBefore(v)]
      /\ rState' = [rState EXCEPT ![v] = "EXPECT_DATA"] /\ up' = up
      /\ TakesReduceData(v) /\ Head(down[v]).body.end
      /\ data_buff \in [Reducer -> [Key -> Value]]
      /\ rState \in [Reducer -> State]
  BY DEF MoreMappers, MapperDone, TypeInv, TypeOK, ReducerTypeOK
<1>2. /\ data_buff'[v] = BufferBefore(v) /\ rState'[v] = "EXPECT_DATA"
      /\ data_buff' = [data_buff EXCEPT ![v] = data_buff'[v]]
      /\ rState' = [rState EXCEPT ![v] = rState'[v]]
  BY <1>1
<1>3. /\ UNCHANGED <<mapperVars, clientVars>>
      /\ v \in Worker /\ v \in Node /\ Receive(v)
      /\ \A n \in Node : n # v =>
           /\ n \in Mapper => outbuff'[n] = outbuff[n]
           /\ n \in Reducer => BufferBefore(n)' = BufferBefore(n)
  BY <1>1, <1>2, ReducerReads
<1>4. BufferBefore(v)' = BufferBefore(v)
  BY <1>2 DEF BufferBefore
<1>5. outbuff' = outbuff /\ \A n \in Reducer : n \in Node
  BY <1>3, Roles DEF mapperVars
<1>6. Send(v, <<>>)
  BY <1>1, <1>3, NodeReads
<1>7. \A t \in DataTypes : Head(down[v]) \notin Data(t)
  BY <1>1 DEF Data
<1>8. QED  BY <1>3, <1>4, <1>5, <1>6, <1>7, NothingSent, WorkerIdle

LEMMA ProcessWeighed ==
  ASSUME TypeInv, TypeInv', Sane, AllParts, Accounts, Round \in 1..MaxRounds,
         Weighed, NEW v \in Reducer, ReducerNext(v), start_process(v)
  PROVE  Weighed'
<1> DEFINE h == Head(down[v])
           buff == BufferBefore(v)
           p == ReduceOutput(buff)
           e == <<Pub(RESULT_DATATYPE, NoDst, EndOfRound)>>
           out == p \o e
<1>1. /\ data_buff' = [data_buff EXCEPT ![v] = buff]
      /\ rState' = [rState EXCEPT ![v] = "WAIT_NEXT"] /\ Send(v, out)
      /\ TakesReduceData(v) /\ h.body.end
      /\ data_buff \in [Reducer -> [Key -> Value]]
      /\ rState \in [Reducer -> State]
  BY DEF start_process, MapperDone, OutputThenMarker, TypeInv, TypeOK,
    ReducerTypeOK
<1>2. /\ data_buff'[v] = buff /\ rState'[v] = "WAIT_NEXT"
      /\ data_buff' = [data_buff EXCEPT ![v] = data_buff'[v]]
      /\ rState' = [rState EXCEPT ![v] = rState'[v]]
  BY <1>1
<1>3. /\ UNCHANGED <<mapperVars, clientVars>>
      /\ v \in Worker /\ v \in Node /\ Receive(v) /\ h \in Message
      /\ buff \in [Key -> Value] /\ Sorted(buff) /\ LeadsTo(v, buff)
      /\ \A n \in Node : n # v =>
           /\ n \in Mapper => outbuff'[n] = outbuff[n]
           /\ n \in Reducer => BufferBefore(n)' = BufferBefore(n)
  BY <1>1, <1>2, ReducerReads
<1>4. /\ Settled /\ Expected(v)' = 0 /\ v \in reducers /\ Expected(v) # 0
  BY <1>1, StartProcessAccounts, StillExpecting
<1>5. /\ reducers' = reducers /\ last_result' = last_result
      /\ round_' = round_ /\ Round' = Round
  BY <1>3 DEF clientVars, resultVars, firingVars, Round
<1>6. \A t \in DataTypes : h \notin Data(t)
  BY <1>1 DEF Data
<1>7. /\ p \in Seq(Message) /\ e \in Seq(Message) /\ out \in Seq(Message)
      /\ \A m \in ToSet(e) : \A t \in DataTypes : m \notin Data(t)
  <2>1. p \in Seq(Message) /\ out \in Seq(Message)
    BY <1>3, ReduceOutputType, OutputThenMarkerType, SentAreMessages
      DEF OutputThenMarker
  <2>2. Pub(RESULT_DATATYPE, NoDst, EndOfRound) \in Message
    BY PubTypes DEF Message
  <2>3. \A m \in ToSet(e) : m.body.end
    BY DEF ToSet, Pub, EndOfRound
  <2>4. QED  BY <2>1, <2>2, <2>3 DEF Data
<1> HIDE DEF h, buff, p, e
<1>8. ASSUME NEW x \in Items
      PROVE  ShareOf(x)[h] + Held(x)[v] = Along(out, ShareOf(x)) + Held(x)'[v]
  <2> DEFINE k == MapKey(Round, x)
             a == Along(p, ShareOf(x))
             b == Along(e, ShareOf(x))
  <2>1. ShareOf(x)[h] = 0
    BY <1>3, <1>6, NotCounted
  <2>2. k \in Key /\ Held(x)[v] = buff[k][x]
    BY HeldType DEF buff
  <2>3. Held(x)'[v] = 0
    <3>1. BufferBefore(v)' = NoPairs
      BY <1>2 DEF BufferBefore
    <3>2. Held(x)'[v] = NoPairs[k][x]
      BY <1>5, <3>1, HeldAfter
    <3> HIDE DEF k
    <3>3. QED  BY <2>2, <3>2 DEF NoPairs, Zero
  <2>4. a = buff[k][x]
    BY <1>3, OutputAmount DEF p
  <2>5. b = 0
    BY <1>7, NoShare
  <2>6. Along(out, ShareOf(x)) = a + b /\ a \in Nat
    BY <1>7, CountsAre, AlongSteps
  <2> HIDE DEF k, a, b, out
  <2>7. QED  BY <2>1, <2>2, <2>3, <2>4, <2>5, <2>6
<1>9. ASSUME NEW k \in Key
      PROVE  Along(out, Mark(k)) + Answering(k)'[v]
               <= Mark(k)[h] + Answering(k)[v]
  <2> DEFINE a == Along(p, Mark(k))
             b == Along(e, Mark(k))
  <2>1. Mark(k)[h] = 0 /\ Mark(k) \in Counts(Message)
    BY <1>3, <1>6 DEF Mark, DataTypes, Counts
  <2>2. a = IF buff[k] # Zero THEN 1 ELSE 0
    BY <1>3, OutputMarks DEF p
  <2>3. b = 0
    <3>1. \A m \in ToSet(e) : Mark(k)[m] = 0
      BY <1>7, ToSetQueue DEF Mark, DataTypes
    <3>2. QED  BY <1>7, <2>1, <3>1, AlongSteps
  <2>4. Along(out, Mark(k)) = a + b
    BY <1>7, <2>1, AlongSteps
  <2>5. Answering(k)'[v] = 0
    <3>1. Answering(k)'[v] = IF MayAnswer(v, k)' THEN 1 ELSE 0
      BY <1>3, Roles DEF Answering
    <3>2. QED  BY <1>4, <3>1 DEF MayAnswer
  <2>6. Answering(k)[v] = IF v[2] = DestOf(k) THEN 1 ELSE 0
    BY <1>3, <1>4, AnsweringType DEF MayAnswer
  <2>7. buff[k] # Zero => v[2] = DestOf(k)
    BY <1>3 DEF LeadsTo
  <2> HIDE DEF a, b, out
  <2>8. QED  BY <2>1, <2>2, <2>3, <2>4, <2>5, <2>6, <2>7
<1>10. QED
  BY <1>1, <1>3, <1>4, <1>7, <1>8, <1>9, WorkerWeighed DEF h
-----------------------------------------------------------------------------
(* The client collects results.                                            *)
LEMMA PairTaken ==
  ASSUME TypeInv, AllParts, ClientNext, HandlePair
  PROVE  LET h == Head(down[Client])
         IN /\ UNCHANGED <<mapperVars, reducerVars>>
            /\ Receive(Client) /\ Send(Client, <<>>)
            /\ mappers' = mappers /\ reducers' = reducers /\ round_' = round_
            /\ h \in Message /\ h \in Data(RESULT_DATATYPE)
            /\ h.body.key \in Key /\ Result(h.body.key, h.body.value)
            /\ h.body.value \in Value
            /\ last_result' = [last_result EXCEPT ![h.body.key] =
                                 Append(@, h.body.value)]
<1> DEFINE h == Head(down[Client])
<1>1. /\ UNCHANGED <<mapperVars, reducerVars>> /\ round_' = round_ /\ up' = up
      /\ TakesResult /\ ~h.body.end
      /\ last_result' = [last_result EXCEPT ![h.body.key] =
                           Append(@, h.body.value)]
  BY DEF ClientNext, HandlePair
<1>2. /\ Client \in Node /\ Receive(Client) /\ mappers' = mappers
      /\ reducers' = reducers /\ h \in Message /\ Is(h, RESULT_DATATYPE)
  BY <1>1, ResultTaken
<1>3. h \in Data(RESULT_DATATYPE)
  BY <1>1, <1>2 DEF Data
<1>4. Current(h)
  BY <1>2, NodeHead DEF AllParts, PartsOf
<1>5. Send(Client, <<>>)
  BY <1>1, <1>2, NodeReads
<1>6. /\ h.body.key \in Key /\ h.body.value \in Value
      /\ Result(h.body.key, h.body.value)
  BY <1>3, <1>4, DataBodies DEF Current, Result
<1>7. QED  BY <1>1, <1>2, <1>3, <1>5, <1>6

LEMMA PairWeighed ==
  ASSUME TypeInv, TypeInv', AllParts, Round \in 1..MaxRounds, Weighed, Settled,
         ClientNext, HandlePair
  PROVE  Weighed'
<1> DEFINE h == Head(down[Client])
           key == h.body.key
           value == h.body.value
<1>1. /\ UNCHANGED <<mapperVars, reducerVars>>
      /\ Receive(Client) /\ Send(Client, <<>>)
      /\ mappers' = mappers /\ reducers' = reducers /\ round_' = round_
      /\ h \in Message /\ h \in Data(RESULT_DATATYPE)
      /\ key \in Key /\ Result(key, value) /\ value \in Value
      /\ last_result' = [last_result EXCEPT ![key] = Append(@, value)]
  BY PairTaken
<1>2. /\ outbuff' = outbuff /\ \A v : BufferBefore(v)' = BufferBefore(v)
      /\ Round' = Round
  BY <1>1 DEF mapperVars, reducerVars, BufferBefore, Round
<1>3. last_result \in [Key -> Seq(Value)] /\ Client \in Node
  BY Roles DEF TypeInv, TypeOK, ClientTypeOK
<1>4. \A x \in Items : ShareOf(x)[h] = value[x] /\ ShareOf(x)[h] \in Nat
  BY <1>1, CountsAre DEF Value
<1>5. \A k \in Key : Mark(k)[h] = IF key = k THEN 1 ELSE 0
  BY <1>1 DEF Mark
<1> HIDE DEF h, key, value
<1>6. ResultsMapped'
  <2> SUFFICES ASSUME NEW k \in Key, NEW i \in DOMAIN last_result'[k]
               PROVE  Result(k, last_result'[k][i])
    BY <1>2 DEF ResultsMapped, Result, Mapped
  <2>1. \A j \in DOMAIN last_result[k] : Result(k, last_result[k][j])
    BY DEF Weighed, ResultsMapped
  <2>2. CASE k # key
    BY <1>1, <1>3, <2>1, <2>2
  <2>3. CASE k = key
    <3>1. last_result'[k] = Append(last_result[k], value)
      BY <1>1, <1>3, <2>3
    <3>2. \/ i \in DOMAIN last_result[k]
             /\ last_result'[k][i] = last_result[k][i]
          \/ last_result'[k][i] = value
      BY <1>1, <1>3, <3>1
    <3>3. QED  BY <1>1, <2>1, <2>3, <3>2
  <2>4. QED  BY <2>2, <2>3
<1>7. ASSUME NEW k \in Key
      PROVE  Total(Tickets(k))' <= 1
  <2> DEFINE H == Answering(k)
             G == Answering(k)'
  <2>1. /\ H \in Counts(Node) /\ G \in Counts(Node)
        /\ \A n \in Node : n # Client => G[n] <= H[n]
    BY <1>1, AnswersFewer
  <2>2. Mark(k) \in Counts(Message)
    BY DEF Mark, Counts
  <2>3. Along(<<>>, Mark(k)) = 0
    BY <2>2, NothingSent, AlongSteps
  <2>4. /\ H[Client] = Len(last_result[k]) /\ G[Client] = Len(last_result'[k])
        /\ Len(last_result[k]) \in Nat
    BY <1>3 DEF Answering
  <2>5. Len(last_result'[k])
          = Len(last_result[k]) + (IF key = k THEN 1 ELSE 0)
    <3>1. last_result'[k] = IF key = k THEN Append(last_result[k], value)
                                       ELSE last_result[k]
      BY <1>1, <1>3
    <3>2. last_result[k] \in Seq(Value)
      BY <1>3
    <3>3. /\ Len(Append(last_result[k], value)) = Len(last_result[k]) + 1
          /\ Len(last_result[k]) = Len(last_result[k]) + 0
      BY <3>2
    <3>4. QED  BY <3>1, <3>3
  <2>6. Along(<<>>, Mark(k)) + G[Client] <= Mark(k)[h] + H[Client]
    <3> DEFINE a == Along(<<>>, Mark(k))  b == G[Client]
               c == Mark(k)[h]  d == H[Client]  f == Len(last_result[k])
    <3>1. /\ a = 0 /\ c = (IF key = k THEN 1 ELSE 0) /\ d = f /\ f \in Nat
          /\ b = f + (IF key = k THEN 1 ELSE 0)
      BY <1>5, <2>3, <2>4, <2>5
    <3> HIDE DEF a, b, c, d, f
    <3>2. a + b <= c + d
      BY <3>1
    <3>3. QED  BY <3>2 DEF a, b, c, d
  <2>7. Total(Weight(up, down, Mark(k), H)) <= 1
    BY DEF Weighed, OneAnswer, Tickets
  <2>8. Total(Tickets(k))' = Total(Weight(up', down', Mark(k), G))
    BY DEF Tickets
  <2>9. /\ up \in [Node -> Seq(Message)] /\ up' \in [Node -> Seq(Message)]
        /\ down \in [Node -> Seq(Publication)]
        /\ down' \in [Node -> Seq(Publication)]
    BY DEF TypeInv, TypeOK
  <2> HIDE DEF H, G
  <2>10. Total(Weight(up', down', Mark(k), G))
           <= Total(Weight(up, down, Mark(k), H))
    BY <1>1, <1>3, <2>1, <2>2, <2>6, NothingSent, NodeGainsNone DEF h
  <2>11. /\ Total(Weight(up, down, Mark(k), H)) \in Nat
         /\ Total(Weight(up', down', Mark(k), G)) \in Nat
    BY <2>1, <2>2, <2>9, WeightType, NodesFinite, TotalType
  <2>12. QED  BY <2>7, <2>8, <2>10, <2>11
<1>8. ASSUME NoneLost', NEW x \in Items
      PROVE  Total(Load(x))' = Occurrences(x)
  <2> DEFINE H == Held(x)
             G == Held(x)'
             k == MapKey(Round, x)
             f == ValueAt(x)
  <2>1. H \in Counts(Node) /\ G \in Counts(Node)
    BY <1>2, HeldType, HeldNext
  <2>2. \A n \in Node : n # Client => G[n] = H[n]
    BY <1>2, HeldStays
  <2>3. ShareOf(x) \in Counts(Message) /\ f \in Counts(Value)
    BY CountsAre
  <2>4. /\ k \in Key /\ H[Client] = Along(last_result[k], f)
        /\ G[Client] = Along(last_result'[k], f)
    BY <1>2, HeldType, HeldAfter
  <2>5. /\ Along(last_result'[k], f) = Along(last_result[k], f) + value[x]
        /\ Along(last_result[k], f) \in Nat
    <3>1. f[value] = value[x] /\ last_result[k] \in Seq(Value)
      BY <1>1, <1>3, <2>4 DEF ValueAt
    <3>2. /\ Along(Append(last_result[k], value), f)
               = Along(last_result[k], f) + value[x]
          /\ Along(last_result[k], f) \in Nat
      BY <1>1, <2>3, <3>1, AlongSteps
    <3>3. CASE key = k
      BY <1>1, <1>3, <2>4, <3>2, <3>3
    <3>4. CASE key # k
      <4>1. value[x] = 0
        BY <1>1, <3>4 DEF Result, Mapped
      <4>2. last_result'[k] = last_result[k]
        BY <1>1, <1>3, <2>4, <3>4
      <4>3. QED  BY <3>2, <4>1, <4>2
    <3>5. QED  BY <3>3, <3>4
  <2>6. Along(<<>>, ShareOf(x)) = 0
    BY NothingSent, NoShare
  <2> HIDE DEF f, k
  <2>7. ShareOf(x)[h] + H[Client] = Along(<<>>, ShareOf(x)) + G[Client]
    <3> DEFINE a == Along(last_result[k], f)  b == value[x]
               c == ShareOf(x)[h]  d == Along(<<>>, ShareOf(x))
               q == H[Client]  r == G[Client]
    <3>1. a \in Nat /\ c \in Nat /\ c = b /\ d = 0 /\ q = a /\ r = a + b
      BY <1>4, <2>4, <2>5, <2>6
    <3> HIDE DEF a, b, c, d, q, r
    <3>2. c + q = d + r
      BY <3>1
    <3>3. QED  BY <3>2 DEF c, d, q, r
  <2>8. NoneLost
    BY <1>1, <1>8 DEF NoneLost, NumberedFrom0
  <2>9. Total(Weight(up, down, ShareOf(x), H)) = Occurrences(x)
    BY <2>8 DEF Weighed, Balanced, Load
  <2>10. Total(Load(x))' = Total(Weight(up', down', ShareOf(x), G))
    BY DEF Load
  <2> HIDE DEF H, G
  <2>11. Total(Weight(up', down', ShareOf(x), G))
           = Total(Weight(up, down, ShareOf(x), H))
    <3> DEFINE g == ShareOf(x)
    <3>1. Receive(Client) /\ Send(Client, <<>>) /\ <<>> \in Seq(Message)
      BY <1>1, NothingSent
    <3>2. g \in Counts(Message) /\ Client \in Node
      BY <1>3, <2>3
    <3>3. g[Head(down[Client])] + H[Client] = Along(<<>>, g) + G[Client]
      BY <2>7 DEF h
    <3> HIDE DEF g
    <3>4. Total(Weight(up', down', g, G)) = Total(Weight(up, down, g, H))
      BY <2>1, <2>2, <3>1, <3>2, <3>3, NodeBalance
    <3>5. QED  BY <3>4 DEF g
  <2>12. QED  BY <2>9, <2>10, <2>11
<1>9. OneAnswer'
  BY <1>7 DEF OneAnswer
<1>10. NoneLost' => Balanced'
  BY <1>8 DEF Balanced, Occurrences
<1>11. QED  BY <1>6, <1>9, <1>10 DEF Weighed

LEMMA MoreReducersWeighed ==
  ASSUME TypeInv, TypeInv', Round \in 1..MaxRounds, Weighed, Settled,
         ClientNext, MoreReducers
  PROVE  Weighed'
<1>1. /\ UNCHANGED <<mapperVars, reducerVars>> /\ up' = up
      /\ TakesResult /\ Head(down[Client]).body.end
      /\ round_' = round_ /\ last_result' = last_result
  BY DEF ClientNext, MoreReducers, ReducerDone
<1>2. Client \in Node /\ Receive(Client) /\ SameAnswers
  BY <1>1, ResultTaken DEF SameAnswers
<1>3. Send(Client, <<>>)
  BY <1>1, <1>2, NodeReads
<1>4. outbuff' = outbuff /\ \A v : BufferBefore(v)' = BufferBefore(v)
  BY <1>1 DEF mapperVars, reducerVars, BufferBefore
<1>5. \A t \in DataTypes : Head(down[Client]) \notin Data(t)
  BY <1>1 DEF Data
<1>6. QED  BY <1>2, <1>3, <1>4, <1>5, NothingSent, NodeIdle
-----------------------------------------------------------------------------
(* A round starts with the file on its way to the mappers, and nothing     *)
(* anywhere else.                                                          *)
LEMMA BurstAmount ==
  ASSUME mappers \in SUBSET Mapper, NEW h \in 1..MaxRounds,
         NEW lines \in Seq(Seq(Items)), mappers = {} => lines = <<>>,
         NEW x \in Items
  PROVE  Along(DataBurst(mappers, lines, h), ShareOf(x))
           = Along(lines, InLine(x))
<1> DEFINE p == BurstLines(mappers, lines, h)
           q == BurstEnds(mappers)
           g == ShareOf(x)
<1>1. /\ DataBurst(mappers, lines, h) = p \o q
      /\ p \in Seq(Message) /\ q \in Seq(Message)
      /\ \A m \in ToSet(p) : m \in Data(MAP_DATATYPE)
      /\ \A m \in ToSet(q) : m \in Ends(MAP_DATATYPE)
  BY BurstForm
<1>2. Along(q, g) = 0
  <2>1. \A m \in ToSet(q) : \A t \in DataTypes : m \notin Data(t)
    BY <1>1 DEF Ends, Data
  <2>2. QED  BY <1>1, <2>1, NoShare
<1>3. DOMAIN p = DOMAIN lines /\ \A i \in DOMAIN p : p[i].body.line = lines[i]
  BY DEF BurstLines, Pub, LineOf
<1>4. g \in Counts(Message)
  BY CountsAre
<1>5. ASSUME NEW i \in DOMAIN p
      PROVE  g[p[i]] = InLine(x)[lines[i]]
  <2>1. p[i] \in Data(MAP_DATATYPE) /\ p[i] \in Message
    BY <1>1 DEF ToSet, Data
  <2>2. lines[i] \in Seq(Items)
    BY <1>3
  <2>3. g[p[i]] = Occurs(p[i].body.line, x)
    BY <2>1, CountsAre
  <2>4. p[i].body.line = lines[i]
    BY <1>3
  <2> HIDE DEF p, g
  <2>5. QED  BY <2>2, <2>3, <2>4 DEF InLine
<1> HIDE DEF p, q, g
<1>6. Along(p, g) = Along(lines, InLine(x))
  BY <1>3, <1>5, AlongSame, SMTT(30)
<1>7. Along(p, g) \in Nat /\ Along(p \o q, g) = Along(p, g) + Along(q, g)
  BY <1>1, <1>4, AlongSteps
<1>8. Along(p \o q, g) = Along(p, g)
  BY <1>2, <1>7
<1>9. QED  BY <1>1, <1>6, <1>8 DEF g

LEMMA FreshWeighed ==
  ASSUME TypeInv', Round' \in 1..MaxRounds, Dealt', last_result' = NoResult,
         NEW r \in Seq(Message), NEW b \in Seq(Message),
         up'[Client] = r \o b,
         \A m \in ToSet(r) : \A t \in DataTypes : m \notin Data(t),
         \A m \in ToSet(b) : m \notin Data(RESULT_DATATYPE),
         \A x \in Items :
           Along(b, ShareOf(x)) = Along(mappers_data', InLine(x)),
         \A n \in Node : n # Client =>
           \A m \in ToSet(up'[n]) : \A t \in DataTypes : m \notin Data(t),
         \A n \in Node :
           \A m \in ToSet(down'[n]) : \A t \in DataTypes : m \notin Data(t),
         \A w \in Mapper : outbuff'[w] = NoPairs,
         \A v \in Reducer : BufferBefore(v)' = NoPairs
  PROVE  Weighed'
<1>1. /\ up' \in [Node -> Seq(Message)] /\ down' \in [Node -> Seq(Publication)]
      /\ reducers' \subseteq Reducer /\ mappers_data' \in Seq(Seq(Items))
  BY DEF TypeInv, TypeOK, ClientTypeOK
<1>2. /\ Client \in Node /\ Mapper \cap Reducer = {}
      /\ \A w \in Worker : w # Client
  BY Roles
<1>3. \A n \in Node : down'[n] \in Seq(Message) /\ up'[n] \in Seq(Message)
  <2>1. Publication \in SUBSET Message
    BY DEF Message
  <2>2. QED  BY <1>1, <2>1, SeqMonotone
<1>4. ResultsMapped'
  BY DEF ResultsMapped, NoResult
<1>5. ASSUME NEW k \in Key
      PROVE  Total(Tickets(k))' <= 1
  <2> DEFINE g == Mark(k)
             T == Tickets(k)'
             G == Answering(k)'
  <2>1. G \in Counts(Node) /\ g \in Counts(Message)
    BY AnsweringNext DEF Mark, Counts
  <2>2. ASSUME NEW n \in Node
        PROVE  Along(up'[n], g) = 0 /\ Along(down'[n], g) = 0
    <3>1. \A m \in ToSet(up'[n]) : m \notin Data(RESULT_DATATYPE)
      <4>1. ToSet(up'[Client]) = ToSet(r) \cup ToSet(b)
        BY Together
      <4>2. CASE n = Client
        BY <4>1, <4>2 DEF DataTypes
      <4>3. CASE n # Client
        BY <4>3 DEF DataTypes
      <4>4. QED  BY <4>2, <4>3
    <3>2. \A m \in ToSet(down'[n]) : m \notin Data(RESULT_DATATYPE)
      BY DEF DataTypes
    <3>3. /\ \A m \in ToSet(up'[n]) : g[m] = 0
          /\ \A m \in ToSet(down'[n]) : g[m] = 0
      BY <1>3, <3>1, <3>2, ToSetQueue DEF Mark
    <3> HIDE DEF g
    <3>4. QED  BY <1>3, <2>1, <3>3, AlongSteps
  <2>3. T = Weight(up', down', g, G)
    BY DEF Tickets
  <2>4. T \in Counts(Node) /\ \A n \in Node : T[n] = G[n]
    <3> HIDE DEF g, G, T
    <3>1. /\ T \in Counts(Node)
          /\ \A n \in Node :
               /\ T[n] = Along(up'[n], g) + Along(down'[n], g) + G[n]
               /\ G[n] \in Nat
      <4> DEFINE W == Weight(up', down', g, G)
      <4>1. /\ W \in Counts(Node)
            /\ \A n \in Node :
                 /\ W[n] = Along(up'[n], g) + Along(down'[n], g) + G[n]
                 /\ G[n] \in Nat
        <5>1. /\ up' \in [Node -> Seq(Message)]
              /\ down' \in [Node -> Seq(Publication)]
          BY <1>1
        <5>2. \A n \in Node :
                 W[n] = Along(up'[n], g) + Along(down'[n], g) + G[n]
          BY DEF Weight
        <5>3. W \in Counts(Node)
          BY <2>1, <5>1, WeightType
        <5>4. \A n \in Node : G[n] \in Nat
          BY <2>1 DEF Counts
        <5> HIDE DEF W
        <5>5. QED  BY <5>2, <5>3, <5>4
      <4> HIDE DEF W
      <4>2. QED  BY <2>3, <4>1 DEF W
    <3>2. \A n \in Node : T[n] = 0 + 0 + G[n] /\ G[n] \in Nat
      BY <2>2, <3>1
    <3>3. QED  BY <3>1, <3>2
  <2>5. \A n \in Node : G[n] = IF MayAnswer(n, k)' THEN 1 ELSE 0
    <3>1. \A n \in Node : n # Client =>
            G[n] = IF MayAnswer(n, k)' THEN 1 ELSE 0
      BY DEF Answering
    <3>2. G[Client] = 0
      BY <1>2 DEF Answering, NoResult
    <3>3. ~MayAnswer(Client, k)'
      BY <1>1, <1>2, Roles DEF MayAnswer, Worker
    <3>4. QED  BY <3>1, <3>2, <3>3
  <2>6. \A n, m \in Node : MayAnswer(n, k)' /\ MayAnswer(m, k)' => n = m
    BY <1>1, OneOfNumber DEF MayAnswer
  <2> HIDE DEF T, G
  <2>7. CASE \E n \in Node : MayAnswer(n, k)'
    <3>1. PICK n \in Node : MayAnswer(n, k)'
      BY <2>7
    <3>2. T[n] = 1 /\ \A m \in Node : m # n => T[m] = 0
      BY <2>4, <2>5, <2>6, <3>1
    <3>3. Total(T) = 1
      BY <2>4, <3>2, NodesFinite, TotalOnly
    <3>4. QED  BY <3>3 DEF T
  <2>8. CASE \A n \in Node : ~MayAnswer(n, k)'
    <3>1. \A n \in Node : T[n] = 0
      BY <2>4, <2>5, <2>8
    <3>2. Total(T) = 0
      BY <2>4, <3>1, NodesFinite, TotalType
    <3>3. QED  BY <3>2 DEF T
  <2>9. QED  BY <2>7, <2>8
<1>6. ASSUME NEW x \in Items
      PROVE  Total(Load(x))' = Occurrences(x)
  <2> DEFINE g == ShareOf(x)
             T == Load(x)'
             G == Held(x)'
  <2>1. G \in Counts(Node) /\ g \in Counts(Message)
    BY HeldNext, CountsAre
  <2>2. \A n \in Node : Along(down'[n], g) = 0
    BY <1>3, NoShare
  <2>3. \A n \in Node : n # Client => Along(up'[n], g) = 0
    BY <1>3, NoShare
  <2>4. Along(up'[Client], g) = Occurrences(x)
    <3>1. Along(r, g) = 0
      BY NoShare
    <3>2. Along(b, g) = Occurrences(x)
      BY DEF Dealt, Occurrences
    <3> HIDE DEF g
    <3>3. Along(r \o b, g) = Along(r, g) + Along(b, g) /\ Along(b, g) \in Nat
      BY <2>1, AlongSteps
    <3>4. QED  BY <3>1, <3>2, <3>3
  <2>5. \A n \in Node : G[n] = 0
    <3> DEFINE k == MapKey(Round, x)'
    <3>1. G = [n \in Node |-> IF n \in Mapper THEN outbuff'[n][k][x]
                ELSE IF n \in Reducer THEN BufferBefore(n)'[k][x]
                ELSE Along(last_result'[k], ValueAt(x))]
      BY DEF Held
    <3>2. k \in Key
      <4>1. MapKey(Round', x) \in Key
        BY MapKeyType
      <4>2. QED  BY <4>1 DEF MapKey
    <3> HIDE DEF k
    <3>3. NoPairs[k][x] = 0 /\ last_result'[k] = <<>>
      BY <3>2 DEF NoPairs, Zero, NoResult
    <3>4. Along(<<>>, ValueAt(x)) = 0
      <4>1. <<>> \in Seq(Value) /\ ToSet(<<>>) = {}
        BY NothingSent
      <4>2. QED  BY <4>1, CountsAre, AlongSteps
    <3>5. QED  BY <3>1, <3>3, <3>4
  <2>6. T = Weight(up', down', g, G)
    BY DEF Load
  <2> HIDE DEF g, G, T
  <2>7. /\ T \in Counts(Node)
        /\ \A n \in Node : T[n] = Along(up'[n], g) + Along(down'[n], g) + G[n]
        /\ \A n \in Node : Along(up'[n], g) \in Nat
    <3> DEFINE W == Weight(up', down', g, G)
    <3>1. /\ W \in Counts(Node)
          /\ \A n \in Node :
               /\ W[n] = Along(up'[n], g) + Along(down'[n], g) + G[n]
               /\ Along(up'[n], g) \in Nat
      <4>1. /\ up' \in [Node -> Seq(Message)]
            /\ down' \in [Node -> Seq(Publication)]
        BY <1>1
      <4>2. \A n \in Node :
              W[n] = Along(up'[n], g) + Along(down'[n], g) + G[n]
        BY DEF Weight
      <4>3. W \in Counts(Node)
        BY <2>1, <4>1, WeightType
      <4>4. \A n \in Node : Along(up'[n], g) \in Nat
        BY <1>3, <2>1, AlongSteps
      <4> HIDE DEF W
      <4>5. QED  BY <4>2, <4>3, <4>4
    <3> HIDE DEF W
    <3>2. QED  BY <2>6, <3>1 DEF W
  <2>8. \A n \in Node : T[n] = Along(up'[n], g)
    <3>1. \A n \in Node : T[n] = Along(up'[n], g) + 0 + 0
      BY <2>2, <2>5, <2>7
    <3>2. QED  BY <2>7, <3>1
  <2>9. Total(T) = T[Client]
    BY <1>2, <2>3, <2>7, <2>8, NodesFinite, TotalOnly
  <2>10. QED  BY <1>2, <2>4, <2>8, <2>9 DEF T
<1>7. OneAnswer'
  BY <1>5 DEF OneAnswer
<1>8. Balanced'
  BY <1>6 DEF Balanced, Occurrences
<1>9. QED  BY <1>4, <1>7, <1>8 DEF Weighed
-----------------------------------------------------------------------------
(* What the client deals out.  Points are cut into partitions, and every   *)
(* one of them is in one place of one partition.                           *)
LEMMA CutPlaces ==
  ASSUME NEW n \in Nat, NEW d \in Nat \ {0}, NEW c \in Nat,
         c = (n + d - 1) \div d
  PROVE  /\ n <= c * d /\ c * d <= n + d - 1
         /\ \A j \in 1..c : /\ (j - 1) * d \in Nat /\ j * d \in Nat
                            /\ j * d = (j - 1) * d + d /\ j * d <= c * d
         /\ \A j \in 1..c, k \in 1..c :
              j < k => (j - 1) * d + d <= (k - 1) * d
<1>1. /\ n + d - 1 \in Nat /\ n + d - 1 = d * c + ((n + d - 1) % d)
      /\ (n + d - 1) % d \in 0..(d - 1)
  <2> DEFINE a == n + d - 1
  <2>1. a \in Nat
    OBVIOUS
  <2> HIDE DEF a
  <2>2. a = d * (a \div d) + (a % d) /\ a % d \in 0..(d - 1)
    BY <2>1, SMTT(30)
  <2>3. QED  BY <2>1, <2>2 DEF a
<1>2. d * c = c * d /\ c * d \in Nat
  BY SMTT(30)
<1>3. n <= c * d /\ c * d <= n + d - 1
  <2> DEFINE x == c * d  z == (n + d - 1) % d
  <2>1. x \in Nat /\ z \in 0..(d - 1) /\ n + d - 1 = x + z
    BY <1>1, <1>2
  <2> HIDE DEF x, z
  <2>2. n <= x /\ x <= n + d - 1
    BY <2>1
  <2>3. QED  BY <2>2 DEF x
<1>4. ASSUME NEW j \in 1..c
      PROVE  /\ (j - 1) * d \in Nat /\ j * d \in Nat
             /\ j * d = (j - 1) * d + d /\ j * d <= c * d
  <2>1. j - 1 \in Nat /\ c - j \in Nat /\ j \in Nat
    BY <1>1
  <2>2. (j - 1) * d \in Nat /\ j * d \in Nat /\ (c - j) * d \in Nat
    BY <2>1, SMTT(30)
  <2>3. j * d = (j - 1) * d + d
    BY <2>1, SMTT(30)
  <2>4. c * d = j * d + (c - j) * d
    BY <2>1, SMTT(30)
  <2>5. j * d <= c * d
    <3> DEFINE x == j * d  y == c * d  z == (c - j) * d
    <3>1. x \in Nat /\ z \in Nat /\ y = x + z
      BY <2>2, <2>4
    <3> HIDE DEF x, y, z
    <3>2. x <= y
      BY <3>1
    <3>3. QED  BY <3>2 DEF x, y
  <2>6. QED  BY <2>2, <2>3, <2>5
<1>5. ASSUME NEW j \in 1..c, NEW k \in 1..c, j < k
      PROVE  (j - 1) * d + d <= (k - 1) * d
  <2>1. j - 1 \in Nat /\ k - 1 - j \in Nat /\ j \in Nat
    BY <1>5
  <2>2. (j - 1) * d \in Nat /\ (k - 1 - j) * d \in Nat
    BY <2>1, SMTT(30)
  <2>3. (k - 1) * d = (j - 1) * d + d + (k - 1 - j) * d
    BY <2>1, SMTT(30)
  <2>4. QED
    <3> DEFINE x == (j - 1) * d  y == (k - 1) * d  z == (k - 1 - j) * d
    <3>1. x \in Nat /\ z \in Nat /\ y = x + d + z
      BY <2>2, <2>3
    <3> HIDE DEF x, y, z
    <3>2. x + d <= y
      BY <3>1
    <3>3. QED  BY <3>2 DEF x, y
<1>6. QED  BY <1>3, <1>4, <1>5

SizesOf(n, d, c) ==
  [j \in 1..c |-> IF j * d <= n THEN d ELSE n - (j - 1) * d]
Tiled(n, d, c, size) ==
  /\ \A j \in 1..c : size[j] \in 0..d
  /\ \A j \in 1..c : \A i \in 1..size[j] : (j - 1) * d + i \in 1..n
  /\ \A j \in 1..c, k \in 1..c : \A i \in 1..d, l \in 1..d :
       (j - 1) * d + i = (k - 1) * d + l => j = k /\ i = l
  /\ \A q \in 1..n : \E j \in 1..c : \E i \in 1..size[j] :
       (j - 1) * d + i = q

LEMMA PointPlaces ==
  ASSUME NEW n \in Nat, NEW d \in Nat \ {0}, NEW c \in Nat,
         c = (n + d - 1) \div d, NEW size,
         size = SizesOf(n, d, c)
  PROVE  Tiled(n, d, c, size)
<1>1. /\ n <= c * d /\ c * d <= n + d - 1
      /\ \A j \in 1..c : /\ (j - 1) * d \in Nat /\ j * d \in Nat
                         /\ j * d = (j - 1) * d + d /\ j * d <= c * d
      /\ \A j \in 1..c, k \in 1..c : j < k => (j - 1) * d + d <= (k - 1) * d
  BY CutPlaces
<1>2. ASSUME NEW j \in 1..c
      PROVE  /\ size[j] \in 0..d
             /\ \A i \in 1..size[j] : (j - 1) * d + i \in 1..n
  <2> DEFINE x == (j - 1) * d  y == j * d  z == c * d
  <2>1. /\ x \in Nat /\ y \in Nat /\ y = x + d /\ y <= z /\ z <= n + d - 1
        /\ size[j] = IF y <= n THEN d ELSE n - x
    BY <1>1 DEF SizesOf
  <2>2. z \in Int
    BY SMTT(30)
  <2> HIDE DEF x, y, z
  <2>3. /\ size[j] \in 0..d /\ \A i \in 1..size[j] : x + i \in 1..n
    BY <2>1, <2>2
  <2>4. QED  BY <2>3 DEF x
<1>3. ASSUME NEW j \in 1..c, NEW k \in 1..c, NEW i \in 1..d, NEW l \in 1..d,
             (j - 1) * d + i = (k - 1) * d + l
      PROVE  j = k /\ i = l
  <2> DEFINE x == (j - 1) * d  y == (k - 1) * d
  <2>1. /\ x \in Nat /\ y \in Nat /\ x + i = y + l
        /\ j < k => x + d <= y
        /\ k < j => y + d <= x
    BY <1>1, <1>3
  <2>2. j = k => x = y
    OBVIOUS
  <2> HIDE DEF x, y
  <2>3. ~(j < k) /\ ~(k < j)
    BY <2>1
  <2>4. QED  BY <2>1, <2>2, <2>3
<1>4. ASSUME NEW q \in 1..n
      PROVE  \E j \in 1..c : \E i \in 1..size[j] : (j - 1) * d + i = q
  <2> DEFINE t == (q - 1) \div d
             r == (q - 1) % d
             x == t * d
             z == c * d
  <2>1. q - 1 = d * t + r /\ r \in 0..(d - 1) /\ t \in Nat
    BY SMTT(30)
  <2>2. d * t = x /\ x \in Nat /\ z \in Nat
    BY <2>1, SMTT(30)
  <2>3. t >= c => x >= z
    BY <2>1, SMTT(30)
  <2>4. n <= z
    BY <1>1
  <2> HIDE DEF t, r, x, z
  <2>5. q - 1 = x + r
    BY <2>1, <2>2
  <2>6. t + 1 \in 1..c
    BY <2>1, <2>2, <2>3, <2>4, <2>5
  <2>7. ((t + 1) - 1) * d = x
    <3>1. (t + 1) - 1 = t
      BY <2>1
    <3>2. QED  BY <3>1 DEF x
  <2>8. size[t + 1] = IF x + d <= n THEN d ELSE n - x
    <3>1. (t + 1) * d = ((t + 1) - 1) * d + d
      BY <1>1, <2>6
    <3>2. size[t + 1] = IF (t + 1) * d <= n THEN d
                        ELSE n - ((t + 1) - 1) * d
      BY <2>6 DEF SizesOf
    <3>3. QED  BY <2>7, <3>1, <3>2
  <2>9. r + 1 \in 1..size[t + 1]
    <3>1. size[t + 1] = IF x + d <= n THEN d ELSE n - x
      BY <2>8
    <3>2. QED  BY <2>1, <2>2, <2>5, <3>1
  <2>10. ((t + 1) - 1) * d + (r + 1) = q
    <3>1. x + (r + 1) = q
      BY <2>1, <2>2, <2>5
    <3>2. QED  BY <2>7, <3>1
  <2>11. QED  BY <2>6, <2>9, <2>10
<1>5. QED  BY <1>2, <1>3, <1>4 DEF Tiled

(* Where an item is in the lines that there are. *)
InPlace(line, x) == {j \in 1..Len(line) : line[j] = x}
Spots(L, x) == UNION {{i} \X InPlace(L[i], x) : i \in DOMAIN L}

LEMMA InSpots ==
  ASSUME NEW L, NEW x, NEW s
  PROVE  s \in Spots(L, x) <=>
           \E i \in DOMAIN L : \E j \in 1..Len(L[i]) :
             L[i][j] = x /\ s = <<i, j>>
BY DEF Spots, InPlace

LEMMA AlongLines ==
  ASSUME NEW L \in Seq(Seq(Items)), NEW x \in Items
  PROVE  /\ Along(L, InLine(x)) = Cardinality(Spots(L, x))
         /\ IsFiniteSet(Spots(L, x))
<1> DEFINE P == DOMAIN L
           F == [i \in P |-> InPlace(L[i], x)]
           f == [i \in P |-> InLine(x)[L[i]]]
           G == [i \in P |-> {i} \X F[i]]
<1>1. P = 1..Len(L) /\ Len(L) \in Nat /\ \A i \in P : L[i] \in Seq(Items)
  OBVIOUS
<1>2. IsFiniteSet(P)
  BY <1>1, FS_Interval
<1>3. ASSUME NEW i \in P
      PROVE  /\ IsFiniteSet(F[i]) /\ Cardinality(F[i]) = f[i] /\ f[i] \in Nat
             /\ IsFiniteSet(G[i])
  <2>1. L[i] \in Seq(Items) /\ Len(L[i]) \in Nat
    BY <1>1
  <2>2. IsFiniteSet(1..Len(L[i]))
    BY <2>1, FS_Interval
  <2>3. IsFiniteSet(F[i])
    BY <2>2, FS_Subset DEF InPlace
  <2>4. f[i] = Cardinality(F[i])
    BY <2>1 DEF InLine, Occurs, InPlace
  <2>5. IsFiniteSet(G[i])
    BY <2>3, FS_Singleton, FS_Product
  <2> HIDE DEF F, f, G
  <2>6. QED  BY <2>3, <2>4, <2>5, FS_CardinalityType
<1>4. Along(L, InLine(x)) = Total(f)
  BY DEF Along
<1>5. f \in Counts(P) /\ DOMAIN F = P
  <2>1. \A i \in P : f[i] \in Nat
    BY <1>3
  <2>2. QED  BY <2>1 DEF Counts
<1>6. Spots(L, x) = UNION {{i} \X F[i] : i \in P}
  BY DEF Spots
<1>7. Spots(L, x) = UNION {G[i] : i \in P}
  BY DEF Spots
<1>8. IsFiniteSet(UNION {G[i] : i \in P})
  <2>1. IsFiniteSet({G[i] : i \in P})
    <3>1. G = [i \in P |-> G[i]]
      OBVIOUS
    <3> HIDE DEF G, P
    <3>2. QED  BY <1>2, <3>1, ImageFinite
  <2>2. \A T \in {G[i] : i \in P} : IsFiniteSet(T)
    BY <1>3
  <2> HIDE DEF G, P
  <2>3. QED  BY <2>1, <2>2, FS_UNION
<1>9. Cardinality(UNION {{i} \X F[i] : i \in P}) = Total(f)
  <2>1. \A i \in P : IsFiniteSet(F[i]) /\ Cardinality(F[i]) = f[i]
    BY <1>3
  <2> HIDE DEF P, F, f
  <2>2. QED  BY <1>2, <1>5, <2>1, TotalSets
<1> HIDE DEF P, F, f, G
<1>10. QED  BY <1>4, <1>6, <1>7, <1>8, <1>9

LEMMA DealtLines ==
  ASSUME NEW x \in Items
  PROVE  /\ Along(Lines, InLine(x)) = Occurrences(x)
         /\ IsFiniteSet(Spots(Lines, x))
<1>1. Lines \in Seq(Seq(Items))
  BY ProtocolAssumption
<1>2. Spots(Lines, x) =
        UNION {{i} \X {j \in 1..Len(Lines[i]) : Lines[i][j] = x} :
                 i \in DOMAIN Lines}
  BY DEF Spots, InPlace
<1>3. QED  BY <1>1, <1>2, AlongLines DEF Occurrences

LEMMA DealtPartitions ==
  ASSUME NEW m \in Nat \ {0}, App = "KMEANS", NEW x \in Items
  PROVE  Along(Partitions(Lines, m), InLine(x)) = Occurrences(x)
<1> DEFINE n == Len(Lines)
           d == PartitionSize(n, m)
           c == (n + d - 1) \div d
           size == SizesOf(n, d, c)
           Q == Partitions(Lines, m)
           I == Spots(Q, x)
           J == Spots(Lines, x)
           f == [s \in I |-> <<(s[1] - 1) * d + s[2], 1>>]
<1>1. n \in Nat /\ d \in Nat \ {0} /\ DOMAIN Lines = 1..n
  <2>1. n \in Nat /\ DOMAIN Lines = 1..n
    BY ProtocolAssumption
  <2> HIDE DEF n
  <2>2. n \div m \in Nat
    BY <2>1
  <2>3. QED  BY <2>1, <2>2 DEF PartitionSize
<1>2. c \in Nat
  BY <1>1
<1>3. \A i \in 1..n : Len(Lines[i]) = 1
  BY <1>1, ProtocolAssumption
<1>4. Q = [j \in 1..c |-> [i \in 1..size[j] |-> Lines[(j - 1) * d + i][1]]]
  BY DEF Partitions, SizesOf
<1>5. Q \in Seq(Seq(Items))
  BY PartitionsType
<1> HIDE DEF n, d, c, Q
<1>6. /\ \A j \in 1..c : size[j] \in 0..d
      /\ \A j \in 1..c : \A i \in 1..size[j] : (j - 1) * d + i \in 1..n
      /\ \A j \in 1..c, k \in 1..c : \A i \in 1..d, l \in 1..d :
           (j - 1) * d + i = (k - 1) * d + l => j = k /\ i = l
      /\ \A q \in 1..n : \E j \in 1..c : \E i \in 1..size[j] :
           (j - 1) * d + i = q
  <2>1. c = (n + d - 1) \div d
    BY DEF c
  <2>2. n \in Nat /\ d \in Nat \ {0}
    BY <1>1
  <2>3. size = SizesOf(n, d, c)
    OBVIOUS
  <2> HIDE DEF size
  <2>4. Tiled(n, d, c, size)
    BY <1>2, <2>1, <2>2, <2>3, PointPlaces
  <2>5. QED  BY <2>4, Zenon DEF Tiled
<1> HIDE DEF size
<1>7. \A j \in 1..c : Len(Q[j]) = size[j] /\ 1..size[j] \subseteq 1..d
  <2> TAKE j \in 1..c
  <2>1. size[j] \in Nat /\ size[j] <= d
    BY <1>1, <1>6
  <2>2. Q[j] = [i \in 1..size[j] |-> Lines[(j - 1) * d + i][1]]
    BY <1>4
  <2>3. QED  BY <1>1, <2>1, <2>2
<1>8. ASSUME NEW s
      PROVE  s \in I <=> \E j \in 1..c : \E i \in 1..size[j] :
                           Lines[(j - 1) * d + i][1] = x /\ s = <<j, i>>
  <2>1. DOMAIN Q = 1..c
    BY <1>4
  <2>2. \A j \in 1..c : \A i \in 1..size[j] :
          Q[j][i] = Lines[(j - 1) * d + i][1]
    BY <1>4
  <2>3. s \in I <=> \E j \in 1..c : \E i \in 1..size[j] :
                      Q[j][i] = x /\ s = <<j, i>>
    <3>1. s \in I <=> \E j \in DOMAIN Q : \E i \in 1..Len(Q[j]) :
                        Q[j][i] = x /\ s = <<j, i>>
      BY InSpots
    <3> HIDE DEF I
    <3>2. \A j \in 1..c : Len(Q[j]) = size[j]
      BY <1>7
    <3>3. QED  BY <2>1, <3>1, <3>2, Zenon
  <2>4. QED  BY <2>2, <2>3
<1>9. ASSUME NEW s
      PROVE  s \in J <=> \E q \in 1..n : Lines[q][1] = x /\ s = <<q, 1>>
  BY <1>1, <1>3, InSpots
<1> HIDE DEF I, J
<1>10. \A s \in I : f[s] = <<(s[1] - 1) * d + s[2], 1>>
  OBVIOUS
<1>11. f \in [I -> J]
  <2>1. ASSUME NEW s \in I
        PROVE  f[s] \in J
    <3>1. PICK j \in 1..c : \E i \in 1..size[j] :
                 Lines[(j - 1) * d + i][1] = x /\ s = <<j, i>>
      BY <1>8
    <3>2. PICK i \in 1..size[j] :
                 Lines[(j - 1) * d + i][1] = x /\ s = <<j, i>>
      BY <3>1
    <3>3. f[s] = <<(j - 1) * d + i, 1>>
      BY <1>10, <3>2
    <3>4. QED  BY <1>6, <1>9, <3>2, <3>3
  <2>2. QED  BY <2>1
<1>12. ASSUME NEW s \in I, NEW t \in I, f[s] = f[t]
       PROVE  s = t
  <2>1. PICK j \in 1..c : \E i \in 1..size[j] : s = <<j, i>>
    BY <1>8
  <2>2. PICK i \in 1..size[j] : s = <<j, i>>
    BY <2>1
  <2>3. PICK k \in 1..c : \E l \in 1..size[k] : t = <<k, l>>
    BY <1>8
  <2>4. PICK l \in 1..size[k] : t = <<k, l>>
    BY <2>3
  <2>5. f[s] = <<(j - 1) * d + i, 1>> /\ f[t] = <<(k - 1) * d + l, 1>>
    BY <1>10, <2>2, <2>4
  <2>6. (j - 1) * d + i = (k - 1) * d + l
    BY <1>12, <2>5
  <2>7. i \in 1..d /\ l \in 1..d
    BY <1>7
  <2>8. QED  BY <1>6, <2>2, <2>4, <2>6, <2>7
<1>13. ASSUME NEW t \in J
       PROVE  \E s \in I : f[s] = t
  <2>1. PICK q \in 1..n : Lines[q][1] = x /\ t = <<q, 1>>
    BY <1>9
  <2>2. PICK j \in 1..c : \E i \in 1..size[j] : (j - 1) * d + i = q
    BY <1>6
  <2>3. PICK i \in 1..size[j] : (j - 1) * d + i = q
    BY <2>2
  <2>4. <<j, i>> \in I
    BY <1>8, <2>1, <2>3
  <2>5. f[<<j, i>>] = t
    BY <1>10, <2>1, <2>3, <2>4
  <2>6. QED  BY <2>4, <2>5
<1> HIDE DEF f
<1>14. f \in Bijection(I, J)
  <2>1. f \in Injection(I, J)
    BY <1>11, <1>12, Zenon DEF Injection, IsInjective
  <2>2. f \in Surjection(I, J)
    BY <1>11, <1>13, Zenon DEF Surjection
  <2>3. QED  BY <2>1, <2>2 DEF Bijection
<1>15. IsFiniteSet(I)
  BY <1>5, AlongLines DEF I
<1>16. Cardinality(J) = Cardinality(I)
  BY <1>14, <1>15, NumberSame
<1>17. Along(Q, InLine(x)) = Cardinality(I)
  BY <1>5, AlongLines DEF I
<1>18. Along(Lines, InLine(x)) = Cardinality(J)
  BY ProtocolAssumption, AlongLines DEF J
<1>19. QED  BY <1>16, <1>17, <1>18, DealtLines DEF Q
-----------------------------------------------------------------------------
(* A round ends with everything at the client.                             *)
NoneOnTheWay == \A n \in Node :
  /\ \A m \in ToSet(up[n]) : \A t \in DataTypes : m \notin Data(t)
  /\ \A m \in ToSet(down[n]) : \A t \in DataTypes : m \notin Data(t)

LEMMA RoundType ==
  ASSUME TypeInv, Unanswered, fires > 0, status = "running"
  PROVE  Round \in 1..MaxRounds /\ Round = Len(answers) + 1
<1>1. /\ round_ \in 0..MaxRounds /\ MaxRounds \in Nat \ {0}
      /\ Len(answers) \in Nat /\ App \in {"WORDCOUNT", "KMEANS"}
  BY ProtocolAssumption DEF TypeInv, TypeOK, ClientTypeOK
<1>2. CASE App = "KMEANS"
  <2>1. round_ = Len(answers) + 1
    BY <1>2 DEF Unanswered
  <2>2. QED  BY <1>1, <1>2, <2>1 DEF Round
<1>3. CASE App = "WORDCOUNT"
  <2>1. answers = <<>>
    BY <1>3 DEF Unanswered
  <2>2. Len(answers) = 0
    BY <2>1
  <2>3. QED  BY <1>1, <1>3, <2>2 DEF Round
<1>4. QED  BY <1>1, <1>2, <1>3

LEMMA AllArrived ==
  ASSUME TypeInv, SubscribedInv, ~late, Sane, AllParts, Accounts,
         TakesResult, Head(down[Client]).body.end,
         reducers_done + 1 = Cardinality(reducers)
  PROVE  /\ NoneOnTheWay /\ NumberedFrom0
         /\ \A w \in Mapper : outbuff[w] = NoPairs
         /\ \A v \in Reducer : BufferBefore(v) = NoPairs
         /\ \A m \in ToSet(down'[Client]) :
              \A t \in DataTypes : m \notin Data(t)
<1>1. /\ Reporting = {} /\ NothingLeft
      /\ \A m \in ToSet(down'[Client]) : \A t \in DataTypes : ~Is(m, t)
  BY RoundEnds
<1>2. \A m : \A t : m \in Data(t) => Is(m, t) /\ ~m.body.end
  BY DEF Data
<1>3. NoneOnTheWay
  <2>1. ASSUME NEW n \in Node, NEW m \in ToSet(up[n]), NEW t \in DataTypes
        PROVE  m \notin Data(t)
    BY <1>1, <1>2 DEF NothingLeft
  <2>2. ASSUME NEW n \in Worker, NEW m \in ToSet(down[n]), NEW t \in DataTypes
        PROVE  m \notin Data(t)
    BY <1>1, <1>2 DEF NothingLeft
  <2>3. ASSUME NEW m \in ToSet(down[Client]), NEW t \in DataTypes
        PROVE  m \notin Data(t)
    <3>1. /\ Receive(Client) /\ Client \in Node
          /\ down \in [Node -> Seq(Publication)]
      BY ResultTaken, QueueTypes
    <3>2. ToSet(down[Client]) = {Head(down[Client])} \cup ToSet(down'[Client])
      BY <3>1, ReadQueue
    <3>3. QED  BY <1>1, <1>2, <3>2
  <2>4. \A n \in Node : n = Client \/ n \in Worker
    BY DEF Node
  <2>5. QED  BY <2>1, <2>2, <2>3, <2>4 DEF NoneOnTheWay
<1>4. NumberedFrom0
  <2>1. \A v \in reducers : v[2] \in Addressed
    BY <1>1, AllReported
  <2>2. \A d \in Below : \E v \in reducers : v[2] = d
    BY <2>1, AllAddressed
  <2>3. \A v \in reducers : v[2] \in Below
    BY <2>1 DEF Addressed
  <2>4. QED  BY <2>2, <2>3 DEF NumberedFrom0, Below
<1>5. ASSUME NEW v \in Reducer
      PROVE  BufferBefore(v) = NoPairs
  <2>1. rState[v] = "WAIT_NEXT" \/ rState[v] = "EXPECT_CODE"
    BY <1>1 DEF NothingLeft
  <2>2. rState[v] = "EXPECT_CODE" => data_buff[v] = NoPairs
    BY DEF AllParts, BuffersPairs
  <2>3. QED  BY <2>1, <2>2 DEF BufferBefore
<1>6. \A w \in Mapper : outbuff[w] = NoPairs
  BY <1>1 DEF NothingLeft
<1>7. QED  BY <1>1, <1>2, <1>3, <1>4, <1>5, <1>6

LEMMA ItemsArrived ==
  ASSUME TypeInv, Round \in 1..MaxRounds, NoneOnTheWay,
         \A w \in Mapper : outbuff[w] = NoPairs,
         \A v \in Reducer : BufferBefore(v) = NoPairs, NEW x \in Items
  PROVE  Total(Load(x)) = Along(last_result[MapKey(Round, x)], ValueAt(x))
<1> DEFINE g == ShareOf(x)
           G == Held(x)
           T == Load(x)
           k == MapKey(Round, x)
<1>1. /\ k \in Key /\ G \in Counts(Node) /\ g \in Counts(Message)
      /\ \A w \in Mapper : G[w] = outbuff[w][k][x]
      /\ \A v \in Reducer : G[v] = BufferBefore(v)[k][x]
      /\ G[Client] = Along(last_result[k], ValueAt(x))
  <2>1. g \in Counts(Message)
    BY CountsAre
  <2>2. QED  BY <2>1, HeldType
<1>2. up \in [Node -> Seq(Message)] /\ down \in [Node -> Seq(Publication)]
  BY DEF TypeInv, TypeOK
<1>3. \A n \in Node : down[n] \in Seq(Message) /\ up[n] \in Seq(Message)
  <2>1. Publication \in SUBSET Message
    BY DEF Message
  <2>2. QED  BY <1>2, <2>1, SeqMonotone
<1>4. \A n \in Node : Along(up[n], g) = 0 /\ Along(down[n], g) = 0
  BY <1>3, NoShare DEF NoneOnTheWay
<1>5. NoPairs[k][x] = 0
  BY <1>1 DEF NoPairs, Zero
<1>6. T = Weight(up, down, g, G)
  BY DEF Load
<1> HIDE DEF g, G, T, k
<1>7. T \in Counts(Node) /\ \A n \in Node : T[n] = G[n]
  <2>1. Weight(up, down, g, G) \in Counts(Node)
    BY <1>1, <1>2, WeightType
  <2>2. \A n \in Node : G[n] \in Nat
    BY <1>1 DEF Counts
  <2>3. \A n \in Node : T[n] = Along(up[n], g) + Along(down[n], g) + G[n]
    BY <1>6 DEF Weight
  <2>4. \A n \in Node : T[n] = 0 + 0 + G[n]
    BY <1>4, <2>3
  <2>5. QED  BY <1>6, <2>1, <2>2, <2>4
<1>8. \A n \in Node : n # Client => T[n] = 0
  <2>1. \A n \in Node : n # Client => n \in Mapper \/ n \in Reducer
    BY DEF Node, Worker
  <2>2. QED  BY <1>1, <1>5, <1>7, <2>1
<1>9. Client \in Node
  BY Roles
<1>10. Total(T) = T[Client]
  BY <1>7, <1>8, <1>9, NodesFinite, TotalOnly
<1>11. QED  BY <1>1, <1>7, <1>9, <1>10 DEF T, k

(* Each key has one result at most. *)
LEMMA OneResult ==
  ASSUME TypeInv, OneAnswer, NEW k \in Key
  PROVE  Len(last_result[k]) \in {0, 1}
<1> DEFINE g == Mark(k)
           G == Answering(k)
           T == Tickets(k)
<1>1. /\ G \in Counts(Node) /\ G[Client] = Len(last_result[k])
      /\ g \in Counts(Message)
  BY AnsweringType, CountsAre DEF Mark, Counts
<1>2. /\ up \in [Node -> Seq(Message)] /\ down \in [Node -> Seq(Publication)]
      /\ Client \in Node /\ last_result[k] \in Seq(Value)
  BY QueueTypes, Roles DEF TypeInv, TypeOK, ClientTypeOK
<1>3. T = Weight(up, down, g, G)
  BY DEF Tickets
<1>4. Total(T) <= 1
  BY DEF OneAnswer
<1> HIDE DEF g, G, T
<1>5. /\ Weight(up, down, g, G) \in Counts(Node)
      /\ Weight(up, down, g, G)[Client]
           = Along(up[Client], g) + Along(down[Client], g) + G[Client]
      /\ Along(up[Client], g) \in Nat /\ Along(down[Client], g) \in Nat
      /\ G[Client] \in Nat
  BY <1>1, <1>2, WeightType
<1>6. /\ T \in Counts(Node) /\ T[Client] \in Nat /\ G[Client] <= T[Client]
  BY <1>3, <1>5
<1>7. Total(T) = T[Client] + Total([n \in Node \ {Client} |-> T[n]])
  <2>1. T \in Counts(Node) /\ Client \in Node
    BY <1>2, <1>6
  <2>2. QED  BY <2>1, NodesFinite, TotalAt, ZenonT(30)
<1>8. Total([n \in Node \ {Client} |-> T[n]]) \in Nat
  <2> DEFINE P == Node \ {Client}
             U == [n \in P |-> T[n]]
  <2>1. IsFiniteSet(P)
    BY NodesFinite, FS_Subset
  <2>2. U \in Counts(P)
    BY <1>6 DEF Counts
  <2> HIDE DEF P, U
  <2>3. Total(U) \in Nat
    BY <2>1, <2>2, TotalType
  <2>4. QED  BY <2>3 DEF P, U
<1>9. G[Client] <= 1
  BY <1>4, <1>5, <1>6, <1>7, <1>8
<1>10. QED
  <2> DEFINE a == Len(last_result[k])
             c == G[Client]
  <2>1. a \in Nat /\ a = c /\ c <= 1
    BY <1>1, <1>2, <1>9
  <2> HIDE DEF a, c
  <2>2. a \in {0, 1}
    BY <2>1
  <2>3. QED  BY <2>2 DEF a

(* What a round has answered is exact. *)
LEMMA RoundExact ==
  ASSUME TypeInv, Round \in 1..MaxRounds, ResultsMapped, OneAnswer,
         \A x \in Items :
           Along(last_result[MapKey(Round, x)], ValueAt(x)) = Occurrences(x)
  PROVE  last_result = Exact(Round)
<1>1. last_result \in [Key -> Seq(Value)]
  BY DEF TypeInv, TypeOK, ClientTypeOK
<1>2. ASSUME NEW k \in Key
      PROVE  last_result[k] = IF Computed(Round, k) = Zero THEN <<>>
                              ELSE <<Computed(Round, k)>>
  <2>1. last_result[k] \in Seq(Value) /\ Len(last_result[k]) \in {0, 1}
    BY <1>1, OneResult
  <2>2. CASE Len(last_result[k]) = 0
    <3>1. last_result[k] = <<>>
      BY <2>1, <2>2
    <3>2. ASSUME NEW x \in Items, MapKey(Round, x) = k
          PROVE  Occurrences(x) = 0
      <4>1. Along(<<>>, ValueAt(x)) = 0
        <5>1. <<>> \in Seq(Value) /\ ToSet(<<>>) = {}
          BY DEF ToSet
        <5>2. QED  BY <5>1, CountsAre, AlongSteps
      <4>2. Along(last_result[k], ValueAt(x)) = Occurrences(x)
        BY <3>2
      <4>3. QED  BY <3>1, <4>1, <4>2
    <3>3. Computed(Round, k) = Zero
      BY <3>2 DEF Computed, Zero
    <3>4. QED  BY <3>1, <3>3
  <2>3. CASE Len(last_result[k]) = 1
    <3> DEFINE u == last_result[k][1]
    <3>1. last_result[k] = <<u>> /\ u \in Value /\ 1 \in DOMAIN last_result[k]
      BY <2>1, <2>3
    <3>2. Mapped(k, u) /\ u # Zero
      BY <3>1 DEF ResultsMapped, Result
    <3> HIDE DEF u
    <3>3. ASSUME NEW x \in Items
          PROVE  u[x] = IF MapKey(Round, x) = k THEN Occurrences(x) ELSE 0
      <4>1. CASE MapKey(Round, x) = k
        <5>1. Along(<<u>>, ValueAt(x)) = u[x]
          <6>1. /\ <<>> \in Seq(Value) /\ ToSet(<<>>) = {}
                /\ Append(<<>>, u) = <<u>>
            BY <3>1 DEF ToSet
          <6>2. /\ Along(<<>>, ValueAt(x)) = 0
                /\ Along(Append(<<>>, u), ValueAt(x))
                     = Along(<<>>, ValueAt(x)) + ValueAt(x)[u]
            <7> DEFINE g == ValueAt(x)
            <7>1. g \in Counts(Value)
              BY CountsAre
            <7> HIDE DEF g
            <7>2. <<>> \in Seq(Value) /\ u \in Value /\ ToSet(<<>>) = {}
              BY <3>1, <6>1
            <7>3. Along(<<>>, g) = 0
              BY <7>1, <7>2, AlongSteps
            <7>4. Along(Append(<<>>, u), g) = Along(<<>>, g) + g[u]
              <8> DEFINE e == <<>>
              <8>1. e \in Seq(Value)
                BY <7>2
              <8> HIDE DEF e
              <8>2. Along(Append(e, u), g) = Along(e, g) + g[u]
                BY <7>1, <7>2, <8>1, AlongSteps
              <8>3. QED  BY <8>2 DEF e
            <7>5. QED  BY <7>3, <7>4 DEF g
          <6>3. ValueAt(x)[u] = u[x] /\ u[x] \in Nat
            BY <3>1 DEF ValueAt, Value
          <6>4. QED  BY <6>1, <6>2, <6>3
        <5>2. Along(last_result[k], ValueAt(x)) = Occurrences(x)
          BY <4>1
        <5>3. QED  BY <3>1, <4>1, <5>1, <5>2
      <4>2. CASE MapKey(Round, x) # k
        BY <3>2, <4>2 DEF Mapped
      <4>3. QED  BY <4>1, <4>2
    <3>4. u = Computed(Round, k)
      BY <3>1, <3>3 DEF Computed, Value
    <3>5. QED  BY <3>1, <3>2, <3>4
  <2>4. QED  BY <2>1, <2>2, <2>3
<1>3. QED  BY <1>1, <1>2 DEF Exact
-----------------------------------------------------------------------------
(* Rounds start: with the firing of the job, and when one has ended.       *)
LEMMA DealtMessages ==
  ASSUME mappers \in SUBSET Mapper, NEW h \in 1..MaxRounds,
         NEW lines \in Seq(Seq(Items)), mappers = {} => lines = <<>>
  PROVE  /\ DataBurst(mappers, lines, h) \in Seq(Message)
         /\ \A m \in ToSet(DataBurst(mappers, lines, h)) :
              m \notin Data(RESULT_DATATYPE)
         /\ \A x \in Items : Along(DataBurst(mappers, lines, h), ShareOf(x))
                               = Along(lines, InLine(x))
<1>1. /\ DataBurst(mappers, lines, h) \in Seq(Message)
      /\ \A m \in ToSet(DataBurst(mappers, lines, h)) :
           m \in Data(MAP_DATATYPE) \/ m \in Ends(MAP_DATATYPE)
  BY BurstCount
<1>2. \A m : m \in Data(MAP_DATATYPE) \/ m \in Ends(MAP_DATATYPE)
               => m \notin Data(RESULT_DATATYPE)
  BY DEF Data, Ends, Is, MAP_DATATYPE, RESULT_DATATYPE
<1>3. QED  BY <1>1, <1>2, BurstAmount

LEMMA FiredDeal ==
  ASSUME TypeInv, Unanswered, fires = 0, mappers # {}, fire_jobs
  PROVE  /\ mappers_data' \in Seq(Seq(Items)) /\ Round' = 1
         /\ Send(Client, Codes \o DataBurst(mappers, mappers_data', 1))
         /\ \A x \in Items : Along(mappers_data', InLine(x)) = Occurrences(x)
<1>1. mappers_data = <<>> /\ Lines \in Seq(Seq(Items)) /\ ClientTypeOK
  BY ProtocolAssumption DEF Unanswered, TypeInv, TypeOK
<1>2. CASE FireWordcount
  <2>1. mappers_data \o Lines = Lines
    BY <1>1
  <2>2. /\ mappers_data' = Lines /\ Round' = 1
        /\ Send(Client, Codes \o DataBurst(mappers, Lines, 1))
    BY <1>2, <2>1 DEF FireWordcount, JobMessages, Round
  <2>3. QED  BY <1>1, <2>2, DealtLines
<1>3. CASE FireKMeans
  <2> DEFINE c == Cardinality(mappers)
             L == Partitions(Lines, c)
  <2>1. c \in Nat \ {0} /\ App = "KMEANS"
    BY <1>1, <1>3, RolesFinite, FS_Subset, FS_CardinalityType, FS_EmptySet
    DEF FireKMeans, ClientTypeOK
  <2>2. /\ mappers_data' = L /\ Round' = 1
        /\ Send(Client, Codes \o DataBurst(mappers, L, 1))
    BY <1>3, <2>1 DEF FireKMeans, JobMessages, Round
  <2> HIDE DEF c
  <2>3. L \in Seq(Seq(Items))
        /\ \A x \in Items : Along(L, InLine(x)) = Occurrences(x)
    BY <2>1, PartitionsType, DealtPartitions
  <2> HIDE DEF L
  <2>4. QED  BY <2>2, <2>3
<1>4. CASE FireCrash
  BY <1>4 DEF FireCrash
<1>5. QED  BY <1>2, <1>3, <1>4 DEF fire_jobs

LEMMA FireWeighed ==
  ASSUME TypeInv, TypeInv', SubscribedInv, ~late, OrderInv, AllParts,
         Unanswered, mappers # {}, ClientNext, fire_jobs
  PROVE  Dealt' /\ Weighed'
<1> DEFINE b == DataBurst(mappers, mappers_data', 1)
           r == up[Client] \o Codes
<1>1. /\ UNCHANGED <<mapperVars, reducerVars, mappers, reducers>>
      /\ ~(fires > 0) /\ fires = 0 /\ down' = down
      /\ last_result' = last_result
  BY DEF ClientNext, fire_jobs, FireWordcount, FireKMeans, FireCrash, Fires,
    Ticks, resultVars, TypeInv, TypeOK, ClientTypeOK, OrderInv, FiredOnce
<1>2. /\ \A n \in Node : \A m \in ToSet(up[n]) \cup ToSet(down[n]) :
           \A t \in DataTypes : ~Is(m, t)
      /\ \A w \in Mapper : outbuff[w] = NoPairs
      /\ \A v \in Reducer : rState[v] = "EXPECT_CODE"
  BY <1>1, UnfiredQueues
<1>3. /\ mappers_data' \in Seq(Seq(Items)) /\ Round' = 1
      /\ Send(Client, Codes \o b)
      /\ \A x \in Items : Along(mappers_data', InLine(x)) = Occurrences(x)
  BY <1>1, FiredDeal
<1>4. /\ b \in Seq(Message)
      /\ \A m \in ToSet(b) : m \notin Data(RESULT_DATATYPE)
      /\ \A x \in Items : Along(b, ShareOf(x)) = Along(mappers_data', InLine(x))
  <2>1. mappers \in SUBSET Mapper /\ 1 \in 1..MaxRounds
    BY ProtocolAssumption DEF TypeInv, TypeOK, ClientTypeOK
  <2>2. QED  BY <1>3, <2>1, DealtMessages
<1>5. /\ Codes \in Seq(Message)
      /\ \A m \in ToSet(Codes) : \A t \in DataTypes : ~Is(m, t)
  BY CodesAreCode
<1>6. up \in [Node -> Seq(Message)] /\ up[Client] \in Seq(Message)
      /\ Client \in Node
  BY Roles DEF TypeInv, TypeOK
<1> HIDE DEF b
<1>7. /\ up'[Client] = r \o b /\ r \in Seq(Message)
      /\ ToSet(r) = ToSet(up[Client]) \cup ToSet(Codes)
      /\ \A n \in Node : n # Client => up'[n] = up[n]
  <2>1. Codes \o b \in Seq(Message)
    BY <1>4, <1>5, Together
  <2>2. up'[Client] = up[Client] \o (Codes \o b)
        /\ \A n \in Node : n # Client => up'[n] = up[n]
    BY <1>3, <1>6, <2>1, FillQueue
  <2>3. up[Client] \o (Codes \o b) = r \o b
    BY <1>4, <1>5, <1>6, ConcatAssociative
  <2>4. QED  BY <1>5, <1>6, <2>2, <2>3, Together
<1> HIDE DEF r
<1>8. /\ \A m \in ToSet(r) : \A t \in DataTypes : m \notin Data(t)
      /\ \A n \in Node : n # Client =>
           \A m \in ToSet(up'[n]) : \A t \in DataTypes : m \notin Data(t)
      /\ \A n \in Node :
           \A m \in ToSet(down'[n]) : \A t \in DataTypes : m \notin Data(t)
  <2>1. \A m : \A t : m \in Data(t) => Is(m, t)
    BY DEF Data
  <2>2. QED  BY <1>1, <1>2, <1>5, <1>6, <1>7, <2>1
<1>9. /\ \A w \in Mapper : outbuff'[w] = NoPairs
      /\ \A v \in Reducer : BufferBefore(v)' = NoPairs
  <2>1. \A v \in Reducer : data_buff[v] = NoPairs
    BY <1>2 DEF AllParts, BuffersPairs
  <2>2. QED  BY <1>1, <1>2, <2>1 DEF mapperVars, reducerVars, BufferBefore
<1>10. Dealt'
  BY <1>3 DEF Dealt, Occurrences
<1>11. last_result' = NoResult
  BY <1>1 DEF Unanswered
<1>12. Round' \in 1..MaxRounds
  BY <1>3, ProtocolAssumption
<1>13. Weighed'
  BY <1>4, <1>7, <1>8, <1>9, <1>10, <1>11, <1>12, FreshWeighed
<1>14. QED  BY <1>10, <1>13

LEMMA NewRoundWeighed ==
  ASSUME TypeInv, TypeInv', SubscribedInv, ~late, Sane, AllParts, Accounts,
         Dealt, ClientNext, fire_new_round
  PROVE  Dealt' /\ Weighed'
<1> DEFINE b == DataBurst(mappers, mappers_data, round_ + 1)
           r == up[Client]
<1>1. /\ UNCHANGED <<mapperVars, reducerVars, mappers_data>> /\ TakesResult
      /\ Head(down[Client]).body.end
      /\ reducers_done + 1 = Cardinality(reducers) /\ App = "KMEANS"
      /\ round_' = round_ + 1 /\ round_ < MaxRounds
      /\ last_result' = NoResult /\ Send(Client, b)
  BY DEF ClientNext, fire_new_round, KMeansRound, ReducerDone, LastReducer,
    TakesResult
<1>2. /\ NoneOnTheWay
      /\ \A w \in Mapper : outbuff[w] = NoPairs
      /\ \A v \in Reducer : BufferBefore(v) = NoPairs
      /\ \A m \in ToSet(down'[Client]) : \A t \in DataTypes : m \notin Data(t)
  BY <1>1, AllArrived
<1>3. /\ Client \in Node /\ r \in Seq(Message)
      /\ \A n \in Node : n # Client => down'[n] = down[n]
  BY <1>1, ResultTaken DEF TypeInv, TypeOK
<1>4. /\ b \in Seq(Message)
      /\ \A m \in ToSet(b) : m \notin Data(RESULT_DATATYPE)
      /\ \A x \in Items : Along(b, ShareOf(x)) = Along(mappers_data, InLine(x))
  <2>1. /\ mappers \in SUBSET Mapper /\ round_ + 1 \in 1..MaxRounds
        /\ mappers_data \in Seq(Seq(Items))
        /\ mappers = {} => mappers_data = <<>>
    BY <1>1, ProtocolAssumption, SMTT(30) DEF TypeInv, TypeOK, ClientTypeOK,
      DealtToMappers
  <2>2. QED  BY <2>1, DealtMessages
<1> HIDE DEF b
<1>5. /\ up'[Client] = r \o b
      /\ \A n \in Node : n # Client => up'[n] = up[n]
  <2>1. up \in [Node -> Seq(Message)]
    BY DEF TypeInv, TypeOK
  <2>2. QED  BY <1>1, <1>3, <1>4, <2>1, FillQueue
<1>6. /\ \A m \in ToSet(r) : \A t \in DataTypes : m \notin Data(t)
      /\ \A n \in Node : n # Client =>
           \A m \in ToSet(up'[n]) : \A t \in DataTypes : m \notin Data(t)
      /\ \A n \in Node :
           \A m \in ToSet(down'[n]) : \A t \in DataTypes : m \notin Data(t)
  BY <1>2, <1>3, <1>5 DEF NoneOnTheWay
<1> HIDE DEF r
<1>7. /\ \A w \in Mapper : outbuff'[w] = NoPairs
      /\ \A v \in Reducer : BufferBefore(v)' = NoPairs
  BY <1>1, <1>2 DEF mapperVars, reducerVars, BufferBefore
<1>8. Dealt'
  BY <1>1 DEF Dealt, Occurrences
<1>9. Round' \in 1..MaxRounds
  BY <1>1, ProtocolAssumption DEF Round, TypeInv, TypeOK, ClientTypeOK
<1>10. \A x \in Items : Along(b, ShareOf(x)) = Along(mappers_data', InLine(x))
  BY <1>1, <1>4
<1>11. Weighed'
  BY <1>1, <1>3, <1>4, <1>5, <1>6, <1>7, <1>8, <1>9, <1>10, FreshWeighed
<1>12. QED  BY <1>8, <1>11
-----------------------------------------------------------------------------
(* Without a combine function nothing is kept back, ever.                  *)
LEMMA KeepsNone ==
  ASSUME TypeInv, NoneKept, [Next]_vars
  PROVE  NoneKept'
<1> SUFFICES ASSUME ~HasCombine, NEW v \in Mapper
             PROVE  outbuff'[v] = NoPairs /\ (dataOnce'[v] \/ writethrough'[v])
  BY DEF NoneKept
<1>1. outbuff[v] = NoPairs /\ (dataOnce[v] \/ writethrough[v])
  BY DEF NoneKept
<1>2. CASE UNCHANGED mapperVars
  BY <1>1, <1>2 DEF mapperVars
<1>3. ASSUME NEW w \in Mapper, MapperNext(w)
      PROVE  outbuff'[v] = NoPairs /\ (dataOnce'[v] \/ writethrough'[v])
  <2>1. WriteThrough(w)
    BY DEF WriteThrough, NoneKept
  <2>2. /\ outbuff \in [Mapper -> [Key -> Value]]
        /\ writethrough \in [Mapper -> BOOLEAN]
        /\ dataOnce \in [Mapper -> BOOLEAN]
    BY DEF TypeInv, TypeOK, MapperTypeOK
  <2>3. outbuff'[v] = NoPairs
    <3>1. \/ outbuff' = outbuff
          \/ outbuff' = [outbuff EXCEPT ![w] = NoPairs]
      BY <1>3, <2>1 DEF MapperNext, MapperStep, MapCode, MapData,
        finish_round, MapReject
    <3>2. QED  BY <1>1, <2>2, <3>1
  <2>4. writethrough' = writethrough /\ dataOnce' = dataOnce =>
          dataOnce'[v] \/ writethrough'[v]
    BY <1>1, Zenon
  <2>5. CASE writethrough'[w] /\ (v # w => writethrough'[v] = writethrough[v]
                                           /\ dataOnce'[v] = dataOnce[v])
    BY <1>1, <2>3, <2>5
  <2>6. \/ writethrough' = writethrough /\ dataOnce' = dataOnce
        \/ writethrough'[w] /\ (v # w => writethrough'[v] = writethrough[v]
                                         /\ dataOnce'[v] = dataOnce[v])
    <3>1. CASE MapData(w)
      BY <2>1, <2>2, <3>1 DEF MapData, TakesMapData
    <3>2. CASE finish_round(w)
      BY <2>1, <2>2, <3>2 DEF finish_round, TakesMapData
    <3>3. CASE MapReject(w)
      BY <2>1, <2>2, <3>3 DEF MapReject
    <3>4. QED
      BY <1>3, <3>1, <3>2, <3>3 DEF MapperNext, MapperStep, MapCode
  <2>7. QED  BY <2>3, <2>4, <2>5, <2>6
<1>4. CASE UNCHANGED vars
  BY <1>2, <1>4 DEF vars
<1>5. QED
  BY <1>2, <1>3, <1>4 DEF Next, RouterNext, StartNext, ReducerNext, ClientNext

(* Answers are kept, and grow by what has been computed in the round.      *)
LEMMA RegularSame ==
  ASSUME reducers' = reducers, late' = late
  PROVE  Regular' <=> Regular
BY DEF Regular

LEMMA AnswersStay ==
  ASSUME AnswersExact, reducers' = reducers, late' = late, answers' = answers
  PROVE  AnswersExact'
<1>1. \A r : Exact(r)' = Exact(r)
  BY DEF Exact, Computed, Occurrences
<1>2. QED  BY <1>1, RegularSame DEF AnswersExact

LEMMA AnswersGrow ==
  ASSUME TypeInv, AnswersExact, reducers' = reducers, late' = late,
         answers' = Append(answers, last_result),
         Regular => last_result = Exact(Len(answers) + 1)
  PROVE  AnswersExact'
<1>1. \A r : Exact(r)' = Exact(r)
  BY DEF Exact, Computed, Occurrences
<1>2. answers \in Seq([Key -> Seq(Value)])
      /\ last_result \in [Key -> Seq(Value)]
  BY DEF TypeInv, TypeOK, ClientTypeOK
<1>3. ASSUME Regular, NEW r \in DOMAIN answers'
      PROVE  answers'[r] = Exact(r)
  <2>1. CASE r = Len(answers) + 1
    BY <1>2, <1>3, <2>1
  <2>2. CASE r # Len(answers) + 1
    <3>1. r \in DOMAIN answers /\ answers'[r] = answers[r]
      BY <1>2, <2>2
    <3>2. QED  BY <1>3, <3>1 DEF AnswersExact
  <2>3. QED  BY <2>1, <2>2
<1>4. QED  BY <1>1, <1>3, RegularSame DEF AnswersExact

(* The results of a round are those that it was to compute. *)
LEMMA ResultsExact ==
  ASSUME TypeInv, SubscribedInv, ~late, Sane, AllParts, Accounts, Weighed,
         Unanswered, fires > 0, TakesResult, Head(down[Client]).body.end,
         reducers_done + 1 = Cardinality(reducers)
  PROVE  Regular => last_result = Exact(Len(answers) + 1)
<1>1. /\ NoneOnTheWay /\ NumberedFrom0
      /\ \A w \in Mapper : outbuff[w] = NoPairs
      /\ \A v \in Reducer : BufferBefore(v) = NoPairs
  BY AllArrived
<1>2. Round \in 1..MaxRounds /\ Round = Len(answers) + 1
  <2>1. status = "running"
    BY ResultTaken
  <2>2. QED  BY <2>1, RoundType
<1>3. ASSUME Regular
      PROVE  last_result = Exact(Round)
  <2>1. Balanced
    BY <1>1, <1>3 DEF Weighed, NoneLost, Regular
  <2>2. \A x \in Items :
          Along(last_result[MapKey(Round, x)], ValueAt(x)) = Occurrences(x)
    <3>1. \A x \in Items : Total(Load(x))
            = Along(last_result[MapKey(Round, x)], ValueAt(x))
      BY <1>1, <1>2, ItemsArrived
    <3>2. QED  BY <2>1, <3>1 DEF Balanced
  <2>3. ResultsMapped /\ OneAnswer
    BY DEF Weighed
  <2>4. QED  BY <1>2, <2>2, <2>3, RoundExact
<1>4. QED  BY <1>2, <1>3
-----------------------------------------------------------------------------
(* The steps taken together.                                               *)
LEMMA MapperWeighed ==
  ASSUME TypeInv, TypeInv', SubscribedInv, OrderInv, ~late, AllParts,
         Accounts, Sane, NoneKept, Round \in 1..MaxRounds, Weighed,
         NEW w \in Mapper, MapperNext(w)
  PROVE  Weighed'
<1>1. Settled
  BY MapperAccounts
<1>2. MapCode(w) \/ MapData(w) \/ finish_round(w) \/ MapReject(w)
  BY DEF MapperNext, MapperStep
<1>3. CASE MapCode(w) \/ MapReject(w)
  BY <1>1, <1>3, MapCodeWeighed
<1>4. CASE MapData(w)
  BY <1>1, <1>4, MapDataWeighed
<1>5. CASE finish_round(w)
  BY <1>1, <1>5, FinishWeighed
<1>6. QED  BY <1>2, <1>3, <1>4, <1>5

LEMMA ReducerWeighed ==
  ASSUME TypeInv, TypeInv', OrderInv, AllParts, Accounts, Sane,
         Round \in 1..MaxRounds, Weighed, NEW v \in Reducer, ReducerNext(v)
  PROVE  Weighed'
<1>1. Settled
  BY ReducerAccounts
<1>2. \/ ReduceCode(v) \/ ReduceReject(v) \/ ReduceData(v) \/ MoreMappers(v)
      \/ start_process(v)
  BY DEF ReducerNext, ReducerStep
<1>3. CASE ReduceCode(v) \/ ReduceReject(v)
  BY <1>1, <1>3, ReduceCodeWeighed
<1>4. CASE ReduceData(v)
  BY <1>1, <1>4, ReduceDataWeighed
<1>5. CASE MoreMappers(v)
  BY <1>1, <1>5, MoreMappersWeighed
<1>6. CASE start_process(v)
  BY <1>6, ProcessWeighed
<1>7. QED  BY <1>2, <1>3, <1>4, <1>5, <1>6

LEMMA OthersWeighed ==
  ASSUME TypeInv, TypeInv', SubscribedInv, OrderInv, ~late, AllParts,
         Accounts, Sane, NoneKept, Round \in 1..MaxRounds, Weighed,
         \/ \E n \in Node : RouterNext(n)
         \/ \E w \in Worker : StartNext(w)
         \/ \E w \in Mapper : MapperNext(w)
         \/ \E w \in Reducer : ReducerNext(w)
  PROVE  Weighed'
<1>1. ASSUME NEW n \in Node, RouterNext(n)
      PROVE  Weighed'
  <2>1. Settled
    BY <1>1, RouterAccounts
  <2>2. QED  BY <1>1, <2>1, RouterWeighed
<1>2. ASSUME NEW w \in Worker, StartNext(w)
      PROVE  Weighed'
  <2>1. Settled
    BY <1>2, StartNeutral
  <2>2. QED  BY <1>2, <2>1, StartWeighed
<1>3. QED  BY <1>1, <1>2, MapperWeighed, ReducerWeighed

(* What the client holds stays as it is when others take a step. *)
LEMMA OthersAnswer ==
  ASSUME TypeInv, TypeInv', SubscribedInv, ProtocolInv, RoundInv, AnswerInv,
         UNCHANGED clientVars, NoneKept',
         \/ \E n \in Node : RouterNext(n)
         \/ \E w \in Worker : StartNext(w)
         \/ \E w \in Mapper : MapperNext(w)
         \/ \E w \in Reducer : ReducerNext(w)
  PROVE  AnswerInv'
<1>1. CASE late
  BY <1>1 DEF AnswerInv, clientVars
<1>2. CASE ~late
  <2>1. OrderInv /\ AllParts /\ Unanswered /\ AnswersExact /\ NoneKept
    BY <1>2 DEF ProtocolInv, RoundInv, AnswerInv
  <2>2. Unanswered'
    BY <2>1 DEF Unanswered, clientVars, resultVars, firingVars
  <2>3. AnswersExact'
    BY <2>1, AnswersStay DEF clientVars, resultVars
  <2>4. ASSUME fires' > 0, Sane', status' = "running"
        PROVE  Dealt' /\ Weighed'
    <3>1. fires > 0 /\ Sane /\ status = "running" /\ Accounts
      BY <1>2, <2>4 DEF clientVars, firingVars, Sane, RoundInv
    <3>2. Dealt /\ Weighed
      BY <1>2, <3>1 DEF AnswerInv
    <3>3. Dealt'
      BY <3>2 DEF Dealt, Occurrences, clientVars
    <3>4. Round \in 1..MaxRounds
      BY <2>1, <3>1, RoundType
    <3>5. Weighed'
      BY <1>2, <2>1, <3>1, <3>2, <3>4, OthersWeighed
    <3>6. QED  BY <3>3, <3>5
  <2>5. QED  BY <2>2, <2>3, <2>4 DEF AnswerInv
<1>3. QED  BY <1>1, <1>2

(* The client registers a worker or counts down: nothing is fired yet. *)
LEMMA QuietAnswers ==
  ASSUME TypeInv, OrderInv, ~late, Unanswered, ~late', NoneKept',
         HandleJobRequest \/ CountDown \/ FileError
  PROVE  AnswerInv'
<1>1. /\ fires = 0 /\ fires' = fires /\ answers' = answers
      /\ last_result' = last_result /\ mappers_data' = mappers_data
      /\ round_' = round_ /\ status' \in {status, "crashed"}
  <2>1. fires \in 0..MaxFires /\ MaxFires \in Nat /\ counter \in Nat
        /\ (fires > 0 => counter = 0)
    BY ClientAssumption
    DEF OrderInv, FiredOnce, TypeInv, TypeOK, ClientTypeOK
  <2>2. CASE HandleJobRequest
    <3>1. late' = (late \/ fires > 0)
      BY <2>2 DEF HandleJobRequest
    <3>2. ~(fires > 0)
      BY <3>1, Zenon
    <3>3. fires = 0
      BY <2>1, <3>2
    <3>4. QED  BY <2>2, <3>3 DEF HandleJobRequest, firingVars, resultVars
  <2>3. CASE CountDown \/ FileError
    <3>1. counter > 0
      BY <2>1, <2>3 DEF CountDown, FileError
    <3>2. fires = 0
      BY <2>1, <3>1
    <3>3. QED
      BY <2>3, <3>2 DEF CountDown, FileError, Ticks, firingVars, resultVars
  <2>4. QED  BY <2>2, <2>3
<1>2. Unanswered'
  BY <1>1 DEF Unanswered
<1>3. answers' = <<>>
  BY <1>1 DEF Unanswered
<1>4. AnswersExact'
  BY <1>3 DEF AnswersExact
<1>5. ~(fires' > 0)
  BY <1>1
<1>6. QED  BY <1>2, <1>4, <1>5 DEF AnswerInv

(* It fires the job. *)
LEMMA FireAnswers ==
  ASSUME TypeInv, TypeInv', SubscribedInv, OrderInv, AllParts, ~late,
         Unanswered, AnswersExact, NoneKept', ClientNext, fire_jobs
  PROVE  AnswerInv'
<1>1. /\ fires = 0 /\ fires' = 1 /\ answers' = answers
      /\ late' = late /\ mappers' = mappers /\ reducers' = reducers
  BY DEF fire_jobs, FireWordcount, FireKMeans, FireCrash, Fires, Ticks,
    resultVars, OrderInv, FiredOnce, TypeInv, TypeOK, ClientTypeOK
<1>2. answers = <<>> /\ Len(answers) = 0
  BY <1>1 DEF Unanswered
<1>3. status' = "running" /\ App = "KMEANS" => round_' = 1
  BY DEF fire_jobs, FireWordcount, FireKMeans, FireCrash
<1>4. Unanswered'
  BY <1>1, <1>2, <1>3 DEF Unanswered
<1>5. AnswersExact'
  BY <1>1, AnswersStay
<1>6. Sane' => mappers # {}
  BY <1>1, SaneCounts DEF Sane
<1>7. Sane' => Dealt' /\ Weighed'
  BY <1>6, FireWeighed
<1>8. QED  BY <1>4, <1>5, <1>7 DEF AnswerInv

(* It takes a result, of a job that was fired with numbers of workers that *)
(* they take.                                                              *)
LEMMA PairAnswers ==
  ASSUME TypeInv, TypeInv', AllParts, Accounts, ~late, fires > 0, Dealt,
         Weighed, Unanswered, AnswersExact, NoneKept', ClientNext,
         HandlePair \/ MoreReducers
  PROVE  AnswerInv'
<1>1. /\ fires' = fires /\ answers' = answers /\ late' = late
      /\ mappers' = mappers /\ reducers' = reducers
      /\ mappers_data' = mappers_data /\ round_' = round_
      /\ status' = status /\ status = "running"
  BY DEF HandlePair, MoreReducers, ReducerDone, TakesResult, Takes
<1>2. Unanswered'
  BY <1>1 DEF Unanswered
<1>3. AnswersExact'
  BY <1>1, AnswersStay
<1>4. Dealt'
  BY <1>1 DEF Dealt, Occurrences
<1>5. Round \in 1..MaxRounds
  BY <1>1, RoundType
<1>6. Settled
  BY ResultAccounts
<1>7. Weighed'
  BY <1>5, <1>6, PairWeighed, MoreReducersWeighed
<1>8. QED  BY <1>2, <1>3, <1>4, <1>7 DEF AnswerInv

LEMMA LastAnswers ==
  ASSUME TypeInv, TypeInv', SubscribedInv, Sane, AllParts, Accounts, ~late,
         fires > 0, Dealt, Weighed, Unanswered, AnswersExact, NoneKept',
         ClientNext, WordcountFinish \/ fire_new_round \/ KMeansFinish
  PROVE  AnswerInv'
<1>1. /\ TakesResult /\ Head(down[Client]).body.end
      /\ reducers_done + 1 = Cardinality(reducers)
      /\ fires' = fires /\ late' = late /\ reducers' = reducers
      /\ answers' = Append(answers, last_result) /\ status = "running"
  BY DEF WordcountFinish, fire_new_round, KMeansFinish, KMeansRound,
    ReducerDone, LastReducer, TakesResult, Takes
<1>2. Regular => last_result = Exact(Len(answers) + 1)
  BY <1>1, ResultsExact
<1>3. AnswersExact'
  BY <1>1, <1>2, AnswersGrow
<1>4. CASE WordcountFinish \/ KMeansFinish
  <2>1. status' = "exited"
    BY <1>4 DEF WordcountFinish, KMeansFinish
  <2>2. Unanswered'
    BY <1>1, <2>1 DEF Unanswered
  <2>3. QED  BY <1>3, <2>1, <2>2 DEF AnswerInv
<1>5. CASE fire_new_round
  <2>1. Dealt' /\ Weighed'
    BY <1>5, NewRoundWeighed
  <2>2. App = "KMEANS" /\ round_' = round_ + 1
    BY <1>5 DEF fire_new_round, KMeansRound
  <2>3. Len(answers) \in Nat /\ Len(answers') = Len(answers) + 1
    BY <1>1 DEF TypeInv, TypeOK, ClientTypeOK
  <2>4. round_' = Len(answers') + 1
    BY <1>1, <2>2, <2>3 DEF Unanswered
  <2>5. Unanswered'
    BY <1>1, <2>2, <2>4 DEF Unanswered
  <2>6. QED  BY <1>3, <2>1, <2>5 DEF AnswerInv
<1>6. QED  BY <1>4, <1>5

LEMMA ClientAnswers ==
  ASSUME TypeInv, TypeInv', SubscribedInv, ProtocolInv, RoundInv, AnswerInv,
         ClientNext, NoneKept'
  PROVE  AnswerInv'
<1>1. CASE late'
  BY <1>1 DEF AnswerInv
<1>2. CASE ~late'
  <2>1. ~late
    BY <1>2, StaysLate DEF Next
  <2>2. /\ OrderInv /\ AllParts /\ Unanswered /\ AnswersExact
        /\ fires > 0 => IF Sane THEN Accounts ELSE NoMore
    BY <2>1 DEF ProtocolInv, RoundInv, AnswerInv
  <2>3. CASE HandleJobRequest \/ CountDown \/ FileError
    BY <1>2, <2>1, <2>2, <2>3, QuietAnswers
  <2>4. CASE fire_jobs
    BY <2>1, <2>2, <2>4, FireAnswers
  <2>5. CASE TakesResult
    <3>1. /\ Client \in Node /\ Receive(Client) /\ status = "running"
          /\ Is(Head(down[Client]), RESULT_DATATYPE)
      BY <2>5, ResultTaken
    <3>2. fires > 0
      BY <2>1, <3>1, NodeHead, ServedWasFired, DataServe DEF DataTypes
    <3>3. Sane /\ Accounts
      BY <2>2, <2>5, <3>2, NoResultTaken
    <3>4. Dealt /\ Weighed
      BY <2>1, <3>1, <3>2, <3>3 DEF AnswerInv
    <3>5. CASE HandlePair \/ MoreReducers
      BY <2>1, <2>2, <3>2, <3>3, <3>4, <3>5, PairAnswers
    <3>6. CASE WordcountFinish \/ fire_new_round \/ KMeansFinish
      BY <2>1, <2>2, <3>2, <3>3, <3>4, <3>6, LastAnswers
    <3>7. QED
      BY <2>3, <2>4, <3>5, <3>6 DEF ClientNext, ClientStep
  <2>6. QED
    BY <2>3, <2>4, <2>5 DEF ClientNext, ClientStep, HandlePair,
      MoreReducers, WordcountFinish, fire_new_round, KMeansFinish,
      KMeansRound, ReducerDone
<1>3. QED  BY <1>1, <1>2

LEMMA InitAnswers == Init => AnswerInv
<1> SUFFICES ASSUME Init  PROVE AnswerInv
  OBVIOUS
<1>1. /\ \A w \in Mapper : outbuff[w] = NoPairs /\ dataOnce[w]
      /\ answers = <<>> /\ last_result = NoResult /\ mappers_data = <<>>
      /\ fires = 0 /\ round_ = 0
  BY DEF Init, ClientInit, MapperInit
<1>2. NoneKept
  BY <1>1 DEF NoneKept
<1>3. Len(answers) = 0 /\ DOMAIN answers = {}
  BY <1>1
<1>4. Unanswered
  BY <1>1, <1>3 DEF Unanswered
<1>5. AnswersExact
  BY <1>3 DEF AnswersExact
<1>6. QED  BY <1>1, <1>2, <1>4, <1>5 DEF AnswerInv

LEMMA StutterAnswers ==
  ASSUME AnswerInv, UNCHANGED vars
  PROVE  AnswerInv'
<1>1. /\ up' = up /\ down' = down
      /\ UNCHANGED <<mapperVars, reducerVars, clientVars>>
  BY DEF vars, netVars
<1>2. NoneKept' <=> NoneKept
  BY <1>1 DEF NoneKept, mapperVars
<1>3. Unanswered' <=> Unanswered
  BY <1>1 DEF Unanswered, clientVars, resultVars, firingVars
<1>4. late' = late /\ (AnswersExact => AnswersExact')
  BY <1>1, AnswersStay DEF clientVars, resultVars
<1>5. (Dealt' <=> Dealt) /\ (Sane' <=> Sane)
  BY <1>1 DEF Dealt, Occurrences, clientVars, Sane
<1>6. Weighed' <=> Weighed
  <2>1. Round' = Round /\ reducers' = reducers /\ last_result' = last_result
    BY <1>1 DEF Round, clientVars, resultVars, firingVars
  <2>2. \A w, d : EndsFor(w)' = EndsFor(w) /\ Owes(w, d)' = Owes(w, d)
    BY <1>1 DEF EndsFor, Owes
  <2>3. \A v : Expected(v)' = Expected(v) /\ BufferBefore(v)' = BufferBefore(v)
    BY <1>1, <2>1, <2>2 DEF Expected, Debtors, Addressed, Below, DoneBefore,
      BufferBefore, reducerVars, clientVars
  <2>4. \A k : Tickets(k)' = Tickets(k)
    BY <1>1, <2>1, <2>3 DEF Tickets, Weight, Answering, MayAnswer, DestOf, Mark
  <2>5. \A x : Load(x)' = Load(x)
    BY <1>1, <2>1, <2>3 DEF Load, Weight, Held, ShareOf, mapperVars
  <2>6. ResultsMapped' <=> ResultsMapped
    BY <2>1 DEF ResultsMapped, Result, Mapped
  <2>7. (OneAnswer' <=> OneAnswer) /\ (Balanced' <=> Balanced)
    BY <2>4, <2>5 DEF OneAnswer, Balanced, Occurrences
  <2>8. NoneLost' <=> NoneLost
    BY <2>1 DEF NoneLost, NumberedFrom0
  <2>9. QED  BY <2>6, <2>7, <2>8 DEF Weighed
<1>7. fires' = fires /\ status' = status
  BY <1>1 DEF clientVars, firingVars
<1>8. QED  BY <1>2, <1>3, <1>4, <1>5, <1>6, <1>7 DEF AnswerInv

LEMMA StepAnswers ==
  TypeInv /\ SubscribedInv /\ ProtocolInv /\ RoundInv /\ AnswerInv
    /\ [Next]_vars => AnswerInv'
<1> SUFFICES ASSUME TypeInv, SubscribedInv, ProtocolInv, RoundInv, AnswerInv,
                    [Next]_vars
             PROVE  AnswerInv'
  OBVIOUS
<1>1. TypeInv' /\ NoneKept'
  BY StepTypes, KeepsNone DEF AnswerInv
<1>2. CASE \/ \E n \in Node : RouterNext(n)
           \/ \E w \in Worker : StartNext(w)
           \/ \E w \in Mapper : MapperNext(w)
           \/ \E w \in Reducer : ReducerNext(w)
  <2>1. UNCHANGED clientVars
    BY <1>2 DEF RouterNext, StartNext, MapperNext, ReducerNext
  <2>2. QED  BY <1>1, <1>2, <2>1, OthersAnswer
<1>3. CASE ClientNext
  BY <1>1, <1>3, ClientAnswers
<1>4. CASE UNCHANGED vars
  BY <1>4, StutterAnswers
<1>5. QED  BY <1>2, <1>3, <1>4 DEF Next

(* The answers are exact: in a job that nobody joins late and that has ten *)
(* reducers at most, whatever the interleaving and for any number of       *)
(* mappers, each round that the client completes answers every key of the  *)
(* map script once, with exactly the occurrences of its items in the file: *)
(* no line is lost or dealt out twice (senddata_mappers, and for points    *)
(* kmeans_preprocess), no pair or partial sum is lost, repeated or put     *)
(* under another key by mapper, router or reducer, and handle_msg closes   *)
(* the round with all results in.                                          *)
THEOREM AnswersAreExact == Spec => []AnswersExact
<1>1. Init => TypeInv /\ SubscribedInv /\ ProtocolInv /\ RoundInv /\ AnswerInv
  BY InitTypes, InitSubscribed, InitOrder, InitRound, InitAnswers
<1>2. TypeInv /\ SubscribedInv /\ ProtocolInv /\ RoundInv /\ AnswerInv
        /\ [Next]_vars
        => TypeInv' /\ SubscribedInv' /\ ProtocolInv' /\ RoundInv' /\ AnswerInv'
  BY StepTypes, StepSubscribed, StepOrder, StepRound, StepAnswers
<1>3. AnswerInv => AnswersExact
  BY DEF AnswerInv, AnswersExact, Regular
<1>4. QED  BY <1>1, <1>2, <1>3, PTL DEF Spec
-----------------------------------------------------------------------------
(* The job that is offered.  A result that is read was answered to a job   *)
(* with numbers of workers that they take.                                 *)
LEMMA ResultAccounted ==
  ASSUME TypeInv, SubscribedInv, RoundInv, AnswerInv, ~late, TakesResult
  PROVE  /\ fires > 0 /\ Sane /\ AllParts /\ Accounts
         /\ Weighed /\ Unanswered /\ status = "running"
<1>1. /\ Client \in Node /\ Receive(Client) /\ status = "running"
      /\ Is(Head(down[Client]), RESULT_DATATYPE)
  BY ResultTaken
<1>2. fires > 0
  BY <1>1, NodeHead, ServedWasFired, DataServe DEF DataTypes
<1>3. AllParts /\ Unanswered /\ IF Sane THEN Accounts ELSE NoMore
  BY <1>2 DEF RoundInv, AnswerInv
<1>4. Sane /\ Accounts
  BY <1>3, NoResultTaken
<1>5. Weighed
  BY <1>1, <1>2, <1>4 DEF AnswerInv
<1>6. QED  BY <1>1, <1>2, <1>3, <1>4, <1>5

(* While the countdown is on, nothing was answered. *)
LEMMA CountingUnanswered ==
  ASSUME TypeInv, ProtocolInv, AnswerInv, ~late, counter > 0
  PROVE  answers = <<>>
<1>1. fires \in 0..MaxFires /\ MaxFires \in Nat /\ counter \in Nat
      /\ (fires > 0 => counter = 0)
  BY ClientAssumption
  DEF ProtocolInv, OrderInv, FiredOnce, TypeInv, TypeOK, ClientTypeOK
<1>2. fires = 0
  BY <1>1
<1>3. QED  BY <1>2 DEF AnswerInv, Unanswered

(* Workers are registered by requests alone, and for good. *)
LEMMA OnlyRequests ==
  ASSUME TypeInv, [Next]_vars
  PROVE  \/ /\ ClientNext /\ HandleJobRequest
            /\ status = "running" /\ status' = status /\ answers' = answers
            /\ reducers \subseteq reducers'
         \/ reducers' = reducers /\ late' = late
  BY DEF Next, vars, clientVars, RouterNext, StartNext, MapperNext,
    ReducerNext, ClientNext, ClientStep, HandleJobRequest, Takes, resultVars,
    HandlePair, MoreReducers, WordcountFinish, fire_new_round, KMeansFinish,
    KMeansRound, ReducerDone, TakesResult, CountDown, FileError, fire_jobs,
    FireWordcount, FireKMeans, FireCrash, Fires, Ticks

LEMMA StaysIrregular ==
  ASSUME TypeInv, TypeInv', [Next]_vars, ~Regular
  PROVE  ~Regular'
<1>1. /\ reducers \subseteq reducers' /\ reducers' \in SUBSET Reducer
      /\ reducers \in SUBSET Reducer
  BY OnlyRequests DEF TypeInv, TypeOK, ClientTypeOK
<1>2. /\ Cardinality(reducers) \in Nat /\ Cardinality(reducers') \in Nat
      /\ Cardinality(reducers) <= Cardinality(reducers')
  <2>1. IsFiniteSet(reducers')
    BY <1>1, RolesFinite, FS_Subset
  <2>2. QED  BY <1>1, <2>1, FS_Subset, FS_CardinalityType
<1>3. late => late'
  BY StaysLate
<1>4. QED  BY <1>2, <1>3 DEF Regular

(* The last result of a round makes an answer of the job. *)
LEMMA LastIsAnswer ==
  ASSUME TypeInv, TypeInv', SubscribedInv, RoundInv, AnswerInv, Regular,
         Regular', WordcountFinish \/ fire_new_round \/ KMeansFinish
  PROVE  Job!Answer
<1>1. /\ TakesResult /\ Head(down[Client]).body.end
      /\ reducers_done + 1 = Cardinality(reducers) /\ ~late
      /\ answers' = Append(answers, last_result) /\ status = "running"
      /\ IF App = "KMEANS" THEN status' \in {"running", "exited"}
                           ELSE status' = "exited"
  BY DEF WordcountFinish, fire_new_round, KMeansFinish, KMeansRound,
    ReducerDone, LastReducer, TakesResult, Takes, Regular
<1>2. /\ fires > 0 /\ Sane /\ AllParts /\ Accounts /\ Weighed /\ Unanswered
  BY <1>1, ResultAccounted
<1>3. last_result = Exact(Len(answers) + 1)
  BY <1>1, <1>2, ResultsExact
<1>4. Len(answers) \in Nat /\ MaxRounds \in Nat /\ Len(answers) < MaxRounds
  <2>1. Round \in 1..MaxRounds /\ Round = Len(answers) + 1
    BY <1>1, <1>2, RoundType
  <2>2. Len(answers) \in Nat /\ MaxRounds \in Nat
    BY ProtocolAssumption DEF TypeInv, TypeOK, ClientTypeOK
  <2>3. QED  BY <2>1, <2>2
<1> DEFINE R == [r \in 1..MaxRounds |-> Exact(r)]
<1>5. answers' = Append(answers, R[Len(answers) + 1])
  BY <1>1, <1>3, <1>4
<1>6. QED  BY <1>1, <1>4, <1>5 DEF Job!Answer

LEMMA JobStarts == Init => Job!JobInit
<1> SUFFICES ASSUME Init PROVE Job!JobInit
  OBVIOUS
<1>1. /\ answers = <<>> /\ status = "running"
      /\ late = FALSE /\ Cardinality(reducers) = 0
  BY FS_EmptySet DEF Init, ClientInit
<1>2. QED  BY <1>1 DEF Regular, Job!JobInit

LEMMA JobGoesOn ==
  TypeInv /\ TypeInv' /\ SubscribedInv /\ ProtocolInv /\ RoundInv /\ AnswerInv
    /\ [Next]_vars => [Job!JobNext]_(Job!jobVars)
<1> SUFFICES ASSUME TypeInv, TypeInv', SubscribedInv, ProtocolInv, RoundInv,
                    AnswerInv, [Next]_vars
             PROVE  [Job!JobNext]_(Job!jobVars)
  OBVIOUS
<1>1. CASE ~Regular
  BY <1>1, StaysIrregular DEF Job!jobVars
<1>2. CASE Regular /\ ~Regular'
  <2>1. status = "running"
    BY <1>2, OnlyRequests DEF Regular
  <2>2. QED  BY <1>2, <2>1 DEF Job!Void, Job!JobNext
<1>3. CASE Regular /\ Regular'
  <2> SUFFICES \/ answers' = answers /\ status' = status
               \/ Job!Answer
               \/ /\ status = "running" /\ answers = <<>> /\ answers' = answers
                  /\ status' = "crashed"
    BY <1>3 DEF Job!Fail, Job!JobNext, Job!jobVars
  <2>1. CASE UNCHANGED clientVars
    BY <2>1 DEF clientVars, resultVars
  <2>2. CASE ClientNext /\ (WordcountFinish \/ fire_new_round \/ KMeansFinish)
    BY <1>3, <2>2, LastIsAnswer
  <2>3. CASE ClientNext /\ (FileError \/ FireCrash)
    <3>1. counter > 0 /\ ~late
      BY <1>3, <2>3 DEF FileError, FireCrash, Fires, Regular
    <3>2. QED
      BY <2>3, <3>1, CountingUnanswered
      DEF FileError, FireCrash, Fires, Ticks, resultVars
  <2>4. CASE ClientNext /\ (\/ HandleJobRequest \/ HandlePair \/ MoreReducers
                            \/ CountDown \/ FireWordcount \/ FireKMeans)
    BY <2>4 DEF HandleJobRequest, HandlePair, MoreReducers, CountDown,
      FireWordcount, FireKMeans, Fires, Ticks, resultVars
  <2>5. CASE ~ClientNext
    BY <2>1, <2>5 DEF Next, vars, RouterNext, StartNext, MapperNext,
      ReducerNext
  <2>6. QED
    BY <2>2, <2>3, <2>4, <2>5 DEF ClientNext, ClientStep, fire_jobs
<1>4. QED  BY <1>1, <1>2, <1>3

(* The system implements the job it offers, for any number of workers, any *)
(* file and any interleaving: seen from what the client prints, each step  *)
(* of handle_msg, of the countdown and of fire_jobs is an answer in its    *)
(* turn, a failure before the first answer, the end of the promise when    *)
(* a worker is late or the reducers pass ten, or nothing.  The job is that *)
(* of MapReduceJob, which knows of no workers, messages or router.         *)
THEOREM JobIsImplemented == Spec => ImplementsJob
<1>1. Init => TypeInv /\ SubscribedInv /\ ProtocolInv /\ RoundInv /\ AnswerInv
  BY InitTypes, InitSubscribed, InitOrder, InitRound, InitAnswers
<1>2. TypeInv /\ SubscribedInv /\ ProtocolInv /\ RoundInv /\ AnswerInv
        /\ [Next]_vars
        => TypeInv' /\ SubscribedInv' /\ ProtocolInv' /\ RoundInv' /\ AnswerInv'
  BY StepTypes, StepSubscribed, StepOrder, StepRound, StepAnswers
<1>3. QED
  BY <1>1, <1>2, JobStarts, JobGoesOn, PTL DEF Spec, ImplementsJob, Job!JobSpec
-----------------------------------------------------------------------------
(* The centers of a round: the results there are, and those that are       *)
(* missing, make one for each id.                                          *)
Entries == UNION {{k} \X DOMAIN last_result[k] : k \in Key}
OneEach ==
  /\ \A k \in Key : last_result[k] = <<>> \/ DOMAIN last_result[k] = {1}
  /\ \A k \in Key : last_result[k] # <<>> => k[1] = Round

LEMMA EachCenterOnce ==
  ASSUME OneEach
  PROVE  CentersMatch
<1> DEFINE R == {j \in Key : last_result[j] # <<>>}
           I == {k[2] : k \in R}
<1>1. \A e : e \in Entries <=> \E k \in R : e = <<k, 1>>
  <2>1. ASSUME NEW k \in Key
        PROVE  /\ k \notin R => DOMAIN last_result[k] = {}
               /\ k \in R => DOMAIN last_result[k] = {1}
    BY DEF OneEach
  <2>2. \A e : e \in Entries <=>
          \E k \in Key : \E i \in DOMAIN last_result[k] : e = <<k, i>>
    BY DEF Entries
  <2>3. QED  BY <2>1, <2>2
<1>2. \A k \in R : k \in Key /\ k = <<Round, k[2]>> /\ k[2] \in KeyIds
  BY DEF OneEach, Key
<1>3. I \in SUBSET KeyIds /\ IsFiniteSet(KeyIds) /\ IsFiniteSet(I)
  <2>1. I \in SUBSET KeyIds
    BY <1>2
  <2>2. QED  BY <2>1, ProtocolAssumption, FS_Subset
<1>4. Cardinality(Entries) = Cardinality(I)
  <2> DEFINE g == [i \in I |-> <<<<Round, i>>, 1>>]
  <2>1. \A i \in I : <<Round, i>> \in R
    BY <1>2
  <2>2. g \in [I -> Entries]
    BY <1>1, <2>1
  <2>3. \A e \in Entries : \E i \in I : g[i] = e
    BY <1>1, <1>2
  <2>4. \A i, j \in I : g[i] = g[j] => i = j
    OBVIOUS
  <2> HIDE DEF g, I
  <2>5. g \in Bijection(I, Entries)
    BY <2>2, <2>3, <2>4 DEF Bijection, Injection, Surjection,
      IsInjective
  <2>6. QED  BY <1>3, <2>5, NumberSame
<1>5. MissingIds = KeyIds \ I
  BY DEF MissingIds
<1>6. Cardinality(KeyIds \ I) = Cardinality(KeyIds) - Cardinality(I)
      /\ Cardinality(I) \in Nat /\ Cardinality(KeyIds) \in Nat
  <2>1. KeyIds \cap I = I
    BY <1>3
  <2>2. QED  BY <1>3, <2>1, FS_Difference, FS_CardinalityType
<1>7. QED  BY <1>4, <1>5, <1>6 DEF CentersMatch, ResultCount, Entries

(* While nothing is collected, there are no results; and what is collected *)
(* has a result a key, all of the round.                                   *)
Collecting == fires > 0 /\ Sane /\ status = "running"
CentersInv ==
  App = "KMEANS" /\ ~late => Collecting \/ last_result = NoResult

LEMMA CollectedOnce ==
  ASSUME TypeInv, AnswerInv, CentersInv, ~late, App = "KMEANS"
  PROVE  CentersMatch
<1>1. CASE last_result = NoResult
  <2>1. \A k \in Key : last_result[k] = <<>>
    BY <1>1 DEF NoResult
  <2>2. QED  BY <2>1, EachCenterOnce DEF OneEach
<1>2. CASE Collecting
  <2>1. Weighed /\ Unanswered /\ fires > 0 /\ status = "running"
    BY <1>2 DEF AnswerInv, Collecting
  <2>2. Round \in 1..MaxRounds
    BY <2>1, RoundType
  <2>3. ASSUME NEW k \in Key
        PROVE  /\ last_result[k] = <<>> \/ DOMAIN last_result[k] = {1}
               /\ last_result[k] # <<>> => k[1] = Round
    <3>1. Len(last_result[k]) \in {0, 1} /\ last_result[k] \in Seq(Value)
      BY <2>1, OneResult DEF Weighed, TypeInv, TypeOK, ClientTypeOK
    <3>2. CASE Len(last_result[k]) = 0
      BY <3>1, <3>2
    <3>3. CASE Len(last_result[k]) = 1
      <4> DEFINE v == last_result[k][1]
      <4>1. /\ DOMAIN last_result[k] = {1} /\ v \in Value
            /\ 1 \in DOMAIN last_result[k]
        BY <3>1, <3>3
      <4>2. Mapped(k, v) /\ v # Zero
        BY <2>1, <4>1 DEF Weighed, ResultsMapped, Result
      <4> HIDE DEF v
      <4>3. PICK x \in Items : v[x] # 0
        <5>1. v \in [Items -> Nat]
          BY <4>1 DEF Value
        <5>2. (\A x \in Items : v[x] = 0) => v = [x \in Items |-> 0]
          BY <5>1
        <5>3. QED  BY <4>2, <5>2 DEF Zero
      <4>4. k = MapKey(Round, x)
        BY <4>2, <4>3 DEF Mapped
      <4>5. QED  BY <4>1, <4>4 DEF MapKey
    <3>4. QED  BY <3>1, <3>2, <3>3
  <2>4. QED  BY <2>3, EachCenterOnce DEF OneEach
<1>3. QED  BY <1>1, <1>2 DEF CentersInv

LEMMA InitCenters == Init => CentersInv
  BY DEF Init, ClientInit, CentersInv

LEMMA StepCenters ==
  TypeInv /\ SubscribedInv /\ ProtocolInv /\ RoundInv /\ AnswerInv
    /\ CentersInv /\ [Next]_vars => CentersInv'
<1> SUFFICES ASSUME TypeInv, SubscribedInv, ProtocolInv, RoundInv, AnswerInv,
                    CentersInv, [Next]_vars, App = "KMEANS", ~late'
             PROVE  Collecting' \/ last_result' = NoResult
  BY DEF CentersInv
<1>1. ~late /\ (Collecting \/ last_result = NoResult)
  BY StaysLate DEF CentersInv
<1>2. /\ fires \in 0..MaxFires /\ MaxFires \in Nat /\ counter \in Nat
      /\ (fires > 0 => counter = 0)
      /\ (fires = 0 => last_result = NoResult)
  BY <1>1, ClientAssumption
  DEF ProtocolInv, OrderInv, FiredOnce, AnswerInv, Unanswered, TypeInv,
    TypeOK, ClientTypeOK
<1>3. CASE UNCHANGED clientVars
  BY <1>1, <1>3 DEF clientVars, resultVars, firingVars, Collecting, Sane
<1>4. CASE HandleJobRequest \/ CountDown \/ FileError \/ fire_jobs
  <2>1. last_result' = last_result
    BY <1>4 DEF HandleJobRequest, CountDown, FileError, fire_jobs,
      FireWordcount, FireKMeans, FireCrash, Fires, Ticks, resultVars
  <2>2. CASE HandleJobRequest
    <3>1. late' = (late \/ fires > 0)
      BY <2>2 DEF HandleJobRequest
    <3>2. ~(fires > 0)
      BY <3>1, Zenon
    <3>3. QED  BY <1>2, <2>1, <3>2
  <2>3. CASE CountDown \/ FileError \/ fire_jobs
    <3>1. counter > 0
      BY <1>2, <2>3 DEF CountDown, FileError, fire_jobs, FireWordcount,
        FireKMeans, FireCrash, Fires
    <3>2. QED  BY <1>2, <2>1, <3>1
  <2>4. QED  BY <1>4, <2>2, <2>3
<1>5. CASE TakesResult
  <2>1. fires > 0 /\ Sane /\ status = "running"
    BY <1>1, <1>5, ResultAccounted
  <2>2. fires' = fires /\ mappers' = mappers /\ reducers' = reducers
    BY <1>5 DEF TakesResult
  <2>3. CASE HandlePair \/ MoreReducers
    <3>1. status' = status
      BY <2>3 DEF HandlePair, MoreReducers
    <3>2. QED  BY <2>1, <2>2, <3>1 DEF Collecting, Sane
  <2>4. CASE WordcountFinish
    BY <2>4 DEF WordcountFinish
  <2>5. CASE fire_new_round \/ KMeansFinish
    BY <2>5 DEF fire_new_round, KMeansFinish, KMeansRound
  <2>6. CASE ~(\/ HandlePair \/ MoreReducers \/ WordcountFinish
               \/ fire_new_round \/ KMeansFinish)
    BY <1>3, <1>4, <2>6 DEF Next, vars, RouterNext, StartNext, MapperNext,
      ReducerNext, ClientNext, ClientStep
  <2>7. QED  BY <2>3, <2>4, <2>5, <2>6
<1>6. QED
  BY <1>3, <1>4, <1>5 DEF Next, vars, RouterNext, StartNext, MapperNext,
    ReducerNext, ClientNext, ClientStep, HandlePair, MoreReducers,
    WordcountFinish, fire_new_round, KMeansFinish, KMeansRound, ReducerDone

(* No center is lost or gained as long as nobody joins late: for any       *)
(* numbers of workers and of centers, and at any time, the client has one  *)
(* result for a center at most, all of the present round, so that with the *)
(* previous centers of the ids that are missing (combine_results) there    *)
(* are as many as in the file, and kmeans_output goes on.                  *)
THEOREM NoCenterLost == Spec => [](~late => CentersKept)
<1> DEFINE Inv == /\ TypeInv /\ SubscribedInv /\ ProtocolInv /\ RoundInv
                  /\ AnswerInv /\ CentersInv
<1>1. Init => Inv
  BY InitTypes, InitSubscribed, InitOrder, InitRound, InitAnswers, InitCenters
<1>2. Inv /\ [Next]_vars => Inv'
  BY StepTypes, StepSubscribed, StepOrder, StepRound, StepAnswers, StepCenters
<1>3. Inv => (~late => CentersKept)
  BY CollectedOnce DEF CentersKept
<1>4. QED  BY <1>1, <1>2, <1>3, PTL DEF Spec
=============================================================================
