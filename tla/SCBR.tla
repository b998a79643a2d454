-------------------------------- MODULE SCBR --------------------------------
(***************************************************************************)
(* The content-based router every node is connected to.  Its code is in    *)
(* another repository; it is modelled from how client.cpp and worker.cpp   *)
(* use it: one connection per node, FIFO in each direction and with no     *)
(* order between connections; a subscription takes effect when the router  *)
(* reads it; a publication goes to the nodes whose subscription matches at *)
(* that moment, and to nobody if there is none.                            *)
(***************************************************************************)
EXTENDS MRProtocol

VARIABLES
  subs,   \* subscriptions the router holds
  up,     \* up[n]: what n has sent and the router has not read
  down    \* down[n]: what the router has sent to n and n has not read

netVars == <<subs, up, down>>

Matches(s, p) == s.type = p.type /\ s.dst \in {NoDst, p.dst}
Subscribers(p) == {s.node : s \in {t \in subs : Matches(t, p)}}

(* Node n reads its next message from the router, and sends out. *)
Receive(n) == down[n] # <<>> /\ down' = [down EXCEPT ![n] = Tail(@)]
Send(n, out) == up' = [up EXCEPT ![n] = @ \o out]

RouteSubscription(n) ==
  /\ up[n] # <<>> /\ Head(up[n]).op = "sub"
  /\ up' = [up EXCEPT ![n] = Tail(@)]
  /\ subs' = subs \cup {Head(up[n])}
  /\ UNCHANGED down

RoutePublication(n) ==
  /\ up[n] # <<>> /\ Head(up[n]).op = "pub"
  /\ up' = [up EXCEPT ![n] = Tail(@)]
  /\ down' = [m \in Node |-> IF m \in Subscribers(Head(up[n]))
                             THEN Append(down[m], Head(up[n])) ELSE down[m]]
  /\ UNCHANGED subs

Route(n) == RouteSubscription(n) \/ RoutePublication(n)
=============================================================================
