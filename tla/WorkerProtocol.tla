--------------------------- MODULE WorkerProtocol ---------------------------
(***************************************************************************)
(* What mappers and reducers share: how a worker announces itself and how  *)
(* its enclave takes the first message it ever gets for a session id       *)
(* (worker_protocol.cpp, and the static "once" of ecall_inputdata).        *)
(***************************************************************************)
EXTENDS SCBR

VARIABLE started  \* started[w]: the enclave has taken its first message

codetype(w) == IF w \in Mapper THEN MAP_CODETYPE ELSE REDUCE_CODETYPE
datatype(w) == IF w \in Mapper THEN MAP_DATATYPE ELSE REDUCE_DATATYPE

(* ecall_init: the worker subscribes to job advertisements. *)
initialsub(w) == <<Sub(w, JOB_ADVERTISE, NoDst)>>

(* The request carries the subscriptions the worker wants: code for its    *)
(* role, and data addressed to its id.                                     *)
JobRequest(w) == Pub(JOB_REQUEST, NoDst,
  Wanted(<<Sub(w, codetype(w), NoDst), Sub(w, datatype(w), w[2])>>))

startsession(w) ==
  /\ ~started[w]
  /\ Receive(w)
  /\ started' = [started EXCEPT ![w] = TRUE]
  /\ Send(w, <<JobRequest(w)>>)
  /\ UNCHANGED subs

(* A started worker reads a message of one of the given types. *)
TakesData(w, types) ==
  /\ started[w] /\ down[w] # <<>> /\ Head(down[w]).type \in types
  /\ Receive(w)
  /\ UNCHANGED <<started, subs>>
=============================================================================
