---------------------------- MODULE MapReduceJob ----------------------------
(***************************************************************************)
(* What a user of the client is promised, with no workers, messages or     *)
(* router in sight: a job answers round after round, each time with the    *)
(* result of applying the scripts to the whole file, until it finishes.    *)
(* It may fail before the first answer, never after one; and the promise   *)
(* is void once a worker joined a job that was under way, or more reducers *)
(* than it can address.                                                    *)
(***************************************************************************)
EXTENDS Naturals, Sequences

CONSTANTS
  Iterates,   \* is the job iterative, as k-means is, or over in one round?
  MaxAnswers, \* bound: rounds explored
  ResultOf    \* the result of each round

VARIABLES output, outcome

jobVars == <<output, outcome>>

JobInit == output = <<>> /\ outcome = "running"

Answer ==
  /\ outcome = "running" /\ Len(output) < MaxAnswers
  /\ output' = Append(output, ResultOf[Len(output) + 1])
  /\ outcome' \in IF Iterates THEN {"running", "exited"} ELSE {"exited"}

Fail ==
  /\ outcome = "running" /\ output = <<>>
  /\ outcome' = "crashed"
  /\ UNCHANGED output

Void ==
  /\ outcome = "running"
  /\ outcome' = "void" /\ output' = <<>>

JobNext == Answer \/ Fail \/ Void

JobSpec == JobInit /\ [][JobNext]_jobVars
=============================================================================
