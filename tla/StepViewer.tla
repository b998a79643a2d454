----------------------------- MODULE StepViewer -----------------------------
(***************************************************************************)
(* The page that shows the steps of a k-means job (visualrepresentation.js *)
(* and animation.js): data that arrive some time after the page, buttons   *)
(* to walk through the steps, and an animation driven by interval timers,  *)
(* each of which only ends when it next fires and finds isPlaying unset.   *)
(***************************************************************************)
EXTENDS Integers

CONSTANTS
  Last,      \* number of the last step of steps.json, which starts at 0
  MaxTimers  \* bound: timers alive at a time

ASSUME ViewerAssumption == Last \in Nat /\ MaxTimers \in Nat \ {0}

VARIABLES
  loaded,       \* have the data arrived?
  currentStep,  \* a step, or None for JavaScript's null
  shown,        \* the step drawn, or None
  isPlaying,
  timers,       \* the interval timers alive
  stopOff, playOff, manualOff  \* the buttons disabled

vars == <<loaded, currentStep, shown, isPlaying, timers,
          stopOff, playOff, manualOff>>
buttons == <<stopOff, playOff, manualOff>>

None == -2
Steps == 0..Last
nrSteps == IF loaded THEN Last ELSE 0

Init ==
  /\ loaded = FALSE /\ currentStep = 0 /\ shown = None
  /\ isPlaying = FALSE /\ timers = {}
  /\ stopOff = FALSE /\ playOff = FALSE /\ manualOff = FALSE

-----------------------------------------------------------------------------
(* loadStep draws a step it finds, and throws for any other. *)
Found(s) == loaded /\ s \in Steps
DrawNothing(s) == shown
Draw(s) == IF Found(s) THEN s ELSE shown

(* Setting the list to a value and telling it that it has changed: its     *)
(* value is null if it has no such option.                                 *)
Choose(s) ==
  /\ currentStep' = IF Found(s) THEN s ELSE None
  /\ shown' = Draw(s)

(* $.get: the page is complete, and stop is disabled. *)
DataArrive ==
  /\ ~loaded /\ loaded' = TRUE
  /\ stopOff' = TRUE
  /\ shown' = IF currentStep \in Steps THEN currentStep ELSE shown
  /\ UNCHANGED <<currentStep, isPlaying, timers, playOff, manualOff>>

(* null counts as 0. *)
Number(s) == IF s = None THEN 0 ELSE s
PastLast == currentStep = nrSteps + 1
AtLast == currentStep = nrSteps
Following == IF AtLast THEN 0 ELSE Number(currentStep) + 1
Preceding == IF currentStep = 0 THEN nrSteps ELSE Number(currentStep) - 1

goNext == Choose(Following)
goPrevious == Choose(Preceding)

Manual ==
  /\ ~manualOff
  /\ goNext \/ goPrevious \/ \E s \in Steps : loaded /\ Choose(s)
  /\ UNCHANGED <<loaded, isPlaying, timers, buttons>>

setDisabledState(state) ==
  stopOff' = ~state /\ playOff' = state /\ manualOff' = state

play ==
  /\ ~playOff
  /\ setDisabledState(TRUE)
  /\ isPlaying' = TRUE
  /\ \E id \in (1..MaxTimers) \ timers : timers' = timers \cup {id}
  /\ UNCHANGED <<loaded, currentStep, shown>>

stop ==
  /\ ~stopOff
  /\ setDisabledState(FALSE)
  /\ isPlaying' = FALSE
  /\ UNCHANGED <<loaded, currentStep, shown, timers>>

(* A timer fires.  If loadStep throws, goNext is not called. *)
Clear(id) ==
  /\ id \in timers /\ ~isPlaying
  /\ timers' = timers \ {id}
  /\ UNCHANGED <<loaded, currentStep, shown, isPlaying, buttons>>
Advance(id) ==
  /\ id \in timers /\ isPlaying /\ Found(currentStep)
  /\ goNext
  /\ UNCHANGED <<loaded, isPlaying, timers, buttons>>
frame(id) == Clear(id) \/ Advance(id)

Next ==
  \/ DataArrive \/ Manual \/ play \/ stop
  \/ \E id \in 1..MaxTimers : frame(id)

Spec == Init /\ [][Next]_vars /\ \A id \in 1..MaxTimers : WF_vars(frame(id))

-----------------------------------------------------------------------------
(* Whatever is clicked while timers fire, and whenever the data arrive,    *)
(* the step drawn is the step all goes on from.                            *)
ShownIsCurrent == shown = IF loaded THEN currentStep ELSE None

(* However many timers are left from earlier clicks, an animation that has *)
(* a step to go on from shows all of them, again and again.                *)
AllShown ==
  \A s \in Steps :
    isPlaying /\ Found(currentStep) ~> shown = s \/ ~isPlaying
=============================================================================
