---------------------------- MODULE ViewerProofs ----------------------------
(***************************************************************************)
(* The page draws the step it goes on from, for any number of steps and of *)
(* timers.                                                                 *)
(***************************************************************************)
EXTENDS StepViewer, TLAPS

(* Once the data are there, buttons and timers go from a step to a step,   *)
(* and draw it.  From none they may fail to find one, and draw nothing:    *)
(* that leaves what is drawn right, as nothing was drawn before.           *)
ViewerInv ==
  /\ loaded \in BOOLEAN /\ currentStep \in Steps \cup {None}
  /\ ShownIsCurrent

LEMMA InitViewer == Init => ViewerInv
<1>1. 0 \in Steps
  BY ViewerAssumption DEF Steps
<1>2. Init => /\ loaded = FALSE /\ shown = None
              /\ currentStep \in Steps \cup {None}
  BY <1>1 DEF Init
<1>3. QED  BY <1>2 DEF ViewerInv, ShownIsCurrent

(* From a step, next and previous find a step. *)
LEMMA Neighbours ==
  ASSUME loaded, currentStep \in Steps
  PROVE  Following \in Steps /\ Preceding \in Steps
  BY ViewerAssumption DEF Following, Preceding, AtLast, Number, nrSteps, Steps,
    None

(* Choosing a step is right, unless it is not found and another is drawn.  *)
LEMMA ChooseKeeps ==
  ASSUME ViewerInv, NEW s \in Int, Choose(s), loaded' = loaded,
         loaded /\ currentStep \in Steps => s \in Steps
  PROVE  ViewerInv'
<1>1. CASE Found(s)
  BY <1>1 DEF Choose, Draw, Found, ViewerInv, ShownIsCurrent
<1>2. CASE ~Found(s)
  BY <1>2 DEF Choose, Draw, Found, ViewerInv, ShownIsCurrent
<1>3. QED  BY <1>1, <1>2

LEMMA StepViewed == ViewerInv /\ [Next]_vars => ViewerInv'
<1> SUFFICES ASSUME ViewerInv, [Next]_vars
             PROVE  ViewerInv'
  OBVIOUS
<1>1. Following \in Int /\ Preceding \in Int /\ Steps \subseteq Int
  BY ViewerAssumption DEF ViewerInv, Following, Preceding, AtLast, Number,
    nrSteps, Steps, None
<1>2. ASSUME loaded' = loaded, goNext
      PROVE  ViewerInv'
  BY <1>1, <1>2, Neighbours, ChooseKeeps DEF goNext
<1>3. ASSUME loaded' = loaded, goPrevious
      PROVE  ViewerInv'
  BY <1>1, <1>3, Neighbours, ChooseKeeps DEF goPrevious
<1>4. CASE DataArrive
  BY <1>4 DEF DataArrive, ViewerInv, ShownIsCurrent
<1>5. CASE Manual
  <2>1. CASE \E s \in Steps : loaded /\ Choose(s)
    BY <1>1, <1>5, <2>1, ChooseKeeps DEF Manual
  <2>2. QED  BY <1>2, <1>3, <1>5, <2>1 DEF Manual
<1>6. CASE play \/ stop \/ UNCHANGED vars
  <2>1. UNCHANGED <<loaded, currentStep, shown>>
    BY <1>6 DEF play, stop, vars
  <2>2. QED  BY <2>1 DEF ViewerInv, ShownIsCurrent
<1>7. CASE \E id \in 1..MaxTimers : frame(id)
  BY <1>2, <1>7 DEF frame, Clear, Advance, ViewerInv, ShownIsCurrent
<1>8. QED  BY <1>4, <1>5, <1>6, <1>7 DEF Next

(* However many steps and timers there are, whatever is clicked while      *)
(* timers fire, and whenever the data arrive, the step that                *)
(* visualrepresentation.js has drawn is the one that next, previous and    *)
(* the animation go on from.                                               *)
THEOREM DrawnIsCurrent == Spec => []ShownIsCurrent
<1>1. Spec => Init /\ [][Next]_vars
  BY PTL DEF Spec
<1>2. ViewerInv => ShownIsCurrent
  BY DEF ViewerInv
<1>3. QED  BY <1>1, <1>2, InitViewer, StepViewed, PTL
=============================================================================
