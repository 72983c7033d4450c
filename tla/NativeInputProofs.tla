------------------------- MODULE NativeInputProofs -------------------------
(***************************************************************************)
(* What holds of native input for every plan, every set of inputs and any  *)
(* number of runs, and of a quest scan whatever it sees and whenever it is *)
(* stopped.                                                                *)
(***************************************************************************)
EXTENDS NativeInput, QuestScan, FiniteSetTheorems, TLAPS

AtTask == {"detect", "detecting", "action", "ready", "press", "hold", "wait"}
AtAction == {"ready", "press", "hold", "wait"}

(* The cursor names an action of the plan wherever the code indexes it,    *)
(* and only an action that is an input is ever dispatched.                 *)
CursorInPlan ==
  /\ pc \in AtTask => t <= Len(Plan)
  /\ pc \in AtAction => a <= Len(Plan[t])
  /\ pc \in {"press", "hold"} => Plan[t][a] \in Inputs

(* From the detection to the end of the task the calibration is valid, and *)
(* only a normal run comes to its actions.                                 *)
Guarded ==
  /\ pc \in {"action"} \cup AtAction => calibrated
  /\ pc \in AtAction => mode = "Normal"

(* The broker has something to release only in a hold, or after the        *)
(* execution was dropped out of one.                                       *)
HeldInHold ==
  /\ pressed # {} => pc \in {"hold", "finished"}
  /\ pc = "hold" => pressed = {Plan[t][a]}
  /\ ~faultySink => down = pressed

(* After a late press the run does not come back to a press.               *)
LateStops ==
  /\ late <= 1
  /\ late = 1 => cancelled /\ pc \in {"hold", "action", "task", "finished", "idle"}

(* Inside an execution, the broker knows all that the run itself has left  *)
(* down.                                                                   *)
OwnPressesKnown ==
  /\ pc \in Locked \cup {"preflight"} => down \subseteq inherited \cup pressed
  /\ SuccessLeavesNothing

InputInv == CursorInPlan /\ Guarded /\ HeldInHold /\ LateStops /\ OwnPressesKnown
Sound == InputsTyped /\ PlaceTyped /\ WordsTyped /\ InputInv

-----------------------------------------------------------------------------
LEMMA PlanTyped ==
  ASSUME NEW i \in 1..Len(Plan)
  PROVE  Plan[i] \in Seq(Inputs \cup {Wait})
  BY InputAssumption

LEMMA ActionTyped ==
  ASSUME NEW i \in Nat \ {0}, i <= Len(Plan), NEW j \in Nat \ {0}, j <= Len(Plan[i])
  PROVE  Plan[i][j] \in Inputs \cup {Wait}
  <1>1. Plan[i] \in Seq(Inputs \cup {Wait}) /\ Len(Plan[i]) \in Nat
    BY InputAssumption, PlanTyped
  <1> QED
    BY <1>1

(* A release only ever lets go of what the broker knew.                    *)
LEMMA ReleaseShrinks ==
  ASSUME InputsTyped, HeldInHold, NEW stuck \in Refusals, ReleaseAll(stuck)
  PROVE  /\ pressed' = {} /\ down' \subseteq down
         /\ ~faultySink => down' = {}
         /\ stuck = {} => down' = down \ pressed
  BY DEF ReleaseAll, Refusals, InputsTyped, HeldInHold

(* How an execution ends, except when it is dropped or has succeeded.      *)
Ended ==
  /\ pc' = "finished" /\ outcome' \in Outcomes \ {"Succeeded"}
  /\ pressed' = {} /\ down' \subseteq down /\ (~faultySink => down' = {})
  /\ status' \in {status, "PausedForFocus"}

LEMMA EndEnds ==
  ASSUME TypeOK, InputInv, NEW final \in Outcomes \ {"Succeeded"},
         (End(final) /\ UNCHANGED status) \/ EndPaused(final)
  PROVE  Ended
  BY ReleaseShrinks DEF End, EndPaused, PauseBroker, Ended, TypeOK, InputInv

LEMMA EndedKeepsInv ==
  ASSUME TypeOK, InputInv, Ended, UNCHANGED <<faultySink, runs, late, inherited, mode>>, cancelled => cancelled',
         t' \in Nat \ {0}, a' \in Nat \ {0}, report' \in {"none", "clean", "faulted"}
  PROVE  Sound'
  <1>1. InputsTyped' /\ PlaceTyped' /\ WordsTyped'
    BY DEF Ended, TypeOK, InputsTyped, PlaceTyped, WordsTyped, Pcs
  <1>2. CursorInPlan' /\ Guarded'
    BY DEF Ended, CursorInPlan, Guarded, AtTask, AtAction
  <1>3. HeldInHold' /\ OwnPressesKnown'
    BY DEF Ended, HeldInHold, OwnPressesKnown, SuccessLeavesNothing, Locked
  <1>4. LateStops'
    BY DEF InputInv, Ended, LateStops
  <1> QED
    BY <1>1, <1>2, <1>3, <1>4 DEF InputInv, Sound

(* ensure_ready: it either lets the execution go on, on an unchanged       *)
(* geometry, or ends it.                                                   *)
LEMMA ReadyOrEnded ==
  ASSUME TypeOK, InputInv, NEW next, NEW failed \in Outcomes \ {"Succeeded"},
         EnsureReady(next, failed), pc \in {"preflight", "detect", "ready"}
  PROVE  \/ Ended
         \/ /\ pc' = next /\ UNCHANGED <<pressed, down, outcome, calibrated>>
            /\ status' = "Ready"
  <1>1. CASE Ready /\ status' = "Ready" /\ pc' = next /\ Refreshed
             /\ UNCHANGED <<pressed, down, outcome>>
    BY <1>1 DEF Ready, MustRecalibrate, Refreshed, TypeOK, FlagsTyped
  <1>2. CASE EndPaused(failed)
    BY <1>2, EndEnds
  <1>3. CASE /\ pc' = "finished" /\ outcome' \in {failed, "Failed"}
             /\ \/ pc = "preflight" /\ UNCHANGED <<pressed, down>>
                \/ pc # "preflight" /\ \E stuck \in Refusals : ReleaseAll(stuck)
             /\ UNCHANGED <<moved, calibrated, status>>
    <2>1. pressed = {} /\ (~faultySink => down = {})
      BY DEF InputInv, HeldInHold
    <2>2. pressed' = {} /\ down' \subseteq down /\ (~faultySink => down' = {})
      BY <1>3, <2>1, ReleaseShrinks DEF TypeOK, InputInv
    <2> QED
      BY <1>3, <2>2 DEF Ended, Outcomes
  <1> QED
    BY <1>1, <1>2, <1>3 DEF EnsureReady

-----------------------------------------------------------------------------
LEMMA InitInput == Init => TypeOK /\ InputInv
  <1> SUFFICES ASSUME Init PROVE TypeOK /\ InputInv
    OBVIOUS
  <1>1. FlagsTyped /\ InputsTyped /\ WordsTyped
    BY DEF Init, FlagsTyped, InputsTyped, WordsTyped, Outcomes
  <1>2. PlaceTyped
    BY InputAssumption DEF Init, PlaceTyped, Pcs, Modes
  <1>3. CursorInPlan /\ Guarded
    BY DEF Init, CursorInPlan, Guarded, AtTask, AtAction
  <1>4. HeldInHold /\ LateStops
    BY DEF Init, HeldInHold, LateStops
  <1>5. OwnPressesKnown
    BY DEF Init, OwnPressesKnown, SuccessLeavesNothing
  <1> QED
    BY <1>1, <1>2, <1>3, <1>4, <1>5 DEF TypeOK, InputInv

LEMMA FlagsKept ==
  ASSUME FlagsTyped, [Next]_vars
  PROVE  FlagsTyped'
  <1> USE DEF FlagsTyped, vars, world, broker, cursor, commands, ghosts
  <1>1. CASE Begin \/ PlanEnds \/ TaskEnds \/ Drop \/ PreflightCancelled \/ WorkerReleases
    BY <1>1 DEF Begin, PlanEnds, TaskEnds, Drop, PreflightCancelled, WorkerReleases
  <1>2. CASE Preflight \/ Detect \/ Perform
    BY <1>2 DEF Preflight, Detect, Perform, EnsureReady, Refreshed
  <1>3. CASE TaskCheckpoint \/ ActionCheckpoint \/ Detected
    BY <1>3 DEF TaskCheckpoint, ActionCheckpoint, Detected
  <1>4. CASE Press \/ HoldEnds \/ WaitEnds
    BY <1>4 DEF Press, HoldEnds, WaitEnds
  <1>5. CASE SetPaused \/ EmergencyRelease \/ FocusChanges \/ WindowMoves
    BY <1>5 DEF SetPaused, EmergencyRelease, FocusChanges, WindowMoves
  <1>6. ASSUME NEW hard \in BOOLEAN, Cancel(hard)
        PROVE  FlagsTyped'
    BY <1>6 DEF Cancel
  <1>7. CASE UNCHANGED vars
    BY <1>7
  <1> QED
    BY <1>1, <1>2, <1>3, <1>4, <1>5, <1>6, <1>7 DEF Next, Worker, Proceed

(* The steps of an execution up to its first press.                        *)
LEMMA GuardsKeep ==
  ASSUME TypeOK, InputInv, Preflight \/ TaskCheckpoint \/ Detect \/ Detected \/ ActionCheckpoint
  PROVE  Sound'
  <1> USE DEF TypeOK, world, broker, cursor, commands, ghosts
  <1>e. ASSUME Ended, UNCHANGED <<faultySink, runs, late, inherited, mode, report, cancelled>>,
               t' \in Nat \ {0}, a' \in Nat \ {0}
        PROVE  Sound'
    BY <1>e, EndedKeepsInv DEF WordsTyped
  <1>g. ASSUME pc \in {"preflight", "task", "detect", "detecting", "action"},
               pc' \in {"task", "detect", "detecting", "action", "ready"},
               UNCHANGED <<faultySink, pressed, down, outcome, mode, report, runs, cancelled, late,
                           inherited>>,
               status' \in {status, "Ready"}, t' \in Nat \ {0}, a' \in Nat \ {0},
               pc' \in AtTask => t' <= Len(Plan),
               pc' = "ready" => a' <= Len(Plan[t']) /\ calibrated' /\ mode = "Normal",
               pc' = "action" => calibrated',
               pc' \in {"detect", "detecting", "ready"} => late # 1
        PROVE  Sound'
    <2>1. InputsTyped' /\ PlaceTyped' /\ WordsTyped'
      BY <1>g DEF InputsTyped, PlaceTyped, WordsTyped, Pcs
    <2>2. CursorInPlan' /\ Guarded'
      BY <1>g DEF CursorInPlan, Guarded, AtTask, AtAction
    <2>3. HeldInHold'
      BY <1>g DEF InputInv, HeldInHold
    <2>4. LateStops'
      BY <1>g DEF InputInv, LateStops
    <2>5. OwnPressesKnown'
      BY <1>g DEF InputInv, OwnPressesKnown, SuccessLeavesNothing, Locked, Pcs
    <2> QED
      BY <2>1, <2>2, <2>3, <2>4, <2>5 DEF InputInv, Sound
  <1>1. CASE Preflight
    <2>1. Ended \/ /\ pc' = "task" /\ UNCHANGED <<pressed, down, outcome, calibrated>>
                   /\ status' = "Ready"
      BY <1>1, ReadyOrEnded DEF Preflight, Outcomes
    <2> QED
      BY <1>1, <1>e, <1>g, <2>1 DEF Preflight, PlaceTyped, AtTask
  <1>2. CASE Detect
    <2>1. Ended \/ /\ pc' = "detecting" /\ UNCHANGED <<pressed, down, outcome, calibrated>>
                   /\ status' = "Ready"
      BY <1>2, ReadyOrEnded DEF Detect, Outcomes
    <2>2. pc = "detect" /\ t <= Len(Plan) /\ late # 1
      BY <1>2 DEF Detect, InputInv, CursorInPlan, LateStops, AtTask
    <2> QED
      BY <1>2, <1>e, <1>g, <2>1, <2>2 DEF Detect, PlaceTyped, AtTask
  <1>3. CASE TaskCheckpoint
    <2>1. CASE cancelled /\ End("Cancelled") /\ UNCHANGED status
      BY <1>3, <2>1, <1>e, EndEnds DEF TaskCheckpoint, PlaceTyped, Outcomes
    <2>2. CASE MayProceed /\ pc' = "detect" /\ UNCHANGED <<broker, outcome>>
      <3>1. late # 1
        BY <2>2 DEF MayProceed, InputInv, LateStops
      <3> QED
        BY <1>3, <2>2, <3>1, <1>g DEF TaskCheckpoint, PlaceTyped
    <2> QED
      BY <1>3, <2>1, <2>2 DEF TaskCheckpoint
  <1>4. CASE Detected
    <2>1. pc = "detecting" /\ t <= Len(Plan) /\ late # 1 /\ pressed = {}
      BY <1>4 DEF Detected, InputInv, CursorInPlan, LateStops, HeldInHold, AtTask
    <2>2. CASE mode # "Diagnostics" /\ pc' = "action" /\ a' = 1 /\ calibrated' = TRUE
               /\ UNCHANGED <<broker, outcome, t>>
      BY <1>4, <2>1, <2>2, <1>g DEF Detected, PlaceTyped
    <2>3. CASE mode = "Diagnostics" /\ pc' = "task" /\ t' = t + 1
               /\ UNCHANGED <<broker, outcome, a, calibrated>>
      BY <1>4, <2>1, <2>3, <1>g DEF Detected, PlaceTyped, AtTask
    <2>4. CASE (End("NeedsAttention") \/ End("Failed")) /\ UNCHANGED <<status, t, a, calibrated>>
      BY <1>4, <2>4, <1>e, EndEnds DEF Detected, PlaceTyped, Outcomes
    <2>5. CASE pc' = "finished" /\ outcome' = "Failed" /\ UNCHANGED <<broker, t, a, calibrated>>
      <3>1. Ended
        BY <2>1, <2>5 DEF Ended, Outcomes, InputInv, HeldInHold
      <3> QED
        BY <1>4, <2>5, <3>1, <1>e DEF Detected, PlaceTyped
    <2> QED
      BY <1>4, <2>2, <2>3, <2>4, <2>5 DEF Detected
  <1>5. CASE ActionCheckpoint
    <2>1. t <= Len(Plan) /\ calibrated
      BY <1>5 DEF ActionCheckpoint, InputInv, CursorInPlan, Guarded, AtTask
    <2>2. CASE cancelled /\ End("Cancelled") /\ UNCHANGED <<status, a>>
      BY <1>5, <2>2, <1>e, EndEnds DEF ActionCheckpoint, PlaceTyped, Outcomes
    <2>3. CASE MayProceed /\ mode = "Normal" /\ pc' = "ready" /\ UNCHANGED <<broker, outcome, a>>
      <3>1. late # 1
        BY <2>3 DEF MayProceed, InputInv, LateStops
      <3> QED
        BY <1>5, <2>1, <2>3, <3>1, <1>g DEF ActionCheckpoint, PlaceTyped
    <2>4. CASE MayProceed /\ mode = "DryRun" /\ a' = a + 1 /\ UNCHANGED <<broker, pc, outcome>>
      BY <1>5, <2>1, <2>4, <1>g DEF ActionCheckpoint, PlaceTyped
    <2> QED
      BY <1>5, <2>2, <2>3, <2>4 DEF ActionCheckpoint
  <1> QED
    BY <1>1, <1>2, <1>3, <1>4, <1>5

(* The press, the hold and what follows them.                              *)
LEMMA GesturesKeep ==
  ASSUME TypeOK, InputInv, Perform \/ Press \/ HoldEnds \/ WaitEnds
  PROVE  Sound'
  <1> USE DEF TypeOK, world, broker, cursor, commands, ghosts
  <1>a. pc \in AtAction => /\ t <= Len(Plan) /\ a <= Len(Plan[t]) /\ calibrated
                           /\ mode = "Normal" /\ Plan[t][a] \in Inputs \cup {Wait}
    BY ActionTyped DEF InputInv, CursorInPlan, Guarded, PlaceTyped, AtTask, AtAction
  <1>e. ASSUME Ended, UNCHANGED <<faultySink, runs, late, inherited, mode, report, cancelled>>,
               t' \in Nat \ {0}, a' \in Nat \ {0}
        PROVE  Sound'
    BY <1>e, EndedKeepsInv DEF WordsTyped
  <1>1. CASE Perform
    <2>1. pc = "ready"
      BY <1>1 DEF Perform
    <2>2. \/ Ended
          \/ /\ pc' = Carry(Plan[t][a]) /\ UNCHANGED <<pressed, down, outcome, calibrated>>
             /\ status' = "Ready"
      BY <1>1, <2>1, ReadyOrEnded DEF Perform, Outcomes
    <2>3. late # 1 /\ pressed = {}
      BY <2>1 DEF InputInv, LateStops, HeldInHold
    <2>4. UNCHANGED <<faultySink, t, a, mode, report, runs, cancelled, late, inherited>>
      BY <1>1 DEF Perform
    <2>5. CASE Ended
      BY <2>4, <2>5, <1>e DEF PlaceTyped
    <2>6. CASE /\ pc' = Carry(Plan[t][a]) /\ UNCHANGED <<pressed, down, outcome, calibrated>>
               /\ status' = "Ready"
      <3>1. pc' \in {"wait", "press"} /\ (pc' = "press" => Plan[t][a] \in Inputs)
        BY <2>1, <2>6, <1>a DEF Carry, AtAction
      <3>2. InputsTyped' /\ PlaceTyped' /\ WordsTyped'
        BY <2>4, <2>6, <3>1 DEF InputsTyped, PlaceTyped, WordsTyped, Pcs
      <3>3. CursorInPlan' /\ Guarded'
        BY <2>1, <2>4, <2>6, <3>1, <1>a DEF CursorInPlan, Guarded, AtTask, AtAction
      <3>4. HeldInHold' /\ LateStops'
        BY <2>3, <2>4, <2>6, <3>1 DEF InputInv, HeldInHold, LateStops
      <3>5. OwnPressesKnown'
        BY <2>1, <2>4, <2>6, <3>1 DEF InputInv, OwnPressesKnown, SuccessLeavesNothing, Locked, Pcs
      <3> QED
        BY <3>2, <3>3, <3>4, <3>5 DEF InputInv, Sound
    <2> QED
      BY <2>2, <2>5, <2>6
  <1>2. CASE Press
    <2>1. /\ pc = "press" /\ Plan[t][a] \in Inputs /\ late = 0 /\ pressed = {}
          /\ UNCHANGED <<faultySink, t, a, mode, calibrated, report, runs, cancelled, inherited>>
      BY <1>2 DEF Press, InputInv, CursorInPlan, LateStops, HeldInHold, PlaceTyped
    <2>2. CASE (EndPaused("NeedsAttention") \/ EndPaused("Failed")) /\ UNCHANGED late
      BY <2>1, <2>2, <1>e, EndEnds DEF PlaceTyped, Outcomes
    <2>3. CASE /\ foreground /\ status = "Ready"
               /\ pressed' = Remember(Plan[t][a]) /\ down' = down \cup {Plan[t][a]}
               /\ late' = (IF cancelled THEN late + 1 ELSE late)
               /\ pc' = "hold" /\ UNCHANGED <<status, outcome>>
      <3>1. pressed' = {Plan[t][a]} /\ late' \in {0, 1} /\ (late' = 1 => cancelled)
        BY <2>1, <2>3 DEF Remember
      <3>2. InputsTyped' /\ PlaceTyped' /\ WordsTyped'
        BY <2>1, <2>3, <3>1 DEF InputsTyped, PlaceTyped, WordsTyped, Pcs
      <3>3. CursorInPlan' /\ Guarded'
        BY <2>1, <2>3, <1>a DEF CursorInPlan, Guarded, AtTask, AtAction
      <3>4. HeldInHold'
        BY <2>1, <2>3, <3>1 DEF InputInv, HeldInHold
      <3>5. LateStops'
        BY <2>1, <2>3, <3>1 DEF LateStops
      <3>6. OwnPressesKnown'
        BY <2>1, <2>3, <3>1 DEF InputInv, OwnPressesKnown, SuccessLeavesNothing, Locked, Pcs
      <3> QED
        BY <3>2, <3>3, <3>4, <3>5, <3>6 DEF InputInv, Sound
    <2> QED
      BY <1>2, <2>2, <2>3 DEF Press
  <1>3. CASE HoldEnds
    <2>1. /\ pc = "hold" /\ pressed = {Plan[t][a]}
          /\ UNCHANGED <<faultySink, t, mode, calibrated, report, runs, cancelled, late, inherited>>
      BY <1>3 DEF HoldEnds, InputInv, HeldInHold
    <2>2. CASE cancelled /\ EndPaused("Cancelled") /\ UNCHANGED a
      BY <2>1, <2>2, <1>e, EndEnds DEF PlaceTyped, Outcomes
    <2>3. CASE /\ \E stuck \in Refusals : PauseBroker(stuck)
               /\ pc' = "finished" /\ UNCHANGED a
               /\ outcome' = IF foreground THEN "Failed" ELSE "NeedsAttention"
      <3>1. Ended
        BY <2>3, ReleaseShrinks DEF PauseBroker, Ended, Outcomes, InputInv
      <3> QED
        BY <2>1, <2>3, <3>1, <1>e DEF PlaceTyped
    <2>4. CASE /\ pressed' = pressed \ {Plan[t][a]} /\ down' = down \ {Plan[t][a]}
               /\ UNCHANGED status /\ pc' = "action" /\ a' = a + 1 /\ UNCHANGED outcome
      <3>1. pressed' = {} /\ t <= Len(Plan) /\ calibrated
        BY <2>1, <2>4, <1>a DEF AtAction
      <3>2. InputsTyped' /\ PlaceTyped' /\ WordsTyped'
        BY <2>1, <2>4, <3>1 DEF InputsTyped, PlaceTyped, WordsTyped, Pcs
      <3>3. CursorInPlan' /\ Guarded'
        BY <2>1, <2>4, <3>1 DEF CursorInPlan, Guarded, AtTask, AtAction
      <3>4. HeldInHold'
        BY <2>1, <2>4, <3>1 DEF InputInv, HeldInHold
      <3>5. LateStops'
        BY <2>1, <2>4 DEF InputInv, LateStops
      <3>6. OwnPressesKnown'
        BY <2>1, <2>4, <3>1 DEF InputInv, OwnPressesKnown, SuccessLeavesNothing, Locked, Pcs
      <3> QED
        BY <3>2, <3>3, <3>4, <3>5, <3>6 DEF InputInv, Sound
    <2> QED
      BY <1>3, <2>2, <2>3, <2>4 DEF HoldEnds, HoldSucceeds
  <1>4. CASE WaitEnds
    <2>1. /\ pc = "wait" /\ UNCHANGED <<faultySink, t, mode, calibrated, report, runs, cancelled, late, inherited>>
          /\ pressed = {} /\ late # 1
      BY <1>4 DEF WaitEnds, InputInv, HeldInHold, LateStops
    <2>2. CASE cancelled /\ End("Cancelled") /\ UNCHANGED <<status, a>>
      BY <2>1, <2>2, <1>e, EndEnds DEF PlaceTyped, Outcomes
    <2>3. CASE pc' = "action" /\ a' = a + 1 /\ UNCHANGED <<broker, outcome>>
      <3>1. InputsTyped' /\ PlaceTyped' /\ WordsTyped'
        BY <2>1, <2>3 DEF InputsTyped, PlaceTyped, WordsTyped, Pcs
      <3>2. CursorInPlan' /\ Guarded'
        BY <2>1, <2>3, <1>a DEF CursorInPlan, Guarded, AtTask, AtAction
      <3>3. HeldInHold' /\ LateStops'
        BY <2>1, <2>3 DEF InputInv, HeldInHold, LateStops
      <3>4. OwnPressesKnown'
        BY <2>1, <2>3 DEF InputInv, OwnPressesKnown, SuccessLeavesNothing, Locked, Pcs
      <3> QED
        BY <3>1, <3>2, <3>3, <3>4 DEF InputInv, Sound
    <2> QED
      BY <1>4, <2>2, <2>3 DEF WaitEnds
  <1> QED
    BY <1>1, <1>2, <1>3, <1>4

(* The beginning and the end of a run.                                     *)
LEMMA RunKeeps ==
  ASSUME TypeOK, InputInv,
         Begin \/ TaskEnds \/ PlanEnds \/ Drop \/ PreflightCancelled \/ WorkerReleases
  PROVE  Sound'
  <1> USE DEF TypeOK, world, broker, cursor, commands, ghosts
  <1>1. CASE Begin
    <2>1. pressed = {} /\ pc' = "preflight"
      BY <1>1 DEF Begin, InputInv, HeldInHold
    <2>2. runs' \in 0..MaxRuns
      BY <1>1, InputAssumption DEF Begin, PlaceTyped
    <2>3. InputsTyped' /\ PlaceTyped' /\ WordsTyped'
      BY <1>1, <2>2 DEF Begin, InputsTyped, PlaceTyped, WordsTyped, Pcs, Outcomes
    <2>4. CursorInPlan' /\ Guarded' /\ LateStops'
      BY <1>1, <2>1 DEF Begin, CursorInPlan, Guarded, LateStops, AtTask, AtAction
    <2>5. HeldInHold' /\ OwnPressesKnown'
      BY <1>1, <2>1 DEF Begin, InputInv, HeldInHold, OwnPressesKnown, SuccessLeavesNothing
    <2> QED
      BY <2>3, <2>4, <2>5 DEF InputInv, Sound
  <1>2. CASE TaskEnds
    <2>1. pressed = {}
      BY <1>2 DEF TaskEnds, InputInv, HeldInHold
    <2>2. InputsTyped' /\ PlaceTyped' /\ WordsTyped'
      BY <1>2 DEF TaskEnds, InputsTyped, PlaceTyped, WordsTyped, Pcs
    <2>3. CursorInPlan' /\ Guarded'
      BY <1>2 DEF TaskEnds, CursorInPlan, Guarded, AtTask, AtAction
    <2>4. HeldInHold' /\ LateStops'
      BY <1>2, <2>1 DEF TaskEnds, InputInv, HeldInHold, LateStops
    <2>5. OwnPressesKnown'
      BY <1>2 DEF TaskEnds, InputInv, OwnPressesKnown, SuccessLeavesNothing, Locked, Pcs
    <2> QED
      BY <2>2, <2>3, <2>4, <2>5 DEF InputInv, Sound
  <1>3. CASE PlanEnds
    <2>1. pc = "task" /\ pc' = "finished"
      BY <1>3 DEF PlanEnds
    <2>2. /\ pressed' = {} /\ down' \subseteq down /\ (~faultySink => down' = {})
          /\ outcome' \in {"Succeeded", "Failed"}
          /\ outcome' = "Succeeded" => down' = down \ pressed
      BY <1>3, ReleaseShrinks DEF PlanEnds, InputInv
    <2>3. InputsTyped' /\ PlaceTyped' /\ WordsTyped'
      BY <1>3, <2>1, <2>2 DEF PlanEnds, InputsTyped, PlaceTyped, WordsTyped, Pcs, Outcomes
    <2>4. CursorInPlan' /\ Guarded' /\ HeldInHold'
      BY <1>3, <2>1, <2>2 DEF PlanEnds, CursorInPlan, Guarded, HeldInHold, AtTask, AtAction
    <2>5. LateStops'
      BY <1>3, <2>1 DEF PlanEnds, InputInv, LateStops
    <2>6. down \subseteq inherited \cup pressed
      BY <2>1 DEF InputInv, OwnPressesKnown, Locked, Pcs
    <2>7. OwnPressesKnown'
      BY <1>3, <2>1, <2>2, <2>6 DEF PlanEnds, OwnPressesKnown, SuccessLeavesNothing, Locked
    <2> QED
      BY <2>3, <2>4, <2>5, <2>7 DEF InputInv, Sound
  <1>4. CASE Drop \/ PreflightCancelled
    <2>1. /\ pc' = "finished" /\ outcome' = "Cancelled"
          /\ UNCHANGED <<world, broker, cursor, calibrated, report, commands, runs, ghosts>>
      BY <1>4 DEF Drop, PreflightCancelled
    <2>2. InputsTyped' /\ PlaceTyped' /\ WordsTyped'
      BY <2>1 DEF InputsTyped, PlaceTyped, WordsTyped, Pcs, Outcomes
    <2>3. CursorInPlan' /\ Guarded'
      BY <2>1 DEF CursorInPlan, Guarded, AtTask, AtAction
    <2>4. HeldInHold' /\ LateStops' /\ OwnPressesKnown'
      BY <2>1 DEF InputInv, HeldInHold, LateStops, OwnPressesKnown, SuccessLeavesNothing, Locked
    <2> QED
      BY <2>2, <2>3, <2>4 DEF InputInv, Sound
  <1>5. CASE WorkerReleases
    <2>1. pc = "finished" /\ pc' = "idle"
      BY <1>5 DEF WorkerReleases
    <2>2. /\ pressed' = {} /\ down' \subseteq down /\ (~faultySink => down' = {})
          /\ report' \in {"clean", "faulted"}
      BY <1>5, ReleaseShrinks DEF WorkerReleases, InputInv
    <2>3. InputsTyped' /\ PlaceTyped' /\ WordsTyped'
      BY <1>5, <2>1, <2>2 DEF WorkerReleases, InputsTyped, PlaceTyped, WordsTyped, Pcs
    <2>4. CursorInPlan' /\ Guarded' /\ HeldInHold'
      BY <1>5, <2>1, <2>2
      DEF WorkerReleases, CursorInPlan, Guarded, HeldInHold, AtTask, AtAction
    <2>5. LateStops'
      BY <1>5, <2>1 DEF WorkerReleases, InputInv, LateStops
    <2>6. OwnPressesKnown'
      BY <1>5, <2>1, <2>2
      DEF WorkerReleases, InputInv, OwnPressesKnown, SuccessLeavesNothing, Locked
    <2> QED
      BY <2>3, <2>4, <2>5, <2>6 DEF InputInv, Sound
  <1> QED
    BY <1>1, <1>2, <1>3, <1>4, <1>5

(* Commands and the world: they never touch what a run has decided.        *)
LEMMA OthersKeep ==
  ASSUME TypeOK, InputInv,
         \/ \E hard \in BOOLEAN : Cancel(hard)
         \/ SetPaused \/ EmergencyRelease \/ FocusChanges \/ WindowMoves \/ UNCHANGED vars
  PROVE  Sound'
  <1> USE DEF TypeOK, world, broker, cursor, commands, ghosts, vars
  <1>1. CASE EmergencyRelease
    <2>1. pc \notin Locked /\ pc \in {"idle", "preflight", "finished"}
      BY <1>1 DEF EmergencyRelease, PlaceTyped, Locked
    <2>2. pressed' = {} /\ down' \subseteq down /\ (~faultySink => down' = {})
      BY <1>1, ReleaseShrinks DEF EmergencyRelease, InputInv
    <2>3. InputsTyped' /\ PlaceTyped' /\ WordsTyped'
      BY <1>1, <2>2 DEF EmergencyRelease, InputsTyped, PlaceTyped, WordsTyped
    <2>4. CursorInPlan' /\ Guarded'
      BY <1>1 DEF EmergencyRelease, InputInv, CursorInPlan, Guarded
    <2>5. HeldInHold' /\ LateStops'
      BY <1>1, <2>1, <2>2 DEF EmergencyRelease, InputInv, HeldInHold, LateStops
    <2>6. pressed = {} \/ pc = "finished"
      BY <2>1 DEF InputInv, HeldInHold
    <2>7. OwnPressesKnown'
      BY <1>1, <2>1, <2>2, <2>6
      DEF EmergencyRelease, InputInv, OwnPressesKnown, SuccessLeavesNothing, Locked
    <2> QED
      BY <2>3, <2>4, <2>5, <2>7 DEF InputInv, Sound
  <1>2. CASE \/ \E hard \in BOOLEAN : Cancel(hard)
             \/ SetPaused \/ FocusChanges \/ WindowMoves \/ UNCHANGED vars
    <2>1. /\ UNCHANGED <<faultySink, broker, pc, cursor, calibrated, outcome, report, runs,
                     ghosts>>
          /\ cancelled => cancelled'
      <3>1. CASE \E hard \in BOOLEAN : Cancel(hard)
        <4>1. PICK hard \in BOOLEAN : Cancel(hard)
          BY <3>1
        <4> QED
          BY <4>1 DEF Cancel, FlagsTyped
      <3>2. CASE SetPaused
        BY <3>2 DEF SetPaused
      <3>3. CASE FocusChanges \/ WindowMoves
        BY <3>3 DEF FocusChanges, WindowMoves
      <3>4. CASE UNCHANGED vars
        BY <3>4
      <3> QED
        BY <1>2, <3>1, <3>2, <3>3, <3>4
    <2>2. InputsTyped' /\ PlaceTyped' /\ WordsTyped'
      BY <2>1 DEF InputsTyped, PlaceTyped, WordsTyped
    <2>3. CursorInPlan' /\ Guarded'
      BY <2>1 DEF InputInv, CursorInPlan, Guarded
    <2>4. HeldInHold' /\ LateStops' /\ OwnPressesKnown'
      BY <2>1 DEF InputInv, HeldInHold, LateStops, OwnPressesKnown, SuccessLeavesNothing
    <2> QED
      BY <2>2, <2>3, <2>4 DEF InputInv, Sound
  <1> QED
    BY <1>1, <1>2

LEMMA StepKeeps ==
  ASSUME TypeOK, InputInv, [Next]_vars
  PROVE  TypeOK' /\ InputInv'
  <1>1. FlagsTyped'
    BY FlagsKept DEF TypeOK
  <1>2. Sound'
    BY GuardsKeep, GesturesKeep, RunKeeps, OthersKeep DEF Next, Worker, Proceed
  <1> QED
    BY <1>1, <1>2 DEF TypeOK, Sound

-----------------------------------------------------------------------------
(* Every variable of native input keeps its type, and InputInv holds in    *)
(* every reachable state.                                                  *)
THEOREM InputInvariant == Spec => [](TypeOK /\ InputInv)
  <1>1. Init => TypeOK /\ InputInv
    BY InitInput
  <1>2. TypeOK /\ InputInv /\ [Next]_vars => (TypeOK /\ InputInv)'
    BY StepKeeps
  <1> QED
    BY <1>1, <1>2, PTL DEF Spec

(* Type correctness of native input.                                       *)
THEOREM InputTypeCorrect == Spec => []TypeOK
  BY InputInvariant, PTL

(* While Windows takes every event, what the broker remembers is what is   *)
(* down, and nothing is down once a run is over.                           *)
THEOREM BrokerKnowsWhatIsDown == Spec => []HeldIsKnown
  <1>1. InputInv => HeldIsKnown
    BY DEF InputInv, HeldInHold, HeldIsKnown
  <1> QED
    BY <1>1, InputInvariant, PTL

(* A stop is followed by at most one more press, for every plan.           *)
THEOREM AtMostOneLatePress == Spec => []OneLatePress
  <1>1. InputInv => OneLatePress
    BY DEF InputInv, LateStops, OneLatePress
  <1> QED
    BY <1>1, InputInvariant, PTL

(* A run that succeeded left nothing down, even if Windows refuses events. *)
THEOREM SucceededRunLetGo == Spec => []SuccessLeavesNothing
  <1>1. InputInv => SuccessLeavesNothing
    BY DEF InputInv, OwnPressesKnown
  <1> QED
    BY <1>1, InputInvariant, PTL

(* Every press of a task happens in a normal run and on the geometry that  *)
(* its target was detected on.                                             *)
THEOREM PressesAreCalibrated == Spec => PressOnDetectedGeometry
  <1>1. ASSUME TypeOK, InputInv, [Next]_vars, NEW i \in Inputs \ pressed, i \in pressed'
        PROVE  calibrated /\ mode = "Normal"
    <2> USE DEF world, broker, cursor, commands, ghosts, vars
    <2>1. CASE Press
      BY <1>1, <2>1 DEF Press, InputInv, Guarded, AtAction
    <2>2. CASE Begin \/ TaskEnds \/ Drop \/ PreflightCancelled
      BY <1>1, <2>2 DEF Begin, TaskEnds, Drop, PreflightCancelled
    <2>3. CASE PlanEnds \/ WorkerReleases \/ EmergencyRelease
      BY <1>1, <2>3 DEF PlanEnds, WorkerReleases, EmergencyRelease, ReleaseAll
    <2>4. CASE Preflight \/ Detect \/ Perform
      BY <1>1, <2>4 DEF Preflight, Detect, Perform, EnsureReady, EndPaused, PauseBroker, ReleaseAll
    <2>5. CASE TaskCheckpoint \/ Detected \/ ActionCheckpoint
      BY <1>1, <2>5 DEF TaskCheckpoint, Detected, ActionCheckpoint, End, ReleaseAll
    <2>6. CASE HoldEnds \/ WaitEnds
      BY <1>1, <2>6 DEF HoldEnds, WaitEnds, End, EndPaused, PauseBroker, ReleaseAll
    <2>7. CASE \E hard \in BOOLEAN : Cancel(hard)
      BY <1>1, <2>7 DEF Cancel
    <2>8. CASE SetPaused \/ FocusChanges \/ WindowMoves \/ UNCHANGED vars
      BY <1>1, <2>8 DEF SetPaused, FocusChanges, WindowMoves
    <2> QED
      BY <1>1, <2>1, <2>2, <2>3, <2>4, <2>5, <2>6, <2>7, <2>8 DEF Next, Worker, Proceed
  <1>2. TypeOK /\ InputInv /\ [Next]_vars
        => [\A i \in Inputs \ pressed : i \in pressed' => calibrated /\ mode = "Normal"]_vars
    BY <1>1
  <1> QED
    BY <1>2, InputInvariant, PTL DEF Spec, PressOnDetectedGeometry


-----------------------------------------------------------------------------
(***************************************************************************)
(* The quest scan.                                                         *)
(***************************************************************************)

(* The late input is one that had been decided on: after it the thread     *)
(* looks at its token before it decides on another.                        *)
LateIsLast ==
  /\ lateInputs \in {0, 1} /\ (~ScanTold => lateInputs = 0)
  /\ lateInputs = 1 => ~(scan = "click" /\ checked)

(* A title is read after the bars, and the bars once: the title that was   *)
(* matched and the bars it is held against come from the same open log.    *)
BeforeTitle == {"begin", "look", "giver", "bars"}
BarsBelong ==
  /\ purpose \in {"open", "close", "defocus"}
  /\ scan \in BeforeTitle \/ (scan = "click" /\ purpose = "open") => title = Other
  /\ scan = "title" \/ title # Other => rows \in RowFrames /\ bars = ReadBars(rows)

ScanInv == LateIsLast /\ BarsBelong

LEMMA ScanInitially == ScanInit => ScanInv
  BY DEF ScanInit, ScanInv, LateIsLast, BarsBelong, ScanTold

LEMMA ScanStep == ScanInv /\ [ScanNext]_scanVars => ScanInv'
  <1> SUFFICES ASSUME ScanInv, [ScanNext]_scanVars PROVE ScanInv'
    OBVIOUS
  <1> USE DEF ScanInv, LateIsLast, BarsBelong, BeforeTitle, ScanTold, scanVars, scanAt, scanInput,
              scanRead, scanTokens, EndsHere, Ends, DropBroker, NothingRead, Click
  <1>1. CASE UNCHANGED scanVars
    BY <1>1
  <1>2. CASE CallScan
    BY <1>2 DEF CallScan
  <1>3. CASE ScanBegins
    BY <1>3 DEF ScanBegins
  <1>4. CASE CheckToken
    BY <1>4 DEF CheckToken, SeesToken, ClickFails
  <1>5. CASE DispatchRefused
    BY <1>5 DEF DispatchRefused, ClickFails
  <1>6. CASE DispatchInput
    <2>1. /\ lateInputs' \in {0, 1} /\ (~ScanTold' => lateInputs' = 0) /\ checked' = FALSE
          /\ purpose' = purpose /\ title' = title /\ rows' = rows /\ bars' = bars
      BY <1>6 DEF DispatchInput
    <2>2. scan' = "click" \/ scan' = [open |-> "look", close |-> "lookClosed", defocus |-> "release"][purpose]
      BY <1>6 DEF DispatchInput
    <2>3. scan' = "click" \/ (scan' = "look" /\ purpose = "open") \/ scan' \in {"lookClosed", "release"}
      BY <2>2
    <2> QED
      BY <1>6, <2>1, <2>3 DEF DispatchInput
  <1>7. CASE Look
    BY <1>7 DEF Look
  <1>8. CASE GiverFrame
    BY <1>8 DEF GiverFrame, ReadingFails, ReadingEnds
  <1>9. CASE ObjectiveBars
    BY <1>9 DEF ObjectiveBars, ReadingFails, ReadingEnds
  <1>10. CASE TitleFrame
    BY <1>10 DEF TitleFrame, ReadingFails, ReadingEnds
  <1>11. CASE CloseLog
    BY <1>11 DEF CloseLog
  <1>12. CASE LookClosed
    BY <1>12 DEF LookClosed
  <1>13. CASE ReleaseInputs
    BY <1>13 DEF ReleaseInputs
  <1>14. CASE ScanPanics
    BY <1>14 DEF ScanPanics
  <1>15. CASE Waiter
    BY <1>15 DEF Waiter, CallStops, GraceEnds, Joins
  <1>16. CASE CancelScan
    BY <1>16 DEF CancelScan
  <1>17. CASE FocusMoves
    BY <1>17 DEF FocusMoves
  <1> QED
    BY <1>1, <1>2, <1>3, <1>4, <1>5, <1>6, <1>7, <1>8, <1>9, <1>10, <1>11, <1>12, <1>13, <1>14,
       <1>15, <1>16, <1>17 DEF ScanNext, ScanThread

LEMMA ScanInvariant == ScanSpec => []ScanInv
  BY ScanInitially, ScanStep, PTL DEF ScanSpec

(* Whatever the frames, the catalog and the number of attempts: a scan that *)
(* was told to stop sends at most the one input it had decided on.         *)
THEOREM OneLateScanInput == ScanSpec => []OneLateInput
  <1>1. ScanInv => OneLateInput
    BY DEF ScanInv, LateIsLast, OneLateInput
  <1> QED
    BY <1>1, ScanInvariant, PTL

-----------------------------------------------------------------------------
(* What is read out of a crop.                                            *)

(* A set of naturals has a least element.                                  *)
LEMMA LeastOf ==
  ASSUME NEW T \in SUBSET Nat, T # {}
  PROVE  \E n \in T : \A m \in T : n <= m
  <1> DEFINE below(n) == 1..n
             intervals == {below(n) : n \in T}
  <1>1. IsWellFoundedOn(StrictSubsetOrdering(Nat), FiniteSubsetsOf(Nat))
    BY FS_StrictSubsetOrderingWellFounded
  <1>2. intervals \subseteq FiniteSubsetsOf(Nat)
    <2> SUFFICES ASSUME NEW n \in T PROVE below(n) \in FiniteSubsetsOf(Nat)
      OBVIOUS
    <2>1. IsFiniteSet(1..n) /\ 1..n \in SUBSET Nat
      BY FS_Interval
    <2> QED
      BY <2>1 DEF FiniteSubsetsOf
  <1>3. intervals # {}
    OBVIOUS
  <1>4. PICK x \in intervals : \A y \in intervals : <<y, x>> \notin StrictSubsetOrdering(Nat)
    <2> HIDE DEF intervals
    <2> QED
      BY <1>1, <1>2, <1>3, WFMin
  <1>5. PICK n \in T : x = below(n)
    OBVIOUS
  <1>6. ASSUME NEW m \in T, m < n PROVE FALSE
    <2>1. below(m) \subseteq below(n) /\ n \in below(n) /\ n \notin below(m)
      BY <1>6
    <2>2. <<below(m), below(n)>> \in StrictSubsetOrdering(Nat)
      <3>1. below(m) \in SUBSET Nat /\ below(n) \in SUBSET Nat
        OBVIOUS
      <3> HIDE DEF below
      <3> QED
        BY <2>1, <3>1 DEF StrictSubsetOrdering
    <2> QED
      BY <1>4, <1>5, <2>2
  <1> QED
    BY <1>6


Rows == {"none", "complete", "incomplete"}

(* The loop over the rows is defined: each row is read after the one above. *)
LEMMA RowsReadDefined ==
  ASSUME NEW crop \in Seq(Rows)
  PROVE  RowsRead(crop) =
           [n \in 0..Len(crop) |-> IF n = 0 THEN NoRowRead
                                   ELSE RowRead(RowsRead(crop)[n - 1], crop[n])]
  <1> DEFINE Reads(f, m) ==
               f = [n \in 0..m |-> IF n = 0 THEN NoRowRead ELSE RowRead(f[n - 1], crop[n])]
             T == {m \in Nat : m <= Len(crop) /\ \A f : ~Reads(f, m)}
  <1>1. T = {}
    <2> SUFFICES ASSUME T # {} PROVE FALSE
      OBVIOUS
    <2>1. PICK m \in T : \A k \in T : m <= k
      <3>1. T \in SUBSET Nat
        OBVIOUS
      <3> HIDE DEF T
      <3> QED
        BY <3>1, LeastOf
    <2>2. m \in Nat /\ m <= Len(crop) /\ (\A f : ~Reads(f, m)) /\ Len(crop) \in Nat
      OBVIOUS
    <2>3. CASE m = 0
      <3> DEFINE g == [n \in 0..0 |-> NoRowRead]
      <3>1. Reads(g, 0)
        OBVIOUS
      <3> QED
        BY <2>2, <2>3, <3>1
    <2>4. CASE m # 0
      <3>1. m - 1 \in Nat /\ m - 1 <= Len(crop) /\ m - 1 \notin T
        <4> HIDE DEF T
        <4> QED
          BY <2>1, <2>2, <2>4
      <3>2. PICK f : Reads(f, m - 1)
        BY <3>1
      <3> DEFINE g == [n \in 0..m |-> IF n = m THEN RowRead(f[m - 1], crop[m]) ELSE f[n]]
      <3>3. ASSUME NEW n \in 0..m
            PROVE  g[n] = IF n = 0 THEN NoRowRead ELSE RowRead(g[n - 1], crop[n])
        <4>1. CASE n = m
          <5>1. g[n] = RowRead(f[m - 1], crop[m]) /\ n - 1 \in 0..m /\ n - 1 # m
            BY <2>2, <2>4, <4>1
          <5>2. g[n - 1] = f[m - 1]
            BY <4>1, <5>1
          <5> QED
            BY <2>4, <4>1, <5>1, <5>2
        <4>2. CASE n # m
          <5>1. n \in 0..(m - 1) /\ g[n] = f[n]
            BY <2>2, <4>2
          <5>2. f[n] = IF n = 0 THEN NoRowRead ELSE RowRead(f[n - 1], crop[n])
            BY <3>2, <5>1
          <5>3. n # 0 => n - 1 \in 0..m /\ n - 1 # m /\ g[n - 1] = f[n - 1]
            BY <2>2, <5>1
          <5> QED
            BY <5>1, <5>2, <5>3
        <4> QED
          BY <4>1, <4>2
      <3>4. Reads(g, m)
        <4>1. g = [n \in 0..m |-> g[n]]
          OBVIOUS
        <4> HIDE DEF g
        <4> QED
          BY <3>3, <4>1
      <3> QED
        BY <2>2, <3>4
    <2> QED
      BY <2>3, <2>4
  <1>2. \E f : Reads(f, Len(crop))
    <2>1. Len(crop) \in Nat /\ Len(crop) <= Len(crop) /\ Len(crop) \notin T
      BY <1>1
    <2> QED
      BY <2>1
  <1>3. RowsRead(crop) = CHOOSE f : Reads(f, Len(crop))
    BY DEF RowsRead
  <1>4. Reads(RowsRead(crop), Len(crop))
    <2> HIDE DEF Reads
    <2> QED
      BY <1>2, <1>3, Zenon
  <1> QED
    BY <1>4

(* The starts of the bars that are over within the first n rows; the bars  *)
(* that start at the rows of S, from the top; the run that ends at row n.  *)
Over(crop, n) == {y \in BarStarts(crop) : \E z \in (y + 1)..n : crop[z] # crop[y]}
Under(crop, n) == {y \in BarStarts(crop) : y <= n /\ \A z \in y..n : crop[z] = crop[n]}
Listing(found, crop, S, p) ==
  /\ p \in [1..Len(found) -> S]
  /\ \A i, j \in 1..Len(found) : i < j => p[i] < p[j]
  /\ \A y \in S : \E i \in 1..Len(found) : p[i] = y
  /\ \A i \in 1..Len(found) : found[i] = crop[p[i]]
Lists(found, crop, S) == \E p : Listing(found, crop, S, p)
LastRun(crop, n, loop) ==
  /\ loop.row = crop[n] /\ loop.rows \in 1..n
  /\ \A z \in (n - loop.rows + 1)..n : crop[z] = crop[n]
  /\ n > loop.rows => crop[n - loop.rows] # crop[n]

LEMMA StartTyped ==
  ASSUME NEW crop \in Seq(Rows)
  PROVE  BarStarts(crop) \subseteq 1..Len(crop)
  BY DEF BarStarts

(* The run that ends at row n is at most one bar, the last so far.         *)
LEMMA RunIsOneBar ==
  ASSUME NEW crop \in Seq(Rows), NEW n \in 1..Len(crop), NEW loop, LastRun(crop, n, loop),
         n = Len(crop) \/ crop[n + 1] # crop[n]
  PROVE  LET q == n - loop.rows + 1 IN
         /\ \A y \in Under(crop, n) : y = q /\ loop.rows >= MinimumRows /\ crop[n] # "none"
         /\ loop.rows >= MinimumRows /\ crop[n] # "none" => q \in Under(crop, n)
         /\ \A y \in Over(crop, n) : y < q
  <1> DEFINE q == n - loop.rows + 1
  <1>1. /\ loop.rows \in 1..n /\ q \in 1..n /\ n \in Int /\ Len(crop) \in Nat /\ n <= Len(crop)
        /\ n - loop.rows = q - 1
    BY DEF LastRun
  <1>2. \A z \in q..n : crop[z] = crop[n]
    BY DEF LastRun
  <1>3. q > 1 => crop[q - 1] # crop[n]
    BY <1>1 DEF LastRun
  <1> HIDE DEF q
  <1>4. ASSUME NEW y \in Under(crop, n)
        PROVE  y = q /\ loop.rows >= MinimumRows /\ crop[n] # "none"
    <2>1. y \in 1..n /\ y \in Int /\ (\A z \in y..n : crop[z] = crop[n])
      BY <1>1, StartTyped DEF Under
    <2>2. /\ crop[y] # "none" /\ (y = 1 \/ crop[y - 1] # crop[y])
          /\ y + 2 <= Len(crop) /\ \A z \in y..(y + 2) : crop[z] = crop[y]
      BY <2>1 DEF Under, BarStarts, MinimumRows
    <2>3. crop[y] = crop[n]
      BY <2>1
    <2>4. y >= q
      <3> SUFFICES ASSUME y < q PROVE FALSE
        BY <1>1, <2>1
      <3>1. q > 1 /\ q - 1 \in y..n
        BY <1>1, <2>1
      <3> QED
        BY <1>3, <2>1, <3>1
    <2>5. y <= q
      <3> SUFFICES ASSUME y > q PROVE FALSE
        BY <1>1, <2>1
      <3>1. y # 1 /\ y - 1 \in q..n
        BY <1>1, <2>1
      <3> QED
        BY <1>2, <2>2, <2>3, <3>1
    <2>6. y = q
      BY <1>1, <2>1, <2>4, <2>5
    <2>7. loop.rows >= 3
      <3> SUFFICES ASSUME loop.rows < 3 PROVE FALSE
        BY <1>1
      <3>1. n + 1 \in y..(y + 2) /\ n + 1 <= Len(crop)
        <4>1. loop.rows \in Int /\ loop.rows >= 1 /\ loop.rows < 3
          BY <1>1
        <4>2. y \in Int /\ n - loop.rows = y - 1 /\ y + 2 <= Len(crop)
          BY <1>1, <2>1, <2>2, <2>6
        <4> QED
          BY ONLY <1>1, <4>1, <4>2
      <3> QED
        BY <1>1, <2>2, <2>3, <3>1
    <2> QED
      BY <2>2, <2>3, <2>6, <2>7 DEF MinimumRows
  <1>5. ASSUME loop.rows >= MinimumRows, crop[n] # "none" PROVE q \in Under(crop, n)
    <2>1. q + 2 <= n /\ q + MinimumRows - 1 = q + 2
      BY <1>1, <1>5 DEF q, MinimumRows
    <2>2. crop[q] = crop[n] /\ q \in DOMAIN crop /\ q <= n
      BY <1>1, <1>2
    <2>3. q = 1 \/ crop[q - 1] # crop[q]
      BY <1>1, <1>3, <2>2
    <2>4. \A z \in q..(q + 2) : crop[z] = crop[q]
      BY <1>1, <1>2, <2>1, <2>2
    <2>5. q \in BarStarts(crop)
      BY <1>1, <1>5, <2>1, <2>2, <2>3, <2>4 DEF BarStarts
    <2> QED
      BY <1>2, <2>2, <2>5 DEF Under
  <1>6. ASSUME NEW y \in Over(crop, n) PROVE y < q
    <2>1. y \in Int /\ \E z \in (y + 1)..n : crop[z] # crop[y]
      BY StartTyped DEF Over
    <2>2. PICK z \in (y + 1)..n : crop[z] # crop[y]
      BY <2>1
    <2> SUFFICES ASSUME y >= q PROVE FALSE
      BY <1>1, <2>1
    <2>3. y \in q..n /\ z \in q..n
      BY <1>1, <2>1, <2>2
    <2> QED
      BY <1>2, <2>2, <2>3
  <1> QED
    BY <1>4, <1>5, <1>6 DEF q

(* The end of a run: what was listed is listed still, and the run's bar.   *)
LEMMA RunFinished ==
  ASSUME NEW crop \in Seq(Rows), NEW n \in 1..Len(crop), NEW loop, LastRun(crop, n, loop),
         n = Len(crop) \/ crop[n + 1] # crop[n],
         NEW found \in Seq(Rows), Lists(found, crop, Over(crop, n))
  PROVE  /\ Finished(found, loop.row, loop.rows) \in Seq(Rows)
         /\ Lists(Finished(found, loop.row, loop.rows), crop, Over(crop, n) \cup Under(crop, n))
  <1> DEFINE q == n - loop.rows + 1
             S == Over(crop, n)
             U == Under(crop, n)
             m == Len(found)
  <1>1. /\ \A y \in U : y = q /\ loop.rows >= MinimumRows /\ crop[n] # "none"
        /\ loop.rows >= MinimumRows /\ crop[n] # "none" => q \in U
        /\ \A y \in S : y < q
    BY RunIsOneBar
  <1>2. loop.row = crop[n] /\ crop[n] \in Rows /\ (\A y \in S : y \in Int)
    BY StartTyped DEF LastRun, Over
  <1>3. PICK p : Listing(found, crop, S, p)
    BY DEF Lists
  <1>4. q \in U => crop[q] = crop[n]
    <2>1. q \in U => q <= n /\ q \in Int /\ \A z \in q..n : crop[z] = crop[n]
      BY StartTyped DEF Under
    <2> QED
      BY <2>1
  <1> HIDE DEF q, S, U
  <1>5. CASE loop.rows >= MinimumRows /\ crop[n] # "none"
    <2> DEFINE b2 == Append(found, crop[n])
               p2 == [i \in 1..(m + 1) |-> IF i = m + 1 THEN q ELSE p[i]]
    <2>1. Finished(found, loop.row, loop.rows) = b2 /\ b2 \in Seq(Rows) /\ Len(b2) = m + 1
      BY <1>2, <1>5 DEF Finished
    <2>2. q \in U /\ U = {q}
      BY <1>1, <1>5
    <2>3. \A i \in 1..m : p[i] \in S /\ p[i] < q /\ p[i] \in Int
      BY <1>1, <1>2, <1>3 DEF Listing
    <2>4. p2 \in [1..(m + 1) -> S \cup U]
      <3>1. \A i \in 1..(m + 1) : i # m + 1 => i \in 1..m
        OBVIOUS
      <3> QED
        BY <2>2, <2>3, <3>1
    <2>5. ASSUME NEW i \in 1..(m + 1), NEW j \in 1..(m + 1), i < j PROVE p2[i] < p2[j]
      <3>1. i \in 1..m /\ i # m + 1
        BY <2>5
      <3>2. p2[i] = p[i]
        BY <3>1
      <3>3. CASE j = m + 1
        BY <2>3, <3>1, <3>2, <3>3
      <3>4. CASE j # m + 1
        <4>1. j \in 1..m /\ p2[j] = p[j]
          BY <3>4
        <4>2. p[i] < p[j]
          BY <1>3, <2>5, <3>1, <4>1 DEF Listing
        <4> QED
          BY <3>2, <4>1, <4>2
      <3> QED
        BY <3>3, <3>4
    <2>6. ASSUME NEW y \in S \cup U PROVE \E i \in 1..(m + 1) : p2[i] = y
      <3>1. CASE y \in U
        <4>1. y = q /\ m + 1 \in 1..(m + 1) /\ p2[m + 1] = q
          BY <2>2, <3>1
        <4> QED
          BY <4>1
      <3>2. CASE y \in S
        <4>1. PICK i \in 1..m : p[i] = y
          BY <1>3, <3>2 DEF Listing
        <4>2. i \in 1..(m + 1) /\ i # m + 1
          OBVIOUS
        <4>3. p2[i] = y
          BY <4>1, <4>2
        <4> QED
          BY <4>2, <4>3
      <3> QED
        BY <3>1, <3>2
    <2>7. ASSUME NEW i \in 1..(m + 1) PROVE b2[i] = crop[p2[i]]
      <3>1. CASE i = m + 1
        BY <1>4, <2>2, <3>1
      <3>2. CASE i # m + 1
        <4>1. i \in 1..m /\ p2[i] = p[i] /\ b2[i] = found[i]
          BY <3>2
        <4>2. found[i] = crop[p[i]]
          BY <1>3, <4>1 DEF Listing
        <4> QED
          BY <4>1, <4>2
      <3> QED
        BY <3>1, <3>2
    <2> HIDE DEF b2, p2
    <2>8. Listing(b2, crop, S \cup U, p2)
      BY <2>1, <2>4, <2>5, <2>6, <2>7 DEF Listing
    <2> QED
      BY <2>1, <2>8 DEF Lists, S, U
  <1>6. CASE ~(loop.rows >= MinimumRows /\ crop[n] # "none")
    <2>1. Finished(found, loop.row, loop.rows) = found /\ U = {}
      BY <1>1, <1>2, <1>6 DEF Finished
    <2>2. S \cup U = S
      BY <2>1
    <2> QED
      BY <1>3, <2>1, <2>2 DEF Lists, S, U
  <1> QED
    BY <1>5, <1>6

Scans == [bars : Seq(Rows), row : Rows, rows : Nat]
ScanIsSound(crop, n) ==
  /\ RowsRead(crop)[n] \in Scans /\ LastRun(crop, n, RowsRead(crop)[n])
  /\ Lists(RowsRead(crop)[n].bars, crop, Over(crop, n))

LEMMA FirstRowRead ==
  ASSUME NEW crop \in Seq(Rows), Len(crop) >= 1
  PROVE  ScanIsSound(crop, 1)
  <1> DEFINE loop == RowRead(NoRowRead, crop[1])
  <1>1. RowsRead(crop)[1] = loop
    <2>1. 0 \in 0..Len(crop) /\ 1 \in 0..Len(crop) /\ 1 - 1 = 0
      OBVIOUS
    <2>2. RowsRead(crop)[0] = NoRowRead
      BY <2>1, RowsReadDefined
    <2> QED
      BY <2>1, <2>2, RowsReadDefined
  <1>2. crop[1] \in Rows
    OBVIOUS
  <1>3. loop = [bars |-> <<>>, row |-> crop[1], rows |-> 1]
    BY <1>2 DEF RowRead, NoRowRead, Finished, MinimumRows
  <1>4. loop \in Scans /\ LastRun(crop, 1, loop)
    BY <1>2, <1>3 DEF Scans, LastRun
  <1>5. Over(crop, 1) = {}
    BY StartTyped DEF Over
  <1>6. Listing(<<>>, crop, {}, <<>>)
    BY DEF Listing
  <1>7. Lists(<<>>, crop, Over(crop, 1)) /\ loop.bars = <<>>
    <2>1. Lists(<<>>, crop, {})
      BY ONLY <1>6, Zenon DEF Lists
    <2>2. loop.bars = <<>>
      BY <1>3
    <2> QED
      BY <1>5, <2>1, <2>2
  <1> HIDE DEF loop
  <1> QED
    BY <1>1, <1>4, <1>7 DEF ScanIsSound

LEMMA NextRowRead ==
  ASSUME NEW crop \in Seq(Rows), NEW n \in Nat \ {0}, n + 1 <= Len(crop), ScanIsSound(crop, n)
  PROVE  ScanIsSound(crop, n + 1)
  <1> DEFINE loop == RowsRead(crop)[n]
             next == RowRead(loop, crop[n + 1])
  <1>1. RowsRead(crop)[n + 1] = next
    <2>1. n + 1 \in 0..Len(crop) /\ n + 1 # 0 /\ (n + 1) - 1 = n
      OBVIOUS
    <2> QED
      BY <2>1, RowsReadDefined
  <1>2. /\ loop \in Scans /\ LastRun(crop, n, loop) /\ Lists(loop.bars, crop, Over(crop, n))
        /\ loop.bars \in Seq(Rows)
    BY DEF ScanIsSound, Scans
  <1>3. n \in 1..Len(crop) /\ n + 1 \in 1..Len(crop) /\ crop[n] \in Rows /\ crop[n + 1] \in Rows
    OBVIOUS
  <1> HIDE DEF loop
  <1>4. CASE crop[n + 1] = crop[n]
    <2>1. next = [loop EXCEPT !.rows = @ + 1]
      BY <1>2, <1>4 DEF RowRead, LastRun
    <2>2. next \in Scans /\ next.row = crop[n] /\ next.rows = loop.rows + 1 /\ next.bars = loop.bars
      <3>1. loop.row = crop[n] /\ loop.row \in Rows /\ loop.rows \in Nat
        BY <1>2 DEF Scans, LastRun
      <3>2. next = [bars |-> loop.bars, row |-> loop.row, rows |-> loop.rows + 1]
        BY <1>2, <2>1 DEF Scans
      <3>3. next.row = crop[n] /\ next.rows = loop.rows + 1 /\ next.bars = loop.bars
        BY <3>1, <3>2
      <3>4. [bars |-> loop.bars, row |-> loop.row, rows |-> loop.rows + 1] \in Scans
        BY <1>2, <3>1 DEF Scans
      <3> QED
        BY <3>2, <3>3, <3>4
    <2>3. LastRun(crop, n + 1, next)
      <3>1. loop.rows \in 1..n /\ next.rows \in 1..(n + 1) /\ (n + 1) - next.rows = n - loop.rows
        BY <1>2, <2>2 DEF LastRun
      <3>2. \A z \in (n - loop.rows + 1)..(n + 1) : z \in (n - loop.rows + 1)..n \/ z = n + 1
        BY <3>1
      <3>3. \A z \in (n - loop.rows + 1)..(n + 1) : crop[z] = crop[n + 1]
        BY <1>2, <1>4, <3>2 DEF LastRun
      <3>4. n + 1 > next.rows => crop[n - loop.rows] # crop[n + 1]
        BY <1>2, <1>4, <2>2, <3>1 DEF LastRun
      <3> QED
        BY <1>4, <2>2, <3>1, <3>3, <3>4 DEF LastRun
    <2>4. Over(crop, n + 1) = Over(crop, n)
      <3>1. ASSUME NEW y \in BarStarts(crop), NEW z \in (y + 1)..(n + 1), crop[z] # crop[y]
            PROVE  \E x \in (y + 1)..n : crop[x] # crop[y]
        <4>1. y \in Int /\ z \in Int /\ y >= 1
          BY StartTyped
        <4>2. CASE z # n + 1
          <5>1. z \in (y + 1)..n
            BY <4>1, <4>2
          <5> QED
            BY <3>1, <5>1
        <4>3. CASE z = n + 1
          <5>1. crop[n] # crop[y] /\ y <= n
            BY <1>4, <3>1, <4>1, <4>3
          <5>2. y # n
            BY <5>1
          <5>3. n \in (y + 1)..n
            BY <4>1, <5>1, <5>2
          <5> QED
            BY <5>1, <5>3
        <4> QED
          BY <4>2, <4>3
      <3>2. ASSUME NEW y \in BarStarts(crop), NEW z \in (y + 1)..n
            PROVE  z \in (y + 1)..(n + 1)
        BY StartTyped
      <3> QED
        BY <3>1, <3>2 DEF Over
    <2> QED
      BY <1>1, <1>2, <2>2, <2>3, <2>4 DEF ScanIsSound
  <1>5. CASE crop[n + 1] # crop[n]
    <2> DEFINE done == Finished(loop.bars, loop.row, loop.rows)
    <2>1. next = [bars |-> done, row |-> crop[n + 1], rows |-> 1]
      BY <1>2, <1>5 DEF RowRead, LastRun
    <2>2. done \in Seq(Rows) /\ Lists(done, crop, Over(crop, n) \cup Under(crop, n))
      BY <1>2, <1>3, <1>5, RunFinished
    <2> HIDE DEF done
    <2>3. next \in Scans
      BY <1>3, <2>1, <2>2 DEF Scans
    <2>4. LastRun(crop, n + 1, next)
      BY <1>5, <2>1 DEF LastRun
    <2>5. Over(crop, n + 1) = Over(crop, n) \cup Under(crop, n)
      <3>1. ASSUME NEW y \in Over(crop, n + 1), y \notin Over(crop, n) PROVE y \in Under(crop, n)
        <4>1. y \in BarStarts(crop) /\ y \in Int /\ y >= 1
          BY StartTyped DEF Over
        <4>2. PICK z \in (y + 1)..(n + 1) : crop[z] # crop[y]
          BY DEF Over
        <4>3. y <= n
          BY <4>1, <4>2
        <4>4. \A x \in (y + 1)..n : crop[x] = crop[y]
          BY <3>1, <4>1 DEF Over
        <4>5. \A x \in y..n : crop[x] = crop[y]
          <5>1. \A x \in y..n : x = y \/ x \in (y + 1)..n
            BY <4>1
          <5> QED
            BY <4>4, <5>1
        <4>6. n \in y..n
          BY <4>1, <4>3
        <4> QED
          BY <4>1, <4>3, <4>5, <4>6 DEF Under
      <3>2. ASSUME NEW y \in Over(crop, n) PROVE y \in Over(crop, n + 1)
        <4>1. y \in BarStarts(crop) /\ y \in Int
          BY StartTyped DEF Over
        <4>2. PICK z \in (y + 1)..n : crop[z] # crop[y]
          BY DEF Over
        <4>3. z \in (y + 1)..(n + 1)
          BY <4>1, <4>2
        <4> QED
          BY <4>1, <4>2, <4>3 DEF Over
      <3>3. ASSUME NEW y \in Under(crop, n) PROVE y \in Over(crop, n + 1)
        <4>1. y \in BarStarts(crop) /\ y \in Int /\ y <= n /\ \A z \in y..n : crop[z] = crop[n]
          BY StartTyped DEF Under
        <4>2. crop[y] = crop[n] /\ n + 1 \in (y + 1)..(n + 1)
          BY <4>1
        <4> QED
          BY <1>5, <4>1, <4>2 DEF Over
      <3> QED
        BY <3>1, <3>2, <3>3
    <2>6. next.bars = done
      BY <2>1
    <2> HIDE DEF next
    <2> QED
      BY <1>1, <2>2, <2>3, <2>4, <2>5, <2>6 DEF ScanIsSound
  <1> QED
    BY <1>4, <1>5

LEMMA EveryRowRead ==
  ASSUME NEW crop \in Seq(Rows)
  PROVE  \A n \in 1..Len(crop) : ScanIsSound(crop, n)
  <1> DEFINE T == {n \in 1..Len(crop) : ~ScanIsSound(crop, n)}
  <1> SUFFICES ASSUME T # {} PROVE FALSE
    OBVIOUS
  <1>1. T \in SUBSET Nat
    OBVIOUS
  <1>2. PICK n \in T : \A m \in T : n <= m
    <2> HIDE DEF T
    <2> QED
      BY <1>1, LeastOf
  <1>3. n \in 1..Len(crop) /\ ~ScanIsSound(crop, n)
    OBVIOUS
  <1>4. n # 1
    BY <1>3, FirstRowRead
  <1>5. n - 1 \in Nat \ {0} /\ (n - 1) + 1 = n /\ n - 1 \in 1..Len(crop) /\ n - 1 \notin T
    <2> HIDE DEF T
    <2> QED
      BY <1>2, <1>3, <1>4
  <1>6. ScanIsSound(crop, n - 1)
    BY <1>5
  <1> QED
    BY <1>3, <1>5, <1>6, NextRowRead

(* A listing of the starts is the sequence of the bars, from the top.      *)
LEMMA ListingIsBars ==
  ASSUME NEW crop \in Seq(Rows), NEW found \in Seq(Rows), Lists(found, crop, BarStarts(crop))
  PROVE  found = BarsOf(crop)
  <1> DEFINE S == BarStarts(crop)
             m == Len(found)
  <1>1. PICK p : Listing(found, crop, S, p)
    BY DEF Lists
  <1>2. /\ p \in [1..m -> S] /\ (\A i, j \in 1..m : i < j => p[i] < p[j])
        /\ (\A y \in S : \E i \in 1..m : p[i] = y) /\ \A i \in 1..m : found[i] = crop[p[i]]
    BY <1>1 DEF Listing
  <1>3. (\A y \in S : y \in Int) /\ m \in Nat /\ \A i \in 1..m : p[i] \in Int
    BY <1>2, StartTyped
  <1> HIDE DEF S
  <1>4. ASSUME NEW i \in 1..m PROVE Cardinality({z \in S : z <= p[i]}) = i
    <2> DEFINE B == {z \in S : z <= p[i]}
               g == [k \in 1..i |-> p[k]]
    <2>1. \A k \in 1..i : k \in 1..m /\ (k = i \/ k < i)
      BY <1>3
    <2>2. g \in [1..i -> B]
      <3>1. ASSUME NEW k \in 1..i PROVE p[k] \in B
        <4>1. k \in 1..m /\ p[k] \in S /\ p[k] \in Int /\ p[i] \in Int
          BY <1>2, <1>3, <2>1
        <4>2. k = i \/ p[k] < p[i]
          BY <1>2, <2>1, <4>1
        <4>3. p[k] <= p[i]
          BY <4>1, <4>2
        <4> QED
          BY <4>1, <4>3
      <3> QED
        BY <3>1
    <2>3. ASSUME NEW k \in 1..i, NEW l \in 1..i, k # l PROVE g[k] # g[l]
      <3>1. k < l \/ l < k
        BY <2>3
      <3>2. p[k] < p[l] \/ p[l] < p[k]
        BY <1>2, <2>1, <3>1
      <3> QED
        BY <1>3, <2>1, <3>2
    <2>4. ASSUME NEW y \in B PROVE \E k \in 1..i : g[k] = y
      <3>1. PICK k \in 1..m : p[k] = y
        BY <1>2
      <3>2. k <= i
        <4> SUFFICES ASSUME i < k PROVE FALSE
          BY <1>3
        <4>1. p[i] < p[k]
          BY <1>2
        <4> QED
          BY <1>3, <3>1, <4>1
      <3>3. k \in 1..i
        BY <3>2
      <3> QED
        BY <3>1, <3>3
    <2> HIDE DEF B, g
    <2>5. g \in Bijection(1..i, B)
      BY <2>2, <2>3, <2>4 DEF Bijection, Injection, Surjection, IsInjective
    <2>6. ExistsBijection(1..i, B) /\ i \in Nat
      BY <2>5 DEF ExistsBijection
    <2> QED
      BY <2>6, FS_CountingElements DEF B
  <1>5. Cardinality(S) = m
    <2>1. CASE m = 0
      <3>1. S = {}
        BY <1>2, <2>1
      <3> QED
        BY <2>1, <3>1, FS_EmptySet
    <2>2. CASE m # 0
      <3>1. m \in 1..m /\ \A i \in 1..m : i = m \/ i < m
        BY <1>3, <2>2
      <3>2. \A i \in 1..m : p[i] <= p[m]
        BY <1>2, <1>3, <3>1
      <3>3. {z \in S : z <= p[m]} = S
        BY <1>2, <3>2
      <3> QED
        BY <1>4, <3>1, <3>3
    <2> QED
      BY <2>1, <2>2
  <1>6. ASSUME NEW k \in 1..m
        PROVE  (CHOOSE y \in S : StartsUpTo(crop, y) = k) = p[k]
    <2>1. p[k] \in S /\ StartsUpTo(crop, p[k]) = k
      BY <1>2, <1>4 DEF StartsUpTo, S
    <2>2. ASSUME NEW y \in S, StartsUpTo(crop, y) = k PROVE y = p[k]
      <3>1. PICK i \in 1..m : p[i] = y
        BY <1>2
      <3>2. StartsUpTo(crop, y) = i
        BY <1>4, <3>1 DEF StartsUpTo, S
      <3> QED
        BY <2>2, <3>1, <3>2
    <2> QED
      BY <2>1, <2>2
  <1>7. BarsOf(crop) = [k \in 1..m |-> crop[CHOOSE y \in S : StartsUpTo(crop, y) = k]]
    BY <1>5 DEF BarsOf, S
  <1>8. BarsOf(crop) = [k \in 1..m |-> crop[p[k]]]
    BY <1>6, <1>7
  <1>9. found = [k \in 1..m |-> found[k]]
    OBVIOUS
  <1> QED
    BY <1>2, <1>8, <1>9

(* The bars that the code reads out of a crop are its maximal runs of one  *)
(* colour that are long enough, from the top, for a crop of any height.    *)
THEOREM BarsAreRead == \A crop \in Seq(Rows) : ReadBars(crop) = BarsOf(crop)
  <1> SUFFICES ASSUME NEW crop \in Seq(Rows) PROVE ReadBars(crop) = BarsOf(crop)
    OBVIOUS
  <1> DEFINE n == Len(crop)
             loop == RowsRead(crop)[n]
  <1>1. ReadBars(crop) = Finished(loop.bars, loop.row, loop.rows)
    BY DEF ReadBars, Flushed
  <1>2. CASE n = 0
    <2>1. loop = NoRowRead
      <3>1. 0 \in 0..Len(crop)
        OBVIOUS
      <3> QED
        BY <1>2, <3>1, RowsReadDefined
    <2>2. ReadBars(crop) = <<>>
      BY <1>1, <2>1 DEF NoRowRead, Finished
    <2>3. BarStarts(crop) = {}
      <3>1. 1..Len(crop) = {}
        BY <1>2
      <3> QED
        BY <3>1, StartTyped
    <2>4. Listing(<<>>, crop, {}, <<>>) /\ <<>> \in Seq(Rows)
      BY DEF Listing
    <2> QED
      BY <2>2, <2>3, <2>4, ListingIsBars DEF Lists
  <1>3. CASE n # 0
    <2>1. n \in 1..n
      BY <1>3
    <2>2. ScanIsSound(crop, n)
      BY <2>1, EveryRowRead
    <2>3. /\ loop.bars \in Seq(Rows) /\ LastRun(crop, n, loop)
          /\ Lists(loop.bars, crop, Over(crop, n))
      BY <2>2 DEF ScanIsSound, Scans
    <2> HIDE DEF loop
    <2>4. /\ ReadBars(crop) \in Seq(Rows)
          /\ Lists(ReadBars(crop), crop, Over(crop, n) \cup Under(crop, n))
      BY <1>1, <2>1, <2>3, RunFinished
    <2>5. Over(crop, n) \cup Under(crop, n) = BarStarts(crop)
      <3>1. ASSUME NEW y \in BarStarts(crop), y \notin Over(crop, n) PROVE y \in Under(crop, n)
        <4>1. y \in 1..n /\ \A x \in (y + 1)..n : crop[x] = crop[y]
          BY <3>1, StartTyped DEF Over
        <4>2. \A x \in y..n : x = y \/ x \in (y + 1)..n
          BY <4>1
        <4>3. \A x \in y..n : crop[x] = crop[y]
          BY <4>1, <4>2
        <4>4. n \in y..n /\ y <= n
          BY <4>1
        <4> QED
          BY <4>3, <4>4 DEF Under
      <3> QED
        BY <3>1 DEF Over, Under
    <2> QED
      BY <2>4, <2>5, ListingIsBars
  <1> QED
    BY <1>2, <1>3

-----------------------------------------------------------------------------
(* Whatever the catalog, the templates, the recognised titles, the heights *)
(* of the crops and the moment the scan is stopped: a field is recommended *)
(* only for an objective whose bar is not complete.                        *)
THEOREM FieldsAreWarranted == ScanSpec => []WarrantedFields
  <1>1. ASSUME ScanInv PROVE WarrantedFields
    <2> SUFFICES ASSUME NEW f \in Fields
                 PROVE  \E k \in DOMAIN Catalog[giver][title] :
                          /\ Catalog[giver][title][k] = f
                          /\ Len(BarsOf(rows)) = Len(Catalog[giver][title])
                          /\ BarsOf(rows)[k] # "complete"
      BY DEF WarrantedFields
    <2>1. title # Other /\ f \in RecommendFields(bars, Catalog[giver][title])
      BY DEF Fields
    <2>2. bars = BarsOf(rows)
      <3>1. rows \in RowFrames /\ bars = ReadBars(rows)
        BY <1>1, <2>1 DEF ScanInv, BarsBelong
      <3>2. rows \in Seq(Rows)
        BY <3>1, ScanAssumption DEF ScanAssumption, Rows
      <3> QED
        BY <3>1, <3>2, BarsAreRead
    <2> QED
      BY <2>1, <2>2 DEF RecommendFields, BarsFit
  <1> QED
    BY <1>1, ScanInvariant, PTL
=============================================================================
