---------------------------- MODULE NativeInput ----------------------------
(***************************************************************************)
(* How a native run presses keys and mouse buttons                         *)
(* (crates/nectarpilot-core/src/tasks.rs,                                  *)
(* crates/nectarpilot-platform/src/task_executor.rs and input.rs): the     *)
(* executor walks a plan of guarded tasks, the runtime revalidates the     *)
(* adopted window before every detection and action, and the input broker  *)
(* remembers what it pressed.  Around them the user moves the window and   *)
(* takes the focus away, commands pause and cancel the run, and an         *)
(* emergency stop releases the inputs as soon as the runtime's mutex lets  *)
(* it.  Keys and buttons are treated alike.                                *)
(***************************************************************************)
EXTENDS Naturals, Sequences

CONSTANTS
  Inputs,     (* keys and mouse buttons                                     *)
  Plan,       (* the task plan: for every task the sequence of its actions  *)
  Wait,       (* the action that presses nothing                            *)
  MaxRuns     (* bound: executions of the plan in a behaviour               *)

ASSUME InputAssumption ==
  /\ Wait \notin Inputs
  /\ Plan \in Seq(Seq(Inputs \cup {Wait}))
  /\ MaxRuns \in Nat

VARIABLES
  foreground, (* the adopted window is the foreground window                *)
  moved,      (* its geometry is not the one the session last read          *)
  faultySink, (* whether SendInput may refuse an event: it never changes    *)
  pressed,    (* pressed_keys and pressed_buttons of the broker             *)
  status,     (* BrokerStatus                                               *)
  down,       (* the inputs Windows holds down on behalf of the program     *)
  pc,         (* where the worker of the run is                             *)
  mode,       (* StartMode of the run                                       *)
  t, a,       (* the current task and action                                *)
  calibrated, (* this task's target was detected on the current geometry    *)
  outcome,    (* ActionOutcome of the last execution                        *)
  report,     (* how the run was reported: "none", "clean" or "faulted"     *)
  cancelled,  (* the token of the run is cancelled                          *)
  paused,     (* the pause channel of the run carries TRUE                  *)
  emergency,  (* an emergency stop waits to release the inputs              *)
  runs,       (* executions so far                                          *)
  late,       (* presses since the token was cancelled                      *)
  inherited   (* what was down when the run began                           *)

world == <<foreground, moved, faultySink>>
broker == <<pressed, status, down>>
cursor == <<t, a, mode>>
commands == <<cancelled, paused, emergency>>
ghosts == <<late, inherited>>
vars == <<world, broker, pc, cursor, calibrated, outcome, report, commands, runs, ghosts>>

Modes == {"Normal", "DryRun", "Diagnostics"}
Pcs == {"idle", "preflight", "task", "detect", "detecting", "action", "ready", "press",
        "hold", "wait", "finished"}
(* Where the execution awaits something, and so may be dropped.            *)
Awaiting == {"task", "detecting", "action", "hold", "wait"}
(* Where it has the runtime's mutex.                                       *)
Locked == Pcs \ {"idle", "preflight", "finished"}
Outcomes == {"Succeeded", "Cancelled", "NeedsAttention", "Failed"}

-----------------------------------------------------------------------------
(* The broker.  A release forgets every input before it sends anything:    *)
(* those whose release is refused stay down and are never tried again.     *)

Refusals == IF faultySink THEN SUBSET pressed ELSE {{}}
ReleaseAll(stuck) == pressed' = {} /\ down' = down \ (pressed \ stuck)

(* InputBroker::cancel, and a dispatch that fails.                         *)
PauseBroker(stuck) == ReleaseAll(stuck) /\ status' = "PausedForFocus"

(* The executor's own release, whose error it drops.                       *)
End(final) ==
  /\ \E stuck \in Refusals : ReleaseAll(stuck)
  /\ pc' = "finished" /\ outcome' = final

EndPaused(final) ==
  /\ \E stuck \in Refusals : PauseBroker(stuck)
  /\ pc' = "finished" /\ outcome' = final

ForgetPress(i) == pressed
Remember(i) == pressed \cup {i}

-----------------------------------------------------------------------------
(* The run.                                                                *)

Begin ==
  /\ pc = "idle" /\ runs < MaxRuns
  /\ runs' = runs + 1 /\ mode' \in Modes
  /\ t' = 1 /\ a' = 1 /\ calibrated' = FALSE
  /\ outcome' = "Succeeded" /\ report' = "none"
  /\ cancelled' = FALSE /\ paused' = FALSE
  /\ late' = 0 /\ inherited' = down
  /\ pc' = "preflight"
  /\ UNCHANGED <<world, broker, emergency>>

(* NativeTaskRuntime::ensure_ready.  A changed geometry invalidates the    *)
(* calibration, and the refresh takes it over as the new one.              *)
NeverRecalibrate == FALSE
MustRecalibrate == moved
Ready == ~MustRecalibrate /\ foreground
Refreshed == moved' = FALSE /\ calibrated' = (calibrated /\ ~moved)

EnsureReady(next, failed) ==
  \/ /\ Ready
     /\ status' = "Ready" /\ pc' = next /\ Refreshed
     /\ UNCHANGED <<pressed, down, outcome>>
  \/ /\ ~Ready /\ EndPaused(failed) /\ Refreshed
  \/ (* the probe fails, or the focus goes between its two readings        *)
     /\ pc' = "finished" /\ outcome' \in {failed, "Failed"}
     /\ \/ pc = "preflight" /\ UNCHANGED <<pressed, down>>
        \/ pc # "preflight" /\ \E stuck \in Refusals : ReleaseAll(stuck)
     /\ UNCHANGED <<moved, calibrated, status>>

Preflight ==
  /\ pc = "preflight"
  /\ EnsureReady("task", "NeedsAttention")
  /\ UNCHANGED <<foreground, faultySink, cursor, report, commands, runs, ghosts>>

(* TaskContext::checkpoint: a pause holds the run back, a cancellation     *)
(* ends it even then.                                                      *)
NotPaused == ~paused
MayProceed == ~cancelled /\ ~paused

TaskCheckpoint ==
  /\ pc = "task" /\ t <= Len(Plan)
  /\ \/ cancelled /\ End("Cancelled") /\ UNCHANGED status
     \/ MayProceed /\ pc' = "detect" /\ UNCHANGED <<broker, outcome>>
  /\ UNCHANGED <<world, cursor, calibrated, report, commands, runs, ghosts>>

PlanEnds ==
  /\ pc = "task" /\ t > Len(Plan)
  /\ \E stuck \in Refusals :
       ReleaseAll(stuck) /\ outcome' = IF stuck = {} THEN "Succeeded" ELSE "Failed"
  /\ pc' = "finished"
  /\ UNCHANGED <<world, status, cursor, calibrated, report, commands, runs, ghosts>>

Detect ==
  /\ pc = "detect"
  /\ EnsureReady("detecting", "NeedsAttention")
  /\ UNCHANGED <<foreground, faultySink, cursor, report, commands, runs, ghosts>>

(* The detector answers: an actionable target of the current geometry, or  *)
(* anything else, which ends the run; or it panics.                        *)
Detected ==
  /\ pc = "detecting"
  /\ \/ /\ mode # "Diagnostics" /\ pc' = "action" /\ a' = 1 /\ calibrated' = TRUE
        /\ UNCHANGED <<broker, outcome, t>>
     \/ /\ mode = "Diagnostics" /\ pc' = "task" /\ t' = t + 1
        /\ UNCHANGED <<broker, outcome, a, calibrated>>
     \/ /\ End("NeedsAttention") \/ End("Failed")
        /\ UNCHANGED <<status, t, a, calibrated>>
     \/ /\ pc' = "finished" /\ outcome' = "Failed"
        /\ UNCHANGED <<broker, t, a, calibrated>>
  /\ UNCHANGED <<world, mode, report, commands, runs, ghosts>>

ActionCheckpoint ==
  /\ pc = "action" /\ a <= Len(Plan[t])
  /\ \/ cancelled /\ End("Cancelled") /\ UNCHANGED <<status, a>>
     \/ /\ MayProceed /\ mode = "Normal"
        /\ pc' = "ready" /\ UNCHANGED <<broker, outcome, a>>
     \/ /\ MayProceed /\ mode = "DryRun"
        /\ a' = a + 1 /\ UNCHANGED <<broker, pc, outcome>>
  /\ UNCHANGED <<world, t, mode, calibrated, report, commands, runs, ghosts>>

TaskEnds ==
  /\ pc = "action" /\ a > Len(Plan[t])
  /\ pc' = "task" /\ t' = t + 1 /\ calibrated' = FALSE
  /\ UNCHANGED <<world, broker, a, mode, outcome, report, commands, runs, ghosts>>

Carry(action) == IF action = Wait THEN "wait" ELSE "press"

Perform ==
  /\ pc = "ready"
  /\ EnsureReady(Carry(Plan[t][a]), "NeedsAttention")
  /\ UNCHANGED <<foreground, faultySink, cursor, report, commands, runs, ghosts>>

(* InputBroker::dispatch of a press.                                       *)
Press ==
  LET i == Plan[t][a] IN
  /\ pc = "press"
  /\ \/ /\ foreground /\ status = "Ready"
        /\ pressed' = Remember(i) /\ down' = down \cup {i}
        /\ late' = IF cancelled THEN late + 1 ELSE late
        /\ pc' = "hold" /\ UNCHANGED <<status, outcome>>
     \/ ~foreground /\ EndPaused("NeedsAttention") /\ UNCHANGED late
     \/ faultySink /\ EndPaused("Failed") /\ UNCHANGED late
  /\ UNCHANGED <<world, cursor, calibrated, report, commands, runs, inherited>>

(* The end of a hold: the sleep is over or the token is cancelled, and the *)
(* release is dispatched.  Without focus it releases everything and fails. *)
IgnoreRelease(released) == TRUE
HoldSucceeds(released) == released

HoldEnds ==
  LET i == Plan[t][a] IN
  /\ pc = "hold"
  /\ \/ \E released \in BOOLEAN :
        /\ \/ /\ released /\ foreground
              /\ pressed' = pressed \ {i} /\ down' = down \ {i} /\ UNCHANGED status
           \/ /\ ~released /\ (~foreground \/ faultySink)
              /\ \E stuck \in Refusals : PauseBroker(stuck)
        /\ IF HoldSucceeds(released)
             THEN pc' = "action" /\ a' = a + 1 /\ UNCHANGED outcome
             ELSE /\ pc' = "finished" /\ UNCHANGED a
                  /\ outcome' = IF foreground THEN "Failed" ELSE "NeedsAttention"
     \/ cancelled /\ EndPaused("Cancelled") /\ UNCHANGED a
  /\ UNCHANGED <<world, t, mode, calibrated, report, commands, runs, ghosts>>

WaitEnds ==
  /\ pc = "wait"
  /\ \/ pc' = "action" /\ a' = a + 1 /\ UNCHANGED <<broker, outcome>>
     \/ cancelled /\ End("Cancelled") /\ UNCHANGED <<status, a>>
  /\ UNCHANGED <<world, t, mode, calibrated, report, commands, runs, ghosts>>

(* The engine waits for the execution and for the token, in no order: the  *)
(* execution may be dropped wherever it awaits, without a release.         *)
DropsUnlessDetecting == pc \in Awaiting \ {"detecting"}
Drops == pc \in Awaiting
Drop ==
  /\ cancelled /\ Drops
  /\ pc' = "finished" /\ outcome' = "Cancelled"
  /\ UNCHANGED <<world, broker, cursor, calibrated, report, commands, runs, ghosts>>

PreflightCancelled ==
  /\ cancelled /\ pc = "preflight"
  /\ pc' = "finished" /\ outcome' = "Cancelled"
  /\ UNCHANGED <<world, broker, cursor, calibrated, report, commands, runs, ghosts>>

(* The engine's release at the end of every run: its failure faults it.    *)
WorkerReleases ==
  /\ pc = "finished"
  /\ \E stuck \in Refusals :
       ReleaseAll(stuck) /\ report' = IF stuck = {} THEN "clean" ELSE "faulted"
  /\ pc' = "idle"
  /\ UNCHANGED <<world, status, cursor, calibrated, outcome, commands, runs, ghosts>>

-----------------------------------------------------------------------------
(* Commands and the world.                                                 *)

Cancel(hard) ==
  /\ pc # "idle" \/ hard
  /\ cancelled' = (pc # "idle" \/ cancelled) /\ emergency' = (emergency \/ hard)
  /\ UNCHANGED <<world, broker, pc, cursor, calibrated, outcome, report, paused, runs, ghosts>>

SetPaused ==
  /\ pc \in Locked
  /\ paused' = ~paused
  /\ UNCHANGED <<world, broker, pc, cursor, calibrated, outcome, report, cancelled,
                 emergency, runs, ghosts>>

EmergencyRelease ==
  /\ emergency /\ pc \notin Locked
  /\ emergency' = FALSE
  /\ \E stuck \in Refusals : ReleaseAll(stuck)
  /\ UNCHANGED <<world, status, pc, cursor, calibrated, outcome, report, cancelled, paused,
                 runs, ghosts>>

FocusChanges ==
  /\ foreground' = ~foreground
  /\ UNCHANGED <<moved, faultySink, broker, pc, cursor, calibrated, outcome, report, commands,
                 runs, ghosts>>

WindowMoves ==
  /\ moved' = TRUE
  /\ UNCHANGED <<foreground, faultySink, broker, pc, cursor, calibrated, outcome, report,
                 commands, runs, ghosts>>

-----------------------------------------------------------------------------
Init ==
  /\ foreground \in BOOLEAN /\ moved = FALSE /\ faultySink \in BOOLEAN
  /\ pressed = {} /\ status = "Ready" /\ down = {}
  /\ pc = "idle" /\ mode = "Diagnostics" /\ t = 1 /\ a = 1 /\ calibrated = FALSE
  /\ outcome = "Succeeded" /\ report = "none"
  /\ cancelled = FALSE /\ paused = FALSE /\ emergency = FALSE
  /\ runs = 0 /\ late = 0 /\ inherited = {}

(* What happens by itself: a checkpoint that is not held back, a timer, a  *)
(* synchronous call.  A detector may take for ever.                        *)
Proceed ==
  \/ Preflight \/ TaskCheckpoint \/ PlanEnds \/ Detect \/ ActionCheckpoint \/ TaskEnds
  \/ Perform \/ Press \/ HoldEnds \/ WaitEnds

Worker ==
  \/ Begin \/ Proceed \/ Detected \/ Drop \/ PreflightCancelled \/ WorkerReleases

Next ==
  \/ Worker
  \/ \E hard \in BOOLEAN : Cancel(hard)
  \/ SetPaused \/ EmergencyRelease \/ FocusChanges \/ WindowMoves

Spec == Init /\ [][Next]_vars

Fairness ==
  WF_vars(Proceed) /\ WF_vars(Drop) /\ WF_vars(WorkerReleases) /\ WF_vars(EmergencyRelease)
FairSpec == Spec /\ Fairness

-----------------------------------------------------------------------------
(* Properties.                                                             *)

(* Every variable keeps its type.                                          *)
FlagsTyped ==
  /\ foreground \in BOOLEAN /\ moved \in BOOLEAN /\ calibrated \in BOOLEAN
  /\ faultySink \in BOOLEAN
  /\ cancelled \in BOOLEAN /\ paused \in BOOLEAN /\ emergency \in BOOLEAN
InputsTyped == pressed \subseteq Inputs /\ down \subseteq Inputs /\ inherited \subseteq Inputs
PlaceTyped ==
  /\ pc \in Pcs /\ mode \in Modes /\ t \in Nat \ {0} /\ a \in Nat \ {0}
  /\ runs \in 0..MaxRuns /\ late \in Nat
WordsTyped ==
  /\ status \in {"Ready", "PausedForFocus"} /\ outcome \in Outcomes
  /\ report \in {"none", "clean", "faulted"}
TypeOK == FlagsTyped /\ InputsTyped /\ PlaceTyped /\ WordsTyped

(* As long as Windows takes every event, the broker knows every input that *)
(* is down, however an execution ends or is dropped, and nothing is down   *)
(* outside a hold once the run has been reported.                          *)
HeldIsKnown == ~faultySink => down = pressed /\ (pc = "idle" => down = {})

(* An action of a task presses only in a normal run, and only on the       *)
(* geometry on which the task's target was detected.                       *)
PressOnDetectedGeometry ==
  [][\A i \in Inputs \ pressed : i \in pressed' => calibrated /\ mode = "Normal"]_vars

(* After a cancellation at most one more input is pressed, wherever it     *)
(* strikes.                                                                *)
OneLatePress == late <= 1

(* A plan that is reported as succeeded has released all that it pressed,  *)
(* even when Windows refuses events.                                       *)
SuccessLeavesNothing ==
  pc \in {"finished", "idle"} /\ outcome = "Succeeded" => down \subseteq inherited

(* What the architecture's safety invariants say: cancellation, focus loss *)
(* and errors release every held key and mouse button.  A run whose        *)
(* release failed must at least not be reported as clean.                  *)
CleanReportIsTrue == report = "clean" => down = {}

(* A cancelled run is over and has let go of everything.                   *)
StopLetsGo == cancelled ~> pc = "idle" /\ (faultySink \/ down = {})
=============================================================================
