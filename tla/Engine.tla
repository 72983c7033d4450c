------------------------------- MODULE Engine -------------------------------
(***************************************************************************)
(* The run lifecycle of the automation engine                              *)
(* (crates/nectarpilot-core/src/engine.rs): commands arriving from the     *)
(* desktop pipe and from the global hotkey thread race with each other and *)
(* with the worker task of the current run.  The engine keeps each field   *)
(* under a lock of its own, so a command is a sequence of atomic reads and *)
(* writes; one action below is one such access, or several consecutive     *)
(* ones between which another actor cannot change the outcome.  A run is   *)
(* named by the ordinal of the start command that asked for it.            *)
(***************************************************************************)
EXTENDS Naturals, FiniteSets

CONSTANTS
  Clients,      (* which command sources exist: "pipe", "hotkey"            *)
  Profiles,     (* every profile id that can ever exist                     *)
  HotkeyProfile,(* the profile the hotkeys were bound to at daemon startup  *)
  MaxStarts,    (* bound: start commands admitted in a behaviour            *)
  TaskKinds,    (* the kinds of run that clients start                      *)
  FaultModes    (* sets of faults, one of which strikes in a behaviour      *)

Kinds == {"native", "legacy", "session", "scan"}

ASSUME EngineAssumption ==
  /\ Clients \subseteq {"pipe", "hotkey"}
  /\ HotkeyProfile \in Profiles
  /\ MaxStarts \in Nat
  /\ TaskKinds \subseteq Kinds
  /\ FaultModes \subseteq SUBSET {"port", "panic"}

Runs == 1..MaxStarts
NoRun == 0
Attention == {"NeedsAttention", "Faulted"}
RunState == {"Idle", "Preflight", "Running", "Paused", "Recovering", "Stopping"}
            \cup Attention

VARIABLES
  faults,      (* the faults of this behaviour; it never changes            *)
  state,       (* RunState                                                  *)
  runId,       (* the run named in events, snapshots and history rows       *)
  selected,    (* profile_id: the selected profile, in memory               *)
  stored,      (* runtime key selected_profile_id                           *)
  profiles,    (* profile documents in the store                            *)
  activeTask,  (* "none" or the kind of the active task                     *)
  cancellation,(* the run whose token is installed, or NoRun                *)
  cancelled,   (* runs whose token has been cancelled                       *)
  pauseSender, (* the run whose pause channel is installed, or NoRun        *)
  paused,      (* runs whose pause channel carries TRUE                     *)
  scriptPaused,(* runs whose AutoHotkey script is paused by its own hotkey   *)
  permits,     (* active keys of the TaskScheduler                          *)
  workerLock,  (* holder of the worker mutex, or "free"                     *)
  handle,      (* the run of the stored JoinHandle, or NoRun                *)
  safeMode,    (* crash-loop safe mode                                      *)
  dirty,       (* runs whose input no release_all_inputs has followed       *)
  history,     (* pairs <<worker's run, run id written in its row>>         *)
  starts,      (* start commands admitted so far                            *)
  phase,       (* where the worker of a run is                              *)
  task,        (* kind and profile of a run                                 *)
  outcome,     (* the final state a run has decided on                      *)
  pc,          (* where a client's command is                               *)
  req,         (* the locals of that command                                *)
  overlapped   (* history: a command began before another was answered      *)

fields == <<runId, selected, stored, profiles, activeTask, cancellation, cancelled,
            pauseSender, paused, permits, workerLock, handle, safeMode, dirty, history>>
shared == <<fields, scriptPaused>>
runVars == <<starts, phase, task, outcome>>
clientVars == <<pc, req>>
vars == <<faults, overlapped, state, shared, runVars, clientVars>>

Phases == {"unused", "preflight", "checkpoint", "executing", "recovering",
           "rejected", "cleanup", "clear", "settle", "exit", "done"}
Pcs == {"idle", "permit", "lock", "token", "install", "pausePort", "pauseSend", "pauseMark",
        "resumePort", "resumeSend", "resumeMark", "stopCancel", "stopLook",
        "stopMark", "stopRelease", "stopPort", "stopCheck", "stopIdle",
        "ackClear", "ackMark", "select", "delete"}

Task(kind, p) == [kind |-> kind, profile |-> p]
Tasks == [kind : Kinds, profile : Profiles]
Requests == [run : Runs \cup {NoRun}, task : Tasks, emergency : BOOLEAN,
             legacy : BOOLEAN, seen : RunState]
TaskNames == {"automation_run", "quest_scan", "legacy_compatibility_run"}
PermitKeys == Profiles \X TaskNames
Request(r, t) == [run |-> r, task |-> t, emergency |-> FALSE, legacy |-> FALSE,
                  seen |-> "Idle"]
NoTask == Task("native", HotkeyProfile)
NoReq == Request(NoRun, NoTask)

(* Legacy runs and sessions share one scheduler key per profile.           *)
PermitKey(t) ==
  <<t.profile, IF t.kind = "native" THEN "automation_run"
               ELSE IF t.kind = "scan" THEN "quest_scan"
               ELSE "legacy_compatibility_run">>

Legacy(kind) == kind \in {"legacy", "session"}
Live(r) == phase[r] \notin {"unused", "done"}
Working(r) == phase[r] \in {"preflight", "checkpoint", "executing", "recovering",
                            "rejected", "cleanup"}
Alive(h) == h # NoRun /\ phase[h] # "done"

(* release_all_inputs and the calls of a port may fail; a port may panic   *)
(* where nothing catches it.                                               *)
FaultyPorts == "port" \in faults
PortPanics == "panic" \in faults

-----------------------------------------------------------------------------
(* Helpers: one step of a client's command, one step of a worker.          *)

Goto(c, at) == pc' = [pc EXCEPT ![c] = at]
Reply(c) == Goto(c, "idle") /\ req' = [req EXCEPT ![c] = NoReq]
Work(r, at) == phase' = [phase EXCEPT ![r] = at]
Decide(r, final) == outcome' = [outcome EXCEPT ![r] = final]

(* A start is admitted: its locals are the run it will spawn.              *)
Admit(c, kind, p) ==
  /\ pc[c] = "idle" /\ starts < MaxStarts /\ kind \in TaskKinds
  /\ ~safeMode /\ state = "Idle" /\ p \in profiles
  /\ starts' = starts + 1
  /\ Goto(c, "permit")
  /\ req' = [req EXCEPT ![c] = Request(starts + 1, Task(kind, p))]
  /\ UNCHANGED <<state, shared, phase, task, outcome>>

Start(c, p)              == c = "pipe" /\ Admit(c, "native", p)
StartLegacy(c, p)        == c = "pipe" /\ Admit(c, "legacy", p)
StartLegacySession(c, p) == (c = "hotkey" => p = HotkeyProfile) /\ Admit(c, "session", p)
ScanQuests(c, p)         == c = "pipe" /\ Admit(c, "scan", p)

(* The selection is persisted before anything can still reject the start.  *)
StartPermit(c) ==
  LET key == PermitKey(req[c].task) IN
  /\ pc[c] = "permit"
  /\ stored' = req[c].task.profile
  /\ \/ /\ key \in permits /\ Reply(c) /\ UNCHANGED permits
     \/ /\ key \notin permits /\ permits' = permits \cup {key}
        /\ Goto(c, "lock") /\ UNCHANGED req
  /\ UNCHANGED <<state, runId, selected, profiles, activeTask, cancellation, cancelled,
                 pauseSender, paused, scriptPaused, workerLock, handle, safeMode, dirty,
                 history, runVars>>

NoWorkerCheck == TRUE
LeakOnReject(c) == permits
WorkerFinished == ~Alive(handle)
PermitsAfterReject(c) == permits \ {PermitKey(req[c].task)}

StartLock(c) ==
  /\ pc[c] = "lock" /\ workerLock = "free"
  /\ \/ /\ ~WorkerFinished
        /\ permits' = PermitsAfterReject(c)
        /\ Reply(c) /\ UNCHANGED <<workerLock, handle>>
     \/ /\ WorkerFinished
        /\ workerLock' = c /\ handle' = NoRun
        /\ Goto(c, "token") /\ UNCHANGED <<permits, req>>
  /\ UNCHANGED <<state, runId, selected, stored, profiles, activeTask, cancellation,
                 cancelled, pauseSender, paused, scriptPaused, safeMode, dirty, history,
                 runVars>>

StartToken(c) ==
  /\ pc[c] = "token"
  /\ cancellation' = req[c].run /\ pauseSender' = req[c].run
  /\ Goto(c, "install")
  /\ UNCHANGED <<state, runId, selected, stored, profiles, activeTask, cancelled, paused,
                 scriptPaused, permits, workerLock, handle, safeMode, dirty, history,
                 runVars, req>>

StartInstall(c) ==
  LET r == req[c].run IN
  /\ pc[c] = "install"
  /\ selected' = req[c].task.profile /\ runId' = r /\ activeTask' = req[c].task.kind
  /\ state' = "Preflight"
  /\ Work(r, "preflight") /\ task' = [task EXCEPT ![r] = req[c].task]
  /\ handle' = r /\ workerLock' = "free"
  /\ Reply(c)
  /\ UNCHANGED <<stored, profiles, cancellation, cancelled, pauseSender, paused,
                 scriptPaused, permits, safeMode, dirty, history, starts, outcome>>

-----------------------------------------------------------------------------
(* Pause and resume.  A legacy run is paused through its port first, and   *)
(* the port taps one global key that toggles whatever script is running.   *)

Scripts == {r \in Runs : phase[r] = "executing" /\ Legacy(task[r].kind)}
ToggleScript == scriptPaused' = Scripts \ scriptPaused

Pause(c) ==
  /\ pc[c] = "idle" /\ state = "Running" /\ activeTask # "scan"
  /\ Goto(c, IF Legacy(activeTask) THEN "pausePort" ELSE "pauseSend")
  /\ UNCHANGED <<state, shared, runVars, req>>

Resume(c) ==
  /\ pc[c] = "idle" /\ state = "Paused"
  /\ Goto(c, IF Legacy(activeTask) THEN "resumePort" ELSE "resumeSend")
  /\ UNCHANGED <<state, shared, runVars, req>>

PausePort(c) ==
  /\ \/ pc[c] = "pausePort"  /\ ToggleScript /\ Goto(c, "pauseSend")  /\ UNCHANGED req
     \/ pc[c] = "resumePort" /\ ToggleScript /\ Goto(c, "resumeSend") /\ UNCHANGED req
     \/ /\ pc[c] \in {"pausePort", "resumePort"} /\ FaultyPorts
        /\ Reply(c) /\ UNCHANGED scriptPaused
  /\ UNCHANGED <<state, fields, runVars>>

(* The send fails when no sender is installed or the receiver is gone.     *)
PauseSend(c) ==
  /\ pc[c] \in {"pauseSend", "resumeSend"}
  /\ \/ /\ ~Alive(pauseSender) /\ Reply(c) /\ UNCHANGED paused
     \/ /\ Alive(pauseSender) /\ UNCHANGED req
        /\ \/ /\ pc[c] = "pauseSend"
              /\ paused' = paused \cup {pauseSender} /\ Goto(c, "pauseMark")
           \/ /\ pc[c] = "resumeSend"
              /\ paused' = paused \ {pauseSender} /\ Goto(c, "resumeMark")
  /\ UNCHANGED <<state, runId, selected, stored, profiles, activeTask, cancellation,
                 cancelled, pauseSender, scriptPaused, permits, workerLock, handle,
                 safeMode, dirty, history, runVars>>

PauseMark(c) ==
  /\ \/ pc[c] = "pauseMark"  /\ state' = "Paused"
     \/ pc[c] = "resumeMark" /\ state' = "Running"
  /\ Reply(c)
  /\ UNCHANGED <<shared, runVars>>

-----------------------------------------------------------------------------
(* Stop, emergency stop, and the emergency stop inside ShutdownDaemon.     *)

Stop(c, emergency) ==
  /\ pc[c] = "idle"
  /\ Goto(c, "stopCancel")
  /\ req' = [req EXCEPT ![c] = [run |-> NoRun, task |-> NoTask, emergency |-> emergency,
                                legacy |-> Legacy(activeTask), seen |-> "Idle"]]
  /\ UNCHANGED <<state, shared, runVars>>

StopCancel(c) ==
  /\ pc[c] = "stopCancel"
  /\ cancelled' = cancelled \cup ({cancellation} \ {NoRun})
  /\ Goto(c, "stopLook")
  /\ UNCHANGED <<state, runId, selected, stored, profiles, activeTask, cancellation,
                 pauseSender, paused, scriptPaused, permits, workerLock, handle, safeMode,
                 dirty, history, runVars, req>>

AfterMark(c) == IF req[c].emergency THEN "stopRelease"
                ELSE IF req[c].legacy THEN "stopPort" ELSE "stopCheck"

(* The state is read first and overwritten later, whatever it is by then.  *)
StopLook(c) ==
  /\ pc[c] = "stopLook"
  /\ Goto(c, IF state = "Idle" THEN AfterMark(c) ELSE "stopMark")
  /\ UNCHANGED <<state, shared, runVars, req>>

StopMark(c) ==
  /\ pc[c] = "stopMark"
  /\ state' = "Stopping"
  /\ Goto(c, AfterMark(c))
  /\ UNCHANGED <<shared, runVars, req>>

(* A run that still executes may press again right after the release; a    *)
(* failed release returns from the command at once.                        *)
StopRelease(c) ==
  /\ pc[c] = "stopRelease"
  /\ \/ /\ dirty' = {r \in dirty : phase[r] = "executing"} /\ UNCHANGED req
        /\ Goto(c, IF req[c].legacy THEN "stopPort" ELSE "stopCheck")
     \/ /\ FaultyPorts /\ Reply(c) /\ UNCHANGED dirty
  /\ UNCHANGED <<state, runId, selected, stored, profiles, activeTask, cancellation,
                 cancelled, pauseSender, paused, scriptPaused, permits, workerLock, handle,
                 safeMode, history, runVars>>

StopPort(c) ==
  /\ pc[c] = "stopPort"
  /\ \/ Goto(c, "stopCheck") /\ UNCHANGED req
     \/ FaultyPorts /\ Reply(c)
  /\ UNCHANGED <<state, shared, runVars>>

AlwaysIdle == TRUE
NeverIdle == FALSE
NothingRunning == cancellation = NoRun

StopCheck(c) ==
  /\ pc[c] = "stopCheck"
  /\ \/ NothingRunning /\ Goto(c, "stopIdle") /\ UNCHANGED req
     \/ ~NothingRunning /\ Reply(c)
  /\ UNCHANGED <<state, shared, runVars>>

StopIdle(c) ==
  /\ pc[c] = "stopIdle"
  /\ state' = "Idle" /\ Reply(c)
  /\ UNCHANGED <<shared, runVars>>

-----------------------------------------------------------------------------
(* Acknowledgement and the profile commands: the pipe alone issues them.   *)

AcknowledgeAttention(c) ==
  /\ c = "pipe" /\ pc[c] = "idle"
  /\ safeMode \/ state \in Attention
  /\ Goto(c, "ackClear")
  /\ req' = [req EXCEPT ![c] = [NoReq EXCEPT !.seen = state]]
  /\ UNCHANGED <<state, shared, runVars>>

AckClear(c) ==
  /\ pc[c] = "ackClear"
  /\ safeMode' = FALSE
  /\ \/ req[c].seen = "Idle" /\ Reply(c)
     \/ req[c].seen # "Idle" /\ Goto(c, "ackMark") /\ UNCHANGED req
  /\ UNCHANGED <<state, runId, selected, stored, profiles, activeTask, cancellation,
                 cancelled, pauseSender, paused, scriptPaused, permits, workerLock, handle,
                 dirty, history, runVars>>

AckMark(c) ==
  /\ pc[c] = "ackMark"
  /\ state' = "Idle" /\ Reply(c)
  /\ UNCHANGED <<shared, runVars>>

SaveProfile(c, p) ==
  /\ c = "pipe" /\ pc[c] = "idle"
  /\ profiles' = profiles \cup {p}
  /\ UNCHANGED <<state, runId, selected, stored, activeTask, cancellation, cancelled,
                 pauseSender, paused, scriptPaused, permits, workerLock, handle, safeMode,
                 dirty, history, runVars, clientVars>>

AnyState == TRUE
EditableState == state = "Idle"

SelectProfile(c, p) ==
  /\ c = "pipe" /\ pc[c] = "idle"
  /\ EditableState /\ p \in profiles
  /\ Goto(c, "select")
  /\ req' = [req EXCEPT ![c] = Request(NoRun, Task("native", p))]
  /\ UNCHANGED <<state, shared, runVars>>

DeleteProfile(c, p) ==
  /\ c = "pipe" /\ pc[c] = "idle"
  /\ EditableState /\ p \in profiles /\ p # selected /\ Cardinality(profiles) > 1
  /\ Goto(c, "delete")
  /\ req' = [req EXCEPT ![c] = Request(NoRun, Task("native", p))]
  /\ UNCHANGED <<state, shared, runVars>>

ProfileCommit(c) ==
  LET p == req[c].task.profile IN
  /\ \/ pc[c] = "select" /\ stored' = p /\ selected' = p /\ UNCHANGED profiles
     \/ pc[c] = "delete" /\ profiles' = profiles \ {p} /\ UNCHANGED <<stored, selected>>
  /\ Reply(c)
  /\ UNCHANGED <<state, runId, activeTask, cancellation, cancelled, pauseSender, paused,
                 scriptPaused, permits, workerLock, handle, safeMode, dirty, history,
                 runVars>>

-----------------------------------------------------------------------------
(* The worker of run r.                                                    *)

workerShared == <<runId, selected, stored, profiles, cancellation, cancelled, pauseSender,
                  paused, permits, workerLock, handle, safeMode, history>>

(* The select between the token and preflight is not biased: a passing     *)
(* preflight may win over a cancelled token and overwrite Stopping.  A     *)
(* scan has no preflight at all.                                           *)
PreflightPass(r) ==
  /\ phase[r] = "preflight"
  /\ activeTask' = task[r].kind /\ state' = "Running"
  /\ \/ /\ task[r].kind = "session" /\ Work(r, "checkpoint") /\ UNCHANGED dirty
     \/ /\ task[r].kind # "session" /\ Work(r, "executing") /\ dirty' = dirty \cup {r}
  /\ UNCHANGED <<workerShared, scriptPaused, starts, task, outcome, clientVars>>

PreflightReject(r) ==
  /\ phase[r] = "preflight" /\ task[r].kind # "scan"
  /\ Work(r, "rejected") /\ Decide(r, "Idle")
  /\ UNCHANGED <<state, shared, starts, task, clientVars>>

(* A session asks for permission before every step: it stops when          *)
(* cancelled, waits while paused, and ends at its limits or when a         *)
(* collection record cannot be read.                                       *)
StopsUnlessPaused(r) == r \in cancelled /\ r \notin paused
CheckpointStops(r) == r \in cancelled

Checkpoint(r) ==
  /\ phase[r] = "checkpoint"
  /\ \/ /\ CheckpointStops(r) /\ Work(r, "cleanup") /\ Decide(r, "Idle") /\ UNCHANGED dirty
     \/ /\ r \notin cancelled /\ r \notin paused
        /\ \/ /\ Work(r, "executing") /\ dirty' = dirty \cup {r} /\ UNCHANGED outcome
           \/ /\ \E final \in {"Idle", "Faulted"} : Decide(r, final)
              /\ Work(r, "cleanup") /\ UNCHANGED dirty
  /\ UNCHANGED <<state, activeTask, workerShared, scriptPaused, starts, task, clientVars>>

(* A session step ends: on to the next checkpoint, or to recovery, or out; *)
(* or, a collection, to the reset that follows it with no checkpoint.      *)
StepEnds(r) ==
  /\ phase[r] = "executing" /\ task[r].kind = "session"
  /\ \/ Work(r, "checkpoint") /\ UNCHANGED <<state, outcome>>
     \/ r \notin cancelled /\ Work(r, "executing") /\ UNCHANGED <<state, outcome>>
     \/ Work(r, "recovering") /\ state' = "Recovering" /\ UNCHANGED outcome
     \/ /\ \E final \in {"Idle", "NeedsAttention", "Faulted"} : Decide(r, final)
        /\ Work(r, "cleanup") /\ UNCHANGED state
  /\ scriptPaused' = scriptPaused \ {r}
  /\ UNCHANGED <<fields, starts, task, clientVars>>

SessionRecovered(r) ==
  /\ phase[r] = "recovering" /\ task[r].kind = "session"
  /\ \/ Work(r, "checkpoint") /\ state' = "Running" /\ UNCHANGED outcome
     \/ /\ \E final \in {"Idle", "NeedsAttention"} : Decide(r, final)
        /\ Work(r, "cleanup") /\ UNCHANGED state
  /\ UNCHANGED <<shared, starts, task, clientVars>>

(* A native or legacy run ends by itself, or because its token was         *)
(* cancelled; only an uncancelled native failure goes on to reconnecting.  *)
ExecuteEnds(r) ==
  /\ phase[r] = "executing" /\ task[r].kind \in {"native", "legacy"}
  /\ \/ /\ \E final \in {"Idle", "NeedsAttention", "Faulted"} : Decide(r, final)
        /\ Work(r, "cleanup") /\ UNCHANGED <<state, activeTask>>
     \/ /\ task[r].kind = "native" /\ r \notin cancelled
        /\ activeTask' = "native" /\ state' = "Recovering"
        /\ Work(r, "recovering") /\ Decide(r, "Faulted")
  /\ scriptPaused' = scriptPaused \ {r}
  /\ UNCHANGED <<workerShared, dirty, starts, task, clientVars>>

ReconnectEnds(r) ==
  /\ phase[r] = "recovering" /\ task[r].kind = "native"
  /\ \E final \in {"Idle", "NeedsAttention"} : Decide(r, final)
  /\ Work(r, "cleanup")
  /\ UNCHANGED <<state, shared, starts, task, clientVars>>

(* The scan holds its inputs in a broker of its own, released when its     *)
(* thread ends; a thread that overstays the two seconds it is given after  *)
(* a cancellation still holds them.  The run finishes as Idle all the same.*)
ScanEnds(r) ==
  /\ phase[r] = "executing" /\ task[r].kind = "scan"
  /\ dirty' \in IF FaultyPorts THEN {dirty, dirty \ {r}} ELSE {dirty \ {r}}
  /\ Work(r, "clear") /\ Decide(r, "Idle")
  /\ UNCHANGED <<state, activeTask, workerShared, scriptPaused, starts, task, clientVars>>

(* port.cancel and release_all_inputs.  A failure of the release faults    *)
(* the run; so does a failing port, except at the end of a session.        *)
PortMatters(r) == task[r].kind = "legacy" \/ (task[r].kind = "session" /\ phase[r] = "rejected")
ReleaseIgnored(r, portOk, releaseOk) == IF portOk THEN outcome[r] ELSE "Faulted"
CleanupOutcome(r, portOk, releaseOk) ==
  IF releaseOk /\ (portOk \/ ~PortMatters(r)) THEN outcome[r] ELSE "Faulted"

Recorded(r) == task[r].kind = "session" \/ (task[r].kind = "legacy" /\ phase[r] = "cleanup")

Cleanup(r) ==
  /\ phase[r] \in {"rejected", "cleanup"}
  /\ \E portOk \in BOOLEAN, releaseOk \in BOOLEAN :
       /\ FaultyPorts \/ (portOk /\ releaseOk)
       /\ dirty' = IF releaseOk THEN {} ELSE dirty
       /\ Decide(r, CleanupOutcome(r, portOk, releaseOk))
  /\ history' = history \cup (IF Recorded(r) THEN {<<r, runId>>} ELSE {})
  /\ Work(r, "clear")
  /\ UNCHANGED <<state, runId, selected, stored, profiles, activeTask, cancellation,
                 cancelled, pauseSender, paused, scriptPaused, permits, workerLock, handle,
                 safeMode, starts, task, clientVars>>

FinishClear(r) ==
  /\ phase[r] = "clear"
  /\ activeTask' = "none" /\ cancellation' = NoRun /\ pauseSender' = NoRun
  /\ Work(r, "settle")
  /\ UNCHANGED <<state, runId, selected, stored, profiles, cancelled, paused, scriptPaused,
                 permits, workerLock, handle, safeMode, dirty, history, starts, task,
                 outcome, clientVars>>

FinishTransition(r) ==
  /\ phase[r] = "settle"
  /\ state' = outcome[r]
  /\ Work(r, "exit")
  /\ UNCHANGED <<shared, starts, task, outcome, clientVars>>

(* The worker function returns, or unwinds: its locals go, its permit is   *)
(* dropped and its handle counts as finished.                              *)
WorkerGone(r) ==
  /\ permits' = permits \ {PermitKey(task[r])}
  /\ cancelled' = cancelled \ {r} /\ paused' = paused \ {r}
  /\ scriptPaused' = scriptPaused \ {r}
  /\ task' = [task EXCEPT ![r] = NoTask] /\ Decide(r, "Idle")
  /\ Work(r, "done")
  /\ UNCHANGED <<state, runId, selected, stored, profiles, activeTask, cancellation,
                 pauseSender, workerLock, handle, safeMode, dirty, history, starts,
                 clientVars>>

WorkerExit(r) == phase[r] = "exit" /\ WorkerGone(r)

(* The session worker catches no unwind, nor does the reconnect loop of a  *)
(* native run: a panicking port ends the task and leaves every other field *)
(* of the engine as it was.                                                *)
WorkerPanic(r) ==
  /\ PortPanics
  /\ \/ /\ task[r].kind = "session"
        /\ phase[r] \in {"preflight", "executing", "recovering", "rejected", "cleanup"}
     \/ task[r].kind = "native" /\ phase[r] = "recovering"
  /\ WorkerGone(r)

-----------------------------------------------------------------------------
Init ==
  /\ faults \in FaultModes
  /\ state = "Idle" /\ runId = NoRun /\ activeTask = "none"
  /\ profiles \in SUBSET Profiles /\ HotkeyProfile \in profiles
  /\ selected = HotkeyProfile /\ stored = HotkeyProfile
  /\ cancellation = NoRun /\ cancelled = {} /\ pauseSender = NoRun /\ paused = {}
  /\ scriptPaused = {}
  /\ permits = {} /\ workerLock = "free" /\ handle = NoRun
  /\ safeMode \in BOOLEAN /\ dirty = {} /\ history = {} /\ starts = 0
  /\ phase = [r \in Runs |-> "unused"]
  /\ task = [r \in Runs |-> NoTask]
  /\ outcome = [r \in Runs |-> "Idle"]
  /\ pc = [c \in Clients |-> "idle"] /\ req = [c \in Clients |-> NoReq]
  /\ overlapped = FALSE

(* A command that has begun.                                               *)
Continue(c) ==
  /\ UNCHANGED <<faults, overlapped>>
  /\ \/ StartPermit(c) \/ StartLock(c) \/ StartToken(c) \/ StartInstall(c)
     \/ PausePort(c) \/ PauseSend(c) \/ PauseMark(c)
     \/ StopCancel(c) \/ StopLook(c) \/ StopMark(c) \/ StopRelease(c) \/ StopPort(c)
     \/ StopCheck(c) \/ StopIdle(c)
     \/ AckClear(c) \/ AckMark(c) \/ ProfileCommit(c)

Command(c) ==
  /\ UNCHANGED faults
  /\ overlapped' = (overlapped \/ \E d \in Clients \ {c} : pc[d] # "idle")
  /\ \/ \E p \in Profiles :
          \/ Start(c, p) \/ StartLegacy(c, p) \/ StartLegacySession(c, p) \/ ScanQuests(c, p)
          \/ SaveProfile(c, p) \/ SelectProfile(c, p) \/ DeleteProfile(c, p)
     \/ Pause(c) \/ Resume(c) \/ AcknowledgeAttention(c)
     \/ \E emergency \in BOOLEAN : Stop(c, emergency)

(* What the runtime eventually does by itself once the token is cancelled. *)
CleanupOrFinish(r) ==
  /\ UNCHANGED <<faults, overlapped>>
  /\ Cleanup(r) \/ FinishClear(r) \/ FinishTransition(r) \/ WorkerExit(r)

WorkerStep(r) ==
  /\ UNCHANGED <<faults, overlapped>>
  /\ \/ PreflightPass(r) \/ PreflightReject(r) \/ Checkpoint(r) \/ StepEnds(r)
     \/ SessionRecovered(r) \/ ExecuteEnds(r) \/ ReconnectEnds(r) \/ ScanEnds(r)
     \/ CleanupOrFinish(r) \/ WorkerPanic(r)

Next ==
  \/ \E c \in Clients : Command(c) \/ Continue(c)
  \/ \E r \in Runs : WorkerStep(r)

Spec == Init /\ [][Next]_vars

(* A command runs to its reply; a worker whose token is cancelled is       *)
(* dropped out of whatever it awaits; cleanup and finish never wait for    *)
(* anything but the ports.  Nothing says that a task ends by itself.       *)
Fairness ==
  /\ \A c \in Clients : WF_vars(Continue(c))
  /\ \A r \in Runs : WF_vars(r \in cancelled /\ WorkerStep(r)) /\ WF_vars(CleanupOrFinish(r))

FairSpec == Spec /\ Fairness

-----------------------------------------------------------------------------
(* Properties.                                                             *)

Starting(c) == pc[c] \in {"permit", "lock", "token", "install"}
Holding(c) == pc[c] \in {"lock", "token", "install"}

(* Every variable keeps its type.                                          *)
TypeOK ==
  /\ faults \in FaultModes /\ overlapped \in BOOLEAN
  /\ state \in RunState /\ runId \in Runs \cup {NoRun}
  /\ selected \in Profiles /\ stored \in Profiles /\ profiles \subseteq Profiles
  /\ activeTask \in Kinds \cup {"none"}
  /\ cancellation \in Runs \cup {NoRun} /\ cancelled \subseteq Runs
  /\ pauseSender \in Runs \cup {NoRun} /\ paused \subseteq Runs
  /\ scriptPaused \subseteq Runs
  /\ permits \subseteq PermitKeys
  /\ workerLock \in Clients \cup {"free"} /\ handle \in Runs \cup {NoRun}
  /\ safeMode \in BOOLEAN /\ dirty \subseteq Runs
  /\ history \subseteq Runs \X (Runs \cup {NoRun})
  /\ starts \in 0..MaxStarts
  /\ phase \in [Runs -> Phases]
  /\ task \in [Runs -> Tasks]
  /\ outcome \in [Runs -> {"Idle"} \cup Attention]
  /\ pc \in [Clients -> Pcs]
  /\ req \in [Clients -> Requests]

(* However start commands interleave after their stale look at the run     *)
(* state, at most one worker task exists (the check of the old JoinHandle  *)
(* under the worker mutex).                                                *)
SingleWorker == \A r, s \in Runs : Live(r) /\ Live(s) => r = s

(* The token Stop finds in the engine is the one the worker that may still *)
(* send input is listening to.                                             *)
StopReachesWorker == \A r \in Runs : Working(r) => cancellation = r

(* record_run_outcome reads the shared run id at the end of the run: no    *)
(* later start may have replaced it by then.                               *)
RecordsOwnRun == \A row \in history : row[1] = row[2]

(* The scheduler's active keys are those of the live workers and of the    *)
(* start commands that got past the permit: none leaks on a rejection or a *)
(* panic, which would refuse that profile's runs until the daemon restarts.*)
PermitsAccounted ==
  permits = {PermitKey(task[r]) : r \in {s \in Runs : Live(s)}}
            \cup {PermitKey(req[c].task) : c \in {d \in Clients : Holding(d)}}

(* A worker about to report anything but a fault has had its inputs        *)
(* released since it could last send any (a scan is its own affair).       *)
InputsReleased ==
  \A r \in Runs : /\ phase[r] \in {"clear", "settle", "exit"}
                  /\ r \in dirty /\ task[r].kind # "scan"
                  => outcome[r] = "Faulted"

(* What the trait says of release_all_inputs: invoked on normal            *)
(* completion, cancellation, panic recovery and emergency stop.            *)
NoRunEndsDirty == \A r \in Runs : phase[r] = "done" => r \notin dirty

(* What the documentation says of pausing a session: once a pause has been *)
(* carried out, the script of the run is paused, its keys released.        *)
PauseReachesScript ==
  state = "Paused" /\ (\A c \in Clients : pc[c] = "idle") => Scripts \subseteq scriptPaused

(* From whichever source the commands come, as long as each is answered    *)
(* before the next begins: no worker is at work while the state is Idle or *)
(* asks for attention, so that neither an acknowledgement nor a start      *)
(* meets a run, and what a command has seen of an idle engine still holds  *)
(* when it acts on it.                                                     *)
IdleMeansNoWork ==
  ~overlapped =>
    /\ state \in {"Idle"} \cup Attention => \A r \in Runs : ~Working(r)
    /\ \A c \in Clients : pc[c] \in {"permit", "lock", "token", "install", "stopIdle", "ackMark",
                                    "select", "delete"}
         => \A r \in Runs : ~Working(r)

(* ... and the profile at work is the selected one, in memory and in the   *)
(* store, and it still exists.                                             *)
ActiveRunOwnsSelection ==
  ~overlapped =>
    \A r \in Runs : Working(r) =>
      selected = task[r].profile /\ stored = selected /\ selected \in profiles

(* A cancelled run ends, even one that waits at a checkpoint while paused. *)
CancelledRunEnds == \A r \in Runs : r \in cancelled ~> phase[r] = "done"

(* Without faults, Stopping is transient.                                  *)
StopSettles == state = "Stopping" /\ faults = {} ~> state \in {"Idle"} \cup Attention
=============================================================================
