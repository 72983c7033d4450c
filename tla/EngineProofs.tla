---------------------------- MODULE EngineProofs ----------------------------
(***************************************************************************)
(* What holds of the engine for any number of profiles and runs, and for   *)
(* every combination of the two command sources.                           *)
(***************************************************************************)
EXTENDS EngineRefinement, TLAPS

-----------------------------------------------------------------------------
(* Type correctness.                                                       *)

LEMMA NoReqTyped == NoReq \in Requests /\ NoTask \in Tasks
  BY EngineAssumption DEF NoReq, NoTask, Request, Task, Tasks, Requests, Kinds, RunState, NoRun

LEMMA TaskTyped ==
  ASSUME NEW kind \in Kinds, NEW p \in Profiles
  PROVE  Task(kind, p) \in Tasks
  BY DEF Task, Tasks

LEMMA PermitKeyTyped == \A t \in Tasks : PermitKey(t) \in PermitKeys
  BY DEF Tasks, PermitKey, PermitKeys, TaskNames

LEMMA RequestTyped ==
  ASSUME NEW q \in Requests
  PROVE  q.task \in Tasks /\ q.run \in Runs \cup {NoRun} /\ q.task.profile \in Profiles
         /\ q.task.kind \in Kinds
  BY DEF Requests, Tasks

(* The initial state is typed.                                             *)
LEMMA InitTyped == Init => TypeOK
  <1> SUFFICES ASSUME Init PROVE TypeOK
    OBVIOUS
  <1>1. overlapped \in BOOLEAN
    BY Zenon DEF Init
  <1> QED
    BY <1>1, NoReqTyped, EngineAssumption
    DEF Init, TypeOK, RunState, Attention, Phases, Pcs, Runs, NoRun

LEMMA ContinueTyped ==
  ASSUME TypeOK, NEW c \in Clients, Continue(c)
  PROVE  TypeOK'
  <1>0. faults' = faults /\ overlapped' \in BOOLEAN
    BY DEF Continue, TypeOK
  <1> USE <1>0, NoReqTyped, RequestTyped, PermitKeyTyped, EngineAssumption
      DEF TypeOK, Goto, Reply, Work, Decide, shared, fields, runVars, clientVars
  <1>1. CASE StartPermit(c)
    BY <1>1 DEF StartPermit, Pcs
  <1>2. CASE StartLock(c)
    BY <1>2 DEF StartLock, PermitsAfterReject, Pcs
  <1>3. CASE StartToken(c)
    BY <1>3 DEF StartToken, Pcs
  <1>4. CASE StartInstall(c)
    BY <1>4 DEF StartInstall, Pcs, Phases, RunState
  <1>5. CASE PausePort(c)
    BY <1>5 DEF PausePort, ToggleScript, Scripts, Pcs
  <1>6. CASE PauseSend(c)
    BY <1>6 DEF PauseSend, Pcs, Alive, NoRun
  <1>7. CASE PauseMark(c)
    BY <1>7 DEF PauseMark, Pcs, RunState
  <1>8. CASE StopCancel(c)
    BY <1>8 DEF StopCancel, Pcs
  <1>9. CASE StopLook(c)
    BY <1>9 DEF StopLook, AfterMark, Pcs
  <1>10. CASE StopMark(c)
    BY <1>10 DEF StopMark, AfterMark, Pcs, RunState
  <1>11. CASE StopRelease(c)
    BY <1>11 DEF StopRelease, Pcs
  <1>12. CASE StopPort(c)
    BY <1>12 DEF StopPort, Pcs
  <1>13. CASE StopCheck(c)
    BY <1>13 DEF StopCheck, Pcs
  <1>14. CASE StopIdle(c)
    BY <1>14 DEF StopIdle, Pcs, RunState
  <1>15. CASE AckClear(c)
    <2>1. safeMode' \in BOOLEAN
      BY <1>15 DEF AckClear
    <2>2. pc' \in [Clients -> Pcs] /\ req' \in [Clients -> Requests]
      BY <1>15 DEF AckClear, Pcs
    <2> QED
      BY <1>15, <2>1, <2>2 DEF AckClear
  <1>16. CASE AckMark(c)
    BY <1>16 DEF AckMark, Pcs, RunState
  <1>17. CASE ProfileCommit(c)
    BY <1>17 DEF ProfileCommit, Pcs
  <1> QED
    BY <1>1, <1>2, <1>3, <1>4, <1>5, <1>6, <1>7, <1>8, <1>9, <1>10, <1>11, <1>12,
       <1>13, <1>14, <1>15, <1>16, <1>17 DEF Continue

LEMMA CommandTyped ==
  ASSUME TypeOK, NEW c \in Clients, Command(c)
  PROVE  TypeOK'
  <1>0. faults' = faults /\ overlapped' \in BOOLEAN
    BY DEF Command, TypeOK
  <1> USE <1>0, NoReqTyped, TaskTyped, EngineAssumption
      DEF TypeOK, Goto, shared, fields, runVars, clientVars
  <1>1. ASSUME NEW p \in Profiles, NEW kind \in Kinds, Admit(c, kind, p)
        PROVE  TypeOK'
    <2>1. Request(starts + 1, Task(kind, p)) \in Requests
      BY <1>1 DEF Admit, Request, Requests, Runs, RunState
    <2>2. pc' \in [Clients -> Pcs] /\ req' \in [Clients -> Requests]
      BY <1>1, <2>1 DEF Admit, Pcs
    <2>3. starts' \in 0..MaxStarts
      BY <1>1 DEF Admit
    <2> QED
      BY <1>1, <2>2, <2>3 DEF Admit
  <1>2. ASSUME NEW p \in Profiles, SelectProfile(c, p) \/ DeleteProfile(c, p)
        PROVE  TypeOK'
    <2>1. Request(NoRun, Task("native", p)) \in Requests
      BY DEF Request, Requests, Kinds, RunState
    <2> QED
      BY <1>2, <2>1 DEF SelectProfile, DeleteProfile, Pcs
  <1>3. ASSUME NEW p \in Profiles, SaveProfile(c, p)
        PROVE  TypeOK'
    BY <1>3 DEF SaveProfile
  <1>4. CASE Pause(c) \/ Resume(c)
    BY <1>4 DEF Pause, Resume, Pcs
  <1>5. CASE AcknowledgeAttention(c)
    <2>1. [NoReq EXCEPT !.seen = state] \in Requests
      BY DEF NoReq, Requests
    <2> QED
      BY <1>5, <2>1 DEF AcknowledgeAttention, Pcs
  <1>6. ASSUME NEW emergency \in BOOLEAN, Stop(c, emergency)
        PROVE  TypeOK'
    <2>1. [run |-> NoRun, task |-> NoTask, emergency |-> emergency,
          legacy |-> Legacy(activeTask), seen |-> "Idle"] \in Requests
      BY DEF Requests, Legacy, RunState
    <2>2. pc' \in [Clients -> Pcs] /\ req' \in [Clients -> Requests]
      BY <1>6, <2>1 DEF Stop, Pcs
    <2> QED
      BY <1>6, <2>2 DEF Stop
  <1> QED
    BY <1>1, <1>2, <1>3, <1>4, <1>5, <1>6
    DEF Command, Start, StartLegacy, StartLegacySession, ScanQuests, Kinds

LEMMA WorkerTyped ==
  ASSUME TypeOK, NEW r \in Runs, WorkerStep(r)
  PROVE  TypeOK'
  <1>0. faults' = faults /\ overlapped' \in BOOLEAN
    <2>1. faults' = faults /\ overlapped' = overlapped
      BY Zenon DEF WorkerStep
    <2>2. overlapped \in BOOLEAN
      BY Zenon DEF TypeOK
    <2> QED
      BY <2>1, <2>2
  <1> USE <1>0, NoReqTyped
      DEF TypeOK, Work, Decide, shared, fields, workerShared, runVars, clientVars
  <1>1. CASE PreflightPass(r)
    BY <1>1 DEF PreflightPass, Phases, RunState, Tasks
  <1>2. CASE PreflightReject(r)
    BY <1>2 DEF PreflightReject, Phases
  <1>3. CASE Checkpoint(r)
    BY <1>3 DEF Checkpoint, Phases, Attention
  <1>4. CASE StepEnds(r)
    BY <1>4 DEF StepEnds, Phases, RunState, Attention
  <1>5. CASE SessionRecovered(r)
    BY <1>5 DEF SessionRecovered, Phases, RunState, Attention
  <1>6. CASE ExecuteEnds(r)
    BY <1>6 DEF ExecuteEnds, Phases, RunState, Kinds, Attention
  <1>7. CASE ReconnectEnds(r)
    BY <1>7 DEF ReconnectEnds, Phases, Attention
  <1>8. CASE ScanEnds(r)
    BY <1>8 DEF ScanEnds, Phases
  <1>9. CASE Cleanup(r)
    BY <1>9 DEF Cleanup, CleanupOutcome, Phases, Attention
  <1>10. CASE FinishClear(r)
    BY <1>10 DEF FinishClear, Phases
  <1>11. CASE FinishTransition(r)
    BY <1>11 DEF FinishTransition, Phases, RunState
  <1>12. CASE WorkerGone(r)
    BY <1>12 DEF WorkerGone, Phases
  <1> QED
    BY <1>1, <1>2, <1>3, <1>4, <1>5, <1>6, <1>7, <1>8, <1>9, <1>10, <1>11, <1>12
    DEF WorkerStep, CleanupOrFinish, WorkerExit, WorkerPanic

(* A step that changes nothing keeps every property of the state.          *)
LEMMA StutterTyped == TypeOK /\ UNCHANGED vars => TypeOK'
  BY DEF TypeOK, vars, shared, fields, runVars, clientVars

LEMMA NextTyped == TypeOK /\ [Next]_vars => TypeOK'
  BY CommandTyped, ContinueTyped, WorkerTyped, StutterTyped DEF Next

(* Every variable of the engine keeps its type.                            *)
THEOREM TypeCorrect == Spec => []TypeOK
  BY InitTyped, NextTyped, PTL DEF Spec

-----------------------------------------------------------------------------
(* One worker at a time.  A start command looks at the state long before   *)
(* it spawns its worker, so SingleWorker rests on the worker mutex: its    *)
(* holder has seen no live worker and none can appear while it holds it.   *)
(* The invariant follows a run from the start command that will spawn it   *)
(* (FreshStarts, LockHeld) to the worker (WorkerOwned) and its token       *)
(* (TokenOwned, TokenBegun).                                               *)

InLock(c) == pc[c] \in {"token", "install"}

(* A start command names a run nobody else names and that has no worker.   *)
FreshStarts ==
  /\ \A c \in Clients : Starting(c) =>
       req[c].run \in Runs /\ req[c].run <= starts /\ phase[req[c].run] = "unused"
  /\ \A c, d \in Clients : Starting(c) /\ Starting(d) /\ c # d => req[c].run # req[d].run
  /\ \A r \in Runs : phase[r] # "unused" => r <= starts

LockHeld == \A c \in Clients : InLock(c) <=> workerLock = c
LockExcludes == workerLock # "free" => handle = NoRun
WorkerOwned == \A r \in Runs : Live(r) => handle = r /\ runId = r
TokenOwned ==
  /\ \A r \in Runs : Working(r) \/ phase[r] = "clear" => cancellation = r
  /\ \A c \in Clients : pc[c] = "install" => cancellation = req[c].run

Begun(r) == phase[r] # "unused" \/ \E c \in Clients : pc[c] = "install" /\ req[c].run = r
TokenBegun ==
  /\ cancellation # NoRun => Begun(cancellation)
  /\ \A r \in cancelled : Begun(r)

RunInv == /\ FreshStarts /\ LockHeld /\ LockExcludes /\ WorkerOwned
          /\ TokenOwned /\ TokenBegun /\ RecordsOwnRun

LEMMA InitRunInv == Init => RunInv
  BY EngineAssumption
  DEF Init, RunInv, FreshStarts, LockHeld, LockExcludes, WorkerOwned, TokenOwned, TokenBegun,
      RecordsOwnRun, Starting, InLock, Live, Working, Runs, NoRun

(* A step that moves no start command and no worker may cancel the         *)
(* installed token, and no more.                                           *)
StartsStay ==
  \A c \in Clients : Starting(c) \/ Starting(c)' => pc'[c] = pc[c] /\ req'[c] = req[c]
RunsStay == UNCHANGED <<runId, cancellation, workerLock, handle, history, starts, phase>>

LEMMA QuietStep ==
  ASSUME TypeOK, RunInv, StartsStay, RunsStay, 
         cancelled' \subseteq cancelled \cup ({cancellation} \ {NoRun})
  PROVE  RunInv'
  <1> USE DEF RunInv, StartsStay, RunsStay
  <1>1. \A c \in Clients : /\ Starting(c)' <=> Starting(c)
                           /\ InLock(c)' <=> InLock(c)
                           /\ (pc[c] = "install")' <=> pc[c] = "install"
    BY DEF Starting, InLock
  <1>2. FreshStarts'
    BY <1>1 DEF FreshStarts
  <1>3. LockHeld' /\ LockExcludes' /\ WorkerOwned' /\ RecordsOwnRun'
    BY <1>1 DEF LockHeld, LockExcludes, WorkerOwned, RecordsOwnRun, Live
  <1>4. TokenOwned'
    BY <1>1 DEF TokenOwned, Working, Starting
  <1>5. \A s : Begun(s)' <=> Begun(s)
    BY <1>1 DEF Begun, Starting
  <1>6. TokenBegun'
    BY <1>5 DEF TokenBegun
  <1> QED
    BY <1>2, <1>3, <1>4, <1>6

LEMMA CommandKeepsRuns ==
  ASSUME TypeOK, RunInv, NEW c \in Clients, Command(c)
  PROVE  RunInv'
  <1>1. ASSUME NEW p \in Profiles, NEW kind \in Kinds, Admit(c, kind, p)
        PROVE  RunInv'
    <2> USE <1>1 DEF RunInv, TypeOK, Admit, Goto, shared, fields
    <2>1. /\ Starting(c)' /\ ~Starting(c) /\ req'[c].run = starts + 1
          /\ \A d \in Clients : d # c => pc'[d] = pc[d] /\ req'[d] = req[d]
      BY DEF Starting, Request
    <2>2. starts + 1 \in Runs /\ phase[starts + 1] = "unused"
      <3>1. starts + 1 \in Runs /\ ~(starts + 1 <= starts)
        BY EngineAssumption DEF Runs
      <3> QED
        BY <3>1 DEF FreshStarts
    <2>3. FreshStarts'
      BY <2>1, <2>2 DEF FreshStarts, Starting, Runs
    <2>4. \A d \in Clients : (InLock(d)' <=> InLock(d)) /\ (pc'[d] = "install" <=> pc[d] = "install")
      BY DEF InLock
    <2>5. LockHeld' /\ LockExcludes' /\ WorkerOwned' /\ RecordsOwnRun'
      BY <2>4 DEF LockHeld, LockExcludes, WorkerOwned, RecordsOwnRun, Live
    <2>6. TokenOwned'
      BY <2>1, <2>4 DEF TokenOwned, Working
    <2>7. TokenBegun'
      BY <2>1, <2>4 DEF TokenBegun, Begun
    <2> QED
      BY <2>3, <2>5, <2>6, <2>7
  <1>2. ASSUME NEW p \in Profiles, SaveProfile(c, p) \/ SelectProfile(c, p) \/ DeleteProfile(c, p)
        PROVE  RunInv'
    <2>1. StartsStay /\ RunsStay /\ cancelled' = cancelled
      BY <1>2 DEF SaveProfile, SelectProfile, DeleteProfile, StartsStay, RunsStay, Starting,
                  TypeOK, Goto, shared, fields, runVars, clientVars
    <2> QED
      BY <2>1, QuietStep
  <1>3. CASE Pause(c) \/ Resume(c) \/ AcknowledgeAttention(c)
    <2>1. StartsStay /\ RunsStay /\ cancelled' = cancelled
      BY <1>3 DEF Pause, Resume, AcknowledgeAttention, StartsStay, RunsStay, Starting, TypeOK,
                  Goto, shared, fields, runVars
    <2> QED
      BY <2>1, QuietStep
  <1>4. ASSUME NEW emergency \in BOOLEAN, Stop(c, emergency)
        PROVE  RunInv'
    <2>1. StartsStay /\ RunsStay /\ cancelled' = cancelled
      BY <1>4 DEF Stop, StartsStay, RunsStay, Starting, TypeOK, Goto, shared, fields, runVars
    <2> QED
      BY <2>1, QuietStep
  <1> QED
    BY <1>1, <1>2, <1>3, <1>4
    DEF Command, Start, StartLegacy, StartLegacySession, ScanQuests, Kinds

LEMMA ContinueKeepsRuns ==
  ASSUME TypeOK, RunInv, NEW c \in Clients, Continue(c)
  PROVE  RunInv'
  <1>1. CASE StartPermit(c) \/ (StartLock(c) /\ ~WorkerFinished)
    <2> USE <1>1 DEF RunInv, TypeOK, StartPermit, StartLock, Reply, Goto, runVars
    <2>1. /\ Starting(c) /\ ~InLock(c) /\ ~InLock(c)' /\ pc[c] # "install" /\ pc'[c] # "install"
          /\ Starting(c)' => req'[c] = req[c]
          /\ \A d \in Clients : d # c => pc'[d] = pc[d] /\ req'[d] = req[d]
      BY DEF Starting, InLock
    <2>2. FreshStarts'
      BY <2>1 DEF FreshStarts, Starting
    <2>3. LockHeld' /\ LockExcludes' /\ WorkerOwned' /\ RecordsOwnRun'
      BY <2>1 DEF LockHeld, LockExcludes, WorkerOwned, RecordsOwnRun, Live, InLock
    <2>4. TokenOwned' /\ TokenBegun'
      BY <2>1 DEF TokenOwned, TokenBegun, Working, Begun
    <2> QED
      BY <2>2, <2>3, <2>4
  <1>2. CASE StartLock(c) /\ WorkerFinished
    <2> USE <1>2 DEF RunInv, TypeOK, StartLock, Goto, runVars
    <2>1. /\ Starting(c) /\ Starting(c)' /\ ~InLock(c) /\ InLock(c)'
          /\ pc[c] # "install" /\ pc'[c] # "install" /\ req' = req
          /\ \A d \in Clients : d # c => pc'[d] = pc[d]
          /\ workerLock = "free" /\ workerLock' = c /\ handle' = NoRun
      BY DEF Starting, InLock
    <2>2. FreshStarts'
      BY <2>1 DEF FreshStarts, Starting
    <2>3. \A r \in Runs : ~Live(r)
      BY DEF WorkerOwned, WorkerFinished, Alive, Live, Runs, NoRun
    <2>4. LockHeld' /\ LockExcludes' /\ WorkerOwned' /\ RecordsOwnRun'
      BY <2>1, <2>3, EngineAssumption
      DEF LockHeld, LockExcludes, WorkerOwned, RecordsOwnRun, Live, InLock
    <2>5. TokenOwned' /\ TokenBegun'
      BY <2>1 DEF TokenOwned, TokenBegun, Working, Begun
    <2> QED
      BY <2>2, <2>4, <2>5
  <1>3. CASE StartToken(c)
    <2> USE <1>3 DEF RunInv, TypeOK, StartToken, Goto, runVars
    <2>1. /\ Starting(c) /\ Starting(c)' /\ InLock(c) /\ InLock(c)' /\ req' = req
          /\ \A d \in Clients : d # c => pc'[d] = pc[d]
          /\ pc'[c] = "install" /\ cancellation' = req[c].run
      BY DEF Starting, InLock
    <2>2. \A r \in Runs : ~Live(r)
      BY <2>1, EngineAssumption
      DEF LockHeld, LockExcludes, WorkerOwned, Runs, NoRun
    <2>3. \A d \in Clients : InLock(d) => d = c
      BY <2>1 DEF LockHeld
    <2>4. FreshStarts'
      BY <2>1 DEF FreshStarts, Starting
    <2>5. LockHeld' /\ LockExcludes' /\ WorkerOwned' /\ RecordsOwnRun'
      BY <2>1 DEF LockHeld, LockExcludes, WorkerOwned, RecordsOwnRun, Live, InLock
    <2>6. TokenOwned'
      BY <2>1, <2>2, <2>3 DEF TokenOwned, Working, Live, InLock
    <2>7. TokenBegun'
      BY <2>1 DEF TokenBegun, Begun
    <2> QED
      BY <2>4, <2>5, <2>6, <2>7
  <1>4. CASE StartInstall(c)
    <2> DEFINE r == req[c].run
    <2> USE <1>4 DEF RunInv, TypeOK, StartInstall, Reply, Goto, Work
    <2>1. /\ Starting(c) /\ ~Starting(c)' /\ InLock(c) /\ ~InLock(c)'
          /\ \A d \in Clients : d # c => pc'[d] = pc[d] /\ req'[d] = req[d]
          /\ r \in Runs /\ phase[r] = "unused" /\ r <= starts /\ cancellation = r
      BY DEF Starting, InLock, FreshStarts, TokenOwned
    <2>2. /\ phase'[r] = "preflight" /\ handle' = r /\ runId' = r
          /\ \A s \in Runs : s # r => phase'[s] = phase[s]
      BY <2>1
    <2>3. \A s \in Runs : ~Live(s)
      BY <2>1, EngineAssumption
      DEF LockHeld, LockExcludes, WorkerOwned, Runs, NoRun
    <2>4. \A d \in Clients : InLock(d) => d = c
      BY <2>1 DEF LockHeld
    <2>5. FreshStarts'
      BY <2>1, <2>2 DEF FreshStarts, Starting
    <2>6. LockHeld' /\ LockExcludes' /\ RecordsOwnRun'
      BY <2>1, <2>4, EngineAssumption DEF LockHeld, LockExcludes, RecordsOwnRun, InLock
    <2>7. WorkerOwned'
      BY <2>2, <2>3 DEF WorkerOwned, Live
    <2>8. TokenOwned'
      BY <2>1, <2>2, <2>3, <2>4 DEF TokenOwned, Working, Live, InLock
    <2>9. TokenBegun'
      BY <2>1, <2>2 DEF TokenBegun, Begun
    <2> QED
      BY <2>5, <2>6, <2>7, <2>8, <2>9
  <1>5. CASE PausePort(c) \/ PauseSend(c) \/ PauseMark(c)
    <2>1. StartsStay /\ RunsStay /\ cancelled' = cancelled
      BY <1>5 DEF PausePort, PauseSend, PauseMark, StartsStay, RunsStay, Starting, TypeOK,
                  Goto, Reply, shared, fields, runVars
    <2> QED
      BY <2>1, QuietStep
  <1>6. CASE StopCancel(c) \/ StopLook(c) \/ StopMark(c) \/ StopRelease(c)
    <2>1. StartsStay /\ RunsStay /\ cancelled' \subseteq cancelled \cup ({cancellation} \ {NoRun})
      BY <1>6 DEF StopCancel, StopLook, StopMark, StopRelease, AfterMark, StartsStay, RunsStay,
                  Starting, TypeOK, Goto, Reply, shared, fields, runVars
    <2> QED
      BY <2>1, QuietStep
  <1>7. CASE StopPort(c) \/ StopCheck(c) \/ StopIdle(c)
    <2>1. StartsStay /\ RunsStay /\ cancelled' = cancelled
      BY <1>7 DEF StopPort, StopCheck, StopIdle, StartsStay, RunsStay, Starting, TypeOK, Goto,
                  Reply, shared, fields, runVars
    <2> QED
      BY <2>1, QuietStep
  <1>8. CASE AckClear(c) \/ AckMark(c) \/ ProfileCommit(c)
    <2>1. StartsStay /\ RunsStay /\ cancelled' = cancelled
      BY <1>8 DEF AckClear, AckMark, ProfileCommit, StartsStay, RunsStay, Starting, TypeOK,
                  Goto, Reply, shared, fields, runVars
    <2> QED
      BY <2>1, QuietStep
  <1>9. StartLock(c) => WorkerFinished \/ ~WorkerFinished
    OBVIOUS
  <1> QED
    BY <1>1, <1>2, <1>3, <1>4, <1>5, <1>6, <1>7, <1>8, <1>9 DEF Continue

(* A worker step that leaves the run's token installed: the run stays one  *)
(* of those that own it, and a history row names the run id of the moment. *)
WorkerStays(r) ==
  /\ Live(r) /\ phase[r] \notin {"settle", "exit"}
  /\ \E at \in Phases : /\ at \notin {"unused", "done"}
                        /\ (phase[r] = "clear" => at = "clear")
                        /\ phase' = [phase EXCEPT ![r] = at]
  /\ history' \subseteq history \cup {<<r, runId>>}
  /\ UNCHANGED <<runId, workerLock, handle, starts, cancelled, cancellation, clientVars>>

LEMMA WorkerStaysKeepsRuns ==
  ASSUME TypeOK, RunInv, NEW r \in Runs, WorkerStays(r)
  PROVE  RunInv'
  <1> USE DEF RunInv, TypeOK, WorkerStays, clientVars
  <1>1. /\ phase[r] \notin {"unused", "done"} /\ phase'[r] \notin {"unused", "done"}
        /\ \A s \in Runs : s # r => phase'[s] = phase[s]
        /\ handle = r /\ runId = r /\ cancellation = r
    BY DEF Live, WorkerOwned, TokenOwned, Working, Phases
  <1>2. FreshStarts'
    BY <1>1 DEF FreshStarts, Starting
  <1>3. LockHeld' /\ LockExcludes' /\ WorkerOwned'
    BY <1>1 DEF LockHeld, LockExcludes, WorkerOwned, Live, InLock
  <1>4. RecordsOwnRun'
    BY <1>1 DEF RecordsOwnRun
  <1>5. TokenOwned'
    BY <1>1, EngineAssumption DEF TokenOwned, Working, WorkerOwned, Live
  <1>6. \A s \in Runs : Begun(s) => Begun(s)'
    BY <1>1 DEF Begun
  <1>7. TokenBegun'
    BY <1>1, <1>6 DEF TokenBegun, Begun
  <1> QED
    BY <1>2, <1>3, <1>4, <1>5, <1>7

LEMMA WorkerKeepsRuns ==
  ASSUME TypeOK, RunInv, NEW r \in Runs, WorkerStep(r)
  PROVE  RunInv'
  <1>1. CASE PreflightPass(r) \/ PreflightReject(r) \/ Checkpoint(r) \/ StepEnds(r)
    <2>1. WorkerStays(r)
      BY <1>1 DEF PreflightPass, PreflightReject, Checkpoint, StepEnds, WorkerStays, Work,
                  Live, Phases, shared, fields, workerShared
    <2> QED
      BY <2>1, WorkerStaysKeepsRuns
  <1>2. CASE SessionRecovered(r) \/ ExecuteEnds(r) \/ ReconnectEnds(r) \/ ScanEnds(r)
    <2>1. WorkerStays(r)
      BY <1>2 DEF SessionRecovered, ExecuteEnds, ReconnectEnds, ScanEnds, WorkerStays, Work,
                  Live, Phases, shared, fields, workerShared
    <2> QED
      BY <2>1, WorkerStaysKeepsRuns
  <1>3. CASE Cleanup(r)
    <2>1. WorkerStays(r)
      BY <1>3 DEF Cleanup, WorkerStays, Work, Live, Phases
    <2> QED
      BY <2>1, WorkerStaysKeepsRuns
  <1>4. CASE FinishClear(r)
    <2> USE <1>4 DEF RunInv, TypeOK, FinishClear, Work, clientVars
    <2>1. /\ phase[r] = "clear" /\ phase'[r] = "settle" /\ cancellation' = NoRun
          /\ \A s \in Runs : s # r => phase'[s] = phase[s]
          /\ handle = r /\ runId = r /\ r # NoRun
      BY DEF Live, WorkerOwned, Runs, NoRun
    <2>2. FreshStarts'
      BY <2>1 DEF FreshStarts, Starting
    <2>3. LockHeld' /\ LockExcludes' /\ WorkerOwned' /\ RecordsOwnRun'
      BY <2>1 DEF LockHeld, LockExcludes, WorkerOwned, RecordsOwnRun, Live, InLock
    <2>4. \A c \in Clients : ~InLock(c)
      BY <2>1, EngineAssumption DEF LockHeld, LockExcludes
    <2>5. TokenOwned'
      BY <2>1, <2>4 DEF TokenOwned, WorkerOwned, Working, Live, InLock
    <2>6. TokenBegun'
      BY <2>1 DEF TokenBegun, Begun
    <2> QED
      BY <2>2, <2>3, <2>5, <2>6
  <1>5. CASE FinishTransition(r)
    <2> USE <1>5 DEF RunInv, TypeOK, FinishTransition, Work, clientVars, shared, fields
    <2>1. /\ phase[r] = "settle" /\ phase'[r] = "exit"
          /\ \A s \in Runs : s # r => phase'[s] = phase[s]
      OBVIOUS
    <2>2. FreshStarts'
      BY <2>1 DEF FreshStarts, Starting
    <2>3. LockHeld' /\ LockExcludes' /\ WorkerOwned' /\ RecordsOwnRun'
      BY <2>1 DEF LockHeld, LockExcludes, WorkerOwned, RecordsOwnRun, Live, InLock
    <2>4. TokenOwned' /\ TokenBegun'
      BY <2>1 DEF TokenOwned, TokenBegun, Begun, Working
    <2> QED
      BY <2>2, <2>3, <2>4
  <1>6. CASE WorkerGone(r) /\ Live(r)
    <2> USE <1>6 DEF RunInv, TypeOK, WorkerGone, Work, clientVars
    <2>1. /\ Live(r) /\ phase'[r] = "done"
          /\ \A s \in Runs : s # r => phase'[s] = phase[s]
      BY DEF Live
    <2>2. FreshStarts'
      BY <2>1 DEF FreshStarts, Starting, Live
    <2>3. LockHeld' /\ LockExcludes' /\ WorkerOwned' /\ RecordsOwnRun'
      BY <2>1 DEF LockHeld, LockExcludes, WorkerOwned, RecordsOwnRun, Live, InLock
    <2>4. TokenOwned' /\ TokenBegun'
      BY <2>1 DEF TokenOwned, TokenBegun, Begun, Working
    <2> QED
      BY <2>2, <2>3, <2>4
  <1>7. WorkerExit(r) \/ WorkerPanic(r) => WorkerGone(r) /\ Live(r)
    BY DEF WorkerExit, WorkerPanic, Live
  <1> QED
    BY <1>1, <1>2, <1>3, <1>4, <1>5, <1>6, <1>7 DEF WorkerStep, CleanupOrFinish

LEMMA StutterKeepsRuns == TypeOK /\ RunInv /\ UNCHANGED vars => RunInv'
  <1> SUFFICES ASSUME TypeOK, RunInv, UNCHANGED vars PROVE RunInv'
    OBVIOUS
  <1>1. StartsStay /\ RunsStay /\ cancelled' = cancelled
    BY DEF StartsStay, RunsStay, Starting, vars, shared, fields, runVars, clientVars
  <1> QED
    BY <1>1, QuietStep

LEMMA NextKeepsRuns == TypeOK /\ RunInv /\ [Next]_vars => RunInv'
  BY CommandKeepsRuns, ContinueKeepsRuns, WorkerKeepsRuns, StutterKeepsRuns DEF Next

(* The invariant behind the theorems on runs: who owns the worker mutex,   *)
(* the JoinHandle, the token and the run id.                               *)
THEOREM RunInvariant == Spec => []RunInv
  BY InitTyped, InitRunInv, NextTyped, NextKeepsRuns, TypeCorrect, PTL DEF Spec

LEMMA RunInvImplies == TypeOK /\ RunInv => SingleWorker /\ StopReachesWorker /\ RecordsOwnRun
  BY DEF RunInv, WorkerOwned, TokenOwned, SingleWorker, StopReachesWorker, RecordsOwnRun, Live

(* However start commands race, at most one worker exists.                 *)
THEOREM OneWorker == Spec => []SingleWorker
  BY TypeCorrect, RunInvariant, RunInvImplies, PTL

(* A stop always finds the token of the worker that may send input.        *)
THEOREM StopFindsWorker == Spec => []StopReachesWorker
  BY TypeCorrect, RunInvariant, RunInvImplies, PTL

(* A history row is written under the run id of the worker that writes it. *)
THEOREM HistoryNamesItsRun == Spec => []RecordsOwnRun
  BY TypeCorrect, RunInvariant, RunInvImplies, PTL

-----------------------------------------------------------------------------
(* The engine implements exclusive runs.                                   *)

LEMMA InitRefines == Init => Exclusive!ExclusiveInit
  BY EngineAssumption
  DEF Init, Exclusive!ExclusiveInit, Exclusive!None, CurrentRun, Installing, EndedRuns, Alive,
      NoRun

(* A step under which nobody enters or leaves the worker mutex and no      *)
(* worker ends leaves the current run and the ended runs alone.            *)
RunsKept ==
  /\ \A c \in Clients : InLock(c) \/ InLock(c)' => pc'[c] = pc[c] /\ req'[c] = req[c]
  /\ UNCHANGED <<workerLock, handle>>
  /\ \A s \in Runs : phase'[s] = "done" <=> phase[s] = "done"

LEMMA SameRun ==
  ASSUME TypeOK, RunInv, RunsKept
  PROVE  UNCHANGED <<CurrentRun, EndedRuns>>
  <1>1. Installing' <=> Installing
    BY DEF RunsKept, Installing, InLock, RunInv, LockHeld
  <1>2. Installing => req'[workerLock] = req[workerLock]
    BY DEF RunsKept, Installing, InLock
  <1>3. Alive(handle)' <=> Alive(handle)
    BY DEF RunsKept, Alive, TypeOK, NoRun
  <1>4. CurrentRun' = CurrentRun
    BY <1>1, <1>2, <1>3 DEF CurrentRun, RunsKept
  <1>5. EndedRuns' = EndedRuns
    BY DEF EndedRuns, RunsKept
  <1> QED
    BY <1>4, <1>5

LEMMA KeptStutters ==
  ASSUME TypeOK, RunInv, RunsKept, cancelled' = cancelled
  PROVE  UNCHANGED Exclusive!exclusiveVars
  BY SameRun DEF Exclusive!exclusiveVars

LEMMA CommandRefines ==
  ASSUME TypeOK, RunInv, NEW c \in Clients, Command(c)
  PROVE  UNCHANGED Exclusive!exclusiveVars
  <1> USE DEF RunsKept, InLock, TypeOK, Goto, shared, fields, runVars, clientVars
  <1>1. ASSUME NEW p \in Profiles, NEW kind \in Kinds, Admit(c, kind, p)
        PROVE  RunsKept /\ cancelled' = cancelled
    BY <1>1 DEF Admit
  <1>2. ASSUME NEW p \in Profiles, SaveProfile(c, p) \/ SelectProfile(c, p) \/ DeleteProfile(c, p)
        PROVE  RunsKept /\ cancelled' = cancelled
    BY <1>2 DEF SaveProfile, SelectProfile, DeleteProfile
  <1>3. CASE Pause(c) \/ Resume(c) \/ AcknowledgeAttention(c)
    <2>1. RunsKept /\ cancelled' = cancelled
      BY <1>3 DEF Pause, Resume, AcknowledgeAttention
    <2> QED
      BY <2>1, KeptStutters
  <1>4. ASSUME NEW emergency \in BOOLEAN, Stop(c, emergency)
        PROVE  RunsKept /\ cancelled' = cancelled
    BY <1>4 DEF Stop
  <1> QED
    BY <1>1, <1>2, <1>3, <1>4, KeptStutters
    DEF Command, Start, StartLegacy, StartLegacySession, ScanQuests, Kinds

LEMMA ContinueRefines ==
  ASSUME TypeOK, RunInv, NEW c \in Clients, Continue(c)
  PROVE  [Exclusive!ExclusiveNext]_Exclusive!exclusiveVars
  <1>1. CASE StartPermit(c) \/ (StartLock(c) /\ ~WorkerFinished)
    <2>1. RunsKept /\ cancelled' = cancelled
      BY <1>1 DEF StartPermit, StartLock, RunsKept, InLock, TypeOK, Goto, Reply, runVars
    <2> QED
      BY <2>1, KeptStutters
  <1>2. CASE StartLock(c) /\ WorkerFinished
    <2> USE <1>2 DEF StartLock, TypeOK, Goto, runVars
    <2>1. ~Installing /\ ~Alive(handle)
      BY EngineAssumption DEF Installing, WorkerFinished
    <2>2. ~Installing' /\ ~Alive(handle)'
      BY DEF Installing, Alive
    <2>3. CurrentRun = NoRun /\ CurrentRun' = NoRun
      BY <2>1, <2>2 DEF CurrentRun
    <2>4. EndedRuns' = EndedRuns /\ cancelled' = cancelled
      BY DEF EndedRuns
    <2> QED
      BY <2>3, <2>4 DEF Exclusive!exclusiveVars
  <1>3. CASE StartToken(c)
    <2> DEFINE r == req[c].run
    <2> USE <1>3 DEF RunInv, TypeOK, StartToken, Goto, runVars
    <2>1. /\ workerLock = c /\ pc'[c] = "install" /\ req' = req
          /\ r \in Runs /\ phase[r] = "unused"
      BY DEF LockHeld, InLock, FreshStarts, Starting
    <2>2. handle = NoRun /\ ~Installing /\ ~Alive(handle)
      BY <2>1, EngineAssumption DEF LockExcludes, Installing, Alive
    <2>3. CurrentRun = NoRun /\ CurrentRun' = r
      BY <2>1, <2>2 DEF CurrentRun, Installing
    <2>4. \A d \in Clients : pc[d] # "install"
      BY <2>1 DEF LockHeld, InLock
    <2>5. r \notin cancelled
      BY <2>1, <2>4 DEF TokenBegun, Begun
    <2>6. EndedRuns' = EndedRuns /\ r \notin EndedRuns
      BY <2>1 DEF EndedRuns
    <2>7. (CurrentRun \in cancelled)' = FALSE
      BY <2>3, <2>5
    <2>8. Exclusive!Begin(r)
      BY <2>3, <2>6, <2>7 DEF Exclusive!Begin, Exclusive!None, NoRun
    <2> QED
      BY <2>1, <2>8 DEF Exclusive!ExclusiveNext
  <1>4. CASE StartInstall(c)
    <2> DEFINE r == req[c].run
    <2> USE <1>4 DEF RunInv, TypeOK, StartInstall, Reply, Goto, Work
    <2>1. /\ workerLock = c /\ workerLock' = "free" /\ handle' = r
          /\ r \in Runs /\ phase[r] = "unused" /\ phase'[r] = "preflight"
          /\ \A s \in Runs : s # r => phase'[s] = phase[s]
      BY DEF LockHeld, InLock, FreshStarts, Starting
    <2>2. Installing /\ ~Installing' /\ Alive(handle)'
      BY <2>1, EngineAssumption DEF Installing, Alive, Runs, NoRun
    <2>3. CurrentRun = r /\ CurrentRun' = r
      BY <2>1, <2>2 DEF CurrentRun
    <2>4. EndedRuns' = EndedRuns /\ cancelled' = cancelled
      BY <2>1 DEF EndedRuns
    <2> QED
      BY <2>3, <2>4 DEF Exclusive!exclusiveVars
  <1>5. CASE StopCancel(c)
    <2>1. RunsKept
      BY <1>5 DEF StopCancel, RunsKept, InLock, TypeOK, Goto, runVars
    <2>2. UNCHANGED <<CurrentRun, EndedRuns>>
      BY <2>1, SameRun
    <2>3. cancelled' = cancelled \cup ({cancellation} \ {NoRun})
      BY <1>5 DEF StopCancel
    <2>4. CASE (CurrentRun \in cancelled)' = (CurrentRun \in cancelled)
      BY <2>2, <2>4 DEF Exclusive!exclusiveVars
    <2>5. CASE (CurrentRun \in cancelled)' # (CurrentRun \in cancelled)
      <3>1. CurrentRun = cancellation /\ cancellation # NoRun /\ (CurrentRun \in cancelled)' = TRUE
        BY <2>2, <2>3, <2>5
      <3>2. Exclusive!StopCurrent
        BY <2>2, <3>1 DEF Exclusive!StopCurrent, Exclusive!None, NoRun
      <3> QED
        BY <3>2 DEF Exclusive!ExclusiveNext
    <2> QED
      BY <2>4, <2>5
  <1>6. CASE PausePort(c) \/ PauseSend(c) \/ PauseMark(c)
    <2>1. RunsKept /\ cancelled' = cancelled
      BY <1>6 DEF PausePort, PauseSend, PauseMark, RunsKept, InLock, TypeOK, Goto, Reply,
                  shared, fields, runVars
    <2> QED
      BY <2>1, KeptStutters
  <1>7. CASE StopLook(c) \/ StopMark(c) \/ StopRelease(c) \/ StopPort(c)
    <2>1. RunsKept /\ cancelled' = cancelled
      BY <1>7 DEF StopLook, StopMark, StopRelease, StopPort, AfterMark, RunsKept, InLock,
                  TypeOK, Goto, Reply, shared, fields, runVars
    <2> QED
      BY <2>1, KeptStutters
  <1>8. CASE StopCheck(c) \/ StopIdle(c) \/ AckClear(c) \/ AckMark(c) \/ ProfileCommit(c)
    <2>1. RunsKept /\ cancelled' = cancelled
      BY <1>8 DEF StopCheck, StopIdle, AckClear, AckMark, ProfileCommit, RunsKept, InLock,
                  TypeOK, Goto, Reply, shared, fields, runVars
    <2> QED
      BY <2>1, KeptStutters
  <1> QED
    BY <1>1, <1>2, <1>3, <1>4, <1>5, <1>6, <1>7, <1>8 DEF Continue

LEMMA WorkerRefines ==
  ASSUME TypeOK, RunInv, NEW r \in Runs, WorkerStep(r)
  PROVE  [Exclusive!ExclusiveNext]_Exclusive!exclusiveVars
  <1>1. CASE PreflightPass(r) \/ PreflightReject(r) \/ Checkpoint(r) \/ StepEnds(r)
    <2>1. RunsKept /\ cancelled' = cancelled
      BY <1>1 DEF PreflightPass, PreflightReject, Checkpoint, StepEnds, RunsKept, TypeOK, Work,
                  shared, fields, workerShared, clientVars
    <2> QED
      BY <2>1, KeptStutters
  <1>2. CASE SessionRecovered(r) \/ ExecuteEnds(r) \/ ReconnectEnds(r) \/ ScanEnds(r)
    <2>1. RunsKept /\ cancelled' = cancelled
      BY <1>2 DEF SessionRecovered, ExecuteEnds, ReconnectEnds, ScanEnds, RunsKept, TypeOK,
                  Work, shared, fields, workerShared, clientVars
    <2> QED
      BY <2>1, KeptStutters
  <1>3. CASE Cleanup(r) \/ FinishClear(r) \/ FinishTransition(r)
    <2>1. RunsKept /\ cancelled' = cancelled
      BY <1>3 DEF Cleanup, FinishClear, FinishTransition, RunsKept, TypeOK, Work, shared, fields,
                  clientVars
    <2> QED
      BY <2>1, KeptStutters
  <1>4. CASE WorkerGone(r) /\ Live(r)
    <2> USE <1>4 DEF RunInv, TypeOK, WorkerGone, Work, clientVars
    <2>1. /\ handle = r /\ r # NoRun /\ phase[r] # "done" /\ phase'[r] = "done"
          /\ \A s \in Runs : s # r => phase'[s] = phase[s]
      BY DEF WorkerOwned, Live, Runs, NoRun
    <2>2. ~Installing /\ ~Installing'
      BY <2>1, EngineAssumption DEF LockExcludes, Installing
    <2>3. CurrentRun = r /\ CurrentRun' = NoRun
      BY <2>1, <2>2 DEF CurrentRun, Alive
    <2>4. EndedRuns' = EndedRuns \cup {r}
      BY <2>1 DEF EndedRuns
    <2>5. (CurrentRun \in cancelled)' = FALSE
      BY <2>3 DEF Runs, NoRun
    <2>6. Exclusive!End
      BY <2>1, <2>3, <2>4, <2>5 DEF Exclusive!End, Exclusive!None, NoRun
    <2> QED
      BY <2>6 DEF Exclusive!ExclusiveNext
  <1>5. WorkerExit(r) \/ WorkerPanic(r) => WorkerGone(r) /\ Live(r)
    BY DEF WorkerExit, WorkerPanic, Live
  <1> QED
    BY <1>1, <1>2, <1>3, <1>4, <1>5 DEF WorkerStep, CleanupOrFinish

LEMMA NextRefines ==
  TypeOK /\ RunInv /\ [Next]_vars => [Exclusive!ExclusiveNext]_Exclusive!exclusiveVars
  <1> SUFFICES ASSUME TypeOK, RunInv, [Next]_vars
               PROVE  [Exclusive!ExclusiveNext]_Exclusive!exclusiveVars
    OBVIOUS
  <1>1. CASE Next
    BY <1>1, CommandRefines, ContinueRefines, WorkerRefines DEF Next
  <1>2. CASE UNCHANGED vars
    BY <1>2 DEF vars, shared, fields, runVars, clientVars, Exclusive!exclusiveVars, CurrentRun,
                Installing, Alive, EndedRuns
  <1> QED
    BY <1>1, <1>2

(* The engine implements the abstract specification of exclusive runs.     *)
THEOREM EngineImplementsExclusiveRun == Spec => ImplementsExclusiveRun
  BY InitRefines, NextRefines, TypeCorrect, RunInvariant, PTL
  DEF Spec, ImplementsExclusiveRun, Exclusive!ExclusiveSpec

-----------------------------------------------------------------------------
(* Inputs are released before a run reports anything but a fault.          *)

LEMMA InitReleased == Init => InputsReleased
  BY DEF Init, InputsReleased

LEMMA ClientKeepsReleased ==
  ASSUME TypeOK, InputsReleased, NEW c \in Clients, Command(c) \/ Continue(c)
  PROVE  InputsReleased'
  <1> USE DEF InputsReleased
  <1>1. CASE StartInstall(c)
    BY <1>1 DEF StartInstall, TypeOK, Work
  <1>2. ASSUME dirty' \subseteq dirty, UNCHANGED <<phase, task, outcome>>
        PROVE  InputsReleased'
    BY <1>2
  <1>3. Command(c) => dirty' \subseteq dirty /\ UNCHANGED <<phase, task, outcome>>
    BY DEF Command, Start, StartLegacy, StartLegacySession, ScanQuests, Admit, SaveProfile,
           SelectProfile, DeleteProfile, Pause, Resume, AcknowledgeAttention, Stop, shared, fields, runVars
  <1>4. Continue(c) => StartInstall(c) \/ (dirty' \subseteq dirty /\ UNCHANGED <<phase, task, outcome>>)
    BY DEF Continue, StartPermit, StartLock, StartToken, PausePort, PauseSend, PauseMark,
           StopCancel, StopLook, StopMark, StopRelease, StopPort, StopCheck, StopIdle, AckClear,
           AckMark, ProfileCommit, shared, fields, runVars
  <1> QED
    BY <1>1, <1>2, <1>3, <1>4

LEMMA WorkerKeepsReleased ==
  ASSUME TypeOK, InputsReleased, NEW r \in Runs, WorkerStep(r)
  PROVE  InputsReleased'
  <1> USE DEF InputsReleased, TypeOK, Work, Decide, shared, fields, workerShared
  <1>1. CASE PreflightPass(r) \/ PreflightReject(r) \/ Checkpoint(r)
    BY <1>1 DEF PreflightPass, PreflightReject, Checkpoint
  <1>2. CASE StepEnds(r) \/ SessionRecovered(r)
    BY <1>2 DEF StepEnds, SessionRecovered
  <1>3. CASE ExecuteEnds(r) \/ ReconnectEnds(r)
    BY <1>3 DEF ExecuteEnds, ReconnectEnds
  <1>4. CASE ScanEnds(r)
    BY <1>4 DEF ScanEnds
  <1>5. CASE Cleanup(r)
    BY <1>5 DEF Cleanup, CleanupOutcome
  <1>6. CASE FinishClear(r) \/ FinishTransition(r)
    BY <1>6 DEF FinishClear, FinishTransition
  <1>7. CASE WorkerGone(r)
    BY <1>7 DEF WorkerGone
  <1> QED
    BY <1>1, <1>2, <1>3, <1>4, <1>5, <1>6, <1>7
    DEF WorkerStep, CleanupOrFinish, WorkerExit, WorkerPanic

LEMMA NextKeepsReleased == TypeOK /\ InputsReleased /\ [Next]_vars => InputsReleased'
  <1>1. InputsReleased /\ UNCHANGED vars => InputsReleased'
    BY DEF InputsReleased, vars, shared, fields, runVars
  <1> QED
    BY <1>1, ClientKeepsReleased, WorkerKeepsReleased DEF Next

(* No run reports an end without a fault while it may still hold inputs.   *)
THEOREM EndedRunsHoldNothing == Spec => []InputsReleased
  BY InitReleased, NextKeepsReleased, TypeCorrect, PTL DEF Spec

-----------------------------------------------------------------------------
(* The scheduler's keys: each belongs to the live worker or to one start   *)
(* command, which is why dropping a permit takes nobody else's key away.   *)

DistinctKeys ==
  /\ \A c, d \in Clients : Holding(c) /\ Holding(d) /\ c # d
       => PermitKey(req[c].task) # PermitKey(req[d].task)
  /\ \A c \in Clients, r \in Runs : Holding(c) /\ Live(r)
       => PermitKey(req[c].task) # PermitKey(task[r])

KeyInUse(k) ==
  \/ \E r \in Runs : Live(r) /\ k = PermitKey(task[r])
  \/ \E c \in Clients : Holding(c) /\ k = PermitKey(req[c].task)

LEMMA PermitsAreKeys == PermitsAccounted <=> \A k : k \in permits <=> KeyInUse(k)
  BY DEF PermitsAccounted, KeyInUse

PermitInv == (\A k : k \in permits <=> KeyInUse(k)) /\ DistinctKeys

LEMMA InitPermits == Init => PermitInv
  BY DEF Init, PermitInv, KeyInUse, DistinctKeys, Holding, Live

(* A step of nobody's permit.                                              *)
PermitsKept ==
  /\ permits' = permits
  /\ \A r \in Runs : (Live(r)' <=> Live(r)) /\ (Live(r) => task'[r] = task[r])
  /\ \A c \in Clients : (Holding(c)' <=> Holding(c)) /\ (Holding(c) => req'[c] = req[c])

LEMMA KeptPermits ==
  ASSUME PermitInv, PermitsKept
  PROVE  PermitInv'
  <1>1. \A k : KeyInUse(k)' <=> KeyInUse(k)
    BY DEF PermitsKept, KeyInUse
  <1>2. DistinctKeys'
    BY DEF PermitInv, PermitsKept, DistinctKeys
  <1> QED
    BY <1>1, <1>2 DEF PermitInv, PermitsKept

LEMMA CommandKeepsPermits ==
  ASSUME TypeOK, PermitInv, NEW c \in Clients, Command(c)
  PROVE  PermitInv'
  <1> USE DEF PermitsKept, Holding, Live, TypeOK, Goto, shared, fields, runVars, clientVars
  <1>1. ASSUME NEW p \in Profiles, NEW kind \in Kinds, Admit(c, kind, p)
        PROVE  PermitsKept
    BY <1>1 DEF Admit
  <1>2. ASSUME NEW p \in Profiles, SaveProfile(c, p) \/ SelectProfile(c, p) \/ DeleteProfile(c, p)
        PROVE  PermitsKept
    BY <1>2 DEF SaveProfile, SelectProfile, DeleteProfile
  <1>3. Pause(c) \/ Resume(c) \/ AcknowledgeAttention(c) => PermitsKept
    BY DEF Pause, Resume, AcknowledgeAttention
  <1>4. ASSUME NEW emergency \in BOOLEAN, Stop(c, emergency)
        PROVE  PermitsKept
    BY <1>4 DEF Stop
  <1> QED
    BY <1>1, <1>2, <1>3, <1>4, KeptPermits
    DEF Command, Start, StartLegacy, StartLegacySession, ScanQuests, Kinds

LEMMA ContinueKeepsPermits ==
  ASSUME TypeOK, RunInv, PermitInv, NEW c \in Clients, Continue(c)
  PROVE  PermitInv'
  <1> DEFINE key == PermitKey(req[c].task)
  <1>1. CASE StartPermit(c) /\ key \in permits
    <2>1. PermitsKept
      BY <1>1 DEF StartPermit, PermitsKept, Holding, Live, TypeOK, Goto, Reply, runVars
    <2> QED
      BY <2>1, KeptPermits
  <1>2. CASE StartPermit(c) /\ key \notin permits
    <2>1. /\ permits' = permits \cup {key} /\ req' = req /\ ~Holding(c) /\ Holding(c)'
          /\ \A d \in Clients : d # c => (Holding(d)' <=> Holding(d))
          /\ \A r \in Runs : (Live(r)' <=> Live(r)) /\ task'[r] = task[r]
      BY <1>2 DEF StartPermit, Holding, Live, TypeOK, Goto, runVars
    <2>2. \A k : KeyInUse(k)' <=> KeyInUse(k) \/ k = key
      BY <2>1 DEF KeyInUse
    <2>3. ~KeyInUse(key)
      BY <1>2 DEF PermitInv
    <2>4. DistinctKeys'
      BY <2>1, <2>3 DEF DistinctKeys, PermitInv, KeyInUse
    <2> QED
      BY <2>1, <2>2, <2>4 DEF PermitInv
  <1>3. CASE StartLock(c) /\ ~WorkerFinished
    <2>1. /\ permits' = permits \ {key} /\ Holding(c) /\ ~Holding(c)'
          /\ \A d \in Clients : d # c => (Holding(d)' <=> Holding(d)) /\ req'[d] = req[d]
          /\ \A r \in Runs : (Live(r)' <=> Live(r)) /\ task'[r] = task[r]
      BY <1>3 DEF StartLock, PermitsAfterReject, Holding, Live, TypeOK, Goto, Reply, runVars
    <2>2. \A k : KeyInUse(k)' <=> KeyInUse(k) /\ k # key
      BY <2>1 DEF KeyInUse, DistinctKeys, PermitInv
    <2>3. DistinctKeys'
      BY <2>1 DEF DistinctKeys, PermitInv
    <2> QED
      BY <2>1, <2>2, <2>3 DEF PermitInv
  <1>4. CASE StartInstall(c)
    <2>1. PICK r \in Runs : r = req[c].run /\ phase[r] = "unused"
      BY <1>4 DEF StartInstall, RunInv, FreshStarts, Starting
    <2> USE <1>4, <2>1 DEF StartInstall, TypeOK, Goto, Reply, Work
    <2>2. permits' = permits /\ Holding(c) /\ ~Holding(c)'
      BY DEF Holding
    <2>3. ~Live(r) /\ Live(r)' /\ task'[r] = req[c].task
      BY DEF Live
    <2>4. \A d \in Clients : d # c => (Holding(d)' <=> Holding(d)) /\ req'[d] = req[d]
      BY DEF Holding
    <2>5. \A s \in Runs : s # r => (Live(s)' <=> Live(s)) /\ task'[s] = task[s]
      BY DEF Live
    <2> HIDE <1>4 DEF StartInstall, TypeOK, Goto, Reply, Work
    <2>6. \A k : KeyInUse(k)' <=> KeyInUse(k)
      BY <2>2, <2>3, <2>4, <2>5 DEF KeyInUse
    <2>7. DistinctKeys'
      BY <2>2, <2>3, <2>4, <2>5 DEF DistinctKeys, PermitInv
    <2> QED
      BY <2>2, <2>6, <2>7 DEF PermitInv
  <1>5. CASE StartToken(c) \/ (StartLock(c) /\ WorkerFinished)
    <2>1. PermitsKept
      BY <1>5 DEF StartToken, StartLock, PermitsKept, Holding, Live, TypeOK, Goto, runVars
    <2> QED
      BY <2>1, KeptPermits
  <1>6. CASE PausePort(c) \/ PauseSend(c) \/ PauseMark(c) \/ StopCancel(c)
    <2>1. PermitsKept
      BY <1>6 DEF PausePort, PauseSend, PauseMark, StopCancel, PermitsKept, Holding, Live,
                  TypeOK, Goto, Reply, shared, fields, runVars
    <2> QED
      BY <2>1, KeptPermits
  <1>7. CASE StopLook(c) \/ StopMark(c) \/ StopRelease(c) \/ StopPort(c)
    <2>1. PermitsKept
      BY <1>7 DEF StopLook, StopMark, StopRelease, StopPort, AfterMark, PermitsKept, Holding,
                  Live, TypeOK, Goto, Reply, shared, fields, runVars
    <2> QED
      BY <2>1, KeptPermits
  <1>8. CASE StopCheck(c) \/ StopIdle(c) \/ AckClear(c) \/ AckMark(c) \/ ProfileCommit(c)
    <2>1. PermitsKept
      BY <1>8 DEF StopCheck, StopIdle, AckClear, AckMark, ProfileCommit, PermitsKept, Holding,
                  Live, TypeOK, Goto, Reply, shared, fields, runVars
    <2> QED
      BY <2>1, KeptPermits
  <1> QED
    BY <1>1, <1>2, <1>3, <1>4, <1>5, <1>6, <1>7, <1>8 DEF Continue

LEMMA WorkerKeepsPermits ==
  ASSUME TypeOK, RunInv, PermitInv, NEW r \in Runs, WorkerStep(r)
  PROVE  PermitInv'
  <1>1. CASE PreflightPass(r) \/ PreflightReject(r) \/ Checkpoint(r) \/ StepEnds(r)
    <2>1. PermitsKept
      BY <1>1 DEF PreflightPass, PreflightReject, Checkpoint, StepEnds, PermitsKept, Holding,
                  Live, TypeOK, Work, shared, fields, workerShared, clientVars
    <2> QED
      BY <2>1, KeptPermits
  <1>2. CASE SessionRecovered(r) \/ ExecuteEnds(r) \/ ReconnectEnds(r) \/ ScanEnds(r)
    <2>1. PermitsKept
      BY <1>2 DEF SessionRecovered, ExecuteEnds, ReconnectEnds, ScanEnds, PermitsKept, Holding,
                  Live, TypeOK, Work, shared, fields, workerShared, clientVars
    <2> QED
      BY <2>1, KeptPermits
  <1>3. CASE Cleanup(r) \/ FinishClear(r) \/ FinishTransition(r)
    <2>1. PermitsKept
      BY <1>3 DEF Cleanup, FinishClear, FinishTransition, PermitsKept, Holding, Live, TypeOK,
                  Work, shared, fields, clientVars
    <2> QED
      BY <2>1, KeptPermits
  <1>4. CASE WorkerGone(r) /\ Live(r)
    <2>1. /\ permits' = permits \ {PermitKey(task[r])} /\ ~Live(r)'
          /\ \A s \in Runs : s # r => (Live(s)' <=> Live(s)) /\ task'[s] = task[s]
          /\ \A c \in Clients : (Holding(c)' <=> Holding(c)) /\ req'[c] = req[c]
      BY <1>4 DEF WorkerGone, Holding, Live, TypeOK, Work, clientVars
    <2>2. \A s \in Runs : Live(s) => s = r
      BY <1>4 DEF RunInv, WorkerOwned
    <2>3. \A k : KeyInUse(k)' <=> KeyInUse(k) /\ k # PermitKey(task[r])
      BY <1>4, <2>1, <2>2 DEF KeyInUse, DistinctKeys, PermitInv
    <2>4. DistinctKeys'
      BY <2>1, <2>2 DEF DistinctKeys, PermitInv
    <2> QED
      BY <2>1, <2>3, <2>4 DEF PermitInv
  <1>5. WorkerExit(r) \/ WorkerPanic(r) => WorkerGone(r) /\ Live(r)
    BY DEF WorkerExit, WorkerPanic, Live
  <1> QED
    BY <1>1, <1>2, <1>3, <1>4, <1>5 DEF WorkerStep, CleanupOrFinish

LEMMA NextKeepsPermits == TypeOK /\ RunInv /\ PermitInv /\ [Next]_vars => PermitInv'
  <1> SUFFICES ASSUME TypeOK, RunInv, PermitInv, [Next]_vars
               PROVE  PermitInv'
    OBVIOUS
  <1>1. CASE Next
    BY <1>1, CommandKeepsPermits, ContinueKeepsPermits, WorkerKeepsPermits DEF Next
  <1>2. CASE UNCHANGED vars
    <2>1. PermitsKept
      BY <1>2 DEF PermitsKept, Holding, Live, vars, shared, fields, runVars, clientVars
    <2> QED
      BY <2>1, KeptPermits
  <1> QED
    BY <1>1, <1>2

(* No scheduler key leaks, whatever is rejected or panics: every active    *)
(* key is that of a live worker or of a start command on its way.          *)
THEOREM NoPermitLeaks == Spec => []PermitsAccounted
  <1>1. PermitInv => PermitsAccounted
    BY PermitsAreKeys DEF PermitInv
  <1> QED
    BY <1>1, InitPermits, NextKeepsPermits, TypeCorrect, RunInvariant, PTL DEF Spec
-----------------------------------------------------------------------------
(* Commands that do not overlap.  A command may still race with the        *)
(* worker, but not with another command: what it saw of the engine before  *)
(* it started, selected, deleted or acknowledged still holds when it acts  *)
(* on it, wherever the commands before it came from.                       *)

OnlyCommand(c) == \A d \in Clients : d # c => pc[d] = "idle"
OneAtATime == \A c \in Clients : pc[c] # "idle" => OnlyCommand(c)

NoWork == \A r \in Runs : ~Working(r)
ActsOnIdle(c) ==
  \/ pc[c] \in {"permit", "lock", "token", "install", "stopIdle", "ackMark", "select", "delete"}
  \/ pc[c] = "ackClear" /\ req[c].seen # "Idle"
IdleSeen ==
  /\ state \in {"Idle"} \cup Attention => NoWork
  /\ \A c \in Clients : ActsOnIdle(c) => NoWork

(* Safe mode is only of a daemon that has started nothing.                 *)
SafeIsQuiet ==
  safeMode =>
    /\ state = "Idle"
    /\ \A r \in Runs : phase[r] = "unused"
    /\ \A c \in Clients :
         ~Starting(c) /\ pc[c] \notin {"pausePort", "pauseSend", "pauseMark", "resumePort",
                                       "resumeSend", "resumeMark", "stopMark"}

(* The profile of a start command is selected, first in the store.         *)
StartSelects ==
  \A c \in Clients :
    /\ Starting(c) => req[c].task.profile \in profiles
    /\ Holding(c) => stored = req[c].task.profile

OwnsSelection ==
  \A r \in Runs : Working(r) =>
    selected = task[r].profile /\ stored = selected /\ selected \in profiles

SerialInv == IdleSeen /\ SafeIsQuiet /\ StartSelects /\ OwnsSelection
SerialOrNot == overlapped \in BOOLEAN /\ (~overlapped => OneAtATime /\ SerialInv)

(* Nothing has started, and the hotkeys' profile is selected.              *)
LEMMA InitSerial == Init => SerialInv
  BY EngineAssumption
  DEF Init, SerialInv, IdleSeen, NoWork, ActsOnIdle, SafeIsQuiet, StartSelects, Starting, Holding,
      OwnsSelection, Working

(* A run at work has its token installed, and no start command is left.    *)
LEMMA IdleTokenIdleEngine ==
  ASSUME RunInv, cancellation = NoRun
  PROVE  NoWork
  BY DEF RunInv, TokenOwned, NoWork, Runs, NoRun

(* The only command: it begins when nothing else is on its way.            *)
LEMMA CommandAlone ==
  ASSUME TypeOK, SerialInv, NEW c \in Clients, OnlyCommand(c), Command(c)
  PROVE  SerialInv'
  <1> USE DEF OnlyCommand, SerialInv, TypeOK, Goto, shared, fields, runVars, clientVars
  <1>1. ASSUME NEW p \in Profiles, NEW kind \in Kinds, Admit(c, kind, p)
        PROVE  SerialInv'
    <2>1. /\ state = "Idle" /\ ~safeMode /\ p \in profiles
          /\ UNCHANGED <<state, safeMode, phase, task, profiles, selected, stored>>
          /\ pc'[c] = "permit" /\ req'[c].task.profile = p
      BY <1>1 DEF Admit, Request, Task
    <2>2. NoWork /\ IdleSeen'
      BY <2>1 DEF IdleSeen, NoWork, Working
    <2>3. \A d \in Clients : d # c => pc'[d] = "idle"
      BY <1>1 DEF Admit
    <2>4. SafeIsQuiet' /\ OwnsSelection'
      BY <2>1 DEF SafeIsQuiet, OwnsSelection, Working
    <2>5. StartSelects'
      BY <2>1, <2>3 DEF StartSelects, Starting, Holding
    <2> QED
      BY <2>2, <2>4, <2>5
  <1>2. ASSUME NEW p \in Profiles, SaveProfile(c, p)
        PROVE  SerialInv'
    BY <1>2 DEF SaveProfile, IdleSeen, NoWork, ActsOnIdle, SafeIsQuiet, StartSelects, Starting, Holding,
       OwnsSelection, Working
  <1>3. ASSUME NEW p \in Profiles, SelectProfile(c, p) \/ DeleteProfile(c, p)
        PROVE  SerialInv'
    BY <1>3 DEF SelectProfile, DeleteProfile, EditableState, IdleSeen, NoWork, ActsOnIdle, SafeIsQuiet,
       StartSelects, Starting, Holding, OwnsSelection, Working
  <1>4. CASE Pause(c) \/ Resume(c)
    BY <1>4 DEF Pause, Resume, IdleSeen, NoWork, ActsOnIdle, SafeIsQuiet, StartSelects, Starting,
       Holding, OwnsSelection, Working
  <1>5. CASE AcknowledgeAttention(c)
    <2>1. req'[c].seen = state /\ pc'[c] = "ackClear" /\ (safeMode \/ state \in Attention)
          /\ UNCHANGED <<state, safeMode, phase, task, profiles, selected, stored>>
      BY <1>5, NoReqTyped DEF AcknowledgeAttention, NoReq, Request
    <2>2. \A d \in Clients : d # c => pc'[d] = "idle"
      BY <1>5 DEF AcknowledgeAttention
    <2>3. IdleSeen'
      BY <2>1, <2>2 DEF IdleSeen, NoWork, ActsOnIdle, SafeIsQuiet, Working
    <2>4. SafeIsQuiet' /\ StartSelects' /\ OwnsSelection'
      BY <2>1, <2>2 DEF SafeIsQuiet, StartSelects, Starting, Holding, OwnsSelection, Working
    <2> QED
      BY <2>3, <2>4
  <1>6. ASSUME NEW emergency \in BOOLEAN, Stop(c, emergency)
        PROVE  SerialInv'
    BY <1>6 DEF Stop, IdleSeen, NoWork, ActsOnIdle, SafeIsQuiet, StartSelects, Starting, Holding,
       OwnsSelection, Working
  <1> QED
    BY <1>1, <1>2, <1>3, <1>4, <1>5, <1>6
    DEF Command, Start, StartLegacy, StartLegacySession, ScanQuests, Kinds

(* ... and what it acts on is still so when it goes on.                    *)
LEMMA ContinueAlone ==
  ASSUME TypeOK, RunInv, SerialInv, NEW c \in Clients, OnlyCommand(c), Continue(c)
  PROVE  SerialInv'
  <1> USE DEF OnlyCommand, SerialInv, TypeOK, Goto, Reply, shared, fields, runVars, clientVars,
          IdleSeen, NoWork, ActsOnIdle, SafeIsQuiet, StartSelects, Starting, Holding,
          OwnsSelection, Working
  <1>1. CASE StartPermit(c)
    BY <1>1 DEF StartPermit
  <1>2. CASE StartLock(c)
    BY <1>2 DEF StartLock
  <1>3. CASE StartToken(c)
    BY <1>3 DEF StartToken
  <1>4. CASE StartInstall(c)
    <2>1. PICK r \in Runs : r = req[c].run
      BY <1>4 DEF StartInstall, RunInv, FreshStarts
    <2>2. /\ pc[c] = "install" /\ pc'[c] = "idle" /\ state' = "Preflight" /\ ~safeMode
          /\ selected' = req[c].task.profile /\ UNCHANGED <<stored, profiles, safeMode>>
          /\ phase' = [phase EXCEPT ![r] = "preflight"] /\ task' = [task EXCEPT ![r] = req[c].task]
      BY <1>4, <2>1 DEF StartInstall, Work
    <2>3. \A d \in Clients : pc'[d] = "idle"
      BY <1>4 DEF StartInstall
    <2>4. OwnsSelection'
      BY <2>2
    <2> QED
      BY <2>2, <2>3, <2>4 DEF Attention
  <1>5. CASE PausePort(c)
    BY <1>5 DEF PausePort
  <1>6. CASE PauseSend(c)
    BY <1>6 DEF PauseSend
  <1>7. CASE PauseMark(c)
    BY <1>7 DEF PauseMark, Attention
  <1>8. CASE StopCancel(c)
    BY <1>8 DEF StopCancel
  <1>9. CASE StopLook(c)
    BY <1>9 DEF StopLook, AfterMark
  <1>10. CASE StopMark(c)
    BY <1>10 DEF StopMark, AfterMark, Attention
  <1>11. CASE StopRelease(c) \/ StopPort(c)
    BY <1>11 DEF StopRelease, StopPort
  <1>12. CASE StopCheck(c)
    BY <1>12, IdleTokenIdleEngine DEF StopCheck, NothingRunning
  <1>13. CASE StopIdle(c)
    BY <1>13 DEF StopIdle
  <1>14. CASE AckClear(c)
    BY <1>14 DEF AckClear
  <1>15. CASE AckMark(c)
    BY <1>15 DEF AckMark
  <1>16. CASE ProfileCommit(c)
    BY <1>16 DEF ProfileCommit
  <1> QED
    BY <1>1, <1>2, <1>3, <1>4, <1>5, <1>6, <1>7, <1>8, <1>9, <1>10, <1>11, <1>12, <1>13, <1>14, <1>15,
       <1>16 DEF Continue

(* The worker settles the state only when it has done its work.            *)
LEMMA WorkerAlone ==
  ASSUME TypeOK, RunInv, SerialInv, NEW r \in Runs, WorkerStep(r)
  PROVE  SerialInv'
  <1> USE DEF SerialInv, TypeOK, Work, Decide, shared, fields, clientVars, workerShared,
          IdleSeen, NoWork, ActsOnIdle, SafeIsQuiet, StartSelects, Starting, Holding,
          OwnsSelection, Working
  <1>1. CASE PreflightPass(r)
    BY <1>1 DEF PreflightPass, Attention
  <1>2. CASE PreflightReject(r)
    BY <1>2 DEF PreflightReject
  <1>3. CASE Checkpoint(r)
    BY <1>3 DEF Checkpoint
  <1>4. CASE StepEnds(r)
    BY <1>4 DEF StepEnds, Attention
  <1>5. CASE SessionRecovered(r)
    BY <1>5 DEF SessionRecovered, Attention
  <1>6. CASE ExecuteEnds(r)
    BY <1>6 DEF ExecuteEnds, Attention
  <1>7. CASE ReconnectEnds(r)
    BY <1>7 DEF ReconnectEnds
  <1>8. CASE ScanEnds(r)
    BY <1>8 DEF ScanEnds
  <1>9. CASE Cleanup(r)
    BY <1>9 DEF Cleanup
  <1>10. CASE FinishClear(r)
    BY <1>10 DEF FinishClear
  <1>11. CASE FinishTransition(r)
    <2>1. Live(r) /\ \A s \in Runs : Live(s) => s = r
      BY <1>11 DEF FinishTransition, Live, RunInv, WorkerOwned
    <2> QED
      BY <1>11, <2>1 DEF FinishTransition, Live
  <1>12. CASE WorkerGone(r) /\ Live(r)
    BY <1>12 DEF WorkerGone, Live
  <1>13. WorkerExit(r) \/ WorkerPanic(r) => WorkerGone(r) /\ Live(r)
    BY DEF WorkerExit, WorkerPanic, Live
  <1> QED
    BY <1>1, <1>2, <1>3, <1>4, <1>5, <1>6, <1>7, <1>8, <1>9, <1>10, <1>11, <1>12, <1>13
    DEF WorkerStep, CleanupOrFinish

(* While commands do not overlap, at most one is on its way.               *)
LEMMA StillOne ==
  ASSUME TypeOK, SerialOrNot, [Next]_vars, ~overlapped'
  PROVE  ~overlapped /\ OneAtATime'
  <1>1. ~overlapped
    BY DEF SerialOrNot, Next, Command, Continue, WorkerStep, vars
  <1>2. OneAtATime
    BY <1>1 DEF SerialOrNot
  <1>3. ASSUME NEW c \in Clients, Command(c) PROVE OneAtATime'
    <2>1. \A d \in Clients : d # c => pc[d] = "idle"
      BY <1>3 DEF Command
    <2>2. \A d \in Clients : d # c => pc'[d] = pc[d]
      BY <1>3 DEF TypeOK, Command, Start, StartLegacy, StartLegacySession, ScanQuests, Admit,
         SaveProfile, SelectProfile, DeleteProfile, Pause, Resume, AcknowledgeAttention, Stop, Goto,
         clientVars
    <2> QED
      BY <2>1, <2>2 DEF OneAtATime, OnlyCommand
  <1>4. ASSUME NEW c \in Clients, Continue(c) PROVE OneAtATime'
    <2>1. pc[c] # "idle"
      BY <1>4 DEF Continue, StartPermit, StartLock, StartToken, StartInstall, PausePort, PauseSend,
         PauseMark, StopCancel, StopLook, StopMark, StopRelease, StopPort, StopCheck, StopIdle,
         AckClear, AckMark, ProfileCommit
    <2>2. \A d \in Clients : d # c => pc'[d] = pc[d]
      BY <1>4 DEF TypeOK, Continue, StartPermit, StartLock, StartToken, StartInstall, PausePort,
         PauseSend, PauseMark, StopCancel, StopLook, StopMark, StopRelease, StopPort, StopCheck,
         StopIdle, AckClear, AckMark, ProfileCommit, Goto, Reply
    <2> QED
      BY <1>2, <2>1, <2>2 DEF OneAtATime, OnlyCommand
  <1>5. ASSUME UNCHANGED pc PROVE OneAtATime'
    BY <1>2, <1>5 DEF OneAtATime, OnlyCommand
  <1>6. ASSUME NEW r \in Runs, WorkerStep(r) PROVE UNCHANGED pc
    BY <1>6 DEF WorkerStep, PreflightPass, PreflightReject, Checkpoint, StepEnds, SessionRecovered,
       ExecuteEnds, ReconnectEnds, ScanEnds, CleanupOrFinish, Cleanup, FinishClear,
       FinishTransition, WorkerExit, WorkerPanic, WorkerGone, clientVars
  <1> QED
    BY <1>1, <1>3, <1>4, <1>5, <1>6 DEF Next, vars, clientVars

LEMMA NextSerial == TypeOK /\ RunInv /\ SerialOrNot /\ [Next]_vars => SerialOrNot'
  <1> SUFFICES ASSUME TypeOK, RunInv, SerialOrNot, [Next]_vars PROVE SerialOrNot'
    OBVIOUS
  <1>1. overlapped' \in BOOLEAN
    BY DEF SerialOrNot, Next, Command, Continue, WorkerStep, vars
  <1>2. ASSUME ~overlapped' PROVE SerialInv'
    <2>1. ~overlapped /\ OneAtATime /\ SerialInv
      BY <1>2, StillOne DEF SerialOrNot
    <2>2. ASSUME NEW c \in Clients, Command(c) PROVE SerialInv'
      <3>1. OnlyCommand(c)
        BY <1>2, <2>2 DEF Command, OnlyCommand
      <3> QED
        BY <2>1, <2>2, <3>1, CommandAlone
    <2>3. ASSUME NEW c \in Clients, Continue(c) PROVE SerialInv'
      <3>1. OnlyCommand(c)
        BY <2>1, <2>3 DEF OneAtATime, Continue, StartPermit, StartLock, StartToken, StartInstall,
           PausePort, PauseSend, PauseMark, StopCancel, StopLook, StopMark, StopRelease, StopPort,
           StopCheck, StopIdle, AckClear, AckMark, ProfileCommit
      <3> QED
        BY <2>1, <2>3, <3>1, ContinueAlone
    <2>4. CASE UNCHANGED vars
      BY <2>1, <2>4 DEF SerialInv, IdleSeen, NoWork, ActsOnIdle, SafeIsQuiet, StartSelects, Starting,
         Holding, OwnsSelection, Working, vars, shared, fields, runVars, clientVars
    <2> QED
      BY <2>1, <2>2, <2>3, <2>4, WorkerAlone DEF Next
  <1> QED
    BY <1>1, <1>2, StillOne DEF SerialOrNot

LEMMA SerialFromInit == Init => SerialOrNot
  BY InitSerial DEF Init, SerialOrNot, OneAtATime

(* As long as commands do not overlap, whichever sources they come from,   *)
(* an engine that says Idle has no run at work, and a command that has     *)
(* seen it idle acts on an idle engine.                                    *)
THEOREM SerialCommandsSeeIdle == Spec => []IdleMeansNoWork
  <1>1. SerialOrNot => IdleMeansNoWork
    BY DEF SerialOrNot, SerialInv, IdleSeen, ActsOnIdle, NoWork, IdleMeansNoWork
  <1> QED
    BY <1>1, SerialFromInit, NextSerial, TypeCorrect, RunInvariant, PTL DEF Spec

(* ... and the profile at work is the selected one, in memory and in the   *)
(* store, and nobody has deleted it.                                       *)
THEOREM SerialRunOwnsSelection == Spec => []ActiveRunOwnsSelection
  <1>1. SerialOrNot => ActiveRunOwnsSelection
    BY DEF SerialOrNot, SerialInv, OwnsSelection, ActiveRunOwnsSelection
  <1> QED
    BY <1>1, SerialFromInit, NextSerial, TypeCorrect, RunInvariant, PTL DEF Spec
=============================================================================
