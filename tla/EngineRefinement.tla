-------------------------- MODULE EngineRefinement --------------------------
(***************************************************************************)
(* The engine as an implementation of exclusive runs.                      *)
(***************************************************************************)
EXTENDS Engine

(* A run begins when its token is installed under the worker mutex; from   *)
(* then on it is the one whose JoinHandle the engine holds, until that     *)
(* handle counts as finished.                                              *)
Installing == workerLock \in Clients /\ pc[workerLock] = "install"
CurrentRun ==
  IF Installing THEN req[workerLock].run ELSE IF Alive(handle) THEN handle ELSE NoRun
EndedRuns == {r \in Runs : phase[r] = "done"}

Exclusive == INSTANCE ExclusiveRun WITH
  current <- CurrentRun,
  stopped <- CurrentRun \in cancelled,
  ended   <- EndedRuns

(* The engine implements exclusive runs: a start, a stop and the end of a  *)
(* worker are the abstract steps, everything else is invisible.            *)
ImplementsExclusiveRun == Exclusive!ExclusiveSpec
=============================================================================
