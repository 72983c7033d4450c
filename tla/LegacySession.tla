---------------------------- MODULE LegacySession ----------------------------
(***************************************************************************)
(* The worker of a legacy session (run_legacy_session_worker in            *)
(* crates/nectarpilot-core/src/engine.rs, over the plan that session.rs    *)
(* builds): cycles of due collections and of field rotations, each a       *)
(* travel, a gather that repeats until its time is up and a reset to the   *)
(* hive; one recovery of a failed step; a wall clock over everything.      *)
(* What is known of a collection survives the session, and the daemon, as  *)
(* a time in the store.  One clock stands for Instant and Utc.             *)
(***************************************************************************)
EXTENDS Naturals, Sequences

CONSTANTS
  Rotations,   (* how many fields the profile rotates through               *)
  GatherTime,  (* gather_seconds of each of them                            *)
  Targets,     (* what can be collected                                     *)
  Collect,     (* the collect entries: a target and its cooldown            *)
  MaxCycles, MaxMinutes,   (* the limits of a session                       *)
  Horizon,     (* bound: where the clock of a behaviour stops               *)
  Reconnect,   (* reconnect_enabled of the profile                          *)
  FaultyStore, (* whether a read or a write of a record may fail            *)
  Crashes      (* whether the daemon may die in the middle of a session     *)

Entries == [target : Targets, cooldown : Nat]

ASSUME SessionAssumption ==
  /\ Rotations \in Nat \ {0} /\ GatherTime \in [1..Rotations -> Nat \ {0}]
  /\ Collect \in Seq(Entries)
  /\ MaxCycles \in Nat \ {0} /\ MaxMinutes \in Nat /\ Horizon \in Nat
  /\ Reconnect \in BOOLEAN /\ FaultyStore \in BOOLEAN /\ Crashes \in BOOLEAN

Never == 0
None == 0
Hive == 0
Lost == Rotations + 1

VARIABLES
  now,        (* the clock: it starts at 1                                  *)
  records,    (* collect_last_run of each target, in the store              *)
  pc,         (* where the worker is                                        *)
  cycle,      (* the current cycle                                          *)
  entry,      (* the current collect entry                                  *)
  field, leg, (* the current step: a rotation and a SessionStepKind         *)
  recovered,  (* recovered_once of the current step                         *)
  sessionEnd, fieldEnd,    (* deadlines, None for a step without one        *)
  cancelled, paused,       (* the token and the pause channel               *)
  final, reason,           (* how the session ended                         *)
  place,      (* where the scripts have left the character: a field, the    *)
              (* hive, or nobody knows                                      *)
  collected,  (* when each target was really collected last                 *)
  orphaned,   (* targets with a successful collection after their record    *)
  interrupted,   (* those with one whose script was cut short too late      *)
  repeated,   (* of both, those collected again before their cooldown's end *)
  resets      (* resets that the steps of this session completed            *)

cursor == <<cycle, entry, field, leg, recovered>>
deadlines == <<sessionEnd, fieldEnd>>
commands == <<cancelled, paused>>
verdict == <<final, reason>>
ledger == <<collected, orphaned, interrupted, repeated>>
vars == <<now, records, pc, cursor, deadlines, commands, verdict, place, ledger, resets>>

Legs == {"Travel", "Gather", "ResetConvert"}
Scripts == {"collecting", "returning", "executing", "recovering"}
Checkpoints == {"entry", "step", "attempt"}
Pcs == {"idle", "preflight", "cleanup"} \cup Scripts \cup Checkpoints
Reasons == {"none", "completed", "cancelled", "limit", "failed", "rejected", "storeFailed"}

-----------------------------------------------------------------------------
(* Helpers.                                                                *)

NeverOutOfTime == FALSE
OutOfTime == now >= sessionEnd
FieldOver == fieldEnd # None /\ now >= fieldEnd

EndSession(state, why) == pc' = "cleanup" /\ final' = state /\ reason' = why
Fail == EndSession("NeedsAttention", "failed")

(* TaskContext::checkpoint and the look at the clock that follows it.      *)
Unstopped == ~cancelled /\ ~paused /\ now < sessionEnd
Stopped ==
  \/ cancelled /\ EndSession("Idle", "cancelled")
  \/ ~cancelled /\ ~paused /\ now >= sessionEnd /\ EndSession("Idle", "limit")

(* bounded_legacy_call: cancellation before the session's deadline before  *)
(* the field's before the answer.                                          *)
Answers == ~cancelled /\ ~OutOfTime /\ ~FieldOver
CutShort ==
  \/ cancelled /\ EndSession("Idle", "cancelled")
  \/ ~cancelled /\ OutOfTime /\ EndSession("Idle", "limit")

AlwaysDue(e) == TRUE
Due(e) == records[e.target] = Never \/ now - records[e.target] >= e.cooldown

(* The ghosts: a target is collected now, perhaps too early.               *)
TooEarly(e) == collected[e.target] # Never /\ now - collected[e.target] < e.cooldown
Collects(e) ==
  /\ collected' = [collected EXCEPT ![e.target] = now]
  /\ repeated' = IF TooEarly(e) THEN repeated \cup {e.target} ELSE repeated

-----------------------------------------------------------------------------
(* A session begins; its user has put the character at the hive.           *)
Begin ==
  /\ pc = "idle" /\ now + MaxMinutes <= Horizon
  /\ pc' = "preflight"
  /\ cycle' = 1 /\ entry' = 1 /\ field' = 1 /\ leg' = "Travel" /\ recovered' = FALSE
  /\ sessionEnd' = now + MaxMinutes /\ fieldEnd' = None
  /\ cancelled' = FALSE /\ paused' = FALSE
  /\ final' = "Idle" /\ reason' = "none"
  /\ place' = Hive /\ resets' = 0
  /\ UNCHANGED <<now, records, ledger>>

Preflight ==
  /\ pc = "preflight"
  /\ \/ pc' = "entry" /\ UNCHANGED verdict
     \/ EndSession("Idle", IF cancelled THEN "cancelled" ELSE "rejected")
  /\ UNCHANGED <<now, records, cursor, deadlines, commands, place, ledger, resets>>

-----------------------------------------------------------------------------
(* Collections, at the boundary of a cycle.                                *)

CollectEntry ==
  /\ pc = "entry" /\ entry <= Len(Collect)
  /\ \/ Stopped /\ UNCHANGED entry
     \/ Unstopped /\ FaultyStore /\ EndSession("Faulted", "storeFailed") /\ UNCHANGED entry
     \/ /\ Unstopped /\ ~Due(Collect[entry])
        /\ entry' = entry + 1 /\ UNCHANGED <<pc, verdict>>
     \/ /\ Unstopped /\ Due(Collect[entry])
        /\ pc' = "collecting" /\ UNCHANGED <<entry, verdict>>
  /\ UNCHANGED <<now, records, cycle, field, leg, recovered, deadlines, commands, place,
                 ledger, resets>>

CollectsEnd ==
  /\ pc = "entry" /\ entry > Len(Collect)
  /\ pc' = "step" /\ field' = 1 /\ leg' = "Travel"
  /\ UNCHANGED <<now, records, cycle, entry, recovered, deadlines, commands, verdict, place,
                 ledger, resets>>

(* The script of a collection.  One that is cut short may have collected   *)
(* all the same.                                                           *)
Collecting ==
  LET e == Collect[entry] IN
  /\ pc = "collecting"
  /\ place' = Lost
  /\ \/ /\ Answers /\ pc' = "returning" /\ Collects(e)
        /\ UNCHANGED <<orphaned, interrupted, verdict>>
     \/ /\ (Answers /\ Fail) \/ CutShort
        /\ \/ UNCHANGED ledger
           \/ /\ Collects(e)
              /\ interrupted' = interrupted \cup {e.target} /\ UNCHANGED orphaned
  /\ UNCHANGED <<now, records, cursor, deadlines, commands, resets>>

(* The reset that follows it without another checkpoint; only then is the  *)
(* collection recorded.                                                    *)
Returning ==
  LET e == Collect[entry] IN
  /\ pc = "returning"
  /\ \/ /\ Answers
        /\ records' = [records EXCEPT ![e.target] = now]
        /\ pc' = "entry" /\ entry' = entry + 1 /\ place' = Hive
        /\ orphaned' = orphaned \ {e.target} /\ interrupted' = interrupted \ {e.target}
        /\ repeated' = repeated \ {e.target}
        /\ UNCHANGED verdict
     \/ /\ \/ Answers /\ Fail
           \/ Answers /\ FaultyStore /\ EndSession("Faulted", "storeFailed")
           \/ CutShort
        /\ orphaned' = orphaned \cup {e.target} /\ place' = Lost
        /\ UNCHANGED <<records, entry, interrupted, repeated>>
  /\ UNCHANGED <<now, cycle, field, leg, recovered, deadlines, commands, collected, resets>>

-----------------------------------------------------------------------------
(* The steps of the rotations.                                             *)

KeepDeadline(kind) == IF kind = "Gather" THEN now + GatherTime[field] ELSE fieldEnd
FieldDeadline(kind) == IF kind = "Gather" THEN now + GatherTime[field] ELSE None

BeginStep ==
  /\ pc = "step" /\ field <= Rotations
  /\ \/ Stopped /\ UNCHANGED <<fieldEnd, recovered>>
     \/ /\ Unstopped
        /\ fieldEnd' = FieldDeadline(leg) /\ recovered' = FALSE
        /\ pc' = "attempt" /\ UNCHANGED verdict
  /\ UNCHANGED <<now, records, cycle, entry, field, leg, sessionEnd, commands, place, ledger,
                 resets>>

LastCycle == cycle = MaxCycles

CycleEnds ==
  /\ pc = "step" /\ field > Rotations
  /\ \/ /\ LastCycle /\ EndSession("Idle", "completed")
        /\ UNCHANGED <<cycle, entry, fieldEnd>>
     \/ /\ ~LastCycle
        /\ cycle' = cycle + 1 /\ entry' = 1 /\ fieldEnd' = None /\ pc' = "entry"
        /\ UNCHANGED verdict
  /\ UNCHANGED <<now, records, field, leg, recovered, sessionEnd, commands, place, ledger,
                 resets>>

NextStep ==
  /\ pc' = "step"
  /\ \/ leg = "Travel" /\ leg' = "Gather" /\ UNCHANGED field
     \/ leg = "Gather" /\ leg' = "ResetConvert" /\ UNCHANGED field
     \/ leg = "ResetConvert" /\ leg' = "Travel" /\ field' = field + 1

Attempt ==
  /\ pc = "attempt"
  /\ \/ Stopped /\ UNCHANGED <<field, leg>>
     \/ Unstopped /\ FieldOver /\ NextStep /\ UNCHANGED verdict
     \/ /\ Unstopped /\ ~FieldOver
        /\ pc' = "executing" /\ UNCHANGED <<field, leg, verdict>>
  /\ UNCHANGED <<now, records, cycle, entry, recovered, deadlines, commands, place, ledger,
                 resets>>

Arrival == IF leg = "Travel" THEN field ELSE IF leg = "Gather" THEN place ELSE Hive
MayRecover == Reconnect /\ ~recovered

(* The script of a step succeeds: a gather goes on, the others are done    *)
(* after their single repetition.                                          *)
StepSucceeds ==
  /\ pc = "executing" /\ Answers
  /\ recovered' = FALSE /\ place' = Arrival
  /\ resets' = IF leg = "ResetConvert" THEN resets + 1 ELSE resets
  /\ \/ leg = "Gather" /\ pc' = "attempt" /\ UNCHANGED <<field, leg>>
     \/ leg # "Gather" /\ NextStep
  /\ UNCHANGED <<now, records, cycle, entry, deadlines, commands, verdict, ledger>>

StepFails ==
  /\ pc = "executing"
  /\ \/ Answers /\ MayRecover /\ pc' = "recovering" /\ UNCHANGED verdict
     \/ Answers /\ ~MayRecover /\ Fail
     \/ Answers /\ EndSession("Idle", "cancelled")
     \/ CutShort
  /\ place' = Lost
  /\ UNCHANGED <<now, records, cursor, deadlines, commands, ledger, resets>>

(* A gather whose time is up is cut off where it stands.                   *)
GatherEnds ==
  /\ pc = "executing" /\ ~cancelled /\ ~OutOfTime /\ FieldOver
  /\ NextStep
  /\ UNCHANGED <<now, records, cycle, entry, recovered, deadlines, commands, verdict, place,
                 ledger, resets>>

RetryAny(kind) == TRUE
RetryAfter(kind) == kind # "Gather"

(* A recovery ends at the hive: what may be tried again there is.          *)
Recovers ==
  /\ pc = "recovering" /\ Answers
  /\ place' = Hive
  /\ \/ RetryAfter(leg) /\ recovered' = TRUE /\ pc' = "attempt" /\ UNCHANGED verdict
     \/ ~RetryAfter(leg) /\ Fail /\ UNCHANGED recovered
  /\ UNCHANGED <<now, records, cycle, entry, field, leg, deadlines, commands, ledger, resets>>

RecoveryFails ==
  /\ pc = "recovering"
  /\ \/ Answers /\ Fail
     \/ CutShort
     \/ ~cancelled /\ ~OutOfTime /\ FieldOver /\ Fail
  /\ UNCHANGED <<now, records, cursor, deadlines, commands, place, ledger, resets>>

Cleanup ==
  /\ pc = "cleanup"
  /\ pc' = "idle"
  /\ UNCHANGED <<now, records, cursor, deadlines, commands, verdict, place, ledger, resets>>

-----------------------------------------------------------------------------
(* Commands, the clock, and the end of the daemon.                         *)

(* A stop finds a token only while a session runs.                         *)
Cancel ==
  /\ cancelled' = (cancelled \/ pc # "idle")
  /\ UNCHANGED <<now, records, pc, cursor, deadlines, paused, verdict, place, ledger, resets>>

(* Neither pause nor resume is admitted during a recovery.                 *)
SetPaused ==
  /\ pc \in (Scripts \ {"recovering"}) \cup Checkpoints
  /\ paused' = ~paused
  /\ UNCHANGED <<now, records, pc, cursor, deadlines, cancelled, verdict, place, ledger,
                 resets>>

Tick ==
  /\ now < Horizon
  /\ now' = now + 1
  /\ UNCHANGED <<records, pc, cursor, deadlines, commands, verdict, place, ledger, resets>>

(* The daemon dies: only the records survive.                              *)
Crash ==
  /\ Crashes /\ pc # "idle"
  /\ pc' = "idle" /\ place' = Lost
  /\ orphaned' = IF pc = "returning" THEN orphaned \cup {Collect[entry].target} ELSE orphaned
  /\ UNCHANGED <<now, records, cursor, deadlines, commands, verdict, collected, interrupted,
                 repeated, resets>>

-----------------------------------------------------------------------------
Init ==
  /\ now = 1 /\ records = [x \in Targets |-> Never]
  /\ pc = "idle" /\ cycle = 1 /\ entry = 1 /\ field = 1 /\ leg = "Travel"
  /\ recovered = FALSE /\ sessionEnd = 1 /\ fieldEnd = None
  /\ cancelled = FALSE /\ paused = FALSE /\ final = "Idle" /\ reason = "none"
  /\ place = Hive /\ collected = [x \in Targets |-> Never]
  /\ orphaned = {} /\ interrupted = {} /\ repeated = {} /\ resets = 0

(* What the worker does whether or not a script ever answers.              *)
Supervise ==
  \/ Preflight \/ CollectEntry \/ CollectsEnd \/ BeginStep \/ CycleEnds \/ Attempt
  \/ GatherEnds \/ Cleanup
  \/ pc \in Scripts /\ (cancelled \/ OutOfTime \/ FieldOver)
     /\ (Collecting \/ Returning \/ StepFails \/ RecoveryFails)

Script ==
  \/ Collecting \/ Returning \/ StepSucceeds \/ StepFails \/ Recovers \/ RecoveryFails

Next ==
  \/ Begin \/ Supervise \/ Script
  \/ Cancel \/ SetPaused \/ Tick \/ Crash

Spec == Init /\ [][Next]_vars

(* Time passes and the worker is scheduled; no script need ever end.       *)
Fairness == WF_vars(Tick) /\ WF_vars(Supervise)
FairSpec == Spec /\ Fairness

-----------------------------------------------------------------------------
(* Properties.                                                             *)

StoreTyped ==
  /\ now \in Nat \ {0} /\ records \in [Targets -> Nat]
  /\ collected \in [Targets -> Nat]
  /\ orphaned \subseteq Targets /\ interrupted \subseteq Targets /\ repeated \subseteq Targets
PositionTyped ==
  /\ pc \in Pcs /\ cycle \in 1..MaxCycles /\ entry \in 1..(Len(Collect) + 1)
  /\ field \in 1..(Rotations + 1) /\ leg \in Legs /\ recovered \in BOOLEAN
  /\ place \in {Hive, Lost} \cup (1..Rotations) /\ resets \in Nat
CommandsTyped ==
  /\ sessionEnd \in Nat /\ fieldEnd \in Nat
  /\ cancelled \in BOOLEAN /\ paused \in BOOLEAN
  /\ final \in {"Idle", "NeedsAttention", "Faulted"} /\ reason \in Reasons

(* Every variable keeps its type.                                          *)
TypeOK == StoreTyped /\ PositionTyped /\ CommandsTyped

(* A script starts where its route begins: a gather in the field that was  *)
(* travelled to, a travel and a collection at the hive, whatever failed,   *)
(* was cut off or recovered before.                                        *)
ScriptsStartInPlace ==
  /\ pc = "executing" /\ leg = "Gather" => place = field
  /\ pc = "executing" /\ leg = "Travel" => place = Hive
  /\ pc = "collecting" => place = Hive

(* A session that says it has completed has been back at the hive after    *)
(* every field of every cycle.                                             *)
CompletedMeansDone ==
  pc = "cleanup" /\ reason = "completed" => resets = MaxCycles * Rotations

(* Within its cooldown a target is collected again only if a collection    *)
(* after its last record was cut off from one: by a failed or interrupted  *)
(* reset, a failed write, the end of the daemon, or in its own script.     *)
RepeatsOnlyUnrecorded == repeated \subseteq orphaned \cup interrupted

(* A session that is not held back by a pause ends, even if every script   *)
(* it starts hangs.                                                        *)
SessionEnds == <>[]~paused => []<>(pc = "idle")

(* What is said of the cooldowns: the record is the time of the last       *)
(* successful run, and a session faults instead of risking a repeated      *)
(* collection.  So what was collected by a script that reported its        *)
(* success is not collected again before its cooldown is over.             *)
SuccessNotRepeated == repeated \subseteq interrupted
=============================================================================
