------------------------ MODULE LegacySessionProofs ------------------------
(***************************************************************************)
(* What holds of a session for every rotation, every list of collections   *)
(* and any limits.                                                         *)
(***************************************************************************)
EXTENDS LegacySession, TLAPS

AtStep == {"attempt", "executing", "recovering"}
AtCollect == {"collecting", "returning"}

(* Where the scripts have left the character, wherever the worker may      *)
(* start the next one; and only a gather has a deadline of its own.        *)
Routes ==
  /\ pc \in {"preflight", "entry", "collecting"} => place = Hive
  /\ pc \in {"step", "attempt", "executing"} /\ leg = "Travel" => place = Hive
  /\ pc \in {"step", "attempt", "executing"} /\ leg = "Gather" => place = field
  /\ pc = "step" /\ field > Rotations => leg = "Travel"
  /\ pc \in AtStep => field <= Rotations /\ (fieldEnd # None => leg = "Gather")
  /\ pc \in AtCollect => entry <= Len(Collect)

(* How many fields of the session lie behind the current position.         *)
Behind(c, f) == (c - 1) * Rotations + (f - 1)

(* Every field that lies behind has been left by a reset.                  *)
ResetsMade ==
  /\ pc = "preflight" => cycle = 1 /\ resets = 0
  /\ pc \in {"entry"} \cup AtCollect => resets = Behind(cycle, 1)
  /\ pc \in {"step"} \cup AtStep => resets = Behind(cycle, field)
  /\ CompletedMeansDone

Unrecorded == orphaned \cup interrupted

(* A collection is recorded, known to the ghosts, or on its way back.      *)
Accounted(x) ==
  \/ x \in Unrecorded \/ collected[x] <= records[x]
  \/ pc = "returning" /\ Collect[entry].target = x

(* The times of the past are past; a collection starts only when due.      *)
Ledger ==
  /\ \A x \in Targets : records[x] <= now /\ collected[x] <= now /\ Accounted(x)
  /\ pc = "collecting" => Due(Collect[entry])
  /\ RepeatsOnlyUnrecorded

SessionInv == Routes /\ ResetsMade /\ Ledger

-----------------------------------------------------------------------------
LEMMA LimitsTyped ==
  /\ Rotations \in Nat \ {0} /\ MaxCycles \in Nat \ {0} /\ MaxMinutes \in Nat
  /\ Len(Collect) \in Nat
  <1>1. Rotations \in Nat \ {0} /\ MaxCycles \in Nat \ {0} /\ MaxMinutes \in Nat
    BY SessionAssumption, Zenon
  <1>2. Collect \in Seq(Entries)
    BY SessionAssumption, Zenon
  <1> QED
    BY <1>1, <1>2

LEMMA EntryTyped ==
  ASSUME NEW i \in 1..Len(Collect)
  PROVE  Collect[i].target \in Targets /\ Collect[i].cooldown \in Nat
  <1>1. Collect[i] \in Entries
    BY SessionAssumption
  <1> QED
    BY <1>1 DEF Entries

(* A collection in progress names an entry, and so a target.               *)
LEMMA TargetTyped ==
  ASSUME PositionTyped, Routes, pc \in AtCollect
  PROVE  entry \in 1..Len(Collect) /\ Collect[entry].target \in Targets
  <1>1. entry \in 1..Len(Collect)
    BY LimitsTyped DEF PositionTyped, Routes
  <1> QED
    BY <1>1, EntryTyped

LEMMA InitTyped == Init => TypeOK
  <1> SUFFICES ASSUME Init PROVE TypeOK
    OBVIOUS
  <1>1. StoreTyped
    BY DEF Init, StoreTyped, Never
  <1>2. PositionTyped
    <2>1. /\ pc \in Pcs /\ leg \in Legs /\ recovered \in BOOLEAN
          /\ place \in {Hive, Lost} \cup (1..Rotations)
      BY DEF Init, Pcs, Legs
    <2>2. /\ cycle \in 1..MaxCycles /\ entry \in 1..(Len(Collect) + 1)
          /\ field \in 1..(Rotations + 1) /\ resets \in Nat
      BY LimitsTyped DEF Init
    <2> QED
      BY <2>1, <2>2 DEF PositionTyped
  <1>3. CommandsTyped
    BY DEF Init, CommandsTyped, Reasons, None
  <1> QED
    BY <1>1, <1>2, <1>3 DEF TypeOK

(* Only a collection, its reset, the clock and a crash touch what outlives *)
(* a session.                                                              *)
StoreAlone == UNCHANGED <<now, records, ledger>>

LEMMA StoreTouched ==
  ASSUME [Next]_vars
  PROVE  StoreAlone \/ Collecting \/ Returning \/ Tick \/ Crash
  <1>1. CASE Begin \/ Preflight \/ CollectEntry \/ CollectsEnd
    BY <1>1 DEF Begin, Preflight, CollectEntry, CollectsEnd, StoreAlone
  <1>2. CASE BeginStep \/ CycleEnds \/ Attempt \/ StepSucceeds \/ StepFails \/ GatherEnds
    BY <1>2 DEF BeginStep, CycleEnds, Attempt, StepSucceeds, StepFails, GatherEnds, StoreAlone
  <1>3. CASE Recovers \/ RecoveryFails \/ Cleanup \/ Cancel \/ SetPaused
    BY <1>3 DEF Recovers, RecoveryFails, Cleanup, Cancel, SetPaused, StoreAlone
  <1>4. CASE UNCHANGED vars
    BY <1>4 DEF vars, StoreAlone
  <1> QED
    BY <1>1, <1>2, <1>3, <1>4 DEF Next, Supervise, Script

LEMMA StoreKept ==
  ASSUME TypeOK, Routes, [Next]_vars
  PROVE  StoreTyped'
  <1> USE DEF TypeOK, StoreTyped, ledger
  <1>1. CASE StoreAlone
    BY <1>1 DEF StoreAlone
  <1>2. CASE Collecting
    <2> DEFINE x == Collect[entry].target
    <2>1. x \in Targets
      BY <1>2, TargetTyped DEF Collecting, AtCollect
    <2>2. now' = now /\ records' = records
      BY <1>2 DEF Collecting
    <2>3. \/ UNCHANGED ledger
          \/ /\ Collects(Collect[entry]) /\ UNCHANGED orphaned
             /\ interrupted' \in {interrupted, interrupted \cup {x}}
      BY <1>2 DEF Collecting
    <2> QED
      BY <2>1, <2>2, <2>3 DEF Collects
  <1>3. CASE Returning
    <2> DEFINE x == Collect[entry].target
    <2>1. x \in Targets
      BY <1>3, TargetTyped DEF Returning, AtCollect
    <2>2. /\ UNCHANGED <<now, collected>> /\ repeated' \subseteq repeated
          /\ interrupted' \subseteq interrupted
      BY <1>3 DEF Returning
    <2>3. /\ records' \in {records, [records EXCEPT ![x] = now]}
          /\ orphaned' \subseteq orphaned \cup {x}
      BY <1>3 DEF Returning
    <2> QED
      BY <2>1, <2>2, <2>3
  <1>4. CASE Tick
    BY <1>4 DEF Tick
  <1>5. CASE Crash
    <2>1. pc = "returning" => Collect[entry].target \in Targets
      BY TargetTyped DEF AtCollect
    <2> QED
      BY <1>5, <2>1 DEF Crash
  <1> QED
    BY <1>1, <1>2, <1>3, <1>4, <1>5, StoreTouched

LEMMA CommandsKept ==
  ASSUME TypeOK, [Next]_vars
  PROVE  CommandsTyped'
  <1> USE DEF TypeOK, CommandsTyped, deadlines, commands, verdict, EndSession, Fail, Reasons
  <1>1. CASE Begin
    <2>1. sessionEnd' \in Nat
      BY <1>1, LimitsTyped DEF Begin, StoreTyped
    <2>2. fieldEnd' \in Nat
      BY <1>1 DEF Begin, None
    <2>3. /\ cancelled' \in BOOLEAN /\ paused' \in BOOLEAN
          /\ final' \in {"Idle"} /\ reason' \in Reasons
      BY <1>1 DEF Begin
    <2> QED
      BY <2>1, <2>2, <2>3
  <1>2. CASE Preflight \/ CollectEntry \/ CollectsEnd
    BY <1>2 DEF Preflight, CollectEntry, CollectsEnd, Stopped
  <1>3. CASE Collecting \/ Returning
    BY <1>3 DEF Collecting, Returning, CutShort
  <1>4. CASE BeginStep
    <2>1. FieldDeadline(leg) \in Nat
      <3>1. field \in 1..Rotations
        BY <1>4, SessionAssumption DEF BeginStep, PositionTyped
      <3>2. GatherTime[field] \in Nat
        BY <3>1, SessionAssumption
      <3> QED
        BY <3>2 DEF FieldDeadline, StoreTyped, None
    <2> QED
      BY <1>4, <2>1 DEF BeginStep, Stopped
  <1>5. CASE CycleEnds \/ Attempt
    BY <1>5 DEF CycleEnds, Attempt, Stopped, None
  <1>6. CASE StepSucceeds \/ StepFails \/ GatherEnds
    BY <1>6 DEF StepSucceeds, StepFails, GatherEnds, CutShort
  <1>7. CASE Recovers \/ RecoveryFails \/ Cleanup
    BY <1>7 DEF Recovers, RecoveryFails, CutShort, Cleanup
  <1>8. CASE Cancel \/ SetPaused \/ Tick \/ Crash
    BY <1>8 DEF Cancel, SetPaused, Tick, Crash
  <1>9. CASE UNCHANGED vars
    BY <1>9 DEF vars
  <1> QED
    BY <1>1, <1>2, <1>3, <1>4, <1>5, <1>6, <1>7, <1>8, <1>9 DEF Next, Supervise, Script

-----------------------------------------------------------------------------
LEMMA PositionKept ==
  ASSUME TypeOK, Routes, [Next]_vars
  PROVE  PositionTyped'
  <1> USE DEF TypeOK, PositionTyped, cursor, EndSession, Fail
  <1>a. {"idle", "preflight", "entry", "step", "attempt", "cleanup", "collecting", "returning",
         "executing", "recovering"} \subseteq Pcs
    BY DEF Pcs, Scripts, Checkpoints
  <1>b. {Hive, Lost} \subseteq {Hive, Lost} \cup (1..Rotations)
    OBVIOUS
  <1>1. CASE Begin
    <2>1. /\ pc' \in Pcs /\ leg' \in Legs /\ recovered' \in BOOLEAN
          /\ place' \in {Hive, Lost} \cup (1..Rotations)
      BY <1>1, <1>a DEF Begin, Legs
    <2>2. /\ cycle' \in 1..MaxCycles /\ entry' \in 1..(Len(Collect) + 1)
          /\ field' \in 1..(Rotations + 1) /\ resets' \in Nat
      BY <1>1, LimitsTyped DEF Begin
    <2> QED
      BY <2>1, <2>2
  <1>2. CASE Preflight \/ Cleanup \/ Crash \/ CollectsEnd
    BY <1>2, <1>a, LimitsTyped DEF Preflight, Cleanup, Crash, CollectsEnd, Legs
  <1>3. CASE CollectEntry
    BY <1>3, <1>a, LimitsTyped DEF CollectEntry, Stopped
  <1>4. CASE Collecting
    BY <1>4, <1>a DEF Collecting, CutShort
  <1>5. CASE Returning
    <2>1. entry \in 1..Len(Collect)
      BY <1>5, TargetTyped DEF Returning, AtCollect
    <2>2. entry' \in {entry, entry + 1} /\ place' \in {Hive, Lost} /\ pc' \in Pcs
      BY <1>5, <1>a DEF Returning, CutShort
    <2>3. UNCHANGED <<cycle, field, leg, recovered, resets>>
      BY <1>5 DEF Returning
    <2> QED
      BY <2>1, <2>2, <2>3, LimitsTyped
  <1>6. CASE BeginStep
    <2>1. recovered' \in BOOLEAN /\ pc' \in Pcs
      BY <1>6, <1>a DEF BeginStep, Stopped
    <2> QED
      BY <1>6, <2>1 DEF BeginStep
  <1>7. CASE CycleEnds
    BY <1>7, <1>a, LimitsTyped DEF CycleEnds, LastCycle
  <1>8. CASE Attempt \/ GatherEnds
    <2>1. field \in 1..Rotations /\ field' \in {field, field + 1} /\ leg' \in Legs /\ pc' \in Pcs
      BY <1>8, <1>a, LimitsTyped DEF Attempt, GatherEnds, Stopped, NextStep, Legs, Routes, AtStep
    <2>2. UNCHANGED <<cycle, entry, recovered, place, resets>>
      BY <1>8 DEF Attempt, GatherEnds
    <2> QED
      BY <2>1, <2>2, LimitsTyped
  <1>9. CASE StepSucceeds
    <2>1. field \in 1..Rotations /\ field' \in {field, field + 1} /\ leg' \in Legs /\ pc' \in Pcs
      BY <1>9, <1>a, LimitsTyped DEF StepSucceeds, NextStep, Legs, Routes, AtStep
    <2>2. place' \in {Hive, Lost} \cup (1..Rotations)
      BY <1>9, <2>1 DEF StepSucceeds, Arrival
    <2>3. recovered' \in BOOLEAN /\ UNCHANGED <<cycle, entry>>
      BY <1>9 DEF StepSucceeds
    <2>4. resets' \in Nat
      BY <1>9 DEF StepSucceeds
    <2> QED
      BY <2>1, <2>2, <2>3, <2>4, LimitsTyped
  <1>10. CASE StepFails \/ RecoveryFails
    BY <1>10, <1>a DEF StepFails, RecoveryFails, CutShort
  <1>11. CASE Recovers
    <2>1. recovered' \in BOOLEAN /\ pc' \in Pcs
      BY <1>11, <1>a DEF Recovers
    <2> QED
      BY <1>11, <2>1 DEF Recovers
  <1>12. CASE Cancel \/ SetPaused \/ Tick
    BY <1>12 DEF Cancel, SetPaused, Tick
  <1>13. CASE UNCHANGED vars
    BY <1>13 DEF vars
  <1> QED
    BY <1>1, <1>2, <1>3, <1>4, <1>5, <1>6, <1>7, <1>8, <1>9, <1>10, <1>11, <1>12, <1>13
    DEF Next, Supervise, Script

-----------------------------------------------------------------------------
LEMMA InitRoutes == Init => Routes
  BY DEF Init, Routes, AtStep, AtCollect

(* A step whose own time is over is a gather.                              *)
LEMMA OverIsGather ==
  ASSUME Routes, pc \in AtStep, FieldOver
  PROVE  leg = "Gather"
  BY DEF Routes, FieldOver

LEMMA RoutesKept ==
  ASSUME TypeOK, Routes, [Next]_vars
  PROVE  Routes'
  <1> USE DEF TypeOK, PositionTyped, Routes, AtStep, AtCollect, cursor, EndSession, Fail
  <1>1. CASE Begin
    BY <1>1 DEF Begin
  <1>2. CASE Preflight \/ Cleanup \/ Crash
    BY <1>2 DEF Preflight, Cleanup, Crash
  <1>3. CASE CollectEntry
    BY <1>3 DEF CollectEntry, Stopped
  <1>4. CASE CollectsEnd
    BY <1>4, LimitsTyped DEF CollectsEnd
  <1>5. CASE Collecting
    BY <1>5 DEF Collecting, CutShort
  <1>6. CASE Returning
    BY <1>6 DEF Returning, CutShort
  <1>7. CASE BeginStep
    BY <1>7 DEF BeginStep, Stopped, FieldDeadline
  <1>8. CASE CycleEnds
    BY <1>8 DEF CycleEnds
  <1>9. CASE Attempt
    <2>1. CASE Unstopped /\ FieldOver /\ NextStep
      <3>1. leg = "Gather"
        BY <1>9, <2>1, OverIsGather DEF Attempt
      <3> QED
        BY <1>9, <2>1, <3>1, LimitsTyped DEF Attempt, NextStep
    <2>2. CASE pc' # "step"
      BY <1>9, <2>2 DEF Attempt, Stopped, NextStep, deadlines
    <2> QED
      BY <1>9, <2>1, <2>2 DEF Attempt, Stopped
  <1>10. CASE StepSucceeds
    BY <1>10, LimitsTyped DEF StepSucceeds, NextStep, Arrival, Legs, deadlines
  <1>11. CASE StepFails
    BY <1>11 DEF StepFails, CutShort, deadlines
  <1>12. CASE GatherEnds
    <2>1. leg = "Gather"
      BY <1>12, OverIsGather DEF GatherEnds
    <2> QED
      BY <1>12, <2>1, LimitsTyped DEF GatherEnds, NextStep
  <1>13. CASE Recovers
    BY <1>13 DEF Recovers, RetryAfter, deadlines
  <1>14. CASE RecoveryFails
    BY <1>14 DEF RecoveryFails, CutShort
  <1>15. CASE Cancel \/ SetPaused \/ Tick
    BY <1>15 DEF Cancel, SetPaused, Tick, deadlines
  <1>16. CASE UNCHANGED vars
    BY <1>16 DEF vars, deadlines
  <1> QED
    BY <1>1, <1>2, <1>3, <1>4, <1>5, <1>6, <1>7, <1>8, <1>9, <1>10, <1>11, <1>12, <1>13, <1>14,
       <1>15, <1>16 DEF Next, Supervise, Script

-----------------------------------------------------------------------------
LEMMA InitResets == Init => ResetsMade
  BY DEF Init, ResetsMade, AtStep, AtCollect, CompletedMeansDone

LEMMA BehindAdds ==
  ASSUME NEW c \in Nat \ {0}, NEW f \in Nat
  PROVE  /\ Behind(c, f + 1) = Behind(c, f) + 1
         /\ Behind(c, Rotations + 1) = c * Rotations
         /\ Behind(c + 1, 1) = c * Rotations /\ Behind(1, 1) = 0
  <1>1. (c - 1) * Rotations + Rotations = c * Rotations
    BY LimitsTyped
  <1>2. c * Rotations \in Nat /\ (c - 1) * Rotations \in Nat
    BY LimitsTyped
  <1> QED
    BY <1>1, <1>2, LimitsTyped DEF Behind

LEMMA ResetsKept ==
  ASSUME TypeOK, Routes, ResetsMade, [Next]_vars
  PROVE  ResetsMade'
  <1> USE DEF TypeOK, PositionTyped, ResetsMade, CompletedMeansDone, AtStep, AtCollect, cursor,
              EndSession, Fail
  <1>1. CASE Begin
    BY <1>1 DEF Begin
  <1>2. CASE Preflight
    <2>1. Behind(1, 1) = 0
      BY BehindAdds
    <2> QED
      BY <1>2, <2>1 DEF Preflight
  <1>3. CASE CollectEntry
    BY <1>3 DEF CollectEntry, Stopped
  <1>4. CASE CollectsEnd
    BY <1>4 DEF CollectsEnd
  <1>5. CASE Collecting \/ Returning
    BY <1>5 DEF Collecting, Returning, CutShort
  <1>6. CASE BeginStep
    BY <1>6 DEF BeginStep, Stopped
  <1>7. CASE CycleEnds
    <2>1. field = Rotations + 1
      BY <1>7, LimitsTyped DEF CycleEnds
    <2>2. resets = cycle * Rotations
      BY <1>7, <2>1, BehindAdds, LimitsTyped DEF CycleEnds
    <2>3. CASE LastCycle
      BY <1>7, <2>2, <2>3 DEF CycleEnds, LastCycle
    <2>4. CASE ~LastCycle
      <3>1. cycle' = cycle + 1 /\ pc' = "entry" /\ resets' = resets
        BY <1>7, <2>4 DEF CycleEnds
      <3>2. cycle \in Nat \ {0}
        BY LimitsTyped
      <3>3. Behind(cycle', 1) = cycle * Rotations
        BY <3>1, <3>2, BehindAdds
      <3> QED
        BY <2>2, <3>1, <3>3
    <2> QED
      BY <2>3, <2>4
  <1>8. CASE Attempt
    <2>1. CASE Unstopped /\ FieldOver /\ NextStep
      <3>1. leg = "Gather"
        BY <1>8, <2>1, OverIsGather DEF Attempt
      <3> QED
        BY <1>8, <2>1, <3>1 DEF Attempt, NextStep
    <2>2. CASE ~(Unstopped /\ FieldOver /\ NextStep)
      BY <1>8, <2>2 DEF Attempt, Stopped
    <2> QED
      BY <2>1, <2>2
  <1>9. CASE StepSucceeds
    <2>1. CASE leg = "ResetConvert"
      <3>1. field' = field + 1 /\ resets' = resets + 1 /\ pc' = "step" /\ cycle' = cycle
        BY <1>9, <2>1 DEF StepSucceeds, NextStep
      <3>2. resets = Behind(cycle, field) /\ cycle \in Nat \ {0} /\ field \in Nat
        BY <1>9, LimitsTyped DEF StepSucceeds
      <3> QED
        BY <3>1, <3>2, BehindAdds
    <2>2. CASE leg # "ResetConvert"
      BY <1>9, <2>2 DEF StepSucceeds, NextStep
    <2> QED
      BY <2>1, <2>2
  <1>10. CASE StepFails \/ RecoveryFails
    BY <1>10 DEF StepFails, RecoveryFails, CutShort
  <1>11. CASE GatherEnds
    <2>1. leg = "Gather"
      BY <1>11, OverIsGather DEF GatherEnds
    <2> QED
      BY <1>11, <2>1 DEF GatherEnds, NextStep
  <1>12. CASE Recovers
    BY <1>12 DEF Recovers
  <1>13. CASE Cleanup \/ Cancel \/ SetPaused \/ Tick \/ Crash
    BY <1>13 DEF Cleanup, Cancel, SetPaused, Tick, Crash, verdict
  <1>14. CASE UNCHANGED vars
    BY <1>14 DEF vars, verdict
  <1> QED
    BY <1>1, <1>2, <1>3, <1>4, <1>5, <1>6, <1>7, <1>8, <1>9, <1>10, <1>11, <1>12, <1>13, <1>14
    DEF Next, Supervise, Script

-----------------------------------------------------------------------------
LEMMA InitLedger == Init => Ledger
  BY DEF Init, Ledger, Accounted, RepeatsOnlyUnrecorded, Never

(* What is due by its record is not repeated too early, if the record is   *)
(* that of its last collection.                                            *)
LEMMA DueIsNotEarly ==
  ASSUME TypeOK, Routes, Ledger, pc = "collecting", Collect[entry].target \notin Unrecorded
  PROVE  ~TooEarly(Collect[entry])
  <1> DEFINE e == Collect[entry]
  <1>1. e.target \in Targets /\ e.cooldown \in Nat
    BY EntryTyped, TargetTyped DEF TypeOK, AtCollect
  <1>2. collected[e.target] <= records[e.target] /\ records[e.target] <= now
    BY <1>1 DEF Ledger, Accounted
  <1>3. records[e.target] = Never \/ now - records[e.target] >= e.cooldown
    BY DEF Ledger, Due
  <1>4. now \in Nat /\ records[e.target] \in Nat /\ collected[e.target] \in Nat
    BY <1>1 DEF TypeOK, StoreTyped
  <1> QED
    BY <1>1, <1>2, <1>3, <1>4 DEF TooEarly, Never

LEMMA LedgerKept ==
  ASSUME TypeOK, Routes, Ledger, [Next]_vars
  PROVE  Ledger'
  <1> USE DEF RepeatsOnlyUnrecorded
  <1>1. CASE Collecting
    <2> DEFINE x == Collect[entry].target
    <2>1. x \in Targets
      BY <1>1, TargetTyped DEF Collecting, AtCollect, TypeOK
    <2>2. UNCHANGED <<now, records, entry>> /\ pc # "returning" /\ pc' # "collecting"
      BY <1>1 DEF Collecting, cursor, Fail, EndSession, CutShort
    <2>3. CASE UNCHANGED ledger
      BY <2>2, <2>3 DEF Ledger, Accounted, ledger, Unrecorded
    <2>4. CASE Collects(Collect[entry]) /\ Unrecorded \subseteq Unrecorded'
               /\ (x \in Unrecorded' \/ pc' = "returning")
      <3>1. /\ \A y \in Targets : collected'[y] = IF y = x THEN now ELSE collected[y]
            /\ repeated' \in {repeated, repeated \cup {x}}
            /\ TooEarly(Collect[entry]) \/ repeated' = repeated
        BY <2>4 DEF Collects, TypeOK, StoreTyped
      <3>2. TooEarly(Collect[entry]) => x \in Unrecorded
        BY <1>1, DueIsNotEarly DEF Collecting
      <3>3. repeated' \subseteq Unrecorded'
        BY <2>4, <3>1, <3>2 DEF Ledger, Unrecorded
      <3>4. ASSUME NEW y \in Targets
            PROVE  records'[y] <= now' /\ collected'[y] <= now' /\ Accounted(y)'
        <4>1. records[y] <= now /\ collected[y] <= now /\ Accounted(y) /\ now \in Nat
          BY DEF Ledger, TypeOK, StoreTyped
        <4> QED
          BY <2>2, <2>4, <3>1, <4>1 DEF Accounted
      <3> QED
        BY <2>2, <3>3, <3>4 DEF Ledger, Unrecorded
    <2> QED
      BY <1>1, <2>3, <2>4 DEF Collecting, Unrecorded
  <1>2. CASE Returning
    <2> DEFINE x == Collect[entry].target
    <2>1. x \in Targets
      BY <1>2, TargetTyped DEF Returning, AtCollect, TypeOK
    <2>2. UNCHANGED <<now, collected>> /\ pc' \notin AtCollect
          /\ Unrecorded \ {x} \subseteq Unrecorded'
      BY <1>2 DEF Returning, AtCollect, Fail, EndSession, CutShort, Unrecorded
    <2>3. \/ records' = [records EXCEPT ![x] = now] /\ repeated' = repeated \ {x}
          \/ records' = records /\ x \in Unrecorded' /\ repeated' = repeated
      BY <1>2 DEF Returning, Unrecorded
    <2>5. repeated' \subseteq Unrecorded'
      BY <2>2, <2>3 DEF Ledger, Unrecorded
    <2>4. ASSUME NEW y \in Targets
          PROVE  records'[y] <= now' /\ collected'[y] <= now' /\ Accounted(y)'
      <3>1. records[y] <= now /\ collected[y] <= now /\ Accounted(y) /\ now \in Nat
        BY DEF Ledger, TypeOK, StoreTyped
      <3>2. CASE y = x
        BY <2>1, <2>2, <2>3, <3>1, <3>2 DEF Accounted, TypeOK, StoreTyped
      <3>3. CASE y # x
        BY <2>2, <2>3, <3>1, <3>3 DEF Accounted, TypeOK, StoreTyped
      <3> QED
        BY <3>2, <3>3
    <2> QED
      BY <2>2, <2>4, <2>5 DEF Ledger, AtCollect, Unrecorded
  <1>3. CASE Tick
    <2>1. now' = now + 1 /\ UNCHANGED <<records, collected, ledger, pc, entry>>
      BY <1>3 DEF Tick, cursor, ledger
    <2>4. UNCHANGED <<Unrecorded, repeated>>
      BY <2>1 DEF Unrecorded, ledger
    <2>2. ASSUME NEW y \in Targets
          PROVE  records'[y] <= now' /\ collected'[y] <= now' /\ Accounted(y)'
      <3>1. /\ records[y] <= now /\ collected[y] <= now /\ Accounted(y)
            /\ now \in Nat /\ records[y] \in Nat /\ collected[y] \in Nat
        BY DEF Ledger, TypeOK, StoreTyped
      <3> QED
        BY <2>1, <2>4, <3>1 DEF Accounted
    <2>3. ASSUME pc = "collecting"
          PROVE  Due(Collect[entry])'
      <3>1. Collect[entry].target \in Targets /\ Collect[entry].cooldown \in Nat
        BY <2>3, EntryTyped, TargetTyped DEF TypeOK, AtCollect
      <3>2. now \in Nat /\ records[Collect[entry].target] \in Nat
        BY <3>1 DEF TypeOK, StoreTyped
      <3> QED
        BY <2>1, <2>3, <3>1, <3>2 DEF Ledger, Due
    <2> QED
      BY <2>1, <2>2, <2>3, <2>4 DEF Ledger, Unrecorded
  <1>4. CASE Crash
    <2>1. UNCHANGED <<now, records, collected, repeated, entry>> /\ pc' = "idle"
      BY <1>4 DEF Crash, cursor
    <2>2. /\ Unrecorded \subseteq Unrecorded'
          /\ pc = "returning" => Collect[entry].target \in Unrecorded'
      BY <1>4 DEF Crash, Unrecorded
    <2> QED
      BY <2>1, <2>2 DEF Ledger, Accounted, Unrecorded
  <1>5. CASE StoreAlone /\ ~(Collecting \/ Returning \/ Tick \/ Crash)
    <2>1. (pc = "returning" <=> pc' = "returning") /\ (pc = "returning" => entry' = entry)
      BY <1>5 DEF Next, Supervise, Script, vars, cursor, Begin, Preflight, CollectEntry,
                  CollectsEnd, BeginStep, CycleEnds, Attempt, StepSucceeds, StepFails,
                  GatherEnds, Recovers, RecoveryFails, Cleanup, Cancel, SetPaused, Stopped,
                  NextStep, CutShort, EndSession, Fail
    <2>2. ASSUME pc' = "collecting"
          PROVE  Due(Collect[entry']) /\ UNCHANGED <<now, records>>
      <3>1. CollectEntry \/ (pc = "collecting" /\ entry' = entry)
        BY <1>5, <2>2 DEF Next, Supervise, Script, vars, cursor, Begin, Preflight,
                  CollectsEnd, BeginStep, CycleEnds, Attempt, StepSucceeds, StepFails,
                  GatherEnds, Recovers, RecoveryFails, Cleanup, Cancel, SetPaused, Stopped,
                  NextStep, CutShort, EndSession, Fail
      <3>2. CASE CollectEntry
        BY <1>5, <2>2, <3>2 DEF CollectEntry, Stopped, EndSession, StoreAlone
      <3>3. CASE pc = "collecting" /\ entry' = entry
        BY <1>5, <3>3 DEF Ledger, StoreAlone
      <3> QED
        BY <3>1, <3>2, <3>3
    <2> QED
      BY <1>5, <2>1, <2>2 DEF Ledger, Accounted, Unrecorded, Due, StoreAlone, ledger
  <1> QED
    BY <1>1, <1>2, <1>3, <1>4, <1>5, StoreTouched

-----------------------------------------------------------------------------
(* The inductive invariant: the character is where the next script starts, *)
(* a reset lies behind every field, and each collection is accounted for.  *)
THEOREM SessionInvariant == Spec => [](TypeOK /\ SessionInv)
  <1>1. Init => TypeOK /\ SessionInv
    BY InitTyped, InitRoutes, InitResets, InitLedger DEF SessionInv
  <1>2. TypeOK /\ SessionInv /\ [Next]_vars => (TypeOK /\ SessionInv)'
    <2> SUFFICES ASSUME TypeOK, SessionInv, [Next]_vars
                 PROVE  (TypeOK /\ SessionInv)'
      OBVIOUS
    <2>1. Routes /\ ResetsMade /\ Ledger
      BY DEF SessionInv
    <2>2. StoreTyped' /\ PositionTyped' /\ CommandsTyped'
      BY <2>1, StoreKept, PositionKept, CommandsKept
    <2>3. Routes' /\ ResetsMade' /\ Ledger'
      BY <2>1, RoutesKept, ResetsKept, LedgerKept
    <2> QED
      BY <2>2, <2>3 DEF TypeOK, SessionInv
  <1> QED
    BY <1>1, <1>2, PTL DEF Spec

(* Every variable of a session keeps its type, for every plan.             *)
THEOREM SessionTypeCorrect == Spec => []TypeOK
  BY SessionInvariant, PTL

(* For every plan, a script starts where its route begins.                 *)
THEOREM ScriptsInPlace == Spec => []ScriptsStartInPlace
  <1>1. SessionInv => ScriptsStartInPlace
    BY DEF SessionInv, Routes, ScriptsStartInPlace
  <1> QED
    BY <1>1, SessionInvariant, PTL

(* For every number of fields and cycles, a completed session has been     *)
(* back at the hive after each of them.                                    *)
THEOREM CompletedSessionIsDone == Spec => []CompletedMeansDone
  <1>1. SessionInv => CompletedMeansDone
    BY DEF SessionInv, ResetsMade
  <1> QED
    BY <1>1, SessionInvariant, PTL

(* For every list of collections, crashes and failing stores included,     *)
(* only a collection that was cut off from its record is repeated early.   *)
THEOREM OnlyUnrecordedRepeats == Spec => []RepeatsOnlyUnrecorded
  <1>1. SessionInv => RepeatsOnlyUnrecorded
    BY DEF SessionInv, Ledger
  <1> QED
    BY <1>1, SessionInvariant, PTL

=============================================================================
