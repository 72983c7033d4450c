------------------------------ MODULE StoreProofs ------------------------------
(***************************************************************************)
(* What the daemon's files keep, for any profiles, any version, crash      *)
(* threshold and window, and any number of commands, crashes, I/O errors   *)
(* and damaged files.  What becomes of the settings of a profile, for any  *)
(* ranges, files and edits.  What the daemon publishes of the honey        *)
(* counter, for anything on the screen and any clock.                      *)
(***************************************************************************)
EXTENDS DaemonStore, Settings, Statistics, FiniteSetTheorems, TLAPS

Images ==
  [kind : {"image"}, version : Int, profiles : SUBSET Profiles,
   selected : Profiles \cup {NoProfile}, secret : BOOLEAN,
   clean : {"none", "true", "false"}, safe : BOOLEAN, crashes : SUBSET Int]
FileStates == Images \cup {Missing, Corrupt}

Opening == {"premigration", "migrate", "undo", "undoing"}
Copying == {"restoring", "undoing"}
Starting == {"integrity", "restore", "restoring"} \cup Opening
            \cup {"postmigration", "selection", "guard", "crashcheck"}
Steps == {"down", "flag", "saving", "serving", "marked"} \cup Starting
Commands == {"save", "delete", "acknowledge"}

StoreTyped ==
  /\ db \in FileStates /\ good \in FileStates /\ pre \in FileStates /\ temp \in FileStates
  /\ before \in FileStates
  /\ step \in Steps /\ copied \in {"no", "written", "removed"}
  /\ task.kind \in {"none"} \cup StartTasks \cup Commands
  /\ guard \subseteq Int /\ hour \in Int /\ faults \in Nat
  /\ gone \subseteq Profiles

(* Where a start or a command has come to: the copy of a backup is of the  *)
(* database as it is, and what a backup waits for is in the database.      *)
Process ==
  /\ copied # "no" => Backing /\ temp = db
  /\ step \notin {"down", "integrity", "restore"} \cup Copying => Valid(db)
  /\ step \in {"restore", "restoring"} => Valid(good)
  /\ step \in Copying => db \in Truncated
  /\ step = "saving" <=> task.kind # "none"
  /\ task.kind = "save" => task.p \in Rows(db)
  /\ task.kind = "delete" => task.p \in Profiles \ db.profiles
  /\ Served \/ step \in {"guard", "crashcheck", "flag", "marked"} \/ task.kind = "crash" =>
       db.selected \in db.profiles

(* A start remembers the database as it opened it, and its pre-migration   *)
(* copy is of that.                                                        *)
Opened ==
  /\ step \in Opening => Valid(before)
  /\ step = "premigration" => db = before
  /\ step \in {"migrate", "undo", "undoing"} => pre = before

(* What every file holds that may be served some day: what was accepted,   *)
(* and safe mode together with its crashes.  A file that is being copied   *)
(* over holds nothing of it, nor how the last daemon ended.                *)
KeepsRows(f) ==
  Valid(f) =>
    /\ promised \subseteq Rows(f) /\ gone \cap f.profiles = {}
    /\ f.profiles = {} => gone = {}
KeepsGuard(f) ==
  Valid(f) =>
    /\ announced => f.safe
    /\ f.safe => f.crashes # {}
    /\ Tripped(f.crashes) => f.safe
FilesKeep ==
  /\ step \notin Copying => KeepsRows(db) /\ KeepsGuard(db)
  /\ KeepsRows(good) /\ KeepsGuard(good)
  /\ step \in Opening => KeepsRows(before) /\ KeepsGuard(before)
NothingYet ==
  db = Missing => promised = {} /\ gone = {} /\ ~announced /\ ended = "none"

(* A last-good copy is there unless a fault has taken it, or a backup is   *)
(* in the middle of replacing it.                                          *)
CopyThere ==
  /\ refused => torn /\ step = "down"
  /\ torn \/ Valid(good) \/ Gap

(* A daemon that has read its crashes is in safe mode when it has to be.   *)
GuardInForce ==
  /\ announced /\ (Served \/ step \in {"crashcheck", "flag", "marked"} \/ task.kind = "crash")
       => safe
  /\ task.kind = "crash" => guard = db.crashes
  /\ task.kind = "acknowledge" => ~announced

(* What the database says of the end of the last daemon, and what a start  *)
(* has made of it.                                                         *)
KnowsEnd(f) == ~restored /\ Valid(f) => (f.clean = "false" <=> ended = "crash")
EndKnown ==
  /\ IF Served THEN db.clean = "false" ELSE step \in Copying \/ KnowsEnd(db)
  /\ step \in Opening => KnowsEnd(before)
  /\ step \in Starting \/ task.kind = "default" => ~counted
  /\ Served \/ step = "flag" \/ task.kind = "crash" =>
       restored \/ (counted <=> ended = "crash")

StoreInv ==
  /\ StoreTyped /\ Process /\ Opened
  /\ FilesKeep /\ NothingYet /\ CopyThere /\ GuardInForce /\ EndKnown
-----------------------------------------------------------------------------
(* No crashes are never too many.                                          *)
LEMMA NoCrashesNoTrip == ~Tripped({})
  BY FS_EmptySet, StoreAssumption DEF StoreAssumption, Tripped

(* A crash recorded now is among the recent ones.                          *)
LEMMA CrashIsRecent ==
  ASSUME NEW crashes \in SUBSET Int, NEW t \in Int
  PROVE  t \in Recent(crashes \cup {t}, t) /\ Recent(crashes \cup {t}, t) \subseteq Int
  <1>1. Window \in Nat
    BY StoreAssumption DEF StoreAssumption
  <1>2. t - Window <= t
    BY <1>1
  <1>3. t <= t /\ t \in crashes \cup {t}
    OBVIOUS
  <1>4. t \in Recent(crashes \cup {t}, t)
    BY ONLY <1>2, <1>3, Zenon DEF Recent
  <1> QED
    BY <1>4 DEF Recent

(* An image whose guard is written is an image.                             *)
LEMMA WrittenIsImage ==
  ASSUME NEW f \in Images, NEW crashes \in SUBSET Int, NEW inSafe \in BOOLEAN
  PROVE  [f EXCEPT !.safe = inSafe, !.crashes = crashes] \in Images
  BY DEF Images

(* So is one with the secret.                                              *)
LEMMA SealedIsImage ==
  ASSUME NEW f \in Images
  PROVE  [f EXCEPT !.secret = TRUE] \in Images
  BY DEF Images

(* What a copy in the middle has left is a state of a file, and an empty   *)
(* database knows nothing of what went before.                             *)
LEMMA TruncatedIsFile ==
  /\ Truncated \subseteq FileStates
  /\ Fresh \in Images /\ Fresh # Corrupt /\ ~Fresh.safe /\ Fresh.crashes = {}
  /\ Fresh.clean = "none" /\ Fresh.profiles = {}
  BY DEF Truncated, Fresh, Image, Corrupt, FileStates, Images

(* Nothing is promised before there is a database.                         *)
LEMMA InitStoreInv == StoreInit => StoreInv
  <1> USE StoreAssumption DEF StoreAssumption, Missing, Corrupt, Rows, Valid, StartTasks,
        Destination, Backing, Served, Gap, Images, FileStates, Opening, Copying, Starting, Steps,
        Commands, StoreTyped, Process, Opened, KeepsRows, KeepsGuard, FilesKeep, NothingYet, CopyThere,
        GuardInForce, KnowsEnd, EndKnown, StoreInv
  <1> SUFFICES ASSUME StoreInit PROVE StoreInv
    OBVIOUS
  <1> USE DEF StoreInit, Image, NoTask
  <1>1. StoreTyped
    <2>1. ASSUME NEW v \in Int PROVE Image(v, Profiles, Default) \in Images
      OBVIOUS
    <2>2. Version - 1 \in Int /\ Version + 1 \in Int
      OBVIOUS
    <2>3. db \in FileStates /\ before \in FileStates
      BY <2>1, <2>2
    <2> QED
      BY <2>3
  <1>2. Process /\ Opened /\ NothingYet /\ CopyThere /\ GuardInForce /\ EndKnown
    OBVIOUS
  <1>3. FilesKeep
    <2>1. /\ gone = {} /\ announced = FALSE /\ good = Missing /\ step \notin Opening
          /\ Valid(db) => promised = db.profiles /\ promised \subseteq Rows(db)
          /\ Valid(db) => db.safe = FALSE /\ db.crashes = {}
      OBVIOUS
    <2> QED
      BY ONLY <2>1, NoCrashesNoTrip DEF FilesKeep, KeepsRows, KeepsGuard, Valid, Missing
  <1> QED
    BY <1>1, <1>2, <1>3

-----------------------------------------------------------------------------
(* A start opens the database, restores it, migrates it, or undoes that.   *)
LEMMA OpenKeeps ==
  ASSUME StoreInv, Launch \/ CheckIntegrity \/ RestoreLastGood \/ Migrate \/ UndoMigration
  PROVE  StoreInv'
  <1> USE StoreAssumption DEF StoreAssumption, Missing, Corrupt, Rows, Valid, StartTasks,
        Destination, Backing, Served, Gap, Images, FileStates, Opening, Copying, Starting, Steps,
        Commands, StoreTyped, Process, Opened, KeepsRows, KeepsGuard, FilesKeep, NothingYet, CopyThere,
        GuardInForce, KnowsEnd, EndKnown, StoreInv
  <1>1. CASE Launch
    BY <1>1 DEF files, backup, memory, bounds, Launch
  <1>2. CASE CheckIntegrity
    <2> USE <1>2 DEF backup, memory, bounds, Image, Fresh, CheckIntegrity
    <2>1. StoreTyped' /\ Process' /\ Opened' /\ NothingYet'
      OBVIOUS
    <2>2. FilesKeep'
      BY NoCrashesNoTrip
    <2>3. CopyThere' /\ GuardInForce' /\ EndKnown'
      OBVIOUS
    <2> QED
      BY <2>1, <2>2, <2>3
  <1>3. CASE RestoreLastGood
    <2> USE <1>3 DEF backup, memory, bounds, RestoreLastGood
    <2>1. CASE step = "restore"
      <3>1. step' = "restoring" /\ db' \in Truncated /\ db' \in FileStates
        BY <2>1, TruncatedIsFile
      <3>2. StoreTyped' /\ Process' /\ Opened'
        BY <2>1, <3>1
      <3>3. FilesKeep'
        BY <2>1, <3>1
      <3>4. NothingYet' /\ CopyThere' /\ GuardInForce' /\ EndKnown'
        BY <2>1, <3>1, TruncatedIsFile DEF Truncated
      <3> QED
        BY <3>2, <3>3, <3>4
    <2>2. CASE step = "restoring"
      BY <2>2
    <2> QED
      BY <2>1, <2>2
  <1>4. CASE Migrate
    BY <1>4 DEF backup, memory, history, Migrate
  <1>5. CASE UndoMigration
    <2> USE <1>5 DEF backup, memory, bounds, history, Undo, UndoMigration
    <2>1. CASE step = "undo"
      <3>1. step' = "undoing" /\ db' \in Truncated /\ db' \in FileStates
        BY <2>1, TruncatedIsFile
      <3>2. StoreTyped' /\ Process' /\ Opened'
        BY <2>1, <3>1
      <3>3. FilesKeep'
        BY <2>1, <3>1
      <3>4. NothingYet' /\ CopyThere' /\ GuardInForce' /\ EndKnown'
        BY <2>1, <3>1, TruncatedIsFile DEF Truncated
      <3> QED
        BY <3>2, <3>3, <3>4
    <2>2. CASE step = "undoing"
      BY <2>2
    <2> QED
      BY <2>1, <2>2
  <1> QED
    BY <1>1, <1>2, <1>3, <1>4, <1>5

(* A backup writes, removes and renames, or fails in between.              *)
LEMMA BackupKeeps ==
  ASSUME StoreInv, WriteCopy \/ RemoveOld \/ RenameCopy \/ BackupFails
  PROVE  StoreInv'
  <1> USE StoreAssumption DEF StoreAssumption, Missing, Corrupt, Rows, Valid, StartTasks,
        Destination, Backing, Served, Gap, Images, FileStates, Opening, Copying, Starting, Steps,
        Commands, StoreTyped, Process, Opened, KeepsRows, KeepsGuard, FilesKeep, NothingYet, CopyThere,
        GuardInForce, KnowsEnd, EndKnown, StoreInv
  <1>1. CASE WriteCopy
    BY <1>1 DEF files, memory, bounds, history, WriteCopy
  <1>2. CASE RemoveOld
    BY <1>2 DEF memory, bounds, history, Put, RemoveOld
  <1>3. CASE RenameCopy
    <2> USE <1>3 DEF bounds, NoTask, Put, After, Reply, RenameCopy
    <2>1. StoreTyped' /\ Process' /\ Opened' /\ NothingYet'
      OBVIOUS
    <2>2. FilesKeep'
      OBVIOUS
    <2>3. GuardInForce'
      <3>1. task'.kind # "crash"
        OBVIOUS
      <3>2. announced' => announced \/ (task.kind = "crash" /\ db.safe)
        OBVIOUS
      <3>3. CASE task.kind = "crash"
        BY <3>1, <3>2, <3>3
      <3>4. CASE task.kind = "acknowledge"
        BY <3>1, <3>2, <3>4
      <3>5. CASE task.kind \notin {"crash", "acknowledge"}
        BY <3>1, <3>2, <3>5
      <3> QED
        BY <3>3, <3>4, <3>5
    <2>4. CopyThere' /\ EndKnown'
      OBVIOUS
    <2> QED
      BY <2>1, <2>2, <2>3, <2>4
  <1>4. CASE BackupFails
    <2> USE <1>4 DEF files, memory, NoTask, Otherwise, Fault, Dies, BackupFails
    <2>1. /\ step' \in {"serving", "down"} /\ copied' = "no" /\ temp' = Missing
          /\ task' = NoTask /\ guard' \in {guard, {}} /\ faults' \in Nat
      OBVIOUS
    <2>2. StoreTyped'
      BY <2>1
    <2>3. Process' /\ Opened' /\ NothingYet'
      OBVIOUS
    <2>4. FilesKeep'
      BY <2>1
    <2>5. CopyThere'
      OBVIOUS
    <2>6. GuardInForce'
      OBVIOUS
    <2>7. EndKnown'
      OBVIOUS
    <2> QED
      BY <2>2, <2>3, <2>4, <2>5, <2>6, <2>7
  <1> QED
    BY <1>1, <1>2, <1>3, <1>4

(* The engine selects a profile, reads its crashes and records another.    *)
LEMMA InitializeKeeps ==
  ASSUME StoreInv, Initialize
  PROVE  StoreInv'
  <1> USE StoreAssumption DEF StoreAssumption, Missing, Corrupt, Rows, Valid, StartTasks,
        Destination, Backing, Served, Gap, Images, FileStates, Opening, Copying, Starting, Steps,
        Commands, StoreTyped, Process, Opened, KeepsRows, KeepsGuard, FilesKeep, NothingYet, CopyThere,
        GuardInForce, KnowsEnd, EndKnown, StoreInv
  <1>1. CASE SelectInitial
    BY <1>1 DEF memory, bounds, history, Task, ThenBackup, Selection, SelectInitial
  <1>2. CASE RestoreGuard
    BY <1>2 DEF files, backup, bounds, history, RestoreGuard, Recent
  <1>3. CASE RecordCrash
    <2> DEFINE crashes == Recent(guard \cup {hour}, hour)
    <2>1. hour \in crashes /\ crashes \subseteq Int
      BY CrashIsRecent
    <2>2. /\ step = "crashcheck" /\ db.clean = "false" /\ hour' = hour + 1 /\ counted'
          /\ guard' = crashes
          /\ db' = [db EXCEPT !.safe = safe \/ Tripped(crashes), !.crashes = crashes]
          /\ step' = "saving" /\ task' = [kind |-> "crash", p |-> NoProfile] /\ copied' = "no"
          /\ UNCHANGED <<good, pre, temp, safe, faults, requests, promised, gone, announced, ended,
                         restored, torn, refused, before>>
      BY <1>3 DEF RecordCrash, CommitGuard, ThenBackup, Task
    <2> HIDE DEF crashes
    <2>3. db \in Images
      BY <2>2
    <2>4. db' \in Images
      BY <2>1, <2>2, <2>3, WrittenIsImage
    <2>5. StoreTyped'
      BY <2>1, <2>2, <2>4
    <2>6. FilesKeep'
      BY <2>1, <2>2, <2>3
    <2>7. Process' /\ Opened' /\ NothingYet' /\ CopyThere' /\ GuardInForce' /\ EndKnown'
      BY <2>2, <2>3
    <2> QED
      BY <2>5, <2>6, <2>7
  <1>4. CASE NoCrash
    BY <1>4 DEF files, backup, memory, bounds, history, NoCrash
  <1>5. CASE FlagRunning
    BY <1>5 DEF backup, memory, bounds, history, FlagRunning
  <1> QED
    BY <1>1, <1>2, <1>3, <1>4, <1>5 DEF Initialize

(* A daemon that serves writes, and ends.                                  *)
LEMMA ServeKeeps ==
  ASSUME StoreInv, Serve
  PROVE  StoreInv'
  <1> USE StoreAssumption DEF StoreAssumption, Missing, Corrupt, Rows, Valid, StartTasks,
        Destination, Backing, Served, Gap, Images, FileStates, Opening, Copying, Starting, Steps,
        Commands, StoreTyped, Process, Opened, KeepsRows, KeepsGuard, FilesKeep, NothingYet, CopyThere,
        GuardInForce, KnowsEnd, EndKnown, StoreInv
  <1>1. ASSUME NEW p \in Profiles, SaveProfile(p) PROVE StoreInv'
    BY <1>1 DEF memory, Task, ThenBackup, Command, SaveProfile
  <1>2. ASSUME NEW p \in Profiles, DeleteProfile(p) PROVE StoreInv'
    BY <1>2 DEF memory, Task, ThenBackup, Command, DeleteProfile
  <1>3. ASSUME NEW p \in Profiles, SelectProfile(p) PROVE StoreInv'
    BY <1>3 DEF backup, memory, history, Command, SelectProfile
  <1>4. CASE ImportSecret
    <2> USE <1>4 DEF memory, history, Task, ThenBackup, Command, ImportSecret
    <2>1. db \in Images /\ db' = [db EXCEPT !.secret = TRUE]
      OBVIOUS
    <2>2. db' \in Images
      BY ONLY <2>1, SealedIsImage
    <2>3. StoreTyped'
      BY <2>2
    <2>4. /\ Process' /\ Opened' /\ FilesKeep' /\ NothingYet'
          /\ CopyThere' /\ GuardInForce' /\ EndKnown'
      OBVIOUS
    <2> QED
      BY <2>3, <2>4
  <1>5. CASE AcknowledgeAttention
    <2> USE <1>5 DEF Task, CommitGuard, ThenBackup, Command, AcknowledgeAttention
    <2>1. db \in Images /\ db' = [db EXCEPT !.safe = FALSE, !.crashes = {}]
      OBVIOUS
    <2>2. {} \in SUBSET Int /\ FALSE \in BOOLEAN
      OBVIOUS
    <2>3. db' \in Images
      BY ONLY <2>1, <2>2, WrittenIsImage
    <2>4. StoreTyped'
      BY <2>3
    <2>5. FilesKeep'
      BY NoCrashesNoTrip
    <2>6. Process' /\ Opened' /\ NothingYet' /\ CopyThere' /\ GuardInForce' /\ EndKnown'
      BY ZenonT(30)
    <2> QED
      BY <2>4, <2>5, <2>6
  <1>6. CASE ShutdownDaemon
    BY <1>6 DEF backup, memory, bounds, MarkClean, ShutdownDaemon
  <1>7. CASE LeaveLoop
    BY <1>7 DEF backup, bounds, Serving, MarkClean, LeaveLoop
  <1> QED
    BY <1>1, <1>2, <1>3, <1>4, <1>5, <1>6, <1>7 DEF Serve

(* Time passes, the daemon dies, a file is damaged.                        *)
LEMMA AroundKeeps ==
  ASSUME StoreInv, StoreTick \/ DaemonDies \/ Damage
  PROVE  StoreInv'
  <1> USE StoreAssumption DEF StoreAssumption, Missing, Corrupt, Rows, Valid, StartTasks,
        Destination, Backing, Served, Gap, Images, FileStates, Opening, Copying, Starting, Steps,
        Commands, StoreTyped, Process, Opened, KeepsRows, KeepsGuard, FilesKeep, NothingYet, CopyThere,
        GuardInForce, KnowsEnd, EndKnown, StoreInv
  <1>1. CASE StoreTick
    BY <1>1 DEF files, backup, memory, history, StoreTick
  <1>2. CASE DaemonDies
    <2> USE <1>2 DEF files, NoTask, Fault, Dies, DaemonDies
    <2>1. gone' \in {gone, {}} /\ UNCHANGED <<db, good, pre, before>>
      OBVIOUS
    <2>2. StoreTyped' /\ Process' /\ Opened' /\ CopyThere'
      <3>1. StoreTyped'
        <4>1. /\ step' = "down" /\ copied' = "no" /\ temp' = Missing /\ task'.kind = "none"
              /\ guard' = {} /\ hour' = hour /\ faults' = faults + 1
          OBVIOUS
        <4> QED
          BY <2>1, <4>1
      <3>2. Process' /\ Opened'
        BY <2>1
      <3>3. CopyThere'
        BY <2>1
      <3> QED
        BY <3>1, <3>2, <3>3
    <2>3. CASE Emptied
      <3>1. /\ promised' = {} /\ gone' = {} /\ announced' = FALSE /\ ended' = "none"
            /\ step' = "down" /\ task'.kind = "none" /\ db' = Fresh /\ db' # Missing
            /\ good' = good
        BY <2>3, TruncatedIsFile DEF Emptied
      <3>2. FilesKeep'
        BY <3>1, NoCrashesNoTrip, TruncatedIsFile
      <3>3. NothingYet' /\ GuardInForce' /\ EndKnown'
        BY <3>1, TruncatedIsFile
      <3> QED
        BY <2>2, <3>2, <3>3
    <2>4. CASE ~Emptied
      <3>1. step \in Copying => db = Corrupt
        BY <2>4 DEF Emptied, Truncated
      <3>2. /\ UNCHANGED <<promised, gone, announced>> /\ step' = "down" /\ task'.kind = "none"
            /\ ended' = IF Served THEN "crash" ELSE ended
            /\ restored' = IF Served THEN FALSE ELSE restored
        BY <2>4
      <3>3. FilesKeep' /\ NothingYet'
        BY <2>1, <3>1, <3>2
      <3>4. GuardInForce' /\ EndKnown'
        BY <2>1, <3>1, <3>2
      <3> QED
        BY <2>2, <3>3, <3>4
    <2> QED
      BY <2>3, <2>4
  <1>3. CASE Damage
    BY <1>3 DEF backup, memory, Fault, Damage
  <1> QED
    BY <1>1, <1>2, <1>3

(* Every step of the daemon, and every fault, keeps the invariant.         *)
LEMMA NextKeepsStoreInv == StoreInv /\ [StoreNext]_storeVars => StoreInv'
  <1> SUFFICES ASSUME StoreInv, [StoreNext]_storeVars PROVE StoreInv'
    OBVIOUS
  <1>1. CASE Open
    BY <1>1, OpenKeeps, BackupKeeps DEF Open
  <1>2. CASE Initialize
    BY <1>2, InitializeKeeps
  <1>3. CASE Serve
    BY <1>3, ServeKeeps
  <1>4. CASE StoreTick \/ DaemonDies \/ Damage
    BY <1>4, AroundKeeps
  <1>5. CASE BackupFails
    BY <1>5, BackupKeeps
  <1>6. CASE UNCHANGED storeVars
    <2> USE StoreAssumption DEF StoreAssumption, Missing, Corrupt, Rows, Valid, StartTasks,
          Destination, Backing, Served, Gap, Images, FileStates, Opening, Copying, Starting, Steps,
          Commands, StoreTyped, Process, Opened, KeepsRows, KeepsGuard, FilesKeep, NothingYet, CopyThere,
          GuardInForce, KnowsEnd, EndKnown, StoreInv
    <2> QED
      BY <1>6 DEF storeVars, files, backup, memory, bounds, history
  <1> QED
    BY <1>1, <1>2, <1>3, <1>4, <1>5, <1>6 DEF StoreNext

-----------------------------------------------------------------------------
(* The files of the daemon and what it has told of them agree, at every    *)
(* step of every start, command and backup.                                *)
THEOREM StoreInvariant == StoreSpec => []StoreInv
  <1>1. StoreInit => StoreInv
    BY InitStoreInv
  <1>2. StoreInv /\ [StoreNext]_storeVars => StoreInv'
    BY NextKeepsStoreInv
  <1> QED
    BY <1>1, <1>2, PTL DEF StoreSpec

(* What SaveProfile or DeleteProfile was told to have done is served by    *)
(* every later daemon, and a start finds something to serve unless the     *)
(* last good copy was lost as well.                                        *)
THEOREM AcceptedStays == StoreSpec => []AcceptedIsDurable
  <1>1. StoreInv => AcceptedIsDurable
    BY DEF StoreInv, FilesKeep, KeepsRows, Process, CopyThere, AcceptedIsDurable, Copying,
           Serving, Valid
  <1> QED
    BY <1>1, StoreInvariant, PTL

(* Safe mode that was announced holds in every later daemon, together with *)
(* its crashes, and a crash is recorded exactly once.                      *)
THEOREM GuardStays == StoreSpec => []CrashGuardHolds
  <1>1. StoreInv => CrashGuardHolds
    <2> SUFFICES ASSUME StoreInv PROVE CrashGuardHolds
      OBVIOUS
    <2>1. step \in Copying => db \in {Fresh, Corrupt}
      BY DEF StoreInv, Process, Truncated
    <2>2. ASSUME Valid(db) PROVE (db.safe => db.crashes # {}) /\ (Tripped(db.crashes) => db.safe)
      <3>1. CASE step \in Copying
        <4>1. db = Fresh
          BY <2>1, <2>2, <3>1 DEF Valid, Corrupt
        <4> QED
          BY <4>1, NoCrashesNoTrip, TruncatedIsFile
      <3>2. CASE step \notin Copying
        BY <2>2, <3>2 DEF StoreInv, FilesKeep, KeepsGuard
      <3> QED
        BY <3>1, <3>2
    <2>3. ASSUME Valid(good)
          PROVE  (good.safe => good.crashes # {}) /\ (Tripped(good.crashes) => good.safe)
      BY <2>3 DEF StoreInv, FilesKeep, KeepsGuard
    <2> QED
      BY <2>2, <2>3 DEF StoreInv, GuardInForce, EndKnown, CrashGuardHolds, Served, Serving
  <1> QED
    BY <1>1, StoreInvariant, PTL

(* A migration that fails leaves the database that the start has opened.   *)
THEOREM FailedMigrationIsUndone == StoreSpec => MigrationIsUndone
  <1>1. StoreInv /\ [StoreNext]_storeVars =>
          [step = "undoing" /\ step' = "down" /\ faults' = faults => db' = before]_storeVars
    <2> SUFFICES ASSUME StoreInv, StoreNext, step = "undoing", step' = "down", faults' = faults
                 PROVE  db' = before
      BY DEF storeVars
    <2>1. faults \in Int
      BY DEF StoreInv, StoreTyped
    <2>2. ~Fault
      BY <2>1 DEF Fault
    <2>3. ~Initialize
      BY DEF Initialize, SelectInitial, RestoreGuard, RecordCrash, NoCrash, FlagRunning
    <2>4. ~Serve
      BY DEF Serve, SaveProfile, DeleteProfile, SelectProfile, Command, ImportSecret,
             AcknowledgeAttention, ShutdownDaemon, LeaveLoop, Serving
    <2>5. ~(WriteCopy \/ RemoveOld \/ RenameCopy \/ Launch \/ CheckIntegrity \/ RestoreLastGood
            \/ Migrate \/ StoreTick)
      BY DEF WriteCopy, RemoveOld, RenameCopy, Backing, Launch, CheckIntegrity, RestoreLastGood,
             Migrate, StoreTick
    <2>6. UndoMigration
      BY <2>2, <2>3, <2>4, <2>5 DEF StoreNext, Open, DaemonDies, BackupFails, Damage
    <2> QED
      BY <2>6 DEF UndoMigration, Undo, StoreInv, Opened
  <1> QED
    BY <1>1, StoreInvariant, PTL DEF StoreSpec, MigrationIsUndone

-----------------------------------------------------------------------------
(***************************************************************************)
(* The settings of a profile.                                              *)
(***************************************************************************)


IsList(s) == s = [k \in DOMAIN s |-> s[k]] /\ (s # <<>> => 1 \in DOMAIN s)

(* What a profile and a form consist of.                                   *)
ProfileShape(p) ==
  /\ p = [movement |-> p.movement, configured |-> p.configured, snapshot |-> p.snapshot,
          gathering |-> p.gathering, rotations |-> p.rotations, quests |-> p.quests,
          collections |-> p.collections, dice |-> p.dice, hotkey |-> p.hotkey]
  /\ p.quests \in BOOLEAN /\ p.collections \in BOOLEAN /\ IsList(p.rotations)

GatheringShape(g) ==
  /\ g = [enabled |-> g.enabled, fields |-> g.fields, pattern |-> g.pattern,
          minutes |-> g.minutes]
  /\ IsList(g.fields)
FeaturesShape(f) ==
  /\ f = [quests |-> f.quests, scienceBear |-> f.scienceBear, collect |-> f.collect]
  /\ f.quests \in BOOLEAN /\ f.scienceBear \in BOOLEAN /\ f.collect \in BOOLEAN
FormShape(f) ==
  /\ f = [features |-> f.features, gathering |-> f.gathering, safety |-> f.safety,
          hotkeys |-> f.hotkeys, movement |-> f.movement]
  /\ FeaturesShape(f.features) /\ GatheringShape(f.gathering)

(* A page that was not edited shows the profile.                           *)
UntouchedShown ==
  /\ "features" \notin touched => form.features = Features(profile)
  /\ "gathering" \notin touched => form.gathering = Project(profile).gathering
  /\ "safety" \notin touched => form.safety = profile.dice
  /\ "hotkeys" \notin touched => form.hotkeys = profile.hotkey
  /\ "movement" \notin touched => form.movement = profile.movement

(* The calibration is sound, and until a form is saved it is the file's.   *)
Calibrated ==
  /\ \A k \in Keys : InRange(k, profile.movement[k])
  /\ imported /\ ~saved =>
       /\ profile.snapshot # <<>>
       /\ profile.configured =>
            \A k \in Keys : profile.snapshot[1].movement[k] \in {Absent, profile.movement[k]}

SettingsInv ==
  /\ ProfileShape(profile) /\ FormShape(form)
  /\ UntouchedShown /\ Calibrated /\ ScriptsRunSoundValues

(* A list that is not empty has a first element.                           *)
LEMMA ListNonEmpty ==
  ASSUME NEW s, IsList(s), s # <<>>
  PROVE  1 \in DOMAIN s
  BY DEF IsList

(* A function of no index is the empty list, and the other way around.     *)
LEMMA EmptyList ==
  ASSUME NEW D, NEW s, s = [k \in D |-> s[k]]
  PROVE  s = <<>> <=> D = {}
  <1>1. DOMAIN s = D
    OBVIOUS
  <1>2. DOMAIN <<>> = {}
    OBVIOUS
  <1>3. ASSUME D = {} PROVE s = <<>>
    <2>1. <<>> = [k \in {} |-> <<>>[k]]
      OBVIOUS
    <2>2. s = [k \in {} |-> s[k]]
      BY <1>3
    <2>3. [k \in {} |-> s[k]] = [k \in {} |-> <<>>[k]]
      OBVIOUS
    <2> QED
      BY <2>1, <2>2, <2>3
  <1> QED
    BY <1>1, <1>2, <1>3

(* A function over a list's positions is a list.                           *)
LEMMA MappedList ==
  ASSUME NEW s, IsList(s), NEW t, t = [k \in DOMAIN s |-> t[k]]
  PROVE  IsList(t) /\ (t = <<>> <=> s = <<>>)
  <1>1. t = <<>> <=> DOMAIN s = {}
    BY EmptyList
  <1>2. s = [k \in DOMAIN s |-> s[k]]
    BY DEF IsList
  <1>3. s = <<>> <=> DOMAIN s = {}
    BY <1>2, EmptyList
  <1>4. DOMAIN t = DOMAIN s
    OBVIOUS
  <1> QED
    BY <1>1, <1>3, <1>4 DEF IsList

(* A sequence is a list.                                                   *)
LEMMA SequenceIsList == ASSUME NEW S, NEW s \in Seq(S) PROVE IsList(s)
  <1>1. s = [k \in 1..Len(s) |-> s[k]] /\ Len(s) \in Nat /\ DOMAIN s = 1..Len(s)
    OBVIOUS
  <1>2. s # <<>> => 1..Len(s) # {}
    BY <1>1, EmptyList
  <1> QED
    BY <1>1, <1>2 DEF IsList

(* The fields of an imported file are a list.                              *)
LEMMA RotationsAreList == ASSUME NEW ini \in Inis PROVE IsList(Rotations(ini.slots))
  <1> DEFINE slots == ini.slots
             c == Cardinality(Filled(slots))
             r == Rotations(slots)
  <1>1. slots \in Seq({slots[k] : k \in DOMAIN slots})
    BY SettingsAssumption
  <1>2. Len(slots) \in Nat /\ DOMAIN slots = 1..Len(slots)
    BY <1>1
  <1>3. IsFiniteSet(1..Len(slots))
    <2>1. \A n \in Nat : n \in Int
      OBVIOUS
    <2>2. \A n \in Nat : IsFiniteSet(1..n)
      BY <2>1, FS_Interval
    <2> HIDE DEF slots
    <2> QED
      BY <1>2, <2>2
  <1>4. Filled(slots) \subseteq 1..Len(slots)
    BY <1>2 DEF Filled
  <1>5. c \in Nat
    BY <1>3, <1>4, FS_Subset, FS_CardinalityType
  <1>6. r = [n \in 1..c |-> r[n]] /\ DOMAIN r = 1..c
    BY DEF Rotations
  <1> HIDE DEF r, c
  <1>7. r # <<>> => 1..c # {}
    BY <1>6, EmptyList
  <1>8. r # <<>> => 1 \in 1..c
    BY <1>5, <1>7
  <1>9. IsList(r)
    BY <1>6, <1>8 DEF IsList
  <1> QED
    BY <1>9 DEF r

(* A profile shown as it is has the lists of its fields, and is found to   *)
(* be as it is shown.                                                      *)
LEMMA ShownGathering ==
  ASSUME NEW p, IsList(p.rotations)
  PROVE  /\ GatheringShape(Project(p).gathering)
         /\ ShowsGathering(p, Project(p).gathering)
  <1>1. IsList([k \in DOMAIN p.rotations |-> p.rotations[k].field])
    BY MappedList
  <1> QED
    BY <1>1 DEF Project, ShowsGathering, SameMinutes, GatheringShape

(* What a projection shows.                                                *)
LEMMA Shown ==
  ASSUME NEW p
  PROVE  /\ Project(p) = [features |-> Project(p).features, gathering |-> Project(p).gathering,
                          safety |-> Project(p).safety, hotkeys |-> Project(p).hotkeys,
                          movement |-> Project(p).movement]
         /\ Project(p).features = Features(p) /\ Project(p).safety = p.dice
         /\ Project(p).hotkeys = p.hotkey /\ Project(p).movement = p.movement
         /\ Features(p) = [quests |-> p.quests, scienceBear |-> p.quests, collect |-> p.collections]
  BY DEF Project, Features

(* A projection has the shape of a form.                                   *)
LEMMA ProjectionIsForm ==
  ASSUME NEW p, ProfileShape(p)
  PROVE  FormShape(Project(p))
  <1>1. GatheringShape(Project(p).gathering)
    BY ShownGathering DEF ProfileShape
  <1>2. FeaturesShape(Features(p))
    BY DEF Features, FeaturesShape, ProfileShape
  <1> QED
    BY <1>1, <1>2, Shown DEF FormShape

(* A new profile has the shape of one.                                     *)
LEMMA NewIsShaped == ProfileShape(NewProfile)
  <1>1. <<>> \in Seq({})
    OBVIOUS
  <1>2. IsList(<<>>)
    BY <1>1, SequenceIsList
  <1> QED
    BY <1>2 DEF NewProfile, ProfileShape

(* The strengthening holds of a new profile.                               *)
LEMMA SettingsInitially == SettingsInit => SettingsInv
  <1> SUFFICES ASSUME SettingsInit PROVE SettingsInv
    OBVIOUS
  <1>1. profile = NewProfile /\ form = Project(profile)
    BY DEF SettingsInit
  <1>2. ProfileShape(profile) /\ FormShape(form)
    BY <1>1, NewIsShaped, ProjectionIsForm
  <1>3. UntouchedShown
    BY <1>1, Shown DEF UntouchedShown
  <1>4. Calibrated /\ ScriptsRunSoundValues
    BY SettingsAssumption DEF SettingsInit, NewProfile, Calibrated, ScriptsRunSoundValues
  <1> QED
    BY <1>2, <1>3, <1>4 DEF SettingsInv

(* What a form makes of a profile.                                         *)
LEMMA AppliedShape ==
  ASSUME NEW f, NEW p, ProfileShape(p), FormShape(f)
  PROVE  /\ ProfileShape(Apply(f, p))
         /\ Apply(f, p).movement = f.movement /\ Apply(f, p).dice = f.safety
         /\ Apply(f, p).hotkey = f.hotkeys /\ Apply(f, p).gathering = f.gathering.enabled
         /\ Apply(f, p).collections = f.features.collect
         /\ Apply(f, p).configured /\ Apply(f, p).snapshot = p.snapshot
         /\ Apply(f, p).quests = (f.features.quests \/ f.features.scienceBear)
         /\ Apply(f, p).rotations =
              IF ShowsGathering(p, f.gathering) THEN p.rotations
              ELSE [k \in DOMAIN f.gathering.fields |-> Uniform(f.gathering, k)]
  <1> DEFINE uniform == [k \in DOMAIN f.gathering.fields |-> Uniform(f.gathering, k)]
             rotations == IF ShowsGathering(p, f.gathering) THEN p.rotations ELSE uniform
  <1>1. IsList(uniform)
    BY MappedList DEF FormShape, GatheringShape
  <1>2. IsList(rotations)
    BY <1>1 DEF ProfileShape
  <1>3. /\ f.features.quests \in BOOLEAN /\ f.features.scienceBear \in BOOLEAN
        /\ f.features.collect \in BOOLEAN
    BY DEF FormShape, FeaturesShape
  <1> HIDE DEF uniform, rotations
  <1>4. Apply(f, p) =
          [ApplyFeatures(f.features, p) EXCEPT
             !.gathering = f.gathering.enabled, !.rotations = rotations,
             !.hotkey = f.hotkeys, !.dice = f.safety,
             !.movement = f.movement, !.configured = TRUE]
    BY DEF Apply, rotations, uniform, ApplyFeatures, ProfileShape
  <1>5. Apply(f, p) =
          [movement |-> f.movement, configured |-> TRUE, snapshot |-> p.snapshot,
           gathering |-> f.gathering.enabled, rotations |-> rotations,
           quests |-> (f.features.quests \/ f.features.scienceBear),
           collections |-> f.features.collect, dice |-> f.safety, hotkey |-> f.hotkeys]
    BY <1>4 DEF ApplyFeatures, ProfileShape
  <1>6. ProfileShape(Apply(f, p))
    BY <1>2, <1>3, <1>5 DEF ProfileShape
  <1> QED
    BY <1>5, <1>6 DEF rotations, uniform

(* An imported profile has the shape of one.                               *)
LEMMA ImportedShape ==
  ASSUME NEW ini \in Inis
  PROVE  /\ ProfileShape(Imported(ini)) /\ Imported(ini).snapshot # <<>>
         /\ \A k \in Keys : InRange(k, Imported(ini).movement[k])
         /\ Imported(ini).configured =>
              \A k \in Keys :
                Imported(ini).snapshot[1].movement[k] \in {Absent, Imported(ini).movement[k]}
  <1>1. IsList(Rotations(ini.slots)) /\ ini.quests \in BOOLEAN /\ ini.collections \in BOOLEAN
    BY RotationsAreList, SettingsAssumption
  <1>2. ProfileShape(Imported(ini))
    BY <1>1 DEF Imported, ProfileShape
  <1>3. Imported(ini).snapshot # <<>> /\ Imported(ini).snapshot[1].movement = ini.movement
    BY DEF Imported
  <1>4. ASSUME NEW k \in Keys
        PROVE  /\ InRange(k, Imported(ini).movement[k])
               /\ Imported(ini).configured => ini.movement[k] \in {Absent, Imported(ini).movement[k]}
    BY SettingsAssumption DEF Imported, Calibrates, Unsound, Given
  <1> QED
    BY <1>2, <1>3, <1>4

WithEdit(f, edit) ==
  [f EXCEPT ![edit.page] =
     IF edit.item = "all" THEN edit.value ELSE [@ EXCEPT ![edit.item] = edit.value]]

(* An edit is of one page, and leaves it a page.                           *)
LEMMA EditedShape ==
  ASSUME NEW f, FormShape(f), NEW edit \in Edits, NEW g, g = WithEdit(f, edit)
  PROVE  /\ FormShape(g)
         /\ edit.page # "features" => g.features = f.features
         /\ edit.page # "gathering" => g.gathering = f.gathering
         /\ edit.page # "safety" => g.safety = f.safety
         /\ edit.page # "hotkeys" => g.hotkeys = f.hotkeys
         /\ edit.page # "movement" => g.movement = f.movement
  <1> USE DEF FormShape, WithEdit
  <1>1. CASE edit.page = "features" /\ edit.item \in {"quests", "scienceBear", "collect"}
             /\ edit.value \in BOOLEAN
    <2>1. g = [features |-> [f.features EXCEPT ![edit.item] = edit.value], gathering |-> f.gathering,
               safety |-> f.safety, hotkeys |-> f.hotkeys, movement |-> f.movement]
      BY <1>1
    <2>2. FeaturesShape([f.features EXCEPT ![edit.item] = edit.value])
      BY <1>1 DEF FeaturesShape
    <2> QED
      BY <1>1, <2>1, <2>2
  <1>2. CASE edit.page = "gathering"
             /\ ((edit.item = "fields" /\ edit.value \in Seq(STRING))
                 \/ edit.item \in {"enabled", "pattern", "minutes"})
    <2>1. g = [features |-> f.features, gathering |-> [f.gathering EXCEPT ![edit.item] = edit.value],
               safety |-> f.safety, hotkeys |-> f.hotkeys, movement |-> f.movement]
      BY <1>2
    <2>2. edit.item = "fields" => IsList(edit.value)
      BY <1>2, SequenceIsList
    <2>3. GatheringShape([f.gathering EXCEPT ![edit.item] = edit.value])
      BY <1>2, <2>2 DEF GatheringShape
    <2> QED
      BY <1>2, <2>1, <2>3
  <1>3. CASE edit.page \in {"movement", "safety", "hotkeys"}
    BY <1>3
  <1> QED
    BY <1>1, <1>2, <1>3, SettingsAssumption

(* Every step keeps the strengthening.                                     *)
LEMMA SettingsStep == SettingsInv /\ [SettingsNext]_settingsVars => SettingsInv'
  <1> SUFFICES ASSUME SettingsInv, [SettingsNext]_settingsVars PROVE SettingsInv'
    OBVIOUS
  <1>0. /\ ProfileShape(profile) /\ FormShape(form) /\ UntouchedShown /\ Calibrated
        /\ ScriptsRunSoundValues
    BY DEF SettingsInv
  <1>1. CASE UNCHANGED settingsVars
    <2>1. profile' = profile /\ form' = form
      BY <1>1 DEF settingsVars
    <2>2. UntouchedShown' /\ Calibrated' /\ ScriptsRunSoundValues'
      BY <1>0, <1>1 DEF settingsVars, UntouchedShown, Calibrated, ScriptsRunSoundValues
    <2> QED
      BY <1>0, <2>1, <2>2 DEF SettingsInv
  <1>2. ASSUME ProfileShape(profile'), form' = Project(profile')
        PROVE  FormShape(form') /\ UntouchedShown'
    BY <1>2, ProjectionIsForm, Shown DEF UntouchedShown
  <1>3. CASE Import
    <2>1. PICK ini \in Inis : profile' = Imported(ini)
      BY <1>3 DEF Import
    <2>2. ProfileShape(profile') /\ Calibrated'
      BY <2>1, ImportedShape DEF Calibrated
    <2>3. ScriptsRunSoundValues'
      BY <1>3 DEF Import, ScriptsRunSoundValues
    <2> QED
      BY <1>2, <1>3, <2>2, <2>3 DEF Import, SettingsInv
  <1>4. CASE EditForm
    <2>1. PICK edit \in Edits :
            form' = WithEdit(form, edit) /\ touched' = touched \cup {edit.page}
      BY <1>4 DEF EditForm, WithEdit
    <2>2. /\ FormShape(form')
          /\ edit.page # "features" => form'.features = form.features
          /\ edit.page # "gathering" => form'.gathering = form.gathering
          /\ edit.page # "safety" => form'.safety = form.safety
          /\ edit.page # "hotkeys" => form'.hotkeys = form.hotkeys
          /\ edit.page # "movement" => form'.movement = form.movement
      BY ONLY <1>0, <2>1, EditedShape
    <2>3. profile' = profile /\ imported' = imported /\ saved' = saved /\ used' = used
      BY <1>4 DEF EditForm
    <2>4. UntouchedShown'
      BY <1>0, <2>1, <2>2, <2>3 DEF UntouchedShown
    <2>5. Calibrated' /\ ScriptsRunSoundValues'
      BY <1>0, <2>3 DEF Calibrated, ScriptsRunSoundValues
    <2> QED
      BY <1>0, <2>2, <2>3, <2>4, <2>5 DEF SettingsInv
  <1>5. CASE Discard
    <2>1. profile' = profile /\ imported' = imported /\ saved' = saved /\ used' = used
          /\ form' = Project(profile')
      BY <1>5 DEF Discard
    <2>2. Calibrated' /\ ScriptsRunSoundValues'
      BY <1>0, <2>1 DEF Calibrated, ScriptsRunSoundValues
    <2> QED
      BY <1>0, <1>2, <2>1, <2>2 DEF SettingsInv
  <1>6. CASE SaveForm
    <2>1. profile' = Apply(form, profile) /\ form' = Project(profile') /\ saved' /\ used' = used
      BY <1>6 DEF SaveForm
    <2>2. ProfileShape(profile') /\ profile'.movement = form.movement
      BY <1>0, <2>1, AppliedShape
    <2>3. \A k \in Keys : InRange(k, profile'.movement[k])
      BY <1>6, <2>2 DEF SaveForm, Accepts
    <2>4. Calibrated'
      BY <2>1, <2>3 DEF Calibrated
    <2>5. ScriptsRunSoundValues'
      BY <1>0, <2>1 DEF ScriptsRunSoundValues
    <2> QED
      BY <1>2, <2>1, <2>2, <2>4, <2>5 DEF SettingsInv
  <1>7. CASE StartScript
    <2>1. /\ profile' = profile /\ form' = form /\ touched' = touched
          /\ imported' = imported /\ saved' = saved /\ used' = HarnessSettings(profile)
      BY <1>7 DEF StartScript
    <2>2. UntouchedShown' /\ Calibrated'
      BY <1>0, <2>1 DEF UntouchedShown, Calibrated
    <2>3. ASSUME used' \notin {Absent, Invalid}, ~OpenImport(profile)
          PROVE  /\ \A k \in Keys : InRange(k, used'[k])
                 /\ imported /\ ~saved =>
                      \A k \in Keys : profile.snapshot[1].movement[k] \in {Absent, used'[k]}
      <3>1. used' = profile.movement
        BY <2>1, <2>3 DEF HarnessSettings
      <3> QED
        BY <1>0, <2>3, <3>1 DEF Calibrated, OpenImport
    <2>4. ASSUME used' \notin {Absent, Invalid}, OpenImport(profile), NEW k \in Keys
          PROVE  InRange(k, used'[k]) /\ profile.snapshot[1].exact[k] \in {Absent, used'[k]}
      BY <1>0, <2>1, <2>4 DEF Calibrated, HarnessSettings, Unsound
    <2>5. ScriptsRunSoundValues'
      <3> SUFFICES ASSUME used' \notin {Absent, Invalid}
                   PROVE  /\ \A k \in Keys : InRange(k, used'[k])
                          /\ imported /\ ~saved =>
                               \/ \A k \in Keys :
                                    profile.snapshot[1].movement[k] \in {Absent, used'[k]}
                               \/ \A k \in Keys :
                                    profile.snapshot[1].exact[k] \in {Absent, used'[k]}
        BY <2>1 DEF ScriptsRunSoundValues
      <3>1. CASE OpenImport(profile)
        BY <2>4, <3>1
      <3>2. CASE ~OpenImport(profile)
        BY <2>3, <3>2
      <3> QED
        BY <3>1, <3>2
    <2> QED
      BY <1>0, <2>1, <2>2, <2>5 DEF SettingsInv
  <1> QED
    BY <1>1, <1>3, <1>4, <1>5, <1>6, <1>7 DEF SettingsNext

(* The strengthening holds at every step.                                  *)
LEMMA SettingsInvariant == SettingsSpec => []SettingsInv
  BY SettingsInitially, SettingsStep, PTL DEF SettingsSpec

(* For any ranges, defaults, files and edits, and whatever each of the two *)
(* readings finds in the files: no script runs with a value out of its     *)
(* range, and before a form was saved with all values of one reading.      *)
THEOREM ScriptValuesAreSound == SettingsSpec => []ScriptsRunSoundValues
  <1>1. SettingsInv => ScriptsRunSoundValues
    BY DEF SettingsInv
  <1> QED
    BY <1>1, SettingsInvariant, PTL

(* A whole number of minutes is shown as it is saved.                      *)
LEMMA WholeMinutes ==
  ASSUME NEW r, NEW m \in Int, m >= 1, r.seconds = m * 60
  PROVE  MinutesOf(r) = m
  <1>1. (m * 60) \div 60 = m
    OBVIOUS
  <1> QED
    BY <1>1 DEF MinutesOf, AtLeastOne

(* The next projection of the Gather page.                                 *)
LEMMA GatheringAsSaved ==
  ASSUME NEW f, NEW p, ProfileShape(p), FormShape(f), Accepts(f)
  PROVE  /\ Project(Apply(f, p)).gathering.enabled = f.gathering.enabled
         /\ Project(Apply(f, p)).gathering.fields = f.gathering.fields
         /\ f.gathering.fields # <<>> => Project(Apply(f, p)).gathering = f.gathering
  <1> DEFINE q == Apply(f, p)
             g == f.gathering
             uniform == [k \in DOMAIN g.fields |-> Uniform(g, k)]
  <1>1. q.rotations = (IF ShowsGathering(p, g) THEN p.rotations ELSE uniform)
        /\ q.gathering = g.enabled /\ IsList(q.rotations)
    BY AppliedShape DEF ProfileShape
  <1>2. GatheringShape(g) /\ g.minutes \in Int /\ g.minutes >= 1
    BY SettingsAssumption DEF FormShape, Accepts
  <1> HIDE DEF q
  <1>3. [k \in DOMAIN q.rotations |-> q.rotations[k].field] = g.fields
    <2>1. CASE ShowsGathering(p, g)
      BY <1>1, <2>1 DEF ShowsGathering
    <2>2. CASE ~ShowsGathering(p, g)
      <3>1. q.rotations = uniform /\ g.fields = [k \in DOMAIN g.fields |-> g.fields[k]]
        BY <1>1, <1>2, <2>2 DEF GatheringShape, IsList
      <3>2. DOMAIN q.rotations = DOMAIN g.fields
        BY <3>1
      <3>3. ASSUME NEW k \in DOMAIN g.fields PROVE q.rotations[k].field = g.fields[k]
        BY <3>1 DEF Uniform
      <3> QED
        BY <3>1, <3>2, <3>3
    <2> QED
      BY <2>1, <2>2
  <1>4. q.rotations = <<>> <=> g.fields = <<>>
    <2>1. DOMAIN g.fields = DOMAIN q.rotations
      BY <1>3
    <2>2. g.fields = [k \in DOMAIN q.rotations |-> g.fields[k]]
      BY <1>2, <2>1 DEF GatheringShape, IsList
    <2>3. IsList(q.rotations)
      BY <1>1
    <2> QED
      BY ONLY <2>2, <2>3, MappedList
  <1>5. ASSUME g.fields # <<>>
        PROVE  q.rotations[1].pattern = g.pattern /\ MinutesOf(q.rotations[1]) = g.minutes
    <2>1. CASE ShowsGathering(p, g)
      BY <1>1, <1>4, <1>5, <2>1 DEF ShowsGathering, SameMinutes
    <2>2. CASE ~ShowsGathering(p, g)
      <3>1. 1 \in DOMAIN g.fields
        BY <1>2, <1>5, ListNonEmpty DEF GatheringShape
      <3>2. q.rotations[1] = Uniform(g, 1)
        BY <1>1, <2>2, <3>1
      <3>3. q.rotations[1].pattern = g.pattern /\ q.rotations[1].seconds = g.minutes * 60
        BY <3>2 DEF Uniform
      <3> QED
        BY <1>2, <3>3, WholeMinutes
    <2> QED
      BY <2>1, <2>2
  <1>6. /\ Project(q).gathering.enabled = g.enabled
        /\ Project(q).gathering.fields = g.fields
    BY <1>1, <1>3 DEF Project
  <1>7. ASSUME g.fields # <<>> PROVE Project(q).gathering = g
    BY <1>1, <1>2, <1>3, <1>4, <1>5, <1>7 DEF Project, GatheringShape
  <1> QED
    BY <1>6, <1>7 DEF q

(* For any profile and any edits: the desktop shows next what was saved,   *)
(* and a save changes nothing that its user did not edit, the settings of  *)
(* the next script included, but for settling an open import.              *)
THEOREM EverySaveIsExact == SettingsSpec => SavesAreExact
  <1>1. ASSUME SettingsInv, [SettingsNext]_settingsVars, saves' # saves
        PROVE  ShownAsSaved(Project(profile')) /\ UntouchedKept
    <2>1. SaveForm
      BY <1>1 DEF SettingsNext, settingsVars, Import, EditForm, Discard, StartScript
    <2>2. ProfileShape(profile) /\ FormShape(form) /\ UntouchedShown
      BY <1>1 DEF SettingsInv
    <2>3. profile' = Apply(form, profile) /\ Accepts(form)
      BY <2>1 DEF SaveForm
    <2>4. /\ profile'.movement = form.movement /\ profile'.dice = form.safety
          /\ profile'.hotkey = form.hotkeys /\ profile'.collections = form.features.collect
          /\ profile'.quests = (form.features.quests \/ form.features.scienceBear)
          /\ profile'.gathering = form.gathering.enabled
          /\ profile'.configured /\ profile'.snapshot = profile.snapshot
          /\ ShowsGathering(profile, form.gathering) => profile'.rotations = profile.rotations
      BY ZenonT(30), <2>2, <2>3, AppliedShape
    <2>5. ShownAsSaved(Project(profile'))
      <3>1. /\ Project(profile').gathering.enabled = form.gathering.enabled
            /\ Project(profile').gathering.fields = form.gathering.fields
            /\ form.gathering.fields # <<>> => Project(profile').gathering = form.gathering
        BY <2>2, <2>3, GatheringAsSaved
      <3>2. /\ Project(profile').features.quests = profile'.quests
            /\ Project(profile').features.collect = profile'.collections
            /\ Project(profile').safety = profile'.dice
            /\ Project(profile').hotkeys = profile'.hotkey
            /\ Project(profile').movement = profile'.movement
        BY DEF Project, Features
      <3> QED
        BY <2>4, <3>1, <3>2 DEF ShownAsSaved
    <2>6. ASSUME "gathering" \notin touched
          PROVE  profile'.gathering = profile.gathering /\ profile'.rotations = profile.rotations
      <3>1. ShowsGathering(profile, Project(profile).gathering)
        BY <2>2, ShownGathering DEF ProfileShape
      <3> QED
        BY <2>2, <2>4, <2>6, <3>1 DEF UntouchedShown, ShowsGathering
    <2>7. ASSUME "features" \notin touched
          PROVE  profile'.quests = profile.quests /\ profile'.collections = profile.collections
      BY <2>2, <2>4, <2>7 DEF UntouchedShown, Features, ProfileShape
    <2>8. ASSUME "movement" \notin touched PROVE MovementKept
      BY <2>2, <2>4, <2>8 DEF UntouchedShown, MovementKept, HarnessSettings, OpenImport
    <2>9. /\ "safety" \notin touched => profile'.dice = profile.dice
          /\ "hotkeys" \notin touched => profile'.hotkey = profile.hotkey
      BY <2>2, <2>4 DEF UntouchedShown
    <2> QED
      BY <2>4, <2>5, <2>6, <2>7, <2>8, <2>9 DEF UntouchedKept
  <1> QED
    BY <1>1, SettingsInvariant, PTL DEF SettingsSpec, SavesAreExact

-----------------------------------------------------------------------------
(***************************************************************************)
(* The statistics.                                                         *)
(***************************************************************************)

Reading == [at : Int, honey : 1..HoneyMaximum]

(* What is kept is no older than two hours before the last of it.          *)
KeptFor(kept) ==
  \A k \in DOMAIN kept : Last(kept).at - kept[k].at <= KeepFor
(* The strengthening of what is published: whence the kept readings are.   *)
StatisticsInv ==
  /\ minute \in Int /\ confident \in Seq(Reading) /\ readings \subseteq Reading
  /\ KeptFor(confident) /\ \A k \in DOMAIN confident : confident[k] \in readings
  /\ StatisticsAreSound

(* In a set of indices, the n-th: how many there are up to it is n.        *)
LEMMA CountedUpTo ==
  ASSUME NEW N \in Nat, NEW S \in SUBSET (1..N)
  PROVE  /\ IsFiniteSet(S) /\ Cardinality(S) \in Nat
         /\ \A k \in S : Cardinality({j \in S : j <= k}) \in 1..Cardinality(S)
         /\ \A k, l \in S :
              Cardinality({j \in S : j <= k}) = Cardinality({j \in S : j <= l}) => k = l
         /\ \A n \in 1..Cardinality(S) : \E k \in S : Cardinality({j \in S : j <= k}) = n
  <1> DEFINE c == Cardinality(S)
             upto(k) == {j \in S : j <= k}
             f == [k \in S |-> Cardinality(upto(k))]
  <1>1. IsFiniteSet(S) /\ c \in Nat
    <2>1. IsFiniteSet(1..N)
      BY FS_Interval
    <2>2. IsFiniteSet(S)
      BY <2>1, FS_Subset
    <2> QED
      BY <2>2, FS_CardinalityType
  <1>2. ASSUME NEW k \in S
        PROVE  /\ IsFiniteSet(upto(k)) /\ Cardinality(upto(k)) \in 1..c
               /\ Cardinality(upto(k)) = c => upto(k) = S
    <2>1. upto(k) \in SUBSET S /\ k \in upto(k)
      OBVIOUS
    <2> HIDE DEF upto
    <2>2. /\ IsFiniteSet(upto(k)) /\ Cardinality(upto(k)) <= c
          /\ c = Cardinality(upto(k)) => S = upto(k)
      BY <1>1, <2>1, FS_Subset
    <2>3. Cardinality(upto(k)) \in Nat /\ Cardinality(upto(k)) # 0
      BY <2>1, <2>2, FS_CardinalityType, FS_EmptySet
    <2> QED
      BY <1>1, <2>2, <2>3
  <1>3. ASSUME NEW k \in S, NEW l \in S, k < l
        PROVE  Cardinality(upto(k)) # Cardinality(upto(l))
    <2>0. k \in Int /\ l \in Int /\ \A j \in S : j \in Int
      OBVIOUS
    <2>a. (\A j \in S : j <= k => j <= l) /\ l <= l /\ ~(l <= k)
      BY <1>3, <2>0
    <2>1. upto(k) \in SUBSET upto(l) /\ l \in upto(l) /\ l \notin upto(k)
      BY <2>a, Zenon
    <2> HIDE DEF upto
    <2> QED
      BY <1>2, <2>1, FS_Subset
  <1>4. \A k, l \in S : Cardinality(upto(k)) = Cardinality(upto(l)) => k = l
    <2> SUFFICES ASSUME NEW k \in S, NEW l \in S, Cardinality(upto(k)) = Cardinality(upto(l))
                 PROVE  k = l
      OBVIOUS
    <2>1. k \in Int /\ l \in Int
      OBVIOUS
    <2>2. ~(k < l) /\ ~(l < k)
      BY <1>3
    <2> QED
      BY <2>1, <2>2
  <1>5. ASSUME NEW n \in 1..c, \A k \in S : Cardinality(upto(k)) # n PROVE FALSE
    <2> DEFINE rest == (1..c) \ {n}
    <2>1. IsFiniteSet(1..c) /\ Cardinality(1..c) = c
      BY <1>1, FS_Interval
    <2>2. IsFiniteSet(rest) /\ Cardinality(rest) = c - 1
      BY <2>1, FS_RemoveElement
    <2>3. f \in [S -> rest]
      BY <1>2, <1>5
    <2>4. Cardinality(rest) < Cardinality(S)
      BY <1>1, <2>2
    <2> HIDE DEF rest, f
    <2>5. \E x, y \in S : x # y /\ f[x] = f[y]
      BY <1>1, <2>2, <2>3, <2>4, FS_PigeonHole
    <2> QED
      BY <1>4, <2>5 DEF f
  <1> QED
    BY <1>1, <1>2, <1>4, <1>5

(* What is kept was kept before, and the reading that was just added is    *)
(* the last of it.                                                         *)
LEMMA Retained ==
  ASSUME NEW kept \in Seq(Reading), NEW now \in Int, kept # <<>>, Last(kept).at = now
  PROVE  /\ Retain(kept, now) \in Seq(Reading) /\ Retain(kept, now) # <<>>
         /\ Last(Retain(kept, now)) = Last(kept)
         /\ \A n \in DOMAIN Retain(kept, now) :
              \E k \in DOMAIN kept : Retain(kept, now)[n] = kept[k] /\ now - kept[k].at <= KeepFor
  <1> DEFINE S == StillKept(kept, now)
             c == Cardinality(S)
             at(n) == CHOOSE k \in S : StillKeptUpTo(kept, now, k) = n
             r == Retain(kept, now)
             N == Len(kept)
  <1>1. N \in Nat /\ DOMAIN kept = 1..N /\ N \in DOMAIN kept /\ Last(kept) = kept[N]
    BY DEF Last
  <1>2. S \in SUBSET (1..N) /\ \A k \in S : now - kept[k].at <= KeepFor
    BY <1>1 DEF StillKept
  <1>3. N \in S
    BY <1>1, StatisticsAssumption DEF StatisticsAssumption, StillKept
  <1>4. /\ c \in Nat /\ IsFiniteSet(S)
        /\ \A k, l \in S : StillKeptUpTo(kept, now, k) = StillKeptUpTo(kept, now, l) => k = l
        /\ \A n \in 1..c : \E k \in S : StillKeptUpTo(kept, now, k) = n
    <2> HIDE DEF S, N
    <2>1. /\ c \in Nat /\ IsFiniteSet(S)
          /\ \A k, l \in S : Cardinality({j \in S : j <= k}) = Cardinality({j \in S : j <= l}) => k = l
          /\ \A n \in 1..c : \E k \in S : Cardinality({j \in S : j <= k}) = n
      BY <1>1, <1>2, CountedUpTo
    <2>2. \A k \in S : StillKeptUpTo(kept, now, k) = Cardinality({j \in S : j <= k})
      BY DEF StillKeptUpTo, S
    <2>3. \A k, l \in S : StillKeptUpTo(kept, now, k) = StillKeptUpTo(kept, now, l) => k = l
      <3> SUFFICES ASSUME NEW k \in S, NEW l \in S,
                          StillKeptUpTo(kept, now, k) = StillKeptUpTo(kept, now, l)
                   PROVE  k = l
        OBVIOUS
      <3>1. Cardinality({j \in S : j <= k}) = Cardinality({j \in S : j <= l})
        BY <2>2
      <3> QED
        BY <2>1, <3>1
    <2>4. \A n \in 1..c : \E k \in S : StillKeptUpTo(kept, now, k) = n
      BY <2>1, <2>2
    <2> QED
      BY <2>1, <2>3, <2>4
  <1>5. \A n \in 1..c : at(n) \in S /\ StillKeptUpTo(kept, now, at(n)) = n
    BY <1>4
  <1>6. StillKeptUpTo(kept, now, N) = c
    <2>1. {j \in S : j <= N} = S
      BY <1>1, <1>2
    <2> QED
      BY <2>1 DEF StillKeptUpTo
  <1>7. c # 0
    <2> HIDE DEF S
    <2> QED
      BY <1>3, <1>4, FS_EmptySet
  <1>8. c \in 1..c
    BY <1>4, <1>7
  <1>9. at(c) = N
    BY <1>3, <1>4, <1>5, <1>6, <1>8
  <1> HIDE DEF at, S, c, N
  <1>10. r = [n \in 1..c |-> kept[at(n)]]
    BY DEF Retain, at, S, c
  <1> HIDE DEF r
  <1>11. \A n \in 1..c : kept[at(n)] \in Reading /\ at(n) \in DOMAIN kept
    <2>1. \A n \in 1..c : at(n) \in DOMAIN kept
      BY <1>1, <1>2, <1>5
    <2> QED
      BY <2>1
  <1>12. r \in Seq(Reading) /\ Len(r) = c /\ DOMAIN r = 1..c
    <2>1. r \in [1..c -> Reading]
      BY <1>10, <1>11
    <2> QED
      BY <1>4, <2>1
  <1>13. r # <<>> /\ Last(r) = kept[N]
    <2>1. Last(r) = r[c]
      BY <1>12 DEF Last
    <2> QED
      BY <1>7, <1>8, <1>9, <1>10, <1>12, <2>1
  <1>14. \A n \in DOMAIN r : \E k \in DOMAIN kept : r[n] = kept[k] /\ now - kept[k].at <= KeepFor
    BY <1>2, <1>5, <1>10, <1>11, <1>12
  <1> QED
    BY <1>1, <1>12, <1>13, <1>14 DEF r

(* A value that is read was read twice, and no other was.                  *)
LEMMA HoneyIsAgreed ==
  ASSUME NEW reads, NEW n \in Nat, DOMAIN reads = 1..n, Honey(reads) # NotRead
  PROVE  LET v == Honey(reads) IN
         /\ v \in 1..HoneyMaximum
         /\ \E j, k \in DOMAIN reads : j # k /\ reads[j] = v /\ reads[k] = v
         /\ \A j, k \in DOMAIN reads :
              j # k /\ reads[j] = reads[k] /\ reads[j] \in 1..HoneyMaximum => reads[j] = v
  <1> DEFINE v == Honey(reads)
             voters(x) == {k \in DOMAIN reads : Normalized(reads[k]) = x}
  <1>1. IsFiniteSet(DOMAIN reads)
    BY FS_Interval
  <1>2. \A x : /\ voters(x) \in SUBSET DOMAIN reads /\ IsFiniteSet(voters(x))
               /\ Cardinality(voters(x)) \in Nat /\ Votes(reads, x) = Cardinality(voters(x))
    <2>1. \A x : voters(x) \in SUBSET DOMAIN reads /\ IsFiniteSet(voters(x))
      BY <1>1, FS_Subset
    <2> QED
      BY <2>1, FS_CardinalityType DEF Votes
  <1>3. Agreeing(reads) = {v}
    <2>1. Cardinality(Agreeing(reads)) = 1 /\ v = CHOOSE x \in Agreeing(reads) : TRUE
      BY DEF Honey
    <2>2. IsFiniteSet(Agreeing(reads))
      <3> DEFINE g == [k \in DOMAIN reads |-> Normalized(reads[k])]
                 T == {g[k] : k \in DOMAIN reads}
      <3>1. g \in Surjection(DOMAIN reads, T)
        BY DEF Surjection
      <3>2. IsFiniteSet(T)
        <4> HIDE DEF g, T
        <4> QED
          BY <1>1, <3>1, FS_Surjection
      <3>3. Agreeing(reads) \in SUBSET T
        BY DEF Agreeing
      <3> QED
        BY <3>2, <3>3, FS_Subset
    <2>3. PICK x : Agreeing(reads) = {x}
      BY <2>1, <2>2, FS_Singleton
    <2> QED
      BY <2>1, <2>3
  <1>4. v # NotRead /\ Votes(reads, v) >= 2
    BY <1>3 DEF Agreeing
  <1>5. PICK j, k \in voters(v) : j # k
    <2>1. Cardinality(voters(v)) # 0 /\ Cardinality(voters(v)) # 1
      BY <1>2, <1>4
    <2>2. PICK j \in voters(v) : TRUE
      BY <1>2, <2>1, FS_EmptySet
    <2>3. voters(v) # {j}
      BY <1>2, <2>1, FS_Singleton
    <2> QED
      BY <2>2, <2>3
  <1>6. reads[j] = v /\ reads[k] = v /\ v \in 1..HoneyMaximum
    BY <1>4, <1>5 DEF Normalized
  <1>7. ASSUME NEW i \in DOMAIN reads, NEW l \in DOMAIN reads, i # l, reads[i] = reads[l],
               reads[i] \in 1..HoneyMaximum
        PROVE  reads[i] = v
    <2>0. reads[i] # NotRead
      BY <1>7, StatisticsAssumption DEF StatisticsAssumption
    <2>1. Normalized(reads[i]) = reads[i] /\ i \in voters(reads[i]) /\ l \in voters(reads[i])
      BY <1>7 DEF Normalized
    <2>2. Cardinality(voters(reads[i])) >= 2
      <3>1. {i, l} \in SUBSET voters(reads[i])
        BY <2>1
      <3>2. IsFiniteSet({i}) /\ Cardinality({i}) = 1
        BY FS_Singleton
      <3>3. Cardinality({i} \cup {l}) = 2
        <4>1. l \notin {i}
          BY <1>7
        <4>2. Cardinality({i} \cup {l}) = Cardinality({i}) + 1
          BY ONLY <3>2, <4>1, FS_AddElement
        <4> QED
          BY ONLY <3>2, <4>2
      <3>4. {i} \cup {l} = {i, l}
        OBVIOUS
      <3>5. Cardinality({i, l}) <= Cardinality(voters(reads[i]))
        BY <1>2, <3>1, FS_Subset
      <3> QED
        BY <1>2, <3>3, <3>4, <3>5
    <2>3. Votes(reads, reads[i]) >= 2
      BY <1>2, <2>2
    <2>4. reads[i] \in Agreeing(reads)
      BY <2>0, <2>1, <2>3 DEF Agreeing
    <2> QED
      BY <1>3, <2>4
  <1>8. j \in DOMAIN reads /\ k \in DOMAIN reads /\ j # k
    BY <1>2, <1>5
  <1> QED
    BY <1>6, <1>7, <1>8

(* The rate is the difference of the first and the last that are kept.     *)
LEMMA RateIsSound ==
  ASSUME NEW kept \in Seq(Reading), KeptFor(kept), NEW known,
         \A k \in DOMAIN kept : kept[k] \in known, Rate(kept).known
  PROVE  /\ \E first, last \in known :
              /\ last.at - first.at \in MinimumSpan..KeepFor
              /\ Rate(kept).gained = last.honey - first.honey
              /\ Rate(kept).over = last.at - first.at
         /\ (Rate(kept).gained * 60) \div Rate(kept).over >= 0
  <1>1. /\ Len(kept) >= 2 /\ Last(kept).at - kept[1].at >= MinimumSpan
        /\ Last(kept).honey >= kept[1].honey
        /\ Rate(kept).gained = Last(kept).honey - kept[1].honey
        /\ Rate(kept).over = Last(kept).at - kept[1].at
    BY DEF Rate, Unavailable
  <1>2. 1 \in DOMAIN kept /\ Len(kept) \in DOMAIN kept /\ Last(kept) = kept[Len(kept)]
    BY <1>1 DEF Last
  <1>3. kept[1] \in Reading /\ Last(kept) \in Reading /\ kept[1] \in known /\ Last(kept) \in known
    BY <1>2
  <1>4. /\ kept[1].at \in Int /\ Last(kept).at \in Int
        /\ kept[1].honey \in Int /\ Last(kept).honey \in Int
    BY <1>3, StatisticsAssumption DEF StatisticsAssumption, Reading
  <1>5. Last(kept).at - kept[1].at <= KeepFor
    BY <1>2 DEF KeptFor
  <1>6. /\ MinimumSpan \in Nat \ {0} /\ KeepFor \in Nat
        /\ Last(kept).at - kept[1].at \in MinimumSpan..KeepFor
    BY <1>1, <1>4, <1>5, StatisticsAssumption DEF StatisticsAssumption
  <1>7. \A a \in Nat, b \in Nat \ {0} : (a * 60) \div b >= 0
    OBVIOUS
  <1>8. Rate(kept).gained \in Nat /\ Rate(kept).over \in Nat \ {0}
    BY <1>1, <1>4, <1>6
  <1> QED
    BY <1>1, <1>3, <1>6, <1>7, <1>8

(* A sample keeps the strengthening.                                       *)
LEMMA StatisticsStep ==
  ASSUME StatisticsInv, TakeSample
  PROVE  StatisticsInv'
  <1>1. PICK pause \in Pauses, seen \in Screens :
          LET now == minute + pause
              honey == Look(seen)
              read == [at |-> now, honey |-> honey]
          IN /\ minute' = now
             /\ confident' = IF honey = NotRead THEN confident
                             ELSE Retain(Append(confident, read), now)
             /\ readings' = IF honey = NotRead THEN readings ELSE readings \cup {read}
             /\ sample' = [honey |-> honey, rate |-> Rate(confident'), at |-> now]
             /\ screen' = seen
    BY DEF TakeSample
  <1> DEFINE now == minute + pause
             honey == Look(seen)
             read == [at |-> now, honey |-> honey]
             kept == Append(confident, read)
  <1>2. now \in Int /\ minute' = now
    BY <1>1, StatisticsAssumption DEF StatisticsInv, StatisticsAssumption
  <1>3. ASSUME honey # NotRead
        PROVE  /\ Len(seen.windows) = 1 /\ honey = Honey(seen.reads)
               /\ DOMAIN seen.reads = 1..5 /\ honey \in 1..HoneyMaximum
               /\ \E j, k \in DOMAIN seen.reads :
                    j # k /\ seen.reads[j] = honey /\ seen.reads[k] = honey
               /\ \A j, k \in DOMAIN seen.reads :
                    j # k /\ seen.reads[j] = seen.reads[k] /\ seen.reads[j] \in 1..HoneyMaximum
                      => seen.reads[j] = honey
    <2>1. Len(seen.windows) = 1 /\ honey = Honey(seen.reads) /\ DOMAIN seen.reads = 1..5
      BY <1>3, StatisticsAssumption DEF Look, StatisticsAssumption
    <2>2. Honey(seen.reads) # NotRead /\ 5 \in Nat
      BY <1>3, <2>1
    <2> HIDE DEF honey
    <2> QED
      BY <2>1, <2>2, HoneyIsAgreed
  <1> HIDE DEF honey
  <1>4. /\ confident' \in Seq(Reading) /\ readings' \subseteq Reading /\ KeptFor(confident')
        /\ \A k \in DOMAIN confident' : confident'[k] \in readings'
    <2>1. CASE honey = NotRead
      BY <1>1, <2>1 DEF StatisticsInv, honey
    <2>2. CASE honey # NotRead
      <3>1. read \in Reading /\ readings' = readings \cup {read} /\ confident' = Retain(kept, now)
        BY <1>1, <1>2, <1>3, <2>2 DEF Reading, honey
      <3>2. confident \in Seq(Reading) /\ readings \subseteq Reading
        BY DEF StatisticsInv
      <3> DEFINE m == Len(confident)
      <3>3. /\ kept \in Seq(Reading) /\ Len(kept) = m + 1 /\ kept[m + 1] = read
            /\ m \in Nat /\ \A k \in 1..m : kept[k] = confident[k]
        BY <3>1, <3>2
      <3> HIDE DEF kept, read, m
      <3>4. kept # <<>> /\ Last(kept) = read /\ DOMAIN kept = 1..(m + 1)
        BY <3>3 DEF Last
      <3>5. Last(kept).at = now
        BY <3>4 DEF read
      <3>6. /\ Retain(kept, now) \in Seq(Reading) /\ Last(Retain(kept, now)) = read
            /\ \A n \in DOMAIN Retain(kept, now) :
                 \E k \in DOMAIN kept : Retain(kept, now)[n] = kept[k] /\ now - kept[k].at <= KeepFor
        BY <1>2, <3>3, <3>4, <3>5, Retained
      <3>7. \A k \in DOMAIN kept : kept[k] \in readings'
        <4>1. ASSUME NEW k \in DOMAIN kept PROVE kept[k] \in readings'
          <5>1. CASE k \in 1..m
            <6>1. k \in DOMAIN confident /\ kept[k] = confident[k]
              BY <3>2, <3>3, <5>1 DEF m
            <6> QED
              BY <3>1, <6>1 DEF StatisticsInv
          <5>2. CASE k = m + 1
            BY <3>1, <3>3, <5>2
          <5> QED
            BY <3>3, <3>4, <5>1, <5>2
        <4> QED
          BY <4>1
      <3>8. KeptFor(Retain(kept, now))
        BY <3>4, <3>5, <3>6 DEF KeptFor
      <3>9. \A n \in DOMAIN Retain(kept, now) : Retain(kept, now)[n] \in readings'
        BY <3>6, <3>7
      <3>10. readings' \subseteq Reading
        BY <3>1, <3>2
      <3> QED
        BY <3>1, <3>6, <3>8, <3>9, <3>10
    <2> QED
      BY <2>1, <2>2
  <1>5. sample'.honey = honey /\ sample'.rate = Rate(confident') /\ screen' = seen
    BY <1>1 DEF honey
  <1>6. StatisticsAreSound'
    <2>1. ASSUME sample'.rate.known
          PROVE  /\ Metrics(sample').rate >= 0
                 /\ \E first, last \in readings' :
                      /\ last.at - first.at \in MinimumSpan..KeepFor
                      /\ sample'.rate.gained = last.honey - first.honey
                      /\ sample'.rate.over = last.at - first.at
      <3>1. /\ \E first, last \in readings' :
                 /\ last.at - first.at \in MinimumSpan..KeepFor
                 /\ Rate(confident').gained = last.honey - first.honey
                 /\ Rate(confident').over = last.at - first.at
            /\ (Rate(confident').gained * 60) \div Rate(confident').over >= 0
        BY <1>4, <1>5, <2>1, RateIsSound
      <3>2. Metrics(sample').rate = (sample'.rate.gained * 60) \div sample'.rate.over
        BY <2>1 DEF Metrics
      <3> QED
        BY <1>5, <3>1, <3>2
    <2> QED
      BY <1>3, <1>5, <2>1 DEF StatisticsAreSound
  <1> QED
    BY <1>2, <1>4, <1>6 DEF StatisticsInv

(* Whatever is on the screen and however the clock is set: the number that *)
(* is published was agreed on, and the rate is that of two trusted         *)
(* readings and never negative.                                            *)
THEOREM StatisticsStaySound == StatisticsSpec => []StatisticsAreSound
  <1>1. StatisticsInit => StatisticsInv
    <2> SUFFICES ASSUME StatisticsInit PROVE StatisticsInv
      OBVIOUS
    <2>1. confident \in Seq(Reading) /\ minute \in Int /\ readings \subseteq Reading
      BY DEF StatisticsInit
    <2>2. KeptFor(confident) /\ \A k \in DOMAIN confident : confident[k] \in readings
      BY DEF StatisticsInit, KeptFor
    <2>3. StatisticsAreSound
      BY DEF StatisticsInit, StatisticsAreSound, NoSample, Unavailable
    <2> QED
      BY <2>1, <2>2, <2>3 DEF StatisticsInv
  <1>2. StatisticsInv /\ [StatisticsNext]_statisticsVars => StatisticsInv'
    <2>1. StatisticsInv /\ UNCHANGED statisticsVars => StatisticsInv'
      BY DEF StatisticsInv, StatisticsAreSound, KeptFor, statisticsVars
    <2> QED
      BY <2>1, StatisticsStep DEF StatisticsNext
  <1>3. StatisticsInv => StatisticsAreSound
    BY DEF StatisticsInv
  <1> QED
    BY <1>1, <1>2, <1>3, PTL DEF StatisticsSpec
==============================================================================
