---------------------------- MODULE DaemonStore ----------------------------
(***************************************************************************)
(* What the daemon keeps on disk (core/src/persistence.rs) and how it      *)
(* starts, counts its crashes and ends (daemon/src/main.rs,                *)
(* core/src/engine.rs, core/src/crash_guard.rs).  A file is missing,       *)
(* corrupt or the image of a database; a database is the part of its rows  *)
(* that a start reads back.  A command that must survive a restore commits *)
(* and then makes a backup, in the three file operations of                *)
(* backup_connection; a crash, an I/O error or a corrupted file may come   *)
(* between any two of them, and in the middle of the plain file copies of  *)
(* a restore and of an undone migration.                                   *)
(***************************************************************************)
EXTENDS Integers, FiniteSets

CONSTANTS
  Profiles,   (* profile ids                                                *)
  Default,    (* the one a first start makes                                *)
  NoProfile,
  Secret,     (* the credential the user imports                            *)
  Version,    (* DATABASE_VERSION                                           *)
  Threshold,  (* crashes that enter safe mode                               *)
  Window,     (* and the time within which they count                       *)
  MaxTime,    (* bound: the clock                                           *)
  MaxCommands,(* bound: requests of the clients                             *)
  MaxFaults   (* bound: crashes, I/O errors and corrupted files             *)

ASSUME StoreAssumption ==
  /\ Default \in Profiles /\ NoProfile \notin Profiles /\ Secret \notin Profiles
  /\ Version \in Nat /\ Threshold \in Nat \ {0} /\ Window \in Nat
  /\ MaxTime \in Nat /\ MaxCommands \in Nat /\ MaxFaults \in Nat

VARIABLES
  db, good, pre,  (* the database, its last-good copy, its pre-migration copy *)
  step,        (* where the process is                                       *)
  copied,     (* how far the backup that is under way has come              *)
  temp,       (* what it has written                                        *)
  task,       (* the command or start-up step that waits for it             *)
  guard,      (* CrashLoopGuard.crashes                                     *)
  safe,       (* safe_mode                                                  *)
  hour,        (* the wall clock                                             *)
  faults, requests,
  (* history                                                                *)
  promised,   (* what was accepted for saving, and not deleted since        *)
  gone,       (* profiles whose deletion was accepted, and not saved since  *)
  announced,  (* safe mode was announced and not acknowledged since         *)
  ended,      (* how the last daemon that served came to its end            *)
  counted,    (* this start recorded a crash                                *)
  restored,   (* the database was restored since a daemon last served       *)
  torn,       (* no last-good copy was made since one was lost to a fault   *)
  refused,    (* the last start found nothing to restore                    *)
  before      (* the database as the last start opened it                   *)

files == <<db, good, pre>>
backup == <<copied, temp, task>>
memory == <<guard, safe>>
bounds == <<hour, faults, requests>>
history == <<promised, gone, announced, ended, counted, restored, torn, refused, before>>
storeVars == <<files, step, backup, memory, bounds, history>>

Missing == [kind |-> "missing"]
Corrupt == [kind |-> "corrupt"]
Image(version, profiles, selected) ==
  [kind |-> "image", version |-> version, profiles |-> profiles, selected |-> selected,
   secret |-> FALSE, clean |-> "none", safe |-> FALSE, crashes |-> {}]
Fresh == Image(0, {}, NoProfile)
Rows(f) == f.profiles \cup IF f.secret THEN {Secret} ELSE {}
Valid(f) == f.kind = "image"

NoTask == [kind |-> "none", p |-> NoProfile]
Task(kind, p) == [kind |-> kind, p |-> p]
StartTasks == {"default", "crash"}

Serving == {"serving", "marked"}

-----------------------------------------------------------------------------
(* backup_connection: the copy is written beside its destination, the      *)
(* destination removed and the copy renamed.                               *)

Destination == IF step = "premigration" THEN "pre" ELSE "good"
Backing == step \in {"premigration", "postmigration", "saving"}
Put(file, image) ==
  /\ good' = IF file = "good" THEN image ELSE good
  /\ pre' = IF file = "pre" THEN image ELSE pre

WriteMissingCopy ==
  /\ Backing /\ copied = "no"
  /\ temp' = (IF Destination = "good" /\ Valid(good) THEN good ELSE db) /\ copied' = "written"
  /\ UNCHANGED <<files, step, task, memory, bounds, history>>
WriteCopy ==
  /\ Backing /\ copied = "no"
  /\ temp' = db /\ copied' = "written"
  /\ UNCHANGED <<files, step, task, memory, bounds, history>>

RemoveOld ==
  /\ Backing /\ copied = "written"
  /\ Put(Destination, Missing) /\ copied' = "removed"
  /\ UNCHANGED <<db, step, temp, task, memory, bounds, history>>

(* Where a process goes when its backup is in place, and when it is not.   *)
After == CASE step = "premigration" -> "migrate"
           [] step = "postmigration" -> "selection"
           [] task.kind = "default" -> "selection"
           [] task.kind = "crash" -> "flag"
           [] OTHER -> "serving"
Otherwise == IF step = "saving" /\ task.kind \notin StartTasks THEN "serving" ELSE "down"

-----------------------------------------------------------------------------
(* The crash-loop guard.                                                   *)

Recent(crashes, reference) == {t \in crashes : reference - Window <= t /\ t <= reference}
Tripped(crashes) == Cardinality(crashes) >= Threshold

(* record_daemon_crash: safe mode and the crashes are committed together,  *)
(* and safe mode is entered when the backup is made.                       *)
CommitGuard(inSafe, crashes) == db' = [db EXCEPT !.safe = inSafe, !.crashes = crashes]

ThenBackup(kind, p) == step' = "saving" /\ task' = Task(kind, p) /\ copied' = "no"

RecordCrash ==
  /\ step = "crashcheck" /\ db.clean = "false" /\ hour < MaxTime
  /\ LET crashes == Recent(guard \cup {hour}, hour) IN
       /\ guard' = crashes /\ CommitGuard(safe \/ Tripped(crashes), crashes)
  /\ hour' = hour + 1 /\ counted' = TRUE
  /\ ThenBackup("crash", NoProfile)
  /\ UNCHANGED <<good, pre, temp, safe, faults, requests, promised, gone, announced, ended,
                 restored, torn, refused, before>>

NoCrash ==
  /\ step = "crashcheck" /\ db.clean # "false" /\ step' = "flag"
  /\ UNCHANGED <<files, backup, memory, bounds, history>>

(* What is told when the backup is made.                                   *)
Reply ==
  /\ promised' = CASE task.kind = "save" -> promised \cup {task.p}
                   [] OTHER -> promised
  /\ gone' = CASE task.kind = "delete" -> gone \cup {task.p} [] OTHER -> gone
  /\ safe' = CASE task.kind = "crash" -> db.safe
               [] task.kind = "acknowledge" -> FALSE
               [] OTHER -> safe
  /\ announced' = (announced \/ (task.kind = "crash" /\ Tripped(guard)))

RenameCopy ==
  /\ Backing /\ copied = "removed"
  /\ Put(Destination, temp) /\ temp' = Missing /\ copied' = "no"
  /\ torn' = IF Destination = "good" THEN FALSE ELSE torn
  /\ step' = After /\ task' = NoTask /\ Reply
  /\ UNCHANGED <<db, guard, bounds, ended, counted, restored, refused, before>>

-----------------------------------------------------------------------------
(* SqliteStore::open.                                                      *)

Launch ==
  /\ step = "down" /\ step' = "integrity"
  /\ counted' = FALSE /\ refused' = FALSE
  /\ UNCHANGED <<files, backup, memory, bounds, promised, gone, announced, ended, restored, torn,
                 before>>

CheckIntegrity ==
  /\ step = "integrity"
  /\ step' = IF db # Corrupt THEN "premigration" ELSE IF Valid(good) THEN "restore" ELSE "down"
  /\ refused' = (step' = "down")
  /\ db' = IF db = Missing THEN Fresh ELSE db
  /\ before' = db'
  /\ UNCHANGED <<good, pre, backup, memory, bounds, promised, gone, announced, ended, counted,
                 restored, torn>>

(* fs::copy truncates its destination and then writes it.  A process that  *)
(* ends in between leaves a file cut to nothing, which SQLite opens as a   *)
(* new database, or a part of one.                                         *)
Truncated == {Fresh, Corrupt}

RestoreLastGood ==
  /\ \/ /\ step = "restore" /\ step' = "restoring" /\ db' \in Truncated
        /\ UNCHANGED <<restored, before>>
     \/ /\ step = "restoring" /\ step' = "premigration" /\ db' = good
        /\ restored' = TRUE /\ before' = good
  /\ UNCHANGED <<good, pre, backup, memory, bounds, promised, gone, announced, ended, counted,
                 torn, refused>>

(* run_migrations: each in its own transaction.                            *)
Migrate ==
  /\ step = "migrate"
  /\ \/ /\ db.version < Version /\ db' = [db EXCEPT !.version = @ + 1] /\ UNCHANGED <<step, faults>>
     \/ /\ db.version = Version /\ step' = "postmigration" /\ UNCHANGED <<db, faults>>
     \/ /\ db.version > Version /\ step' = "undo" /\ UNCHANGED <<db, faults>>
     \/ /\ db.version < Version /\ faults < MaxFaults /\ faults' = faults + 1  (* one fails *)
        /\ step' = "undo" /\ UNCHANGED db
  /\ UNCHANGED <<good, pre, backup, memory, hour, requests, history>>

LeaveMigrated ==
  \/ step = "undo" /\ step' = "undoing" /\ UNCHANGED db
  \/ step = "undoing" /\ step' = "down" /\ UNCHANGED db
Undo ==
  \/ /\ step = "undo" /\ step' = "undoing" /\ db' \in Truncated
  \/ /\ step = "undoing" /\ step' = "down" /\ db' = pre

UndoMigration ==
  /\ step \in {"undo", "undoing"} /\ Undo
  /\ UNCHANGED <<good, pre, backup, memory, bounds, history>>

-----------------------------------------------------------------------------
(* initialize_engine.                                                      *)

(* initialize_profile_selection: a selection that exists no more falls     *)
(* back to the newest profile.                                             *)
Selection(newest) == IF db.selected \in db.profiles THEN db.selected ELSE newest

SelectInitial ==
  /\ step = "selection"
  /\ IF db.profiles = {}
     THEN /\ db' = [db EXCEPT !.profiles = {Default}] /\ ThenBackup("default", Default)
     ELSE /\ \E newest \in db.profiles : db' = [db EXCEPT !.selected = Selection(newest)]
          /\ step' = "guard" /\ UNCHANGED <<task, copied>>
  /\ UNCHANGED <<good, pre, temp, memory, bounds, history>>

RestoreGuard ==
  /\ step = "guard" /\ step' = "crashcheck"
  /\ guard' = Recent(db.crashes, hour)
  /\ safe' = (Tripped(guard') \/ db.safe)
  /\ UNCHANGED <<files, backup, bounds, history>>

FlagRunning ==
  /\ step = "flag" /\ step' = "serving"
  /\ db' = [db EXCEPT !.clean = "false"]
  /\ UNCHANGED <<good, pre, backup, memory, bounds, history>>

-----------------------------------------------------------------------------
(* The requests that write, and the end of the daemon.                     *)

Command == step = "serving" /\ requests < MaxCommands /\ requests' = requests + 1

SaveProfile(p) ==
  /\ Command /\ db' = [db EXCEPT !.profiles = @ \cup {p}]
  /\ gone' = gone \ {p}
  /\ ThenBackup("save", p)
  /\ UNCHANGED <<good, pre, temp, memory, hour, faults, promised, announced, ended, counted,
                 restored, torn, refused, before>>

DeleteProfile(p) ==
  /\ Command /\ p \in db.profiles /\ p # db.selected
  /\ db' = [db EXCEPT !.profiles = @ \ {p}]
  /\ promised' = promised \ {p}
  /\ ThenBackup("delete", p)
  /\ UNCHANGED <<good, pre, temp, memory, hour, faults, gone, announced, ended, counted,
                 restored, torn, refused, before>>

(* import_secret: the daemon seals the value, the store keeps ciphertext.  *)
ImportSecret ==
  /\ Command /\ ~db.secret /\ db' = [db EXCEPT !.secret = TRUE]
  /\ ThenBackup("save", Secret)
  /\ UNCHANGED <<good, pre, temp, memory, hour, faults, history>>

(* A runtime value is written without a backup.                            *)
SelectProfile(p) ==
  /\ Command /\ p \in db.profiles /\ db.selected # p
  /\ db' = [db EXCEPT !.selected = p]
  /\ UNCHANGED <<good, pre, step, backup, memory, hour, faults, history>>

AcknowledgeAttention ==
  /\ Command /\ safe
  /\ guard' = {} /\ CommitGuard(FALSE, {})
  /\ announced' = FALSE
  /\ ThenBackup("acknowledge", NoProfile)
  /\ UNCHANGED <<good, pre, temp, safe, hour, faults, promised, gone, ended, counted,
                 restored, torn, refused, before>>

(* ShutdownDaemon marks the end as clean before it says that it is ready;  *)
(* every other way out of the loop marks it last.                          *)
MarkNothing == UNCHANGED db
MarkClean == db' = [db EXCEPT !.clean = "true"]

ShutdownDaemon ==
  /\ step = "serving" /\ step' = "marked" /\ MarkClean /\ ended' = "clean" /\ restored' = FALSE
  /\ UNCHANGED <<good, pre, backup, memory, bounds, promised, gone, announced, counted, torn,
                 refused, before>>

LeaveLoop ==
  /\ step \in Serving /\ step' = "down" /\ MarkClean /\ ended' = "clean" /\ restored' = FALSE
  /\ guard' = {} /\ safe' = FALSE
  /\ UNCHANGED <<good, pre, backup, bounds, promised, gone, announced, counted, torn,
                 refused, before>>

-----------------------------------------------------------------------------
(* Time, and what can go wrong.                                            *)

StoreTick == hour < MaxTime /\ step = "down" /\ hour' = hour + 1
        /\ UNCHANGED <<files, step, backup, memory, faults, requests, history>>

Fault == faults < MaxFaults /\ faults' = faults + 1
Dies == step' = "down" /\ copied' = "no" /\ temp' = Missing /\ task' = NoTask
        /\ guard' = {} /\ safe' = FALSE

Served == step = "serving" \/ (step = "saving" /\ task.kind \notin StartTasks)

Gap == copied = "removed" /\ Destination = "good"

(* A copy that ends after it cut the database to nothing: the next start   *)
(* opens an empty database, and what was told of the old one is forgotten. *)
Emptied == step \in {"restoring", "undoing"} /\ db = Fresh

(* A crash, at any step; or an I/O error that ends a start, in a copy too. *)
DaemonDies ==
  /\ Fault /\ step # "down" /\ Dies
  /\ torn' = (torn \/ Gap)
  /\ IF Emptied
     THEN /\ promised' = {} /\ gone' = {} /\ announced' = FALSE
          /\ ended' = "none" /\ UNCHANGED restored
     ELSE /\ ended' = IF Served THEN "crash" ELSE ended
          /\ restored' = IF Served THEN FALSE ELSE restored
          /\ UNCHANGED <<promised, gone, announced>>
  /\ UNCHANGED <<files, hour, requests, counted, refused, before>>

(* A step of a backup fails: a command is rejected with what it committed  *)
(* in place, a start ends.                                                 *)
BackupFails ==
  /\ Fault /\ Backing
  /\ IF Otherwise = "down" THEN Dies
     ELSE /\ step' = Otherwise /\ copied' = "no" /\ temp' = Missing /\ task' = NoTask
          /\ UNCHANGED memory
  /\ torn' = (torn \/ Gap)
  /\ UNCHANGED <<files, hour, requests, promised, gone, announced, ended, counted, restored,
                 refused, before>>

(* A file is damaged while nothing runs.                                   *)
Damage ==
  /\ Fault /\ step = "down"
  /\ \/ Valid(db) /\ db' = Corrupt /\ UNCHANGED <<good, torn>>
     \/ Valid(good) /\ good' = Corrupt /\ torn' = TRUE /\ UNCHANGED db
  /\ UNCHANGED <<pre, step, backup, memory, hour, requests, promised, gone, announced, ended,
                 counted, restored, refused, before>>

-----------------------------------------------------------------------------
StoreInit ==
  /\ \/ db = Missing
     \/ \E v \in {Version - 1, Version + 1} : db = Image(v, Profiles, Default)
  /\ good = Missing /\ pre = Missing
  /\ step = "down" /\ copied = "no" /\ temp = Missing /\ task = NoTask
  /\ guard = {} /\ safe = FALSE /\ hour = 0 /\ faults = 0 /\ requests = 0
  /\ promised = IF Valid(db) THEN db.profiles ELSE {}
  /\ gone = {} /\ announced = FALSE /\ ended = "none" /\ counted = FALSE
  /\ restored = FALSE /\ torn = TRUE /\ refused = FALSE /\ before = db

Open ==
  Launch \/ CheckIntegrity \/ RestoreLastGood \/ Migrate \/ UndoMigration
    \/ WriteCopy \/ RemoveOld \/ RenameCopy
Initialize == SelectInitial \/ RestoreGuard \/ RecordCrash \/ NoCrash \/ FlagRunning
Serve ==
  \/ \E p \in Profiles : SaveProfile(p) \/ DeleteProfile(p) \/ SelectProfile(p)
  \/ ImportSecret \/ AcknowledgeAttention \/ ShutdownDaemon \/ LeaveLoop
StoreNext == Open \/ Initialize \/ Serve \/ StoreTick \/ DaemonDies \/ BackupFails \/ Damage

StoreSpec == StoreInit /\ [][StoreNext]_storeVars

-----------------------------------------------------------------------------
(* Properties.                                                             *)

(* Once a save or a deletion has been accepted, the daemon never serves a  *)
(* database without it, whatever crashed, failed or was restored since; and*)
(* it serves one, unless the last good copy was lost as well: in the gap   *)
(* of an interrupted backup, or damaged.  The one exception is a copy of   *)
(* persistence.rs:37 or 49 that ends after it has emptied the database:    *)
(* the next start takes that for a database, backs it up over both copies  *)
(* and serves it, and what was accepted before is gone (Emptied).          *)
AcceptedIsDurable ==
  /\ step \in Serving => promised \subseteq Rows(db) /\ gone \cap db.profiles = {}
  /\ refused => torn

(* Safe mode that has been announced is in force in every later daemon     *)
(* until the user acknowledges it or a copy empties the database, and also *)
(* when it is restored from its last good copy: "a                         *)
(* restart must never see a cleared timestamp list with a stale safe-mode  *)
(* bit (or the inverse)" (persistence.rs:202).  A daemon that serves has   *)
(* recorded the crash of the one before it, and records none when that one *)
(* ended cleanly; a restored database may have forgotten how it ended.     *)
CrashGuardHolds ==
  /\ announced /\ step \in Serving => safe
  /\ \A f \in {db, good} : Valid(f) =>
       /\ f.safe => f.crashes # {}
       /\ Tripped(f.crashes) => f.safe
  /\ step = "serving" /\ ~restored /\ ended # "none" => (counted <=> ended = "crash")

(* A start whose migration fails leaves the database as it found it.       *)
MigrationIsUndone ==
  [][step = "undoing" /\ step' = "down" /\ faults' = faults => db' = before]_storeVars
=============================================================================
