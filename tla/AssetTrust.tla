----------------------------- MODULE AssetTrust -----------------------------
(***************************************************************************)
(* From a file on disk to a running script (daemon/src/legacy_service.rs,  *)
(* legacy/src/runner.rs, core/src/session.rs, desktop bridge.rs).  Every   *)
(* release embeds a manifest that pins the digest of each imported asset,  *)
(* of the interpreter and of the support library.  The desktop checks the  *)
(* files once, when it starts; a profile records the digests its user      *)
(* reviewed; the daemon looks at the files again before every script.      *)
(* Installations, repairs and damage change files at any moment, and the   *)
(* desktop and the daemon may be of different releases.                    *)
(***************************************************************************)
EXTENDS Integers, Sequences, FiniteSets, Functions

CONSTANTS
  Releases,    (* the releases, each with its manifest                      *)
  Shipped,     (* the one that is installed first                           *)
  Assets,      (* imported routes and patterns                              *)
  Converted,   (* those of status safe_dsl: previews, never executed        *)
  Runtime, Support, (* the interpreter and the support library              *)
  Pinned,      (* the digest a release pins for each of these               *)
  Spoiled,     (* the digest of a damaged file                              *)
  SessionFields, (* the route and the pattern of each field                 *)
  Collects,    (* the routes of the scheduled collections                   *)
  Reset,       (* the built-in reset script                                 *)
  None,
  MaxChanges, MaxStarts, MaxScripts  (* bounds: file changes and            *)
               (* installations, starts of runs, scripts of one run         *)

Parts == Assets \cup {Runtime, Support}
Digests == UNION {Range(Pinned[r]) : r \in Releases} \cup {Spoiled}

ASSUME TrustAssumption ==
  /\ Converted \subseteq Assets /\ Runtime \notin Assets /\ Support \notin Assets
  /\ Shipped \in Releases
  /\ Reset \notin Parts /\ None \notin Releases \cup Digests
  /\ \A r \in Releases : DOMAIN Pinned[r] = Parts /\ Spoiled \notin Range(Pinned[r])
  /\ SessionFields \in Seq(Assets \X Assets) /\ Collects \in Seq(Assets)

VARIABLES
  installed,   (* the release a process would be started from               *)
  onDisk,      (* the digest of every file as it is now                     *)
  desktop,     (* the release of the running desktop, or None               *)
  inventory,   (* what the files were when the desktop started              *)
  server,      (* the release of the running daemon, or None                *)
  trusted,     (* the profile's trusted_extensions                          *)
  harmless,    (* it has no budget, purchase, donation, trade or Discord    *)
  job,         (* the run at work                                           *)
  reviewed,    (* every digest its user has reviewed, by asset              *)
  disturbed,   (* a file changed since this run began                       *)
  changes, starts

disk == <<installed, onDisk, changes, disturbed>>
review == <<trusted, harmless, reviewed>>
trustVars == <<disk, desktop, inventory, server, review, job, starts>>

(* A run: a pass of preflights over its steps, then its scripts.  It keeps *)
(* the copy of the profile it was started with.                            *)
NoJob == [pass |-> "none", steps |-> <<>>, k |-> 0, at |-> 0, trusted |-> trusted,
          harmless |-> harmless, copy |-> None, consent |-> None, scripts |-> 0]

-----------------------------------------------------------------------------
(* The desktop.                                                            *)

(* verify_legacy_assets, of the files as they were found at the start.     *)
InventoryHolds(a) ==
  /\ inventory[a] = Pinned[desktop][a]
  /\ a \notin Converted => \A p \in {Runtime, Support} : inventory[p] = Pinned[desktop][p]

Runnable(a, digest) ==
  desktop # None /\ a \notin Converted /\ digest = Pinned[desktop][a] /\ InventoryHolds(a)

TrustExtension(a, digest) ==
  /\ server # None /\ Runnable(a, digest)
  /\ trusted' = [trusted EXCEPT ![a] = digest]
  /\ reviewed' = reviewed \cup {<<a, digest>>}
  /\ UNCHANGED <<disk, desktop, inventory, server, harmless, job, starts>>

EditSafety ==
  /\ desktop # None /\ server # None /\ harmless' = ~harmless
  /\ UNCHANGED <<disk, desktop, inventory, server, trusted, reviewed, job, starts>>

Step(id, digest) == [id |-> id, digest |-> digest]
Started(steps) ==
  /\ server # None /\ job.pass = "none" /\ starts < MaxStarts
  /\ job' = [NoJob EXCEPT !.pass = "preflight", !.steps = steps, !.k = 1, !.at = 1]
  /\ starts' = starts + 1 /\ disturbed' = FALSE
  /\ UNCHANGED <<installed, onDisk, changes, desktop, inventory, server, review>>

StartExtension(a, digest) ==
  Runnable(a, digest) /\ trusted[a] = digest /\ Started(<<Step(a, digest)>>)

(* build_session_plan and build_collect_steps: travel, gather and reset for*)
(* each field, then the collections; one asset that is not trusted refuses *)
(* the whole session.  The digests are the profile's own.                  *)
SessionSteps ==
  [k \in 1..(3 * Len(SessionFields)) |->
     LET field == SessionFields[(k + 2) \div 3] IN
     CASE k % 3 = 1 -> Step(field[1], trusted[field[1]])
       [] k % 3 = 2 -> Step(field[2], trusted[field[2]])
       [] OTHER     -> Step(Reset, None)]
CollectSteps == [k \in DOMAIN Collects |-> Step(Collects[k], trusted[Collects[k]])]

StartSession ==
  LET steps == SessionSteps \o CollectSteps IN
  /\ desktop # None /\ SessionFields # <<>>
  /\ \A k \in DOMAIN steps : steps[k].id = Reset \/ steps[k].digest # None
  /\ Started(steps)

-----------------------------------------------------------------------------
(* The daemon: what has to hold of one step, in the order it is looked at. *)
(* preflight_legacy ends with the fragment; execute_verified begins with   *)
(* the same checks, verifies the interpreter and the bytes it embeds once  *)
(* more, hashes the script it has staged and, before it creates a process, *)
(* hashes it again.                                                        *)

Checks == <<"policy", "support", "interpreter", "fragment",
            "interpreter", "stage", "inspect", "launch">>
PreflightChecks == 4

ApprovedDigest(step) == step.digest = Pinned[server][step.id]
SafeProfile(step) ==
  job.harmless /\ (step.id # Reset => job.trusted[step.id] = Pinned[server][step.id])
SupportHolds == onDisk[Support] = Pinned[server][Support]
InterpreterHolds == onDisk[Runtime] = Pinned[server][Runtime]
AnyFragment(id) == id \notin Converted
VerifiedFragment(id) == id \notin Converted /\ onDisk[id] = Pinned[server][id]

ConsentMatches == job.copy = job.consent

Holds(check, step) ==
  CASE check = "policy"      -> SafeProfile(step) /\ (step.id # Reset => ApprovedDigest(step))
    [] check = "support"     -> SupportHolds
    [] check = "interpreter" -> InterpreterHolds
    [] check \in {"fragment", "stage"} -> step.id = Reset \/ VerifiedFragment(step.id)
    [] check = "inspect"     -> TRUE
    [] check = "launch"      -> ConsentMatches

(* The engine looks at every script once before it lets anything move.     *)
PlanOnly(steps) == {k \in DOMAIN steps : k <= 3 * Len(SessionFields)}
ToPreflight(steps) ==
  {k \in DOMAIN steps : \A j \in 1..(k - 1) : steps[j].id # steps[k].id}
NextPreflight(k) ==
  LET later == {j \in ToPreflight(job.steps) : j > k} IN
  IF later = {} THEN 0 ELSE CHOOSE j \in later : \A i \in later : j <= i

Over == job' = NoJob
Working == server # None /\ job.pass \in {"preflight", "execute"} /\ job.at > 0

Examine ==
  /\ Working
  /\ LET step == job.steps[job.k]
         check == Checks[job.at]
         next == [job EXCEPT !.at = @ + 1]
     IN IF ~Holds(check, step) THEN Over
        ELSE job' =
          IF job.pass = "preflight" /\ job.at = PreflightChecks
            THEN LET j == NextPreflight(job.k) IN
                 IF j > 0 THEN [job EXCEPT !.k = j, !.at = 1]
                          ELSE [job EXCEPT !.pass = "execute", !.at = 0]
          ELSE CASE check = "stage"   -> [next EXCEPT !.copy = IF step.id = Reset THEN Reset
                                                               ELSE onDisk[step.id]]
                 [] check = "inspect" -> [next EXCEPT !.consent = job.copy]
                 [] check = "launch"  -> [job EXCEPT !.pass = "running"]
                 [] OTHER             -> next
  /\ UNCHANGED <<disk, desktop, inventory, server, review, starts>>

(* Any check may fail for a reason of its own: no client in the foreground,*)
(* a file that cannot be read.                                             *)
Refuse ==
  /\ Working /\ Over
  /\ UNCHANGED <<disk, desktop, inventory, server, review, starts>>

(* The scripts of a run, in an order that LegacySession has.               *)
NextScript ==
  /\ server # None /\ job.pass = "execute" /\ job.at = 0 /\ job.scripts < MaxScripts
  /\ \E k \in DOMAIN job.steps :
       job' = [job EXCEPT !.k = k, !.at = 1, !.copy = None, !.consent = None,
                          !.scripts = @ + 1]
  /\ UNCHANGED <<disk, desktop, inventory, server, review, starts>>

ScriptExits ==
  /\ server # None /\ job.pass = "running"
  /\ job' = [job EXCEPT !.pass = "execute", !.at = 0]
  /\ UNCHANGED <<disk, desktop, inventory, server, review, starts>>

RunEnds ==
  /\ server # None /\ job.pass \in {"execute", "running"} /\ Over
  /\ UNCHANGED <<disk, desktop, inventory, server, review, starts>>

-----------------------------------------------------------------------------
(* The machine around them.  An installation names the release that starts *)
(* next; its files arrive one at a time, and any file may be damaged or    *)
(* repaired.  The staged script is as it was written when the runner       *)
(* inspects it, and may be damaged from then on.                           *)

Change == changes < MaxChanges /\ changes' = changes + 1

Install(r) ==
  /\ Change /\ r # installed /\ installed' = r
  /\ UNCHANGED <<onDisk, disturbed, desktop, inventory, server, review, job, starts>>

FileChanges(p) ==
  /\ Change
  /\ \E digest \in {Pinned[installed][p], Spoiled} \ {onDisk[p]} :
       onDisk' = [onDisk EXCEPT ![p] = digest]
  /\ disturbed' = TRUE
  /\ UNCHANGED <<installed, desktop, inventory, server, review, job, starts>>

StagedChanges ==
  /\ Change /\ job.pass = "execute" /\ job.consent # None /\ job.copy # Spoiled
  /\ job' = [job EXCEPT !.copy = Spoiled] /\ disturbed' = TRUE
  /\ UNCHANGED <<installed, onDisk, desktop, inventory, server, review, starts>>

OpenDesktop ==
  /\ desktop = None /\ desktop' = installed /\ inventory' = onDisk
  /\ UNCHANGED <<disk, server, review, job, starts>>

CloseDesktop ==
  /\ desktop # None /\ desktop' = None
  /\ UNCHANGED <<disk, inventory, server, review, job, starts>>

StartDaemon ==
  /\ server = None /\ desktop # None /\ server' = installed
  /\ UNCHANGED <<disk, desktop, inventory, review, job, starts>>

(* Its scripts end with it (the job object kills what it holds).           *)
DaemonEnds ==
  /\ server # None /\ server' = None /\ Over
  /\ UNCHANGED <<disk, desktop, inventory, review, starts>>

TrustInit ==
  /\ installed = Shipped
  /\ onDisk = Pinned[installed] /\ desktop = None /\ inventory = onDisk /\ server = None
  /\ trusted = [a \in Assets |-> None] /\ harmless = TRUE /\ reviewed = {}
  /\ job = NoJob /\ disturbed = FALSE /\ changes = 0 /\ starts = 0

TrustNext ==
  \/ \E a \in Assets, digest \in Digests : TrustExtension(a, digest) \/ StartExtension(a, digest)
  \/ EditSafety \/ StartSession
  \/ Examine \/ Refuse \/ NextScript \/ ScriptExits \/ RunEnds
  \/ \E r \in Releases : Install(r)
  \/ \E p \in Parts : FileChanges(p)
  \/ StagedChanges \/ OpenDesktop \/ CloseDesktop \/ StartDaemon \/ DaemonEnds

TrustSpec == TrustInit /\ [][TrustNext]_trustVars

-----------------------------------------------------------------------------
(* "A profile must explicitly trust the exact script digest, and any       *)
(* subsequent file change invalidates that trust"                          *)
(* (docs/LEGACY_COMPATIBILITY.md): a script that runs is made of the bytes *)
(* that were reviewed for its asset, whichever releases the desktop and the*)
(* daemon are of and whatever happened to the files between two checks.    *)
RunsWhatWasReviewed ==
  job.pass = "running" =>
    LET id == job.steps[job.k].id IN
    IF id = Reset THEN job.copy = Reset ELSE <<id, job.copy>> \in reviewed

(* "so Start never discovers a harness problem mid-run"                    *)
(* (preflight_legacy): as long as no file changes, what passed the         *)
(* preflight passes every check of every script of the run.                *)
PreflightSuffices ==
  (server # None /\ job.pass \in {"execute", "running"} /\ ~disturbed) =>
    \A k \in DOMAIN job.steps, c \in 1..6 : Holds(Checks[c], job.steps[k])
=============================================================================
