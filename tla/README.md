# NectarPilot in TLA+

Models of the control logic of NectarPilot, a Rust daemon and desktop application that supervises
long-running game automation. The modules are translated from the Rust sources; `PROJECT.json`
maps every definition to the lines it models. TLC checks the models on small instances, TLAPS
proves the theorems for every value of the constants.

## 1. The system

| component | source | state | operations | hard behaviour |
|---|---|---|---|---|
| automation engine | `nectarpilot-core/src/engine.rs` | run state, run id, selected profile, token, pause channel, worker handle, scheduler permits, active task | start (native, legacy, session, scan), pause, resume, stop, emergency stop, acknowledge, save/select/delete profile, finish of a worker | two command sources (desktop pipe, hotkey thread) and one worker task, every field under its own lock; port failures, panics |
| task scheduler | `scheduler.rs` | active keys | acquire, drop of a permit | a permit leaked by a rejection or a panic |
| session planner | `session.rs` | none | builds travel, gather and reset steps, and the collections | order of the steps |
| session worker | `engine.rs:742-1101` | cycle, step, deadlines, cooldown records | collections, steps, one recovery, limits, cleanup | scripts that hang, deadlines, recovery in the wrong place, crash before a record |
| native task executor | `tasks.rs`, `task_executor.rs` | position in the plan, detection, calibration | preflight, detect, press, hold, wait | cancellation drops the future at any await; the window moves or loses focus |
| input broker | `platform/src/input.rs` | pressed keys and buttons, broker status | press, release, release_all, cancel, resume | `SendInput` refuses events |
| Roblox session and focus | `platform/src/session.rs` | adopted window, geometry | refresh, focus check | staleness |
| global hotkeys | `platform/src/hotkeys.rs`, `windows_backend.rs`, `daemon/src/main.rs` | registered chords, message queue | register, poll, command | other applications own chords; a command blocks the thread |
| bounded reconnect | `reconnect.rs` | attempt, delay, deadline | attempt loop | late attempts, cancellation inside an attempt |
| crash guard and safe mode | `crash_guard.rs`, `daemon/src/main.rs` | crash timestamps, safe mode, clean-shutdown flag | record a crash, reset | daemon dies between two writes; an older database is restored |
| persistence | `persistence.rs` | SQLite file, last-good and pre-migration copies | open, restore, migrate, back up | crash between two file operations, or in the middle of a copy |
| transport and pipe server | `transport.rs`, `daemon/src/main.rs`, `platform/src/pipe.rs` | connection, event subscription, the frame being read | frames, one client at a time | reads dropped half way, lagging subscriber |
| desktop bridge | `src-tauri/src/bridge.rs`, `lib.rs` | pending requests, cached profiles, snapshot, daemon handle | request, timeout, reconnect, profile edits, shutdown | late acknowledgement, lost update, exit with a daemon at work, a daemon that no longer reads its pipe |
| legacy service, runner, job | `daemon/src/legacy_service.rs`, `nectarpilot-legacy` | adopted client, contained child, staged script | preflight, run, cancel, recover | reuse of process ids, files changing between two checks |
| quest scan, perception | `daemon/src/quest_scan.rs`, `platform/src/perception.rs` | thread with token and broker, consensus | click open, read, click closed | the thread outlives its call; ambiguous readings |
| quest planner | `quests.rs` | none | parse objectives, score fields | stale or uncertain input, ties and hysteresis |
| settings and INI import | `legacy_ini.rs`, `bridge.rs`, `legacy_service.rs` | profile document | import, project, edit, apply, use | invalid values, two readings of one import, fields a form does not show |
| statistics | `daemon/src/main.rs`, `perception.rs`, `bridge.rs` | kept readings, last sample | sample, rate | misread counters, the clock set back |
| movement DSL, converters, secrets, diagnostics, capture, user interface | see section 6 | mostly none | pure functions or thin wrappers | - |

Interaction: the desktop sends commands over a named pipe to the daemon, which calls the engine;
a hotkey thread calls the same engine. The engine spawns one worker task per run and talks to it
through a cancellation token, a pause channel, a scheduler permit and a join handle behind a
mutex. A worker calls a port: the automation backend (native executor over the input broker), the
legacy execution port (AutoHotkey children) or the quest scan (a blocking thread). Workers write
run history and cooldown records to the store and emit events that the pipe server fans out to
the desktop.

What makes each component correct: the engine runs at most one worker, a stop reaches it, no
permit leaks, inputs are released before a run is reported as over, and the state a user sees is
about the run that exists. The input broker knows everything that is down. The executor presses
only what it may, on a window it has just verified. A session starts a script only where its
route begins, ends when it must, and collects no more often than the cooldown allows. A script
that runs is what its user reviewed, against the client that was adopted. The store never loses
what was accepted, safe mode survives a restart. The bridge answers truthfully, its cache becomes
the daemon's data, and exit takes the daemon with it. A frame is never taken for another one. A
field is recommended for a reason. The hard stop is obeyed.

## 2. Modules

| module | models | correspondence |
|---|---|---|
| `Engine` | the run lifecycle | one variable per engine field, one per worker-local fact; a client's command is a sequence of actions, one per locked access (`pc[c]` says which is next); a worker's progress is `phase[r]` |
| `ExclusiveRun` | abstract: one run at a time, no run twice, a stop reaches the run at work | specification |
| `EngineRefinement` | `Engine` as an implementation of `ExclusiveRun` | the refinement mapping |
| `NativeInput` | executor, runtime and broker of one native plan, run after run | `pc` is the await or call at which the worker stands, `pressed`/`status` are the broker's fields, `down` is what Windows holds |
| `LegacySession` | the session worker over a plan, session after session | `pc` is the loop position, `records` is the store, `place` is where the scripts have left the character |
| `LegacyPort` | preflight, scripts and recovery of the port, among processes | `callAt` is the await or the next look at the world; `adopted` is `adopted_client`; processes have an id and a birth |
| `AssetTrust` | from files on disk to a running script | a run is a pass of preflights and then scripts, each a list of `Checks`; files, installations, desktop and daemon change around it |
| `DaemonStore` | the database, its copies, start-up, crashes, commands | `step` is the write or file operation that is next; a database is the rows a start reads back |
| `DesktopBridge` | callers, supervisor, shutdown and the daemon that answers | `pending`, `cache`, `sender`, the handle `ownedDaemon`; wires are queues of commands and events; `writer` has the lock of the sender while it waits for room in the pipe, `follow` is what the supervisor waits to send |
| `PipeLink` | frames on the pipe, both ends | a frame is a number of pieces; `half` and `halfEvent` are what a read has consumed |
| `Settings` | import, projection, edit, application and use of a profile | one operator per function of the code, five actions that chain them |
| `Perception` | template match, temporal consensus, titles, bars | operators only |
| `QuestScan` | one scan: the call, its thread, its clicks and readings | `scan` is where the thread is, `call` what the task waits for |
| `QuestPlanner` | objective grammar, rates, scores, the plan | operators and one step that computes the plan |
| `Reconnect` | `run_bounded_reconnect` | `stage` is the await, the clock ticks between any two steps |
| `Hotkeys` | registration, polling, commands | `thread`, `inbox` is the message queue |
| `Statistics` | one sample of the honey counter and what is made of it | one action per minute |
| `MCEngine`, `MCNativeInput`, `MCLegacySession`, `MCDesktopBridge`, `MCQuestScan`, `MCSettings`, `MCAssetTrust`, `MCQuestPlanner` | values of the constants | |
| `MCServices`, `MCDocuments`, `MCControl` | components that share no state, in one run | the first state chooses the component (`machine`); the others stay where they begin; each keeps the fairness of its own specification |
| `EngineProofs`, `NativeInputProofs`, `LegacySessionProofs`, `ReconnectProofs`, `LegacyPortProofs`, `AssetTrustProofs`, `StoreProofs`, `BridgeProofs` | theorems, of one to three components each | section 4 |

How they compose: `Engine` sees a session as checkpoints, steps, recoveries and a cleanup, a
native run and a scan as one execution; `LegacySession`, `NativeInput` and `QuestScan` open those
up. They take from the engine only what it gives its worker (a token, a pause flag) and give it
only what a worker gives the engine (a final state, a release of the inputs). `LegacySession` sees
the port as an answer, `LegacyPort` says which client that answer is about, and `AssetTrust` which
bytes. `QuestScan` extends `Perception`. `DesktopBridge` takes the pipe as two queues that keep
their order, which is what `PipeLink` checks, and the daemon as what `DaemonStore` promises of a
command that was accepted.

### Abstractions

- `Engine`: consecutive accesses of one actor are one action where no other actor can change
  the outcome in between (admission of a start, `finish_worker`'s clearing of the token and of
  the pause sender, the end of a preflight, the end of a profile change, cleanup before
  `finish_worker`). The unsynchronised looks at the run state stay separate actions, because the
  races live there. A run is named by the ordinal of its start. Ports answer, fail or panic; which
  of these faults can happen is fixed in the first state (`FaultModes`).
- `NativeInput`: keys and buttons are alike; a hold is press, sleep, release; mouse moves hold
  nothing and are left out. A dropped execution may be dropped only where it awaits. Whether
  Windows may refuse events is fixed in the first state (`faultySink`).
- `LegacySession`: one clock stands for `Instant` and `Utc` and ticks between any two steps. A
  success of a step is followed by the next step's checkpoint in one, since the two look at the
  same flags. `repetitions` has no effect on the control: a gather always has a duration and the
  other steps have one repetition. No compatibility port returns `Skipped`. A script that fails or
  is cut short leaves the character anywhere. A session starts with the character at the hive, as
  the product asks of its user. A crash of the daemon keeps only the records.
- `LegacyPort`: `disconnect_status`' look at the screen and the generation of a script are choices
  of outcome; a process id names at most one process at a time, and a new process may take it.
- `AssetTrust`: a file is its digest; generating and staging a script is a copy of the fragment.
  The staged file is as it was written when the runner first hashes it: the code creates it new in
  a directory of its own right before. A script is verified once more by what is launched, and
  `StagedChanges` strikes between those two looks.
- `DaemonStore`: a commit is atomic and durable (SQLite's promise); everything around it is a
  step of its own. The plain copies of a restore and of an undone migration truncate their target
  before they write it: one that ends in between leaves an empty file or a part of one, and SQLite
  takes the empty file for a new database. The timestamps of crashes are distinct and the clock
  does not run backwards.
- `DesktopBridge`: a profile document is the set of the calls whose edit it contains, which is
  what a lost update loses. The retry delay is a step; a refresh tick stands for every interval.
  The pipe's 64 KiB have room for `Capacity` commands; a write for which there is none waits with
  the lock of the sender, and no timeout ends it. Events have all the room they need: a daemon that
  is blocked on writing one is a daemon that stands still (`hung`), which is what anything else
  that keeps it from reading comes to.
- `Settings`: the text of an imported file is what the two functions that look into it find:
  `movement` is what the importer finds, in any spelling of section and key, and `exact` what
  `harness_settings` finds, under their exact names. The two may differ in any way.
- `PipeLink`: a piece is what one read consumes; the content of a frame is its sequence number.
- `Perception`: scores of templates, similarities of text and classified rows are inputs.
- `QuestPlanner`: rates and amounts are such that all scores are whole numbers of `1/Unit`, so
  that the comparisons of floating-point scores are exact comparisons here. The first of the
  sorted candidates is the one that precedes all others.
- `Reconnect`: a timer that is due fires before the clock goes on, so an await of a timer does not
  overrun it; between two awaits the worker may be kept from running for any time.
- `Statistics`: a minute is the unit of time; the age for which a reading is kept and the shortest
  span of a rate are scaled down together.
- `Hotkeys`: the thread has the chords of the profile that was selected at start, as in the code:
  a later change of the profile's hotkeys takes effect with the next daemon.

Ghost variables (they change nothing): `dirty`, `history` and `overlapped` in `Engine`; `late` and
`inherited` in `NativeInput`; `place`, `collected`, `orphaned`, `interrupted`, `repeated` and `resets` in
`LegacySession`; `home`, `killed` and `owned` in `LegacyPort`; `reviewed` and `disturbed` in
`AssetTrust`; the ones listed under "history" in `DaemonStore`, `DesktopBridge`, `PipeLink`,
`Hotkeys` and `Statistics`; `lateInputs` and `doubted` in `QuestScan`; `begun` and `late` in
`Reconnect`.

## 3. Runs

| run | question | instance |
|---|---|---|
| `engine_race` | Two command sources start, stop and pause at once, panics may kill a worker: is the installed token that of the worker (`StopReachesWorker`), does a history row name its own run (`RecordsOwnRun`), is every permit accounted for (`PermitsAccounted`), does Idle mean that nothing works as long as their commands do not overlap (`IdleMeansNoWork`), and is it an implementation of `ExclusiveRun`, one run at a time (`ImplementsExclusiveRun`)? | pipe and hotkey, one profile, two starts, native and session |
| `engine_faults` | With and without failing ports and panics, every kind of run: are inputs released before a run is reported (`InputsReleased`), is the active profile the selected and stored one (`ActiveRunOwnsSelection`), does a cancelled run end (`CancelledRunEnds`), is Stopping always left when ports answer (`StopSettles`)? | one source, two profiles, two starts, four kinds |
| `services` | *Input:* does the broker know all that is down when Windows takes every event (`HeldIsKnown`), is there at most one press after a cancellation (`OneLatePress`), does a success leave nothing down (`SuccessLeavesNothing`), is every press on the geometry of its detection (`PressOnDetectedGeometry`), does a stop let go (`StopLetsGo`)? *Scan:* at most one input after it was told to stop (`OneLateInput`), every recommended field has an unfinished objective (`WarrantedFields`), it ends with the button up (`ScanLetsGo`). *Port:* only the adopted client is terminated and scripted (`OnlyTheAdoptedClient`), a cancelled call ends without a process (`CancelledCallsEnd`). *Hotkeys:* every press of the hard stop becomes an emergency stop (`HardStopIsObeyed`) | a plan of two tasks, two runs; a log, three givers; three processes, two ids; three presses, other applications on two chords |
| `documents` | *Settings:* a save leaves what was not edited, the next script's settings included, and is shown next (`SavesAreExact`); no script runs with a value out of range, or with values mixed of two readings (`ScriptsRunSoundValues`). *Store:* what was accepted is served, unless a copy that ended half way emptied the database since (`AcceptedIsDurable`), safe mode and the crash count survive crashes and restores (`CrashGuardHolds`), a failed migration is undone (`MigrationIsUndone`). *Assets:* only reviewed bytes run (`RunsWhatWasReviewed`), a passed preflight passes every later check of undisturbed files (`PreflightSuffices`). *Pipe:* frames arrive in order or not at all (`FramesArriveInOrder`). *Reconnect:* five attempts, the deadline, one late attempt (`ReconnectIsBounded`). *Planner:* a field is recommended if and only if there is a reason, and none that another dominates (`PlanIsWarranted`). *Statistics:* a number was seen twice, a rate is between two trusted readings (`StatisticsAreSound`) | seven components, bounds below |
| `control` | *Bridge:* a reported answer is the daemon's (`AnswersAreTrue`), a quiet cache is the store (`CacheIsStore`), exit leaves no older daemon (`ExitStopsOwned`), the state on display becomes the daemon's (`StateIsShown`), the shell closes, unless it waits for ever for a full pipe that nobody reads (`ShutdownEnds`). *Session:* every script starts in its place (`ScriptsStartInPlace`), a completed session is done (`CompletedMeansDone`), an early collection has an unrecorded one behind it (`RepeatsOnlyUnrecorded`), a session ends although its scripts hang (`SessionEnds`) | one call, one fault, room for three commands; two fields, two cycles, one collection, failing store, crashes, recovery |
| `engine_session_panic` | violated: `NoRunEndsDirty` | one session |
| `engine_pause_toggle` | violated: `PauseReachesScript` | one session |
| `native_input_report` | violated: `CleanReportIsTrue` | one run |
| `legacy_session_repeat` | violated: `SuccessNotRepeated` | one cycle, no store fault, no crash |
| `bridge_stale` | violated: `ShownSettingsAreFresh` | one save, no fault |
| `detector_ambiguity` | violated: `GiverIsUnambiguous` | one scan |
| `pipe_cancelled_read` | violated: `ValidFramesStayValid` | a command of two pieces, one event |

The three bundles exist because their components share no state: one run explores the union of
their state spaces, not the product, and each property is about the variables of one component.

### Bounds

- `MaxStarts` 2 in `Engine`: the properties relate a run to the next one (a late finish against
  a new start); a third start would meet the same second worker. The proofs have no such bound.
- Two command sources: there are two in the program. `IdleMeansNoWork` and
  `ActiveRunOwnsSelection` are about the time until two commands overlap: then a stop that found
  no token may write Idle over the preflight of a run started meanwhile, and a second start has
  changed the selection before its permit is refused. No document promises otherwise. The pipe
  and the hotkey thread take turns in `engine_race`, which checks the first; a selection needs two
  profiles, and `engine_faults`, which has them and every kind of run and fault, checks the second.
- `MaxRuns` 2 and a plan of two tasks of two actions in `NativeInput`: a second run meets what the
  first one left; a second task meets the geometry of the first; the plan holds a key after a
  button.
- `LegacySession`: two fields and two cycles reach every boundary (field to field, cycle to
  cycle, last cycle), the limit of 5 can strike at any step, the cooldown of 3 is shorter than a
  session and the horizon of 10 leaves room for the second session that repeats a collection.
- `LegacyPort`: three processes on two ids, so that an id is used again while an older client is
  still adopted. `Polls` and `Activations` are 2 and 1 for 60 and 4: the loops do the same each
  time. The proof has no such bounds.
- `AssetTrust`: two releases that differ in every file but one, two changes (one to break, one to
  repair), one start, one script of it: each script is checked by itself. The proof has no bounds.
- `DaemonStore`: two crashes in a window of 2 enter safe mode, the clock goes to 3 so that the
  window can pass; two commands and three faults reach a crash in a backup, a corrupted file and
  a restore, and a crash in the copy of that restore.
- `DesktopBridge`: one call at a time meets a fault, a second daemon, a shutdown; calls of two
  kinds interact only through the cache, which refreshes change as well. Room for three commands
  is the least that the first questions of a connection need (64 KiB are far more of them), and
  little enough that a daemon that stands still soon has a full pipe.
- `PipeLink`: frames of one and two pieces (and events of three, which exceed the limit of two),
  a pipe of one piece, a ring of one event, three connections.
- `Reconnect`: seven attempts are asked for so that the ceiling of five is reached; the deadline
  of 6 can strike in a delay, in an attempt and between them.
- `QuestPlanner`: two active quests out of four and up to three fields with every confidence on
  and below its threshold, amounts on the boundary of done.
- `Statistics`, `Hotkeys`, `QuestScan`: three samples with the clock going back and forth; three
  presses; two attempts of a click.

### Fairness

- `Engine`: a command that was admitted runs to its reply (no lock is held across an unbounded
  wait); a worker whose token is cancelled takes a step, since every select it awaits has the
  token as a branch; cleanup and finish wait for nothing but the ports. Nothing says that a task
  ends by itself or that a paused run is resumed.
- `NativeInput`: timers, synchronous calls and checkpoints that are not held back happen; a
  cancelled execution is dropped; a pending emergency release gets the mutex. A detector may
  take for ever.
- `LegacySession`: the clock ticks (up to the horizon) and the worker is scheduled whenever its
  own code can go on or one of `bounded_legacy_call`'s deadlines or the token fires. No script is
  ever assumed to answer. `SessionEnds` excludes a session that its user leaves paused: the
  checkpoint of a paused session waits with no deadline, as the code does.
- `QuestScan`: the thread runs and the task that waits for it is woken by its timers. The thread
  never blocks without a bound: its waits are slices that look at the token.
- `LegacyPort`: a call goes on, or is dropped when its second of grace is over; the child is
  polled, and the port kills it.
- `Hotkeys`: the thread is scheduled, and every command it sends is answered (`Engine`'s own
  fairness).
- `DesktopBridge`: the runtime's tasks are scheduled while the shell is alive and its timers fire:
  the supervisor (`Supervises`), the shutdown (`ShutsDown`) and every call (`Dispatches`). A daemon
  that is running, and does not stand still, handles what it reads (`ServesClient`), and one that
  was started gets to the pipe (`BindPipe`). Nothing says that a daemon stays connected, that it
  answers within the timeout, or that one that stands still ever goes on: `StateIsShown` is about
  a connection whose daemon answers, and `ShutdownEnds` has one way out, `Stuck`.

## 4. Theorems

All of the following hold for every value of the constants allowed by the modules' assumptions
(`<Component>Assumption`). Most of these only give types and keep the names of nothing
(`NoClient`, `None`, `Reset`, `NoProfile`) apart from the names of something. The ones that say
more: the stock value of every setting is in its range (`SettingsAssumption`); a screen is read by
five variants and a reading that failed is no number of the counter (`StatisticsAssumption`); the
order of the fields has each once, the places are finitely many and `Unit` is no less than any
amount (`PlannerAssumption`, `CatalogAssumption`).

`EngineProofs`
- `TypeCorrect`. `RunInvariant`: the strengthening `RunInv`. `SingleWorker` is not inductive: it
  needs that a start holds the worker mutex from its look at the old handle on (`LockHeld`,
  `LockExcludes`), that any live worker is the one of the stored handle (`WorkerOwned`), that the
  installed token is that worker's or the starter's (`TokenOwned`, `TokenBegun`) and that the run
  of a start on its way is unused (`FreshStarts`).
- From it `OneWorker`, `StopFindsWorker`, `HistoryNamesItsRun`, and `EngineImplementsExclusiveRun`
  (initial states map to initial states; every action is a begin, a stop, an end or a stutter).
- `SerialCommandsSeeIdle` and `SerialRunOwnsSelection`, for any command sources, as long as their
  commands do not overlap (`~overlapped`, in the properties themselves; the worker may interleave
  with a command at any step). `SerialInv` adds what a command has seen of the run state at each
  of its steps (`IdleSeen`), that a daemon in safe mode has started nothing (`SafeIsQuiet`), and
  that a start that holds its permit has selected its profile (`StartSelects`). Section 3 says how
  two commands that overlap break both.
- `EndedRunsHoldNothing`: inductive on its own. `NoPermitLeaks`: through `PermitInv`, which adds
  that no two holders share a key.

`NativeInputProofs`
- `InputInvariant` over `CursorInPlan`, `Guarded`, `HeldInHold`, `LateStops`, `OwnPressesKnown`:
  what the broker holds at each `pc`, which `pc` a late press can lead to, what the run itself
  has pressed. From it `InputTypeCorrect`, `BrokerKnowsWhatIsDown`, `AtMostOneLatePress`,
  `SucceededRunLetGo`, `PressesAreCalibrated`, for every plan.
- Of the quest scan: `OneLateScanInput`, since a thread that has sent a late input looks at its
  token before it decides on another (`LateIsLast`), and `FieldsAreWarranted`, since the bars a
  matched title is paired with are those of the same open log (`BarsBelong`). `BarsAreRead`: the
  loop over the rows of a crop finds its maximal runs. What the loop knows after `n` rows is shown
  by a least counterexample in `n`, and the counting of the runs above a row then gives the order
  of the bars.

`LegacySessionProofs`
- `SessionInvariant` over three parts. `Routes`: where the character is wherever a script may
  start; it needs that only a gather has a deadline of its own, so that no travel and no reset is
  ever skipped. `ResetsMade`: the resets behind a position are `(cycle-1) * Rotations + field-1`.
  `Ledger`: every collection is recorded, known as unrecorded, or on its way back to the hive,
  and a collection starts only when its record says it is due, which the clock cannot undo.
- From it `SessionTypeCorrect`, `ScriptsInPlace`, `CompletedSessionIsDone`,
  `OnlyUnrecordedRepeats`, for every rotation, list of collections and limit.

`ReconnectProofs`
- `ReconnectBounded`, for any policy, delays and deadline. The strengthening says what the clock
  and the counters are at every stage (`Timed`, `Counted`) and that a late attempt was begun by a
  token that is cancelled already (`LateIsGiven`), so that no second one can begin.
- Of the pipe: `FramesStayInOrder`, through `LinkInvariant`. A way of a link is one stream: what
  the reader holds of a frame, the pipe, what the writer has left of one. In it the pieces of a
  frame are together and the frames are those sent next, in their order (`Flows`), nothing follows
  the last (`Closes`), and identifiers are new (`NewIds`). Dropping a half-read frame takes a
  prefix without a newline, which keeps `Flows`: what remains of that frame is still in front of
  the next one, and is refused for its beginning. `EndsMatch` and `Pending` tie the daemon's
  connection to the desktop's: a link that is not yet served carries nothing.

`LegacyPortProofs`
- `OnlyAdopted`, through `PortInvariant`: a session that is not stopped has an adoption, and it is
  the client of its preflight or of its recovery, wherever a script may still be started
  (`KeepsOwn`); a recovery is without one only between the termination and the next adoption
  (`Searching`), and only a recovery gets there (`Duties`). A Stop forgets the adoption at any
  moment, and then a script that was on its way may be approved against another client: it never
  starts, since the spawn looks at the token (`Approved`).

`AssetTrustProofs`
- `ReviewedScriptsOnly`, through `TrustInvariant`: what a profile, or a run's copy of it, trusts
  was reviewed (`TrustReviewed`); from its first check on a script's asset is trusted with the
  digest that the daemon's release pins, the staged copy has that digest when it is inspected, the
  consent has it from then on, and what is launched equals the consent (`ScriptChecked`).
- `PreflightIsEnough`, through `PreflightInvariant`: a step has passed when every check holds of
  it, and as long as nothing is disturbed a preflight knows this of every step it has looked at and
  of the checks it has made of the present one (`Looked`); the steps it skips equal ones it looks
  at, since a step is its asset and the digest the run trusts (`StepsTyped`).
- `PlansAreWarranted`: the order of the candidates is total and transitive (comparison of
  fractions by cross-multiplication), so a finite set of candidates has a first
  (`BestExists`); a field is a candidate exactly when it has a reason; sums of fractions grow with
  every rate, so a field that dominates scores at least as much before travel and more after it
  (`BestIsUndominated`). Objective lines are parsed to valid objectives (`DynamicIsSound`).

`StoreProofs`
- Of the database: `StoreInvariant`. Every file that may be served some day holds all promised rows
  and no deleted one, and safe mode together with its crashes (`FilesKeep`); at each step of
  opening, what is backed up is the database as it is, and the copies are those of the database
  that was opened (`Process`, `Opened`); a last-good copy is missing only after damage or while it
  is being replaced (`CopyThere`); what a start knows of the last end (`EndKnown`). From it
  `AcceptedStays`, `GuardStays` and the action property `FailedMigrationIsUndone`. The first two are
  about what was told since the last copy that emptied the database and ended there (`Emptied`):
  from then on the empty database is the one whose promises are kept.
- Of the settings: `ScriptValuesAreSound` (the calibration of a profile is in range after every
  import, edit and application, and until a save that of the importer's reading; what
  `harness_settings` finds is checked again when a script starts) and the action property
  `EverySaveIsExact` (a page that was not edited shows the profile, so applying it changes nothing
  but that an open import is settled).
- Of the statistics: `StatisticsStaySound`: every kept reading was trusted and none is older than
  two hours before the last. The list that is left when old readings are dropped consists of the
  later ones (`Retained`, by counting indices), a trusted number is the only one that two variants
  agree on (`HoneyIsAgreed`), and both ends of a rate are trusted readings (`RateIsSound`).

`BridgeProofs`
- `BridgeInvariant`: a command is in the inbox once and before its answer (`Tracked`); an answer on
  its way says what the daemon did (`Answering`, `Told`); a call that waits is in the map, and the
  supervisor, which may itself wait to send something, has still to go through it (`Waiting`);
  every running daemon is one of the two that the desktop has a handle of (`Handles`); and as long as the connection lost nothing, the cached
  profiles are current or a question, a change or a current list that will make them so is on its
  way (`Synchronized`). From it `AnswersStayTrue`, `CacheConverges`, `OwnedAreStopped`.

`TypeCorrect` and `OneWorker` state the type invariant and `SingleWorker` of `Engine`, which no run
lists: the refinement says the second in other words, and a run evaluates every variable anyway.

Where a proof needs induction over a length (sums, rows, lists), it is by a least counterexample:
the induction theorems of the library take an operator, which the provers cannot instantiate.

Only model-checked: the liveness properties (`CancelledRunEnds`, `StopSettles`, `StopLetsGo`,
`ScanLetsGo`, `CancelledCallsEnd`, `HardStopIsObeyed`, `StateIsShown`, `ShutdownEnds`,
`SessionEnds`), since liveness under fairness is out of the prover's reach. Every safety property
of a passing run is stated by a theorem.

## 5. Disagreements between code and documents

- A panic of the port in a session (`engine_session_panic`): no unwind is caught around the
  session worker's port calls, so no release follows, against the trait's comment
  (`engine.rs:150-151`).
- Pause of a session (`engine_pause_toggle`): the toggle of the script is sent before the pause
  flag is raised; between two scripts it reaches none, and the next script runs unpaused while
  the state says Paused. The reset that follows a collection starts without a checkpoint and so
  does the same.
- A refused release (`native_input_report`): `release_all` forgets every input before it sends
  anything, so the last release reports success with a key down.
- A collection whose reset fails (`legacy_session_repeat`): its success is not recorded, the
  session does not fault, and the next session collects again.
- The settings on display (`bridge_stale`): the snapshot that is pulled after an accepted save
  comes from the cache, which has the edit only after a later refresh, against the comment of
  `useNectarPilot.ts:132`. The next edit is computed from the same cache.
- An ambiguous giver (`detector_ambiguity`): the best template is compared with the second best
  only. When both are icons of one giver, another giver in third place within the margin goes
  unnoticed.
- A cancelled read (`pipe_cancelled_read`): `read_frame` keeps what it has consumed in its future,
  and both ends drop that future when another branch of their `select!` is ready; the rest of the
  frame is invalid and the connection is closed. `FramesArriveInOrder` holds all the same: nothing
  that follows is misread.

The models contain four more, which the properties of their components name as exceptions:

- An emptied database (`Emptied`): a copy of `persistence.rs:37` or `:49` that ends after it has
  truncated the database leaves a file of no bytes. `PRAGMA quick_check` finds nothing wrong with
  it, the next start migrates it, overwrites the pre-migration and the last-good copy with it (43,
  54), and serves without the profiles, the safe mode and the crash list that it had confirmed,
  against "original content preserved" (`persistence.rs:672`) and the backup that
  `docs/ARCHITECTURE.md:25` speaks of.
- A refusal under another spelling (`ScriptsRunSoundValues`): with `[settings]` and an invalid
  value the importer (`legacy_ini.rs:454-471`, any spelling) refuses the movement values, and
  `harness_settings` (`legacy_service.rs:533-549`, exact names) finds no section and runs a script
  with the stock values, against its comment (`legacy_service.rs:500-504`).
- A refusal settled by another page (`MovementKept`): a save from any page sends the movement on
  display and sets `movement_configured` (`bridge.rs:2486-2498`), so that the stock values on
  display take the place of the values of an open import, or of their refusal.
- A shell that stays open (`Stuck`): `shutdown()` writes its request, and later locks the sender,
  before or without any timeout (`bridge.rs:293`, `299`, `306`, `820-828`; `lib.rs:289-300`). With a
  daemon that no longer reads and a full pipe it waits for ever.

Known and not checked as properties, because nothing in the repository promises otherwise: with
two command sources a pause may write Paused after its worker has finished or has faulted, and a
stop may write Stopping or Idle over a fault, or Idle over the preflight of a new run. A published
honey rate may be of readings that are long past, when no new one is trusted: `StatisticsAreSound`
bounds its span, not its age. A Gather page without fields loses its pattern and minutes on a save,
and the two quest
features are one flag in the profile (`ShownAsSaved` says so).

## 6. Not modelled

- The native executor as shipped: the daemon's own backend blocks normal mode
  (`daemon/src/main.rs:91-102`); `NativeInput` models what the library does once a window is
  adopted. `QuestPlanner` likewise: no binary calls it yet.
- `EmergencyStop` and the freeze classifier: types of the libraries that no binary uses.
- The movement DSL (a parser with static limits), the AutoHotkey converters (build-time source
  generation) and the imported scripts (third-party): no control state of the program.
- Planters and the text format of an INI import, the validation of whole documents, the bytes of
  JSON, the layout of the desktop's other projections, run reports and progress counters.
- Secrets, diagnostics, capture, image processing, window discovery, the security descriptor of
  the pipe: Win32 calls and numeric code, reached only through what the modules take as answers.
- The React pages: they call the bridge's commands, which `DesktopBridge` and `Settings` take in
  any order.

## 7. Plan

Done: the engine with its abstract specification, input, session, port, assets, store, bridge,
pipe, settings, scan, planner, reconnect, hotkeys and statistics, with the theorems above. What
would add most next:

1. An abstract request, answered at most once and truly, that `DesktopBridge` refines.
2. An abstract session (phases only) that `LegacySession` refines and `Engine` uses.
3. An abstract store (accepted rows, safe mode) that `DaemonStore` refines: `StoreInvariant` has
   what the refinement needs.
4. Cooldowns across a restored database: `DaemonStore` and `LegacySession` over one set of records.
