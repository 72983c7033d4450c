--------------------------- MODULE DesktopBridge ---------------------------
(***************************************************************************)
(* The desktop's side of the daemon pipe                                   *)
(* (apps/desktop/src-tauri/src/bridge.rs, lib.rs) and as much of the       *)
(* daemon (core/src/engine.rs, daemon/src/main.rs) as answers it.  The     *)
(* WebView's calls, the supervisor that owns the connection and the        *)
(* shutdown of the shell run concurrently; they share the sender, the map  *)
(* of pending requests, the cached copy of what the daemon owns and the    *)
(* handle of the daemon process the desktop started.  A profile document   *)
(* is the set of the calls whose edit it contains.                         *)
(***************************************************************************)
EXTENDS Naturals, Sequences, FiniteSets

CONSTANTS
  Profiles,   (* profile ids                                                *)
  NoProfile,  (* no profile, Uuid::nil                                      *)
  FirstProfile,(* the selected profile when the daemon first starts         *)
  CallCount,  (* bound: calls of the WebView                                *)
  CallKinds,  (* the commands the WebView dispatches                        *)
  MaxSpawns,  (* bound: daemon processes the desktop starts                 *)
  Capacity,   (* commands that the pipe has room for: 64 KiB                *)
  MaxFaults   (* bound: crashed and hung daemons, broken connections, lost  *)
              (* events                                                     *)

ASSUME BridgeAssumption ==
  /\ NoProfile \notin Profiles /\ FirstProfile \in Profiles
  /\ CallCount \in Nat /\ MaxSpawns \in Nat /\ MaxFaults \in Nat
  /\ Capacity \in Nat /\ Capacity >= 3
  /\ CallKinds \subseteq {"save", "select", "delete", "start"}

Calls == 1..CallCount
Kids == 1..MaxSpawns
Untracked == 0
NoKid == 0
Foreign == MaxSpawns + 1   (* a daemon that somebody else started           *)

(* Who may hold the lock of the sender: a call, supervise() or shutdown(). *)
Nobody == 0
Supervision == CallCount + 1
Shell == CallCount + 2

VARIABLES
  (* the daemon                                                             *)
  exists,     (* the profiles in its store                                  *)
  edits,      (* their documents                                            *)
  active,     (* the selected profile                                       *)
  run,        (* "Idle" or "Running"                                        *)
  applied,    (* the calls it accepted                                      *)
  sampled,    (* the snapshot it has read and not yet emitted               *)
  server,     (* the process that serves the pipe                           *)
  open,       (* the connection is open at the daemon's end                 *)
  hung,       (* the daemon that serves stands still                        *)
  inbox,      (* commands on their way to it                                *)
  outbox,     (* events on their way to the desktop                         *)
  (* the bridge                                                             *)
  supervisor, (* where supervise() is                                       *)
  follow,     (* the command that supervise() could not send at once        *)
  sender,     (* there is a sender                                          *)
  writer,     (* who waits, with the sender, for room in the pipe           *)
  pending,    (* the calls with an entry in the pending map                 *)
  cache,      (* BridgeCache                                                *)
  call,       (* the calls                                                  *)
  shutdown,   (* where shutdown() is                                        *)
  shutdownGiven, (* the shutdown token is cancelled                            *)
  ready,      (* ShutdownReady has been delivered                           *)
  kids,       (* the daemon processes the desktop started                   *)
  ownedDaemon,(* the one whose handle it holds                              *)
  stopping,   (* the one the shutdown waits for                             *)
  (* bounds and history                                                     *)
  faults,
  fresh       (* no event was lost since the connection was made            *)

data == <<exists, edits, active, applied>>
daemon == <<data, run, sampled, server, open, hung>>
wire == <<inbox, outbox>>
process == <<kids, ownedDaemon, stopping>>
closing == <<shutdown, shutdownGiven, ready>>
counters == <<faults, fresh>>
supervision == <<supervisor, follow>>
link == <<sender, writer>>
bridgeVars == <<daemon, wire, supervision, link, pending, cache, call, closing, process,
                counters>>

Command(kind, p, c, doc) == [kind |-> kind, p |-> p, c |-> c, doc |-> doc]
Ask(kind, p) == Command(kind, p, Untracked, {})
Event(kind, p, c, state) == [kind |-> kind, p |-> p, c |-> c, state |-> state]
Up == server # NoKid
OwnedRuns == ownedDaemon \in {k \in Kids : kids[k] = "running"}

-----------------------------------------------------------------------------
(* The pipe.  A command written to a connection the daemon has left fails; *)
(* one for which the pipe has no room waits for it, without a limit, and   *)
(* its writer keeps the lock of the sender all the while.                  *)

CanSend == sender /\ open
Room == Len(inbox) < Capacity
Send(commands) == inbox' = IF CanSend THEN inbox \o commands ELSE inbox
Emit(events) == outbox' = IF open THEN outbox \o events ELSE outbox

(* The write of w succeeds, or fails, at once; its lock is free again.     *)
Writes(w) == writer \in {Nobody, w} /\ (CanSend => Room) /\ writer' = Nobody
Unlocked == writer = Nobody
AtOnce == Unlocked /\ (CanSend => Room)

-----------------------------------------------------------------------------
(* The daemon: it answers one command at a time, events first.             *)

Accepted(c) == IF c = Untracked THEN <<>> ELSE <<Event("accepted", NoProfile, c, "none")>>
Rejected(c) == IF c = Untracked THEN <<>> ELSE <<Event("rejected", NoProfile, c, "none")>>
Accept(cmd, events) ==
  /\ Emit(events \o Accepted(cmd.c))
  /\ applied' = IF cmd.c = Untracked THEN applied ELSE applied \cup {cmd.c}
Reject(cmd) ==
  Emit(Rejected(cmd.c)) /\ UNCHANGED <<data, run, sampled, server, open, hung>>

ProfileList ==
  [kind |-> "profiles", p |-> active, c |-> Untracked, state |-> "none",
   exists |-> exists, edits |-> edits]

SaveProfile(cmd) ==
  /\ cmd.kind = "save"
  /\ exists' = exists \cup {cmd.p} /\ edits' = [edits EXCEPT ![cmd.p] = cmd.doc]
  /\ Accept(cmd, <<Event("saved", cmd.p, Untracked, "none")>>)
  /\ UNCHANGED <<active, run, sampled, server, open, hung>>

SelectProfile(cmd) ==
  /\ cmd.kind = "select"
  /\ IF run = "Idle" /\ cmd.p \in exists
     THEN /\ active' = cmd.p
          /\ Accept(cmd, <<Event("selected", cmd.p, Untracked, "none"),
                           Event("snapshot", cmd.p, Untracked, run)>>)
          /\ UNCHANGED <<exists, edits, run, sampled, server, open, hung>>
     ELSE Reject(cmd)

DeleteProfile(cmd) ==
  /\ cmd.kind = "delete"
  /\ IF run = "Idle" /\ cmd.p \in exists /\ cmd.p # active /\ Cardinality(exists) > 1
     THEN /\ exists' = exists \ {cmd.p}
          /\ Accept(cmd, <<Event("deleted", cmd.p, Untracked, "none")>>)
          /\ UNCHANGED <<edits, active, run, sampled, server, open, hung>>
     ELSE Reject(cmd)

(* Any start: it selects its profile without saying so.                    *)
StartRun(cmd) ==
  /\ cmd.kind = "start"
  /\ IF run = "Idle" /\ cmd.p \in exists
     THEN /\ active' = cmd.p /\ run' = "Running"
          /\ Accept(cmd, <<Event("state", NoProfile, Untracked, "Running")>>)
          /\ UNCHANGED <<exists, edits, sampled, server, open, hung>>
     ELSE Reject(cmd)

GetProfiles(cmd) ==
  /\ cmd.kind = "profiles" /\ Emit(<<ProfileList>>)
  /\ UNCHANGED daemon

GetRunHistory(cmd) ==
  /\ cmd.kind = "history"
  /\ Emit(<<Event("history", IF cmd.p = NoProfile THEN active ELSE cmd.p, Untracked, "none")>>)
  /\ UNCHANGED daemon

(* The snapshot is read here and emitted by the next step: the worker may  *)
(* report a newer state in between.                                        *)
GetSnapshot(cmd) ==
  /\ cmd.kind = "snapshot"
  /\ sampled' = <<active, run>>
  /\ UNCHANGED <<data, run, server, open, hung, outbox>>

StopEvents == IF run = "Idle" THEN <<>> ELSE <<Event("state", NoProfile, Untracked, "Idle")>>

EmergencyStop(cmd) ==
  /\ cmd.kind = "stop" /\ run' = "Idle" /\ Emit(StopEvents)
  /\ UNCHANGED <<data, sampled, server, open, hung>>

Exits(k) == kids' = IF k \in Kids THEN [kids EXCEPT ![k] = "exited"] ELSE kids

(* ShutdownDaemon: the events are drained, the pipe closes and the process *)
(* ends.                                                                   *)
ShutdownDaemon(cmd) ==
  /\ cmd.kind = "shutdown" /\ run' = "Idle"
  /\ Emit(StopEvents \o <<Event("ready", NoProfile, Untracked, "none")>>)
  /\ open' = FALSE /\ server' = NoKid /\ sampled' = <<>>
  /\ UNCHANGED <<data, hung>>

HandleCommand ==
  /\ Up /\ open /\ ~hung /\ inbox # <<>> /\ sampled = <<>>
  /\ LET cmd == Head(inbox) IN
       /\ \/ SaveProfile(cmd) \/ SelectProfile(cmd) \/ DeleteProfile(cmd) \/ StartRun(cmd)
          \/ GetProfiles(cmd) \/ GetRunHistory(cmd) \/ GetSnapshot(cmd)
          \/ EmergencyStop(cmd) \/ ShutdownDaemon(cmd)
       /\ inbox' = IF cmd.kind = "shutdown" THEN <<>> ELSE Tail(inbox)
       /\ IF cmd.kind = "shutdown" THEN Exits(server) ELSE UNCHANGED kids
  /\ UNCHANGED <<supervision, link, pending, cache, call, closing, ownedDaemon, stopping, counters>>

EmitSnapshot ==
  /\ Up /\ ~hung /\ sampled # <<>>
  /\ Emit(<<Event("snapshot", sampled[1], Untracked, sampled[2])>>)
  /\ sampled' = <<>>
  /\ UNCHANGED <<data, run, server, open, hung, inbox, supervision, link, pending, cache, call,
                 closing, process, counters>>

(* A worker ends by itself.                                                *)
RunSettles ==
  /\ Up /\ ~hung /\ run = "Running" /\ run' = "Idle" /\ Emit(StopEvents)
  /\ UNCHANGED <<data, sampled, server, open, hung, inbox, supervision, link, pending, cache, call,
                 closing, process, counters>>

-----------------------------------------------------------------------------
(* What can go wrong: a subscription that lags loses an event, a frame cut *)
(* off by the other branch of a select ends the connection, a daemon       *)
(* crashes, or stands still from now on (suspended, in a handler that does *)
(* not return, before a pipe nobody empties): it neither reads nor writes. *)

Faulty == faults < MaxFaults /\ faults' = faults + 1
LoseEvent ==
  /\ Faulty /\ outbox # <<>> /\ open /\ ~hung
  /\ outbox' = Tail(outbox) /\ fresh' = FALSE
  /\ UNCHANGED <<daemon, inbox, supervision, link, pending, cache, call, closing, process>>

Hangup == open' = FALSE /\ inbox' = <<>> /\ outbox' \in {outbox, <<>>}

DropClient ==
  /\ Faulty /\ open /\ ~hung /\ Hangup /\ sampled' = <<>>
  /\ UNCHANGED <<data, run, server, hung, supervision, link, pending, cache, call, closing,
                 process, fresh>>

DaemonHangs ==
  /\ Faulty /\ open /\ ~hung /\ hung' = TRUE
  /\ UNCHANGED <<data, run, sampled, server, open, wire, supervision, link, pending,
                 cache, call, closing, process, fresh>>

DaemonCrashes ==
  /\ Faulty /\ Up
  /\ Hangup /\ run' = "Idle" /\ sampled' = <<>> /\ server' = NoKid /\ Exits(server)
  /\ hung' = FALSE
  /\ UNCHANGED <<data, supervision, link, pending, cache, call, closing, ownedDaemon, stopping,
                 fresh>>

(* The pipe has one server: a second daemon cannot bind it and exits.      *)
BindPipe(k) ==
  /\ k \in Kids /\ kids[k] = "running" /\ server # k
  /\ IF Up THEN Exits(k) /\ UNCHANGED server
           ELSE server' = k /\ UNCHANGED kids
  /\ UNCHANGED <<data, run, sampled, open, hung, wire, supervision, link, pending, cache, call,
                 closing,
                 ownedDaemon, stopping, counters>>

-----------------------------------------------------------------------------
(* The cache: the last word of the daemon on everything it owns.           *)

EmptyCache ==
  [connected |-> FALSE, run |-> "none", selected |-> NoProfile, exists |-> {},
   edits |-> [p \in Profiles |-> {}], history |-> NoProfile]

(* clear_profile_scoped_projections, when the selection changes.           *)
Selected(p) ==
  [cache EXCEPT !.selected = p,
                !.history = IF cache.selected = p THEN @ ELSE NoProfile]
MergeProfiles(e) ==
  [Selected(e.p) EXCEPT !.exists = @ \cup e.exists,
                        !.edits = [p \in Profiles |-> IF p \in e.exists THEN e.edits[p] ELSE @[p]]]
Loaded(e) == [Selected(e.p) EXCEPT !.exists = e.exists, !.edits = e.edits]
SnapshotSeen(e) == [Selected(e.p) EXCEPT !.run = e.state]
History(e) == IF cache.selected = e.p THEN [cache EXCEPT !.history = e.p] ELSE cache

(* What handle_event makes of the cache ...                                *)
Projected(e) ==
  CASE e.kind = "snapshot" -> SnapshotSeen(e)
    [] e.kind = "profiles" -> Loaded(e)
    [] e.kind = "selected" -> Selected(e.p)
    [] e.kind = "deleted"  -> [cache EXCEPT !.exists = @ \ {e.p}]
    [] e.kind = "history"  -> History(e)
    [] e.kind = "state"    -> [cache EXCEPT !.run = IF @ = "none" THEN @ ELSE e.state]
    [] OTHER               -> cache

(* ... and what it asks the daemon next.                                   *)
FollowUp(e) ==
  CASE e.kind = "snapshot" /\ e.p \notin cache.exists -> <<Ask("profiles", e.p)>>
    [] e.kind = "saved"    -> <<Ask("profiles", e.p)>>
    [] e.kind = "deleted"  -> <<Ask("profiles", NoProfile)>>
    [] e.kind = "selected" -> <<Ask("history", e.p)>>
    [] e.kind = "state" /\ e.state = "Idle" -> <<Ask("history", cache.selected)>>
    [] OTHER -> <<>>

(* A selected profile the cache does not know breaks the connection.       *)
Refused(e) == e.kind = "selected" /\ e.p \notin cache.exists

-----------------------------------------------------------------------------
(* The calls of the WebView.                                               *)

(* "inserted", "waiting", then "ok" ("shown" or "stale" once its settings   *)
(* are on display), "rejected", or "failed": not sent, interrupted or not  *)
(* answered in time.  Of a command that is sent only a saved document is   *)
(* looked at again.                                                        *)
NoCommand == Ask("stop", NoProfile)
Became(c, at) ==
  [at |-> at, cmd |-> IF at \in {"waiting", "ok"} /\ call[c].cmd.kind = "save"
                      THEN call[c].cmd ELSE NoCommand]
Set(c, at) == [call EXCEPT ![c] = Became(c, at)]
OptimisticAnswer(e) == "ok"
Answer(e) == IF e.kind = "accepted" THEN "ok" ELSE "rejected"

(* A document is edited as the cache has it; the entry is made before the  *)
(* command is sent.                                                        *)
BeginCall(c, kind, p) ==
  /\ call[c].at = "unused" /\ \A d \in Calls : d < c => call[d].at # "unused"
  /\ p \in cache.exists /\ shutdown = "no" /\ kind \in CallKinds
  /\ LET doc == IF kind = "save" THEN cache.edits[p] \cup {c} ELSE {} IN
       call' = [call EXCEPT ![c] = [at |-> "inserted", cmd |-> Command(kind, p, c, doc)]]
  /\ pending' = pending \cup {c}
  /\ UNCHANGED <<daemon, wire, supervision, link, cache, closing, process, counters>>

(* An entry that was failed before the command is sent: the command goes   *)
(* out, and its caller is told of the earlier interruption.                *)
SendCall(c) ==
  /\ call[c].at = "inserted" /\ Writes(c)
  /\ Send(<<call[c].cmd>>)
  /\ IF CanSend
     THEN /\ call' = Set(c, IF c \in pending THEN "waiting" ELSE "failed")
          /\ UNCHANGED <<pending, cache>>
     ELSE /\ call' = Set(c, "failed") /\ pending' = pending \ {c}
          /\ cache' = [cache EXCEPT !.connected = FALSE]
  /\ UNCHANGED <<daemon, outbox, supervision, sender, closing, process, counters>>

(* A write for which there is no room begins.                              *)
Wants(w) ==
  \/ w \in Calls /\ call[w].at = "inserted"
  \/ w = Supervision /\ supervisor \in {"asking", "refreshing"}
  \/ w = Shell /\ shutdown \in {"graceful", "emergency"}
WaitForRoom ==
  /\ Unlocked /\ CanSend /\ ~Room
  /\ \E w \in Calls \cup {Supervision, Shell} : Wants(w) /\ writer' = w
  /\ UNCHANGED <<daemon, wire, supervision, sender, pending, cache, call, closing, process,
                 counters>>

(* COMMAND_TIMEOUT: the entry stays in the map.                            *)
TimeOut(c) ==
  /\ call[c].at = "waiting"
  /\ call' = Set(c, "failed")
  /\ UNCHANGED <<daemon, wire, supervision, link, pending, cache, closing, process, counters>>

(* After an accepted action the WebView reads the dashboard, a projection  *)
(* of the cache.                                                           *)
ShowDashboard(c) ==
  LET cmd == call[c].cmd IN
  /\ call[c].at = "ok" /\ cmd.kind = "save"
  /\ call' = Set(c, IF c \in cache.edits[cmd.p] THEN "shown" ELSE "stale")
  /\ UNCHANGED <<daemon, wire, supervision, link, pending, cache, closing, process, counters>>

FailPending ==
  /\ pending' = {}
  /\ call' = [c \in Calls |->
               IF c \in pending /\ call[c].at = "waiting"
               THEN Became(c, "failed") ELSE call[c]]

-----------------------------------------------------------------------------
(* supervise(): connect, starting a daemon when nobody serves the pipe,    *)
(* project events until the connection ends, fail what was pending, and    *)
(* try again after a delay.  It reads no event while it has a command to   *)
(* send and cannot.                                                        *)

Serves == Up /\ ~open /\ ~hung
Questions == <<Ask("snapshot", NoProfile), Ask("profiles", NoProfile), Ask("history", NoProfile)>>

Connect ==
  /\ supervisor \in {"connect", "retry"} /\ Serves /\ Unlocked
  /\ open' = TRUE /\ inbox' = Questions /\ outbox' = <<>> /\ fresh' = TRUE
  /\ supervisor' = "live" /\ sender' = TRUE
  /\ cache' = [cache EXCEPT !.connected = TRUE]
  /\ UNCHANGED <<data, run, sampled, server, hung, follow, writer, pending, call, closing,
                 process, faults>>

TryConnectFails ==
  /\ supervisor = "connect" /\ ~Serves
  /\ supervisor' = "spawn"
  /\ UNCHANGED <<daemon, wire, follow, link, pending, cache, call, closing, process, counters>>

(* ensure_owned_daemon.  It does not look whether the shell is closing.    *)
EnsureOwnedDaemon ==
  /\ supervisor = "spawn"
  /\ \/ /\ OwnedRuns
        /\ supervisor' = "retry" /\ UNCHANGED process
     \/ /\ ~OwnedRuns
        /\ \E k \in Kids :
             /\ kids[k] = "unused" /\ \A j \in Kids : j < k => kids[j] # "unused"
             /\ kids' = [kids EXCEPT ![k] = "running"] /\ ownedDaemon' = k
        /\ supervisor' = "retry" /\ UNCHANGED stopping
     \/ /\ ~OwnedRuns   (* it cannot be started *)
        /\ ownedDaemon' = NoKid /\ supervisor' = "delay" /\ UNCHANGED <<kids, stopping>>
  /\ cache' = IF supervisor' = "delay" THEN [cache EXCEPT !.connected = FALSE] ELSE cache
  /\ UNCHANGED <<daemon, wire, follow, link, pending, call, closing, counters>>

(* connect_named_pipe gives up after STARTUP_TIMEOUT.                      *)
RetryFails ==
  /\ supervisor = "retry" /\ ~Serves
  /\ supervisor' = "delay" /\ cache' = [cache EXCEPT !.connected = FALSE]
  /\ UNCHANGED <<daemon, wire, follow, link, pending, call, closing, process, counters>>

Delay ==
  /\ supervisor \in {"delay", "connect"}
  /\ \/ ~shutdownGiven /\ supervisor = "delay" /\ supervisor' = "connect"
     \/ shutdownGiven /\ supervisor' = "ended"
  /\ UNCHANGED <<daemon, wire, follow, link, pending, cache, call, closing, process, counters>>

(* What it has to send goes out at once, or keeps it from going on.        *)
SendOrAsk(commands, waiting) ==
  IF commands = <<>> \/ AtOnce
  THEN Send(commands) /\ UNCHANGED <<supervisor, follow>>
  ELSE supervisor' = waiting /\ follow' = commands /\ UNCHANGED inbox

(* The connection is over: the sender goes as soon as its lock is free,    *)
(* and with it the pipe; then every call that still waits is failed.       *)
LeaveLoop ==
  /\ IF Unlocked THEN /\ supervisor' = "failing" /\ sender' = FALSE
                      /\ open' = FALSE /\ inbox' = <<>> /\ outbox' = <<>>
                 ELSE supervisor' = "teardown" /\ UNCHANGED <<sender, open, wire>>
  /\ UNCHANGED <<data, run, sampled, server, hung, writer, process, counters>>

HandleEvent ==
  /\ supervisor = "live" /\ outbox # <<>>
  /\ LET e == Head(outbox)
         answered == pending \cap {e.c} IN
       \/ /\ Refused(e) /\ LeaveLoop
          /\ cache' = [cache EXCEPT !.connected = FALSE]
          /\ UNCHANGED <<follow, pending, call, closing>>
       \/ /\ ~Refused(e)
          /\ cache' = Projected(e)
          /\ pending' = pending \ answered
          /\ call' = [c \in Calls |-> IF c \in answered /\ call[c].at = "waiting"
                                      THEN Became(c, Answer(e)) ELSE call[c]]
          /\ ready' = (ready \/ (e.kind = "ready" /\ shutdown = "await"))
          /\ SendOrAsk(FollowUp(e), "asking") /\ outbox' = Tail(outbox)
          /\ UNCHANGED <<daemon, link, shutdown, shutdownGiven, process, counters>>

(* Every SNAPSHOT_INTERVAL; a refresh that cannot be sent ends the         *)
(* connection.  The bound is that two refreshes never overlap and that the *)
(* pipe has drained, when anybody drains it: the interval is two seconds.  *)
NoRefresh == <<>>
Refresh == <<Ask("snapshot", cache.selected)>>
RefreshTick ==
  /\ supervisor = "live" /\ outbox = <<>> /\ (hung \/ (inbox = <<>> /\ sampled = <<>>))
  /\ IF Unlocked /\ ~CanSend
     THEN LeaveLoop /\ UNCHANGED follow
     ELSE SendOrAsk(Refresh, "refreshing")
          /\ UNCHANGED <<daemon, outbox, link, process, counters>>
  /\ UNCHANGED <<pending, cache, call, closing>>

(* What waited is sent; what follows from an event is given up when it     *)
(* cannot be.                                                              *)
AskNow ==
  /\ supervisor \in {"asking", "refreshing"} /\ Writes(Supervision)
  /\ Send(follow) /\ follow' = <<>>
  /\ supervisor' = IF supervisor = "refreshing" /\ ~CanSend THEN "teardown" ELSE "live"
  /\ UNCHANGED <<daemon, outbox, sender, pending, cache, call, closing, process, counters>>

(* The pipe closes, or the shutdown token is cancelled.                    *)
ConnectionEnds ==
  /\ \/ supervisor = "teardown" /\ Unlocked
     \/ supervisor = "live" /\ (shutdownGiven \/ (~open /\ outbox = <<>>))
  /\ LeaveLoop /\ UNCHANGED <<follow, pending, cache, call, closing>>

FailInterrupted ==
  /\ supervisor = "failing" /\ FailPending /\ supervisor' = "delay"
  /\ cache' = [cache EXCEPT !.connected = FALSE]
  /\ UNCHANGED <<daemon, wire, follow, link, closing, process, counters>>

-----------------------------------------------------------------------------
(* shutdown(), and the end of the shell.                                   *)

CancelSupervisor == shutdown' = "close" /\ shutdownGiven' = TRUE

(* A daemon that is its own is asked to end, any other to stop.  Nothing   *)
(* limits the time that it takes to send that.                             *)
Request(ask) ==
  /\ Send(<<Ask(IF ask = "graceful" THEN "shutdown" ELSE "stop", NoProfile)>>)
  /\ IF ask = "graceful" /\ CanSend
     THEN shutdown' = "await" /\ UNCHANGED shutdownGiven
     ELSE CancelSupervisor

RequestShutdown ==
  /\ shutdown = "no"
  /\ LET ask == IF OwnedRuns THEN "graceful" ELSE "emergency" IN
       IF AtOnce THEN Request(ask)
       ELSE shutdown' = ask /\ UNCHANGED <<inbox, shutdownGiven>>
  /\ UNCHANGED <<daemon, outbox, supervision, link, pending, cache, call, ready, process,
                 counters>>

SendRequest ==
  /\ shutdown \in {"graceful", "emergency"} /\ Writes(Shell) /\ Request(shutdown)
  /\ UNCHANGED <<daemon, outbox, supervision, sender, pending, cache, call, ready, process,
                 counters>>

WaitForever ==
  /\ shutdown = "await" /\ ready /\ CancelSupervisor
  /\ UNCHANGED <<daemon, wire, supervision, link, pending, cache, call, ready, process, counters>>

(* ShutdownReady, or SHUTDOWN_TIMEOUT.                                     *)
ShutdownAwaited ==
  /\ shutdown = "await" /\ CancelSupervisor
  /\ UNCHANGED <<daemon, wire, supervision, link, pending, cache, call, ready, process, counters>>

(* The sender is taken, once its lock is free, and closed behind what was  *)
(* sent, and the calls that wait are failed.                               *)
CloseConnection ==
  /\ shutdown = "close" /\ Unlocked /\ shutdown' = "take"
  /\ sender' = FALSE /\ FailPending
  /\ UNCHANGED <<daemon, wire, supervision, writer, cache, shutdownGiven, ready, process, counters>>

TakeOwned ==
  /\ shutdown = "take" /\ shutdown' = IF ownedDaemon = NoKid THEN "exit" ELSE "stop"
  /\ stopping' = ownedDaemon /\ ownedDaemon' = NoKid
  /\ UNCHANGED <<daemon, wire, supervision, link, pending, cache, call, shutdownGiven, ready, kids,
                 counters>>

Kill(k) ==
  /\ kids' = IF k \in Kids /\ kids[k] = "running" THEN [kids EXCEPT ![k] = "exited"] ELSE kids
  /\ IF k # NoKid /\ k = server
     THEN /\ server' = NoKid /\ open' = FALSE /\ inbox' = <<>> /\ outbox' \in {outbox, <<>>}
          /\ run' = "Idle" /\ sampled' = <<>> /\ hung' = FALSE
     ELSE UNCHANGED <<server, open, hung, wire, run, sampled>>

WaitOnly(k) ==
  /\ shutdown = "stop" /\ shutdown' = "exit"
  /\ UNCHANGED <<kids, server, open, hung, wire, run, sampled>>

(* stop_owned_daemon_gracefully: it exits by itself or is killed.          *)
StopGracefully(k) ==
  /\ shutdown = "stop" /\ shutdown' = "exit" /\ Kill(k)

StopOwned ==
  /\ StopGracefully(stopping) /\ stopping' = NoKid
  /\ UNCHANGED <<data, supervision, link, pending, cache, call, shutdownGiven, ready,
                 ownedDaemon, counters>>

(* RunEvent::Exit: force_stop_owned_daemon.                                *)
Exit ==
  /\ shutdown = "exit" /\ shutdown' = "left" /\ Kill(ownedDaemon) /\ ownedDaemon' = NoKid
  /\ UNCHANGED <<data, supervision, link, pending, cache, call, shutdownGiven, ready, stopping,
                 counters>>

(* The process ends, the supervisor with it; a daemon it has just started  *)
(* is on its own.                                                          *)
ShellEnds ==
  /\ shutdown = "left" /\ shutdown' = "gone"
  /\ supervisor' = "ended" /\ follow' = <<>> /\ sender' = FALSE /\ writer' = Nobody
  /\ IF open THEN Hangup ELSE UNCHANGED <<open, wire>>
  /\ UNCHANGED <<data, run, sampled, server, hung, pending, cache, call, shutdownGiven, ready,
                 process, counters>>

-----------------------------------------------------------------------------
BridgeInit ==
  /\ exists = Profiles
  /\ edits = [p \in Profiles |-> {}] /\ active = FirstProfile
  /\ run = "Idle" /\ applied = {} /\ sampled = <<>>
  /\ server \in {NoKid, Foreign} /\ open = FALSE /\ hung = FALSE
  /\ inbox = <<>> /\ outbox = <<>>
  /\ supervisor = "connect" /\ follow = <<>> /\ sender = FALSE /\ writer = Nobody
  /\ pending = {} /\ cache = EmptyCache
  /\ call = [c \in Calls |-> [at |-> "unused", cmd |-> NoCommand]]
  /\ shutdown = "no" /\ shutdownGiven = FALSE /\ ready = FALSE
  /\ kids = [k \in Kids |-> "unused"] /\ ownedDaemon = NoKid /\ stopping = NoKid
  /\ faults = 0 /\ fresh = TRUE

Daemon == HandleCommand \/ EmitSnapshot \/ RunSettles \/ \E k \in Kids : BindPipe(k)
Faults == LoseEvent \/ DropClient \/ DaemonHangs \/ DaemonCrashes
CallSteps ==
  \E c \in Calls :
    \/ \E kind \in CallKinds, p \in Profiles : BeginCall(c, kind, p)
    \/ SendCall(c) \/ TimeOut(c) \/ ShowDashboard(c)
Supervisor ==
  Connect \/ TryConnectFails \/ EnsureOwnedDaemon \/ RetryFails \/ Delay
    \/ HandleEvent \/ AskNow \/ ConnectionEnds \/ FailInterrupted
Closing ==
  SendRequest \/ ShutdownAwaited \/ CloseConnection \/ TakeOwned
    \/ StopOwned \/ Exit \/ ShellEnds
Alive == shutdown # "gone"

BridgeNext ==
  \/ Daemon \/ Faults
  \/ Alive /\ (CallSteps \/ WaitForRoom \/ Supervisor \/ RefreshTick \/ RequestShutdown \/ Closing)

BridgeSpec == BridgeInit /\ [][BridgeNext]_bridgeVars

(* Every task of the two processes runs on, and the timers fire.  The user *)
(* need not act and nothing need fail.                                     *)
ServesClient == HandleCommand \/ EmitSnapshot
Supervises == Alive /\ (Supervisor \/ RefreshTick)
ShutsDown == Alive /\ Closing
Dispatches(c) == Alive /\ (SendCall(c) \/ TimeOut(c))
FairBridge ==
  /\ BridgeSpec
  /\ WF_bridgeVars(ServesClient) /\ \A k \in Kids : WF_bridgeVars(BindPipe(k))
  /\ WF_bridgeVars(Supervises) /\ WF_bridgeVars(ShutsDown)
  /\ \A c \in Calls : WF_bridgeVars(Dispatches(c))

-----------------------------------------------------------------------------
(* Properties.                                                             *)

(* A caller that is told its command was accepted, or rejected, is told    *)
(* what the daemon did with that very command, whatever else is in flight; *)
(* and none waits for an answer that a lost connection can no longer bring:*)
(* what was sent before is failed before the next attempt.                 *)
Connection == supervisor \in {"live", "asking", "refreshing"}
AnswersAreTrue ==
  \A c \in Calls :
    /\ call[c].at \in {"ok", "shown", "stale"} => c \in applied
    /\ call[c].at = "rejected" => c \notin applied
    /\ call[c].at = "waiting" => Connection \/ supervisor \in {"teardown", "failing"}

(* When nothing is in flight and the subscription has lost nothing, the    *)
(* desktop has every profile of the daemon and no other, as saved last;    *)
(* and the run history on display is always of the selected profile,       *)
(* however late the answer to an earlier request arrives.                  *)
CacheIsStore ==
  /\ supervisor = "live" /\ open /\ sender /\ fresh /\ inbox = <<>> /\ outbox = <<>> =>
       /\ cache.exists = exists
       /\ \A p \in exists : cache.edits[p] = edits[p]
  /\ cache.history \in {NoProfile, cache.selected}

(* Of the daemons the desktop started, none that it started before it gave *)
(* up its last handle outlives it.                                         *)
ExitStopsOwned ==
  shutdown \in {"left", "gone"} => \A k \in Kids : kids[k] = "running" => k = ownedDaemon

(* While the connection lasts and the daemon answers, the state and the    *)
(* selection on display become the daemon's, although events are lost and  *)
(* snapshots overtaken.                                                    *)
StateIsShown ==
  <>[](Connection /\ open /\ ~hung) => <>[](cache.run = run /\ cache.selected = active)

(* The shell closes, whether or not the daemon answers - unless it waits   *)
(* for ever to write to, or to lock, a pipe that is full because a daemon  *)
(* that stands still reads it no more: no timeout covers that wait.        *)
Stuck == hung /\ CanSend /\ ~Room /\ shutdown \in {"graceful", "emergency", "close"}
ShutdownEnds == (shutdown # "no" ~> shutdown = "gone") \/ <>[]Stuck

(* After an accepted action the settings on display contain it.            *)
ShownSettingsAreFresh == \A c \in Calls : call[c].at # "stale"
=============================================================================
