------------------------------ MODULE LegacyPort ------------------------------
(***************************************************************************)
(* The legacy port (daemon/src/legacy_service.rs over legacy/src/runner.rs)*)
(* as a session worker calls it: preflight, then scripts, each of them     *)
(* behind the same preflight, and after a failure one recovery that        *)
(* terminates the adopted client, starts another and runs the reset script.*)
(* Around it processes start, end and reuse process ids, windows lose the  *)
(* focus, and a Stop or a deadline cancels the call, waits a second and    *)
(* drops it.                                                               *)
(***************************************************************************)
EXTENDS Naturals, FiniteSets

CONSTANTS
  Pids,
  Births,     (* processes that ever start: bounds the model               *)
  Activations,(* looks at the window after it was activated: 4 in the code *)
  Polls,      (* looks for the replacement: 60 in the code                 *)
  NoClient

Processes == [pid : Pids, born : 0..Births, roblox : BOOLEAN]

ASSUME PortAssumption ==
  /\ Births \in Nat /\ Activations \in Nat \ {0} /\ Polls \in Nat \ {0}
  /\ NoClient \notin Processes /\ NoClient \notin [identity : Processes, window : Processes]

VARIABLES
  procs,      (* the processes that exist: pid, birth, whether it is Roblox*)
  births,
  front,      (* the process whose window is in the foreground             *)
  adopted,    (* adopted_client: an identity and a window                  *)
  session,    (* a session worker is at work                               *)
  stopped,    (* its token                                                 *)
  cut,        (* the token of the call: a deadline cancels only this one   *)
  callAt,     (* where the call is, "idle" between calls                   *)
  duty,       (* "preflight", "script" or "recover"                        *)
  seen,       (* what the call has listed and not yet used                 *)
  quarry,     (* relaunch_and_wait's own copy of the adopted client        *)
  tries,
  child,      (* the contained process runs                                *)
  against,    (* the client the call's preflight approved                  *)
  home,       (* the client the session adopted, or its recovery           *)
  killed,     (* processes this session terminated                         *)
  owned,      (* identities this session ever adopted                      *)
  callOutcome,(* of the last call                                          *)
  recoveredOnce (* recovered_once                                          *)

portWorld == <<procs, births, front>>
portCaller == <<session, stopped, recoveredOnce>>
portGhosts == <<home, killed, owned>>
portCall == <<cut, callAt, duty, seen, quarry, tries, child, against, callOutcome>>
portVars == <<portWorld, portCaller, portGhosts, adopted, portCall>>

Clients == {p \in procs : p.roblox}
WithPid(pid) == {p \in procs : p.pid = pid}
Cancelled == stopped \/ cut
Adoption(process, window) == [identity |-> process, window |-> window]

-----------------------------------------------------------------------------
(* The world.                                                              *)

ProcessStarts ==
  /\ births < Births /\ births' = births + 1
  /\ \E pid \in Pids, roblox \in BOOLEAN :
       /\ WithPid(pid) = {}
       /\ procs' = procs \cup {[pid |-> pid, born |-> births, roblox |-> roblox]}
       /\ front' \in IF roblox THEN {front, [pid |-> pid, born |-> births, roblox |-> roblox]}
                     ELSE {front, NoClient}
  /\ UNCHANGED <<portCaller, portGhosts, adopted, portCall>>

Vanish(gone) == procs' = procs \ gone /\ front' = IF front \in gone THEN NoClient ELSE front

ProcessEnds ==
  /\ \E p \in procs : Vanish({p})
  /\ UNCHANGED <<births, portCaller, portGhosts, adopted, portCall>>

FrontMoves ==
  /\ callAt \in {"list", "activated"} /\ front' \in Clients \cup {NoClient} /\ front' # front
  /\ UNCHANGED <<procs, births, portCaller, portGhosts, adopted, portCall>>

-----------------------------------------------------------------------------
(* Calls begin and end.                                                    *)

CallBegins(why, where) ==
  /\ callAt = "idle" /\ session
  /\ duty' = why /\ callAt' = where /\ cut' = FALSE /\ tries' = 0 /\ callOutcome' = "none"
  /\ seen' = {} /\ quarry' = NoClient /\ against' = NoClient /\ UNCHANGED child

Return(result) ==
  /\ callAt' = "idle" /\ callOutcome' = result /\ child' = FALSE
  /\ seen' = {} /\ quarry' = NoClient /\ against' = NoClient /\ UNCHANGED <<cut, duty, tries>>

Goes(where) == callAt' = where /\ UNCHANGED <<cut, duty, callOutcome, child, quarry, against>>

SessionBegins ==
  /\ ~session /\ callAt = "idle"
  /\ session' = TRUE /\ stopped' = FALSE /\ recoveredOnce' = FALSE
  /\ home' = NoClient /\ killed' = {} /\ owned' = {}
  /\ duty' = "preflight" /\ callAt' = "list" /\ cut' = FALSE /\ tries' = 0 /\ callOutcome' = "none"
  /\ UNCHANGED <<portWorld, adopted, seen, quarry, child, against>>

ScriptBegins ==
  /\ callOutcome = "Succeeded" \/ (cut /\ duty = "script" /\ callOutcome # "none")
  /\ ~stopped /\ CallBegins("script", "list")
  /\ UNCHANGED <<portWorld, portCaller, portGhosts, adopted>>

RecoveryBegins ==
  /\ callOutcome \in {"Failed", "NeedsAttention"} /\ duty = "script" /\ ~cut /\ ~stopped /\ ~recoveredOnce
  /\ CallBegins("recover", "status") /\ recoveredOnce' = TRUE
  /\ UNCHANGED <<portWorld, session, stopped, portGhosts, adopted>>

(* The worker's last words are port.cancel.                                *)
PortSessionEnds ==
  /\ session /\ callAt = "idle" /\ callOutcome # "none"
  /\ session' = FALSE /\ adopted' = NoClient
  /\ UNCHANGED <<portWorld, stopped, recoveredOnce, portGhosts, portCall>>

-----------------------------------------------------------------------------
(* require_foreground_roblox: exactly one client, in the foreground or     *)
(* brought there; a listing, and then an identity looked up by process id. *)

List ==
  /\ callAt \in {"list", "activated"}
  /\ \/ Return("Failed") /\ UNCHANGED front    (* none, several, or no window   *)
     \/ /\ Cardinality(Clients) = 1 /\ front \in Clients
        /\ seen' = Clients /\ Goes("verify") /\ UNCHANGED <<front, tries>>
     \/ /\ Cardinality(Clients) = 1 /\ front \notin Clients /\ tries < Activations
        /\ front' \in Clients \cup {front} /\ tries' = tries + 1
        /\ Goes("activated") /\ UNCHANGED seen
  /\ UNCHANGED <<procs, births, portCaller, portGhosts, adopted>>

(* store_or_verify_adoption, for the client that was listed: its id is     *)
(* looked up now, and may by now be another process or none.               *)
MatchesAdoption(found, window) == adopted = Adoption(found, window)

Verify ==
  /\ callAt = "verify"
  /\ \E window \in seen :
       \/ Return("Failed") /\ UNCHANGED <<adopted, home, owned>>   (* cannot be told *)
       \/ \E found \in WithPid(window.pid) :
            \/ /\ adopted = NoClient
               /\ adopted' = Adoption(found, window) /\ owned' = owned \cup {found}
               /\ home' = IF duty = "preflight" THEN found ELSE home
               /\ against' = found /\ seen' = {} /\ callAt' = "gates"
               /\ UNCHANGED <<cut, duty, callOutcome, child, quarry, tries>>
            \/ /\ adopted # NoClient /\ MatchesAdoption(found, window)
               /\ against' = found /\ seen' = {} /\ callAt' = "gates"
               /\ UNCHANGED <<cut, duty, callOutcome, child, quarry, tries, adopted, home, owned>>
            \/ /\ adopted # NoClient /\ ~MatchesAdoption(found, window)
               /\ Return("Failed") /\ UNCHANGED <<adopted, home, owned>>
  /\ UNCHANGED <<portWorld, portCaller, killed>>

(* Files and interpreter are verified, the script is generated and staged. *)
Gates ==
  /\ callAt = "gates"
  /\ \/ Return("Failed")
     \/ duty = "preflight" /\ Return("Succeeded")
     \/ duty # "preflight" /\ Goes("spawn") /\ UNCHANGED <<seen, tries>>
  /\ UNCHANGED <<portWorld, portCaller, portGhosts, adopted>>

-----------------------------------------------------------------------------
(* LegacyRunner::execute.  A recovery reports a cancelled or a late reset  *)
(* as a failure.                                                           *)

Reported(result) == IF duty = "recover" /\ result # "Succeeded" THEN "Failed" ELSE result

SpawnCancelled == Cancelled

Spawn ==
  /\ callAt = "spawn"
  /\ \/ SpawnCancelled /\ Return(Reported("Cancelled"))
     \/ ~SpawnCancelled /\ Return("Failed")     (* no process, no job        *)
     \/ /\ ~SpawnCancelled /\ child' = TRUE /\ callAt' = "poll"
        /\ UNCHANGED <<cut, duty, seen, quarry, tries, against, callOutcome>>
  /\ UNCHANGED <<portWorld, portCaller, portGhosts, adopted>>

PollChild ==
  /\ callAt = "poll"
  /\ \/ Cancelled /\ Return(Reported("Cancelled"))
     \/ ~Cancelled /\ \E result \in {"Succeeded", "Failed", "NeedsAttention"} :
                         Return(Reported(result))
  /\ UNCHANGED <<portWorld, portCaller, portGhosts, adopted>>

-----------------------------------------------------------------------------
(* recover: disconnect_status and relaunch_and_wait.                       *)

(* Nothing to recover from (none), or the state cannot be told: both end   *)
(* the recovery, and the session with it.                                  *)
Status ==
  /\ callAt = "status"
  /\ \/ adopted = NoClient /\ Return("NeedsAttention") /\ UNCHANGED seen
     \/ adopted # NoClient /\ Clients = {} /\ Goes("disconnected") /\ UNCHANGED <<seen, tries>>
     \/ /\ adopted # NoClient /\ Clients # {}
        /\ \/ Cardinality(Clients) # 1 /\ Return("NeedsAttention")
           \/ /\ Cardinality(Clients) = 1
              /\ IF \E c \in Clients : c.pid # adopted.identity.pid THEN Return("NeedsAttention")
                 ELSE seen' = Clients /\ Goes("inspect") /\ UNCHANGED tries
  /\ UNCHANGED <<portWorld, portCaller, portGhosts, adopted>>

Inspect ==
  /\ callAt = "inspect"
  /\ \/ Return("NeedsAttention") \/ Return("NotDisconnected")
     \/ /\ adopted # NoClient
        /\ \E c \in seen : adopted \in {Adoption(p, c) : p \in WithPid(c.pid)}
        /\ seen' = {} /\ Goes("disconnected") /\ UNCHANGED tries
  /\ UNCHANGED <<portWorld, portCaller, portGhosts, adopted>>

(* No link code, or no adopted client any more.                            *)
Disconnected ==
  /\ callAt = "disconnected"
  /\ \/ Return("NeedsAttention")
     \/ adopted = NoClient /\ Return("Failed")
     \/ /\ adopted # NoClient /\ quarry' = adopted /\ callAt' = "terminate"
        /\ UNCHANGED <<cut, duty, seen, tries, child, against, callOutcome>>
  /\ UNCHANGED <<portWorld, portCaller, portGhosts, adopted>>

(* terminate_exact_adopted, then the adoption is cleared.  The identity is *)
(* compared again under the handle that terminates.                        *)
AnyWithPid == WithPid(quarry.identity.pid)
ExactlyQuarry == procs \cap {quarry.identity}

Terminate ==
  /\ callAt = "terminate"
  /\ \/ /\ AnyWithPid # {} /\ Return("Failed")   (* another process, or refused *)
        /\ UNCHANGED <<procs, front, killed, adopted>>
     \/ /\ AnyWithPid = {} \/ ExactlyQuarry # {}
        /\ Vanish(ExactlyQuarry) /\ killed' = killed \cup ExactlyQuarry
        /\ adopted' = NoClient
        /\ tries' = 0 /\ Goes("wait") /\ UNCHANGED seen
  /\ UNCHANGED <<births, portCaller, home, owned>>

(* Up to Polls looks for the replacement: the cancellation is looked at,   *)
(* two seconds pass, the clients are listed.                               *)
AwaitClient ==
  /\ callAt = "wait"
  /\ IF Cancelled \/ tries = Polls THEN Return("Failed")
     ELSE tries' = tries + 1 /\ Goes("look") /\ UNCHANGED seen
  /\ UNCHANGED <<portWorld, portCaller, portGhosts, adopted>>

LookForClient ==
  /\ callAt = "look"
  /\ \/ Cardinality(Clients) > 1 /\ Return("Failed")
     \/ /\ Cardinality(Clients) <= 1 /\ Goes("wait")       (* or no window yet    *)
        /\ UNCHANGED <<seen, tries>>
     \/ Cardinality(Clients) = 1 /\ seen' = Clients /\ Goes("adopt") /\ UNCHANGED tries
  /\ UNCHANGED <<portWorld, portCaller, portGhosts, adopted>>

Adopt ==
  /\ callAt = "adopt"
  /\ \E window \in seen :
       \/ WithPid(window.pid) = {} /\ Return("Failed") /\ UNCHANGED <<adopted, home, owned>>
       \/ \E found \in WithPid(window.pid) :
            /\ seen' = {} /\ UNCHANGED tries
            /\ IF found = quarry.identity
                 THEN Goes("wait") /\ UNCHANGED <<adopted, home, owned>>
                 ELSE /\ adopted' = Adoption(found, window) /\ home' = found
                      /\ owned' = owned \cup {found} /\ Goes("settle")
  /\ UNCHANGED <<portWorld, portCaller, killed>>

(* Twenty seconds for the world to stream in, then the reset script.       *)
Settle ==
  /\ callAt = "settle"
  /\ \/ Cancelled /\ Return("Failed")
     \/ ~Cancelled /\ tries' = 0 /\ Goes("list") /\ UNCHANGED seen
  /\ UNCHANGED <<portWorld, portCaller, portGhosts, adopted>>

-----------------------------------------------------------------------------
(* Stop cancels the session's token and then calls port.cancel; a deadline *)
(* cancels the call's token.  Either way the call has a second to end and  *)
(* is dropped after it where it waits, and its child with it.              *)

Stop ==
  /\ session /\ ~stopped /\ stopped' = TRUE
  /\ UNCHANGED <<portWorld, session, recoveredOnce, portGhosts, adopted, portCall>>

PortCancel ==
  /\ session /\ stopped /\ adopted' = NoClient
  /\ UNCHANGED <<portWorld, portCaller, portGhosts, portCall>>

Deadline ==
  /\ callAt # "idle" /\ duty # "preflight" /\ ~cut /\ cut' = TRUE
  /\ UNCHANGED <<portWorld, portCaller, portGhosts, adopted>>
  /\ UNCHANGED <<callAt, duty, seen, quarry, tries, child, against, callOutcome>>

KeepsChild == UNCHANGED child
DropsChild == child' = FALSE

DropCall ==
  /\ callAt \in {"poll", "wait", "look", "settle"} /\ Cancelled
  /\ callAt' = "idle" /\ callOutcome' = "Cancelled" /\ DropsChild
  /\ seen' = {} /\ quarry' = NoClient /\ against' = NoClient
  /\ UNCHANGED <<cut, duty, tries, portWorld, portCaller, portGhosts, adopted>>

-----------------------------------------------------------------------------
PortInit ==
  /\ procs = {} /\ births = 0 /\ front = NoClient /\ adopted = NoClient
  /\ session = FALSE /\ stopped = FALSE /\ cut = FALSE /\ callAt = "idle" /\ duty = "preflight"
  /\ seen = {} /\ quarry = NoClient /\ tries = 0 /\ child = FALSE /\ against = NoClient
  /\ home = NoClient /\ killed = {} /\ owned = {} /\ callOutcome = "none" /\ recoveredOnce = FALSE

PortCallStep ==
  \/ List \/ Verify \/ Gates \/ Spawn \/ PollChild \/ Status \/ Inspect \/ Disconnected
  \/ Terminate \/ AwaitClient \/ LookForClient \/ Adopt \/ Settle \/ DropCall
PortNext ==
  \/ ProcessStarts \/ ProcessEnds \/ FrontMoves
  \/ SessionBegins \/ ScriptBegins \/ RecoveryBegins \/ PortSessionEnds
  \/ PortCallStep \/ Stop \/ PortCancel \/ Deadline
PortSpec == PortInit /\ [][PortNext]_portVars /\ WF_portVars(PortCallStep)

-----------------------------------------------------------------------------
(* "Terminates only the exact disconnected client adopted at preflight":   *)
(* a process that a recovery terminates is one this session adopted, born  *)
(* when the adopted one was, even when its id has been used again since;   *)
(* and a script runs only inside its call and against the client that the  *)
(* preflight, or a recovery, adopted: neither a Stop, which forgets the    *)
(* adoption under a call at work, nor a client that comes or goes          *)
(* meanwhile, lets one start against another.                              *)
OnlyTheAdoptedClient ==
  /\ killed \subseteq owned
  /\ child => (callAt = "poll" /\ against = home /\ home # NoClient)

(* A call that is cancelled, by Stop or by a deadline, ends, and leaves no *)
(* process behind.                                                         *)
CancelledCallsEnd == (Cancelled /\ callAt # "idle") ~> (callAt = "idle" /\ ~child)
=============================================================================
