------------------------------ MODULE PipeLink ------------------------------
(***************************************************************************)
(* The pipe between the desktop and the daemon (core/src/transport.rs,     *)
(* serve_pipe of daemon/src/main.rs, supervise and dispatch of             *)
(* src-tauri/src/bridge.rs).  A frame is a number of pieces, the last with *)
(* its newline; a pipe holds so many pieces each way.  Both ends read      *)
(* inside select!, which drops a read that has not completed when another  *)
(* branch does; both write outside it, and read nothing meanwhile.         *)
(***************************************************************************)
EXTENDS Integers, Sequences, FiniteSets, SequencesExt

CONSTANTS
  CommandSizes,  (* of the commands that callers dispatch, in pieces        *)
  EventSizes,    (* of the events                                           *)
  Limit,         (* MAX_FRAME_BYTES                                         *)
  Capacity,      (* of a pipe, each way                                     *)
  Ring,          (* of the broadcast channel: 512 events in the code        *)
  MaxLinks, MaxFrames, MaxEvents  (* bounds: connections, commands, events  *)

ASSUME LinkAssumption ==
  /\ CommandSizes \subseteq Nat \ {0} /\ EventSizes \subseteq Nat \ {0}
  /\ Limit \in Nat \ {0} /\ Capacity \in Nat \ {0} /\ Ring \in Nat \ {0}
  /\ MaxLinks \in Nat \ {0} /\ MaxFrames \in Nat /\ MaxEvents \in Nat

VARIABLES
  wire,       (* [link] and then "up" or "down": the pieces in the pipe     *)
  clientEnd, serverEnd,   (* the links whose client, or server, end is open *)
  listening,  (* pending: the instance that waits for the next client       *)
  (* the daemon                                                             *)
  daemonAt,   (* "accept", "select", "sending", "drain" or "ended"          *)
  serving,    (* the link it serves, 0 when none                            *)
  half,       (* `frame` of the read of a command that is under way         *)
  outgoing,   (* what is left to write of an event                          *)
  events,     (* every event broadcast, with its size                       *)
  cursor,     (* the last of them that the subscription has received        *)
  (* the desktop                                                            *)
  shellAt,    (* the supervisor: "apart", "greet", "select", "queued",      *)
              (* "writing" or "leaving"                                     *)
  joined,     (* the link it uses, 0 when none                              *)
  halfEvent,  (* `frame` of the read of an event                            *)
  caller,     (* a dispatch: "idle", "queued" or "writing"                  *)
  holder,     (* who holds the sender's lock: "none", "shell" or "caller"   *)
  pieces,     (* what is left to write of a command                         *)
  commands,   (* how many commands were begun                               *)
  (* history                                                                *)
  sent, got,  (* by link and way, the frames written and those decoded      *)
  invalid     (* the links on which an end met an invalid frame             *)

pipes == <<wire, clientEnd, serverEnd, listening>>
serverSide == <<daemonAt, serving, half, outgoing, cursor>>
shellSide == <<shellAt, joined, halfEvent>>
senderSide == <<caller, holder, pieces, commands>>
linkHistory == <<sent, got, invalid>>
linkVars == <<pipes, serverSide, events, shellSide, senderSide, linkHistory>>

Links == 1..MaxLinks
Ways == {"up", "down"}
Frame(id, size) == [k \in 1..size |-> [id |-> id, last |-> k = size, first |-> k = 1]]

-----------------------------------------------------------------------------
(* read_frame.  What is at hand is taken up to a newline; a frame that is  *)
(* not all there does not parse, however it came to lose its beginning.    *)

Newline(seen) == seen # <<>> /\ Last(seen).last
TakeSizes(queue) ==
  {n \in DOMAIN queue : \A k \in 1..(n - 1) : ~queue[k].last}
TooLarge(seen) == Len(seen) > Limit
Whole(seen) == Newline(seen) /\ seen[1].first

(* write_all, a piece at a time; the pipe closed is an error.              *)
Written(link, way, rest) ==
  /\ rest # <<>> /\ Len(wire[link][way]) < Capacity
  /\ wire' = [wire EXCEPT ![link][way] = Append(@, Head(rest))]

Began(link, way, id) == sent' = [sent EXCEPT ![link][way] = Append(@, id)]
Decoded(link, way, id) == got' = [got EXCEPT ![link][way] = Append(@, id)]

-----------------------------------------------------------------------------
(* The daemon.                                                             *)

Alive == daemonAt # "ended"

(* accept: the next instance is there before the connected one is served,  *)
(* and the subscription starts with it.                                    *)
Accept ==
  /\ daemonAt = "accept" /\ listening \in clientEnd /\ listening < MaxLinks
  /\ serving' = listening /\ listening' = listening + 1
  /\ serverEnd' = serverEnd \cup {listening'}
  /\ cursor' = Len(events) /\ half' = <<>> /\ outgoing' = <<>> /\ daemonAt' = "select"
  /\ UNCHANGED <<wire, clientEnd, events, shellSide, senderSide, linkHistory>>

(* The stream is dropped, with both of its halves.                         *)
Hangs == serverEnd' = serverEnd \ {serving} /\ serving' = 0 /\ half' = <<>> /\ outgoing' = <<>>
AcceptsNext == daemonAt' = "accept" /\ Hangs
GoesOn == daemonAt' = "select" /\ half' = <<>> /\ UNCHANGED <<serverEnd, serving, outgoing>>
AfterInvalid == AcceptsNext
Ends ==
  /\ daemonAt' = "ended" /\ serverEnd' = {} /\ serving' = 0 /\ half' = <<>> /\ outgoing' = <<>>

(* commands.next(), and what the engine answers: the acknowledgement and,  *)
(* for some commands, a reply.  An accepted ShutdownDaemon ends the loop.  *)
Answers(sizes) ==
  /\ Len(events) + Len(sizes) <= MaxEvents /\ events' = events \o sizes

ReadCommand ==
  /\ daemonAt = "select" /\ wire[serving]["up"] # <<>>
  /\ \E n \in TakeSizes(wire[serving]["up"]) :
       LET seen == half \o SubSeq(wire[serving]["up"], 1, n) IN
       /\ wire' = [wire EXCEPT ![serving]["up"] = SubSeq(@, n + 1, Len(@))]
       /\ \/ /\ TooLarge(seen) \/ (Newline(seen) /\ ~Whole(seen))
             /\ invalid' = invalid \cup {serving} /\ AfterInvalid
             /\ UNCHANGED <<events, got>>
          \/ /\ ~TooLarge(seen) /\ Whole(seen) /\ Decoded(serving, "up", seen[1].id)
             /\ half' = <<>> /\ daemonAt' \in {"select", "drain"}
             /\ \E reply \in {<<>>} \cup {<<size>> : size \in EventSizes} : Answers(<<1>> \o reply)
             /\ UNCHANGED <<serverEnd, serving, outgoing, invalid>>
          \/ /\ ~TooLarge(seen) /\ ~Newline(seen) /\ half' = seen
             /\ UNCHANGED <<serverEnd, serving, outgoing, daemonAt, events, got, invalid>>
  /\ UNCHANGED <<clientEnd, listening, cursor, shellSide, senderSide, sent>>

(* The end of the stream: nothing, or a frame that does not parse.         *)
ReadEnd ==
  /\ daemonAt = "select" /\ wire[serving]["up"] = <<>> /\ serving \notin clientEnd
  /\ AcceptsNext
  /\ UNCHANGED <<wire, clientEnd, listening, cursor, events, shellSide, senderSide, linkHistory>>

(* events.recv(): the other branch, and the read under way is dropped.     *)
DropsHalf == half' = <<>>

TakeEvent ==
  /\ daemonAt \in {"select", "drain"} /\ cursor < Len(events)
  /\ IF Len(events) - cursor > Ring
       THEN /\ cursor' = Len(events) - Ring      (* Lagged                   *)
            /\ IF daemonAt = "select" THEN DropsHalf /\ UNCHANGED <<daemonAt, serverEnd, serving>>
               ELSE Ends
            /\ UNCHANGED <<outgoing, sent>>
       ELSE /\ cursor' = cursor + 1
            /\ IF events[cursor'] > Limit
                 THEN (IF daemonAt = "select" THEN AcceptsNext ELSE Ends) /\ UNCHANGED sent
                 ELSE /\ outgoing' = Frame(cursor', events[cursor']) /\ DropsHalf
                      /\ daemonAt' = IF daemonAt = "select" THEN "sending" ELSE "farewell"
                      /\ Began(serving, "down", cursor') /\ UNCHANGED <<serverEnd, serving>>
  /\ UNCHANGED <<wire, clientEnd, listening, events, shellSide, senderSide, got, invalid>>

SendEvent ==
  /\ daemonAt \in {"sending", "farewell"}
  /\ \/ /\ serving \in clientEnd /\ Written(serving, "down", outgoing)
        /\ outgoing' = Tail(outgoing)
        /\ daemonAt' = IF outgoing' # <<>> THEN daemonAt
                       ELSE IF daemonAt = "sending" THEN "select" ELSE "drain"
        /\ UNCHANGED <<serverEnd, serving, half>>
     \/ /\ serving \notin clientEnd /\ daemonAt = "sending" /\ AcceptsNext /\ UNCHANGED wire
     \/ serving \notin clientEnd /\ daemonAt = "farewell" /\ Ends /\ UNCHANGED wire
  /\ UNCHANGED <<clientEnd, listening, cursor, events, shellSide, senderSide, linkHistory>>

(* The last event before the end is sent; or Ctrl+C, or a listener that    *)
(* cannot make another instance; or the process dies, whatever it does.    *)
DaemonStops ==
  /\ Alive /\ Ends
  /\ UNCHANGED <<wire, clientEnd, listening, cursor, events, shellSide, senderSide, linkHistory>>

(* A run, a scan or a hotkey broadcasts.                                   *)
Broadcast ==
  /\ Alive /\ \E size \in EventSizes : Answers(<<size>>)
  /\ UNCHANGED <<pipes, serverSide, shellSide, senderSide, linkHistory>>

-----------------------------------------------------------------------------
(* The desktop.                                                            *)

(* connect: the pending instance takes a client at once, whatever the      *)
(* daemon is doing; the supervisor then greets, and ignores a refusal.     *)
Join ==
  /\ shellAt = "apart" /\ listening \in serverEnd \ clientEnd
  /\ joined' = listening /\ clientEnd' = clientEnd \cup {listening}
  /\ halfEvent' = <<>> /\ shellAt' = "greet"
  /\ UNCHANGED <<wire, serverEnd, listening, serverSide, events, senderSide, linkHistory>>

(* Another branch of the supervisor's select! or the follow-up of an event *)
(* asks for the lock.  A tick drops the read of an event under way.        *)
Ask ==
  /\ shellAt \in {"greet", "select"} /\ shellAt' = "queued" /\ halfEvent' = <<>>
  /\ UNCHANGED <<pipes, serverSide, events, joined, senderSide, linkHistory>>

SkipGreeting ==
  /\ shellAt = "greet" /\ shellAt' = "select"
  /\ UNCHANGED <<pipes, serverSide, events, joined, halfEvent, senderSide, linkHistory>>

Dispatch ==
  /\ caller = "idle" /\ commands < MaxFrames /\ caller' = "queued"
  /\ UNCHANGED <<pipes, serverSide, events, shellSide, holder, pieces, commands, linkHistory>>

(* send: under the lock, a frame within the limit or an error; a sender    *)
(* that is gone is an error as well.                                       *)
Begin(who, size) ==
  /\ holder = "none" /\ commands < MaxFrames
  /\ holder' = who /\ commands' = commands + 1
  /\ pieces' = Frame(commands', size) /\ Began(joined, "up", commands')

ShellBegins ==
  /\ shellAt = "queued" /\ Begin("shell", 1) /\ shellAt' = "writing"
  /\ UNCHANGED <<pipes, serverSide, events, joined, halfEvent, caller, got, invalid>>

CallerBegins ==
  /\ caller = "queued" /\ shellAt \notin {"apart", "leaving"}
  /\ \E size \in CommandSizes : size <= Limit /\ Begin("caller", size)
  /\ caller' = "writing"
  /\ UNCHANGED <<pipes, serverSide, events, shellSide, got, invalid>>

CallerFails ==
  /\ caller = "queued" /\ holder = "none" /\ caller' = "idle"
  /\ \/ shellAt = "apart" \/ \E size \in CommandSizes : size > Limit
  /\ UNCHANGED <<pipes, serverSide, events, shellSide, holder, pieces, commands, linkHistory>>

Released == holder' = "none" /\ pieces' = <<>>
Back(failed) ==
  IF holder = "caller" THEN caller' = "idle" /\ UNCHANGED shellAt
  ELSE shellAt' \in (IF failed THEN {"select", "leaving"} ELSE {"select"}) /\ UNCHANGED caller

SendCommand ==
  /\ holder # "none"
  /\ \/ /\ joined \in serverEnd /\ Written(joined, "up", pieces)
        /\ IF Len(pieces) = 1 THEN Released /\ Back(FALSE)
           ELSE pieces' = Tail(pieces) /\ UNCHANGED <<holder, caller, shellAt>>
     \/ joined \notin serverEnd /\ Released /\ Back(TRUE) /\ UNCHANGED wire
  /\ UNCHANGED <<clientEnd, serverEnd, listening, serverSide, events, joined, halfEvent,
                 commands, linkHistory>>

(* events.next(), in select!.                                              *)
LeavesAfterInvalid == shellAt' = "leaving"

ReadEvent ==
  /\ shellAt = "select" /\ wire[joined]["down"] # <<>>
  /\ \E n \in TakeSizes(wire[joined]["down"]) :
       LET seen == halfEvent \o SubSeq(wire[joined]["down"], 1, n) IN
       /\ wire' = [wire EXCEPT ![joined]["down"] = SubSeq(@, n + 1, Len(@))]
       /\ \/ /\ TooLarge(seen) \/ (Newline(seen) /\ ~Whole(seen))
             /\ invalid' = invalid \cup {joined} /\ LeavesAfterInvalid
             /\ halfEvent' = <<>> /\ UNCHANGED got
          \/ /\ ~TooLarge(seen) /\ Whole(seen) /\ Decoded(joined, "down", seen[1].id)
             /\ shellAt' \in {"select", "queued", "leaving"}
             /\ halfEvent' = <<>> /\ UNCHANGED invalid
          \/ /\ ~TooLarge(seen) /\ ~Newline(seen) /\ halfEvent' = seen
             /\ UNCHANGED <<shellAt, got, invalid>>
  /\ UNCHANGED <<clientEnd, serverEnd, listening, serverSide, events, joined, senderSide, sent>>

ReadClosed ==
  /\ shellAt = "select" /\ wire[joined]["down"] = <<>> /\ joined \notin serverEnd
  /\ shellAt' = "leaving"
  /\ UNCHANGED <<pipes, serverSide, events, joined, halfEvent, senderSide, linkHistory>>

(* The lock once more, to take the sender away; then both halves are gone. *)
Leave ==
  /\ shellAt = "leaving" /\ holder = "none" /\ shellAt' = "apart"
  /\ clientEnd' = clientEnd \ {joined} /\ joined' = 0 /\ halfEvent' = <<>>
  /\ UNCHANGED <<wire, serverEnd, listening, serverSide, events, senderSide, linkHistory>>

-----------------------------------------------------------------------------
LinkInit ==
  /\ wire = [l \in Links |-> [way \in Ways |-> <<>>]]
  /\ clientEnd = {} /\ serverEnd = {1} /\ listening = 1
  /\ daemonAt = "accept" /\ serving = 0 /\ half = <<>> /\ outgoing = <<>>
  /\ events = <<>> /\ cursor = 0
  /\ shellAt = "apart" /\ joined = 0 /\ halfEvent = <<>>
  /\ caller = "idle" /\ holder = "none" /\ pieces = <<>> /\ commands = 0
  /\ sent = [l \in Links |-> [way \in Ways |-> <<>>]] /\ got = sent /\ invalid = {}

LinkNext ==
  \/ Accept \/ ReadCommand \/ ReadEnd \/ TakeEvent \/ SendEvent \/ DaemonStops \/ Broadcast
  \/ Join \/ Ask \/ SkipGreeting \/ Dispatch \/ ShellBegins \/ CallerBegins \/ CallerFails
  \/ SendCommand \/ ReadEvent \/ ReadClosed \/ Leave
LinkSpec == LinkInit /\ [][LinkNext]_linkVars

-----------------------------------------------------------------------------
(* What an end decodes from a connection is what the other has written to  *)
(* it, in order and with nothing left out, whichever reads were dropped in *)
(* the middle of a frame: a frame that lost its beginning ends the         *)
(* connection before the one behind it is taken for the next.              *)
FramesArriveInOrder ==
  \A l \in Links, way \in Ways : IsPrefix(got[l][way], sent[l][way])

(* "Read commands and write events over separate handles so the daemon can *)
(* select between inbound commands and broadcast events" (CommandReceiver):*)
(* two ends that write only valid frames never take one for invalid.       *)
ValidFramesStayValid == invalid = {}
=============================================================================
