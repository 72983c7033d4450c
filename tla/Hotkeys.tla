------------------------------- MODULE Hotkeys -------------------------------
(***************************************************************************)
(* The global control chords (platform/src/hotkeys.rs, windows_backend.rs) *)
(* and the thread that turns presses into commands (daemon/src/main.rs).   *)
(* The chords of the profile that was selected at start are registered one *)
(* by one, in the order of Controls; Windows gives a chord to one owner,   *)
(* and other applications take and release chords at any time.  A press is *)
(* a message to the thread that owns the chord.                            *)
(***************************************************************************)
EXTENDS Naturals, Sequences, FiniteSets, TLC

CONSTANTS
  Bound,       (* the hotkeys a profile may hold: a text for each control   *)
  Conflicts,   (* chords that other applications may own                    *)
  MaxPresses   (* bound: presses of any chord                               *)

Controls == <<"start", "pause", "stop", "emergency">>

ASSUME HotkeysAssumption ==
  /\ \A h \in Bound : DOMAIN h = DOMAIN Controls
  /\ MaxPresses \in Nat

VARIABLES
  hotkeys,     (* the profile's, as the thread captured them; <<>> when it  *)
               (* could not be loaded                                       *)
  thread,
  todo,        (* controls that are still to be registered                  *)
  registered,       (* the chords of the thread: the control each was given to   *)
  taken,       (* the chords of other applications                          *)
  inbox,       (* WM_HOTKEY messages                                        *)
  batch,       (* what poll_pressed drained                                 *)
  chosen,      (* the command that is handed to the engine                  *)
  runMode,        (* RunState                                                  *)
  (* history                                                                *)
  presses,
  beaten,      (* another application had the hard stop when it was tried   *)
  calls, stops (* presses of the hard stop, and the commands they became    *)

hotkeyVars == <<hotkeys, thread, todo, registered, taken, inbox, batch, chosen, runMode, presses,
                beaten, calls, stops>>

-----------------------------------------------------------------------------
(* parse_hotkey: any modifiers and exactly one function key.               *)

NoChord == [modifiers |-> {}, key |-> 0]
ParseHotkey(text) ==
  IF text.other \/ Len(text.functions) # 1 \/ text.functions[1] \notin 1..24
    THEN NoChord ELSE [modifiers |-> text.modifiers, key |-> text.functions[1]]

Parsable(texts) ==
  SelectSeq([id \in DOMAIN Controls |-> id], LAMBDA id : ParseHotkey(texts[id]) # NoChord)
Chord(id) == ParseHotkey(hotkeys[id])
HardStop == [modifiers |-> {"ctrl", "shift"}, key |-> 12]

(* spawn_hotkey_loop: a profile that cannot be loaded leaves no hotkeys.   *)
LoadHotkeys ==
  /\ thread = "starting"
  /\ \/ /\ hotkeys' \in Bound /\ thread' = "registering"
        /\ todo' = Parsable(hotkeys')
     \/ thread' = "ended" /\ UNCHANGED <<hotkeys, todo>>
  /\ UNCHANGED <<registered, taken, inbox, batch, chosen, runMode, presses, beaten, calls, stops>>

(* register, which the daemon does not use, gives up what it has when one  *)
(* chord fails; register_best_effort goes on with the others.              *)
Free(chord) == chord \notin taken /\ chord \notin DOMAIN registered

Unwind(id) ==
  IF Free(Chord(id)) THEN registered' = (Chord(id) :> id) @@ registered /\ todo' = Tail(todo)
  ELSE registered' = <<>> /\ todo' = <<>>
BestEffort(id) ==
  /\ registered' = IF Free(Chord(id)) THEN (Chord(id) :> id) @@ registered ELSE registered
  /\ todo' = Tail(todo)

RegisterNext ==
  /\ thread = "registering" /\ todo # <<>>
  /\ BestEffort(Head(todo))
  /\ beaten' = (beaten \/ (Chord(Head(todo)) = HardStop /\ HardStop \in taken))
  /\ UNCHANGED <<hotkeys, thread, taken, inbox, batch, chosen, runMode, presses, calls, stops>>

BeginPolling ==
  /\ thread = "registering" /\ todo = <<>>
  /\ thread' = IF registered = <<>> THEN "ended" ELSE "polling"
  /\ UNCHANGED <<hotkeys, todo, registered, taken, inbox, batch, chosen, runMode, presses, beaten,
                 calls, stops>>

-----------------------------------------------------------------------------
(* Every 50 ms the messages are drained and obeyed in their order; the     *)
(* pause chord looks at the state of the run before it chooses.            *)

PollPressed ==
  /\ thread = "polling" /\ batch = <<>> /\ chosen = "none" /\ inbox # <<>>
  /\ batch' = SelectSeq(inbox, LAMBDA id : \E c \in DOMAIN registered : registered[c] = id)
  /\ inbox' = <<>>
  /\ UNCHANGED <<hotkeys, thread, todo, registered, taken, chosen, runMode, presses, beaten, calls, stops>>

CommandFor(id) ==
  CASE id = 1 -> "StartLegacySession"
    [] id = 2 -> IF runMode = "Paused" THEN "Resume" ELSE "Pause"
    [] id = 3 -> "Stop"
    [] OTHER -> "EmergencyStop"

ChooseCommand ==
  /\ batch # <<>> /\ chosen = "none"
  /\ chosen' = CommandFor(Head(batch)) /\ batch' = Tail(batch)
  /\ UNCHANGED <<hotkeys, thread, todo, registered, taken, inbox, runMode, presses, beaten, calls, stops>>

(* block_on handle_command: the next press waits until it returns.         *)
RunModes == {"Idle", "Running", "Paused"}
CommandReturns ==
  /\ chosen # "none" /\ chosen' = "none"
  /\ runMode' \in RunModes
  /\ stops' = IF chosen = "EmergencyStop" THEN stops + 1 ELSE stops
  /\ UNCHANGED <<hotkeys, thread, todo, registered, taken, inbox, batch, presses, beaten, calls>>

-----------------------------------------------------------------------------
(* The user, the other applications and the run.                           *)

PressChord(chord) ==
  /\ presses < MaxPresses /\ presses' = presses + 1
  /\ inbox' = IF chord \in DOMAIN registered THEN Append(inbox, registered[chord]) ELSE inbox
  /\ calls' = IF chord = HardStop /\ thread \in {"polling", "ended"} THEN calls + 1 ELSE calls
  /\ UNCHANGED <<hotkeys, thread, todo, registered, taken, batch, chosen, runMode, beaten, stops>>

OthersTake ==
  /\ \E chord \in Conflicts :
       \/ chord \notin taken \cup DOMAIN registered /\ taken' = taken \cup {chord}
       \/ chord \in taken /\ taken' = taken \ {chord}
  /\ UNCHANGED <<hotkeys, thread, todo, registered, inbox, batch, chosen, runMode, presses, beaten,
                 calls, stops>>

RunMoves ==
  /\ runMode' \in RunModes \ {runMode}
  /\ UNCHANGED <<hotkeys, thread, todo, registered, taken, inbox, batch, chosen, presses, beaten,
                 calls, stops>>

-----------------------------------------------------------------------------
HotkeysInit ==
  /\ hotkeys = <<>> /\ thread = "starting" /\ todo = <<>> /\ registered = <<>>
  /\ taken \in SUBSET Conflicts
  /\ inbox = <<>> /\ batch = <<>> /\ chosen = "none" /\ runMode = "Idle"
  /\ presses = 0 /\ beaten = FALSE /\ calls = 0 /\ stops = 0

HotkeyThread ==
  LoadHotkeys \/ RegisterNext \/ BeginPolling \/ PollPressed \/ ChooseCommand \/ CommandReturns
HotkeysNext ==
  \/ HotkeyThread
  \/ \E chord \in DOMAIN registered \cup {HardStop} : PressChord(chord)
  \/ OthersTake \/ RunMoves

(* The thread is scheduled, and every command it sends is answered.        *)
HotkeysSpec == HotkeysInit /\ [][HotkeysNext]_hotkeyVars /\ WF_hotkeyVars(HotkeyThread)

-----------------------------------------------------------------------------
(* Properties.                                                             *)

(* Once the chords are registered, every press of the hard stop becomes an *)
(* EmergencyStop, whatever became of the other chords and however many     *)
(* presses are ahead of it, unless another application had the chord first *)
(* or the profile gives it to an earlier control: "A stale daemon or       *)
(* another app owning F1 must never stop us from attempting Ctrl+Shift+F12 *)
(* which is the hard input-release route" (main.rs:279).                   *)
Reserved ==
  /\ hotkeys # <<>> /\ Chord(4) = HardStop /\ ~beaten
  /\ \A id \in 1..3 : Chord(id) # HardStop
HardStopIsObeyed ==
  \A n \in 1..MaxPresses : (Reserved /\ calls >= n) ~> (stops >= n)
=============================================================================
