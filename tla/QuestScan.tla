------------------------------ MODULE QuestScan ------------------------------
(***************************************************************************)
(* One scan of the quest log (daemon/src/quest_scan.rs): a blocking thread *)
(* clicks the log open, reads the giver, the objective bars and the title, *)
(* clicks it closed and answers, while the task that started it waits for  *)
(* a cancellation, sixty seconds or the answer, and gives a thread that    *)
(* must stop two more seconds.  The thread looks at its token before every *)
(* input and in every wait; its broker releases the button when it ends.   *)
(***************************************************************************)
EXTENDS Perception

CONSTANTS
  ScoreFrames, (* what a frame of the giver region can contain              *)
  RowFrames,   (* what a crop below the icon can contain                    *)
  Readings,    (* what the title region can contain                         *)
  Catalog,     (* a giver's quests: for each the fields of its objectives   *)
  Attempts     (* clicks before the scan gives up on opening or closing     *)

ASSUME ScanAssumption ==
  Attempts \in Nat \ {0} /\ RowFrames \subseteq Seq({"none", "complete", "incomplete"})

VARIABLES
  scan,        (* where the thread is                                       *)
  mouseDown,   (* the mouse button is held by the thread's broker           *)
  logOpen,     (* the quest log is open in the game                         *)
  focused,     (* the client is the foreground window                       *)
  attempt,     (* clicks made for this purpose                              *)
  purpose, gesture, checked, (* the click at work, and its next input       *)
  frames,      (* the consensus of the detector at work                     *)
  giver, bars, title, (* what has been read                                 *)
  rows,        (* the crop the bars were read from                          *)
  reading,     (* "none", "ok" or "failed"                                  *)
  answer,      (* the thread's result: "none", "unopened", "read", "failed",*)
               (* "cancelled"                                               *)
  call,        (* the task: "none", "waiting", "grace", "expired", or how   *)
               (* it returned                                               *)
  scanCancelled, workerCancelled,  (* the run's token and the worker's      *)
  lateInputs,  (* inputs dispatched since the thread was told to stop       *)
  doubted      (* the frame that settled the giver was ambiguous            *)

scanAt == <<attempt, purpose, gesture, checked>>
scanInput == <<mouseDown, logOpen, focused, lateInputs>>
scanRead == <<frames, giver, bars, title, rows, reading, doubted>>
scanTokens == <<scanCancelled, workerCancelled>>
scanVars == <<scan, scanAt, scanInput, scanRead, answer, call, scanTokens>>

ScanTold == scanCancelled \/ workerCancelled
Fields == IF giver \in DOMAIN Catalog /\ title # Other
            THEN RecommendFields(bars, Catalog[giver][title]) ELSE {}

-----------------------------------------------------------------------------
(* The thread.  It ends with an answer, and its broker is dropped.         *)

HoldOn == UNCHANGED mouseDown
DropBroker == mouseDown' = FALSE

NothingRead(outcome) ==
  /\ frames' = <<>> /\ giver' = Other /\ bars' = <<>> /\ title' = Other /\ rows' = <<>>
  /\ reading' = outcome /\ doubted' = FALSE

Ends(result) ==
  /\ scan' = "ended" /\ answer' = result /\ DropBroker
  /\ IF result = "read" THEN UNCHANGED scanRead ELSE NothingRead("none")
EndsHere(result) == Ends(result) /\ UNCHANGED <<scanAt, logOpen, focused, lateInputs>>

(* A click is three inputs.                                                *)
Gestures == <<"move", "down", "up">>
Click(why) == scan' = "click" /\ purpose' = why /\ gesture' = 1 /\ checked' = FALSE

(* Exactly one visible client, activated if it is not in the foreground.   *)
ScanBegins ==
  /\ scan = "begin" /\ call # "none"
  /\ \/ ScanTold /\ EndsHere("cancelled")
     \/ ~ScanTold /\ EndsHere("failed")
     \/ /\ ~ScanTold /\ ~focused /\ focused' = TRUE
        /\ UNCHANGED <<scan, scanAt, mouseDown, logOpen, lateInputs, scanRead, answer>>
     \/ /\ ~ScanTold /\ focused /\ Click("open") /\ attempt' = 1
        /\ UNCHANGED <<scanInput, scanRead, answer>>
  /\ UNCHANGED <<call, scanTokens>>

NeverSeesToken == FALSE
SeesToken == ScanTold

(* The click on the way out is not allowed to fail the scan, not even when *)
(* it is cancelled; the others are.                                        *)
ClickFails(result) ==
  IF purpose = "defocus"
    THEN scan' = "release" /\ mouseDown' = FALSE /\ UNCHANGED <<answer, scanRead>>
    ELSE Ends(result)

(* Before each input the token is looked at (check_cancelled), and the     *)
(* wait after it looks as well; the token may be cancelled in between.     *)
CheckToken ==
  /\ scan = "click" /\ ~checked
  /\ IF SeesToken THEN ClickFails("cancelled") /\ UNCHANGED checked
     ELSE checked' = TRUE /\ UNCHANGED <<scan, mouseDown, answer, scanRead>>
  /\ UNCHANGED <<attempt, purpose, gesture, logOpen, focused, lateInputs, call, scanTokens>>

(* The broker refuses, and lets go, when the client is not in front.       *)
DispatchRefused ==
  /\ scan = "click" /\ checked /\ ~focused
  /\ ClickFails("failed")
  /\ UNCHANGED <<scanAt, logOpen, focused, lateInputs, call, scanTokens>>

DispatchInput ==
  /\ scan = "click" /\ checked /\ focused
  /\ mouseDown' = (Gestures[gesture] = "down" \/ (mouseDown /\ Gestures[gesture] # "up"))
  /\ lateInputs' = IF ScanTold THEN lateInputs + 1 ELSE lateInputs
  /\ checked' = FALSE
  /\ IF gesture < Len(Gestures)
       THEN gesture' = gesture + 1 /\ UNCHANGED <<scan, logOpen>>
       ELSE /\ scan' = [open |-> "look", close |-> "lookClosed", defocus |-> "release"][purpose]
            /\ logOpen' \in IF purpose = "defocus" THEN {logOpen}
                            ELSE BOOLEAN           (* the game may miss it *)
            /\ UNCHANGED gesture
  /\ UNCHANGED <<attempt, purpose, focused, scanRead, answer, call, scanTokens>>

(* An open log may go unseen, a closed one is never taken for open.        *)
Look ==
  /\ scan = "look"
  /\ \/ ScanTold /\ EndsHere("cancelled")
     \/ ~ScanTold /\ EndsHere("failed")   (* the capture fails                 *)
     \/ /\ ~ScanTold /\ logOpen /\ scan' = "giver" /\ frames' = <<>>
        /\ UNCHANGED <<scanAt, scanInput, giver, bars, title, rows, reading, doubted, answer>>
     \/ /\ ~ScanTold /\ attempt < Attempts /\ Click("open") /\ attempt' = attempt + 1
        /\ UNCHANGED <<scanInput, scanRead, answer>>
     \/ ~ScanTold /\ attempt = Attempts /\ EndsHere("unopened")
  /\ UNCHANGED <<call, scanTokens>>

(* The reading ends, well or badly: the log is closed all the same, unless *)
(* the scan has been cancelled by then.                                    *)
ReadingEnds == scan' = "read" /\ reading' = "ok"
ReadingFails == scan' = "read" /\ NothingRead("failed")

GiverFrame ==
  /\ scan = "giver"
  /\ \/ ReadingFails
     \/ /\ ~ScanTold
        /\ \E scores \in ScoreFrames :
             LET seen == DetectTemplate(scores)
                 window == Slide(frames, seen) IN
             /\ giver' = Agreed(window, seen)
             /\ doubted' = (giver' # Other /\ Ambiguous(scores))
             /\ \/ giver' # Other /\ scan' = "bars" /\ frames' = <<>> /\ UNCHANGED reading
                \/ giver' = Other /\ Len(window) = Frames /\ ReadingEnds /\ frames' = <<>>
                \/ giver' = Other /\ Len(window) < Frames /\ frames' = window
                   /\ UNCHANGED <<scan, reading>>
        /\ UNCHANGED <<bars, title, rows>>
  /\ UNCHANGED <<scanAt, scanInput, answer, call, scanTokens>>

(* A crop below the icon; a giver without a catalog, or no recogniser, and *)
(* the reading is over.                                                    *)
ObjectiveBars ==
  /\ scan = "bars"
  /\ \/ ReadingFails
     \/ /\ \E crop \in RowFrames : rows' = crop /\ bars' = ReadBars(crop)
        /\ \/ giver \in DOMAIN Catalog /\ scan' = "title" /\ UNCHANGED reading
           \/ ReadingEnds
        /\ UNCHANGED <<frames, giver, title, doubted>>
  /\ UNCHANGED <<scanAt, scanInput, answer, call, scanTokens>>

TitleFrame ==
  /\ scan = "title"
  /\ \/ ReadingFails
     \/ /\ ~ScanTold
        /\ \E text \in Readings :
             LET seen == DetectTitle(text)
                 window == Slide(frames, seen) IN
             /\ title' = Agreed(window, seen)
             /\ IF title' # Other \/ Len(window) = Frames
                  THEN ReadingEnds /\ frames' = <<>>
                  ELSE frames' = window /\ UNCHANGED <<scan, reading>>
        /\ UNCHANGED <<giver, bars, rows, doubted>>
  /\ UNCHANGED <<scanAt, scanInput, answer, call, scanTokens>>

CloseLog ==
  /\ scan = "read"
  /\ \/ ScanTold /\ EndsHere("cancelled")
     \/ /\ ~ScanTold /\ Click("close") /\ attempt' = 1
        /\ UNCHANGED <<scanInput, scanRead, answer>>
  /\ UNCHANGED <<call, scanTokens>>

(* A capture that fails counts as closed.                                  *)
LookClosed ==
  /\ scan = "lookClosed"
  /\ \/ ScanTold /\ EndsHere("cancelled")
     \/ /\ ~ScanTold
        /\ \/ Click("defocus") /\ UNCHANGED attempt
           \/ logOpen /\ attempt < Attempts /\ Click("close") /\ attempt' = attempt + 1
        /\ UNCHANGED <<scanInput, scanRead, answer>>
  /\ UNCHANGED <<call, scanTokens>>

ReleaseInputs ==
  /\ scan = "release"
  /\ EndsHere(IF reading = "ok" THEN "read" ELSE "failed")
  /\ UNCHANGED <<call, scanTokens>>

(* A detector or the recogniser panics: the broker is dropped all the same.*)
ScanPanics ==
  /\ scan \in {"look", "giver", "bars", "title", "lookClosed"}
  /\ EndsHere("failed") /\ UNCHANGED <<call, scanTokens>>

ScanThread ==
  \/ ScanBegins \/ CheckToken \/ DispatchRefused \/ DispatchInput \/ Look \/ GiverFrame
  \/ ObjectiveBars \/ TitleFrame \/ CloseLog \/ LookClosed \/ ReleaseInputs \/ ScanPanics

-----------------------------------------------------------------------------
(* The task that waits, its sixty seconds, the run's token, the game.      *)

CallScan ==
  /\ call = "none" /\ call' = "waiting"
  /\ UNCHANGED <<scan, scanAt, scanInput, scanRead, answer, scanTokens>>

CallStops ==
  /\ call = "waiting"
  /\ call' = IF scanCancelled THEN "grace" ELSE "expired"
  /\ workerCancelled' = TRUE
  /\ UNCHANGED <<scan, scanAt, scanInput, scanRead, answer, scanCancelled>>

GraceEnds ==
  /\ call \in {"grace", "expired"}
  /\ call' = IF call = "grace" THEN "cancelled" ELSE "failed"
  /\ UNCHANGED <<scan, scanAt, scanInput, scanRead, answer, scanTokens>>

Joins ==
  /\ call = "waiting" /\ scan = "ended" /\ ~scanCancelled
  /\ call' = answer
  /\ UNCHANGED <<scan, scanAt, scanInput, scanRead, answer, scanTokens>>

CancelScan ==
  /\ call = "waiting" /\ ~scanCancelled
  /\ scanCancelled' = TRUE
  /\ UNCHANGED <<scan, scanAt, scanInput, scanRead, answer, call, workerCancelled>>

(* Focus is read at the beginning and by the broker, so it moves there.    *)
FocusMoves ==
  /\ scan \in {"begin", "click"} /\ focused' = ~focused
  /\ UNCHANGED <<scan, scanAt, mouseDown, logOpen, lateInputs, scanRead, answer, call, scanTokens>>

Waiter == CallStops \/ GraceEnds \/ Joins

ScanInit ==
  /\ scan = "begin" /\ mouseDown = FALSE /\ logOpen \in BOOLEAN /\ focused \in BOOLEAN
  /\ attempt = 1 /\ purpose = "open" /\ gesture = 1 /\ checked = FALSE
  /\ frames = <<>> /\ giver = Other /\ bars = <<>> /\ title = Other
  /\ rows = <<>> /\ reading = "none" /\ answer = "none" /\ call = "none"
  /\ scanCancelled = FALSE /\ workerCancelled = FALSE /\ lateInputs = 0 /\ doubted = FALSE

ScanNext == CallScan \/ ScanThread \/ Waiter \/ CancelScan \/ FocusMoves
ScanSpec == ScanInit /\ [][ScanNext]_scanVars
              /\ WF_scanVars(ScanThread) /\ WF_scanVars(Waiter)

-----------------------------------------------------------------------------
(* A scan that was told to stop (Stop, or its sixty seconds) sends at most *)
(* one more input, the one it had already decided on, and nothing at all   *)
(* once its thread has ended.                                              *)
OneLateInput == lateInputs <= 1

(* Whatever the crop and the recogniser show, a recommended field is that  *)
(* of an objective of the matched quest whose bar, counted from the top of *)
(* the crop, is not complete.                                              *)
WarrantedFields ==
  answer = "read" =>
    \A f \in Fields :
      \E k \in DOMAIN Catalog[giver][title] :
        /\ Catalog[giver][title][k] = f
        /\ Len(BarsOf(rows)) = Len(Catalog[giver][title]) /\ BarsOf(rows)[k] # "complete"

(* Stopping a scan, however it goes, ends its thread with the mouse button  *)
(* released, and the call with it.                                         *)
ScanLetsGo ==
  /\ ScanTold ~> (scan = "ended" /\ ~mouseDown)
  /\ (call = "waiting") ~> (call \notin {"waiting", "grace", "expired"})

(* "an unknown OCR result or an ambiguous template match can never become  *)
(* an input target" (core/src/perception.rs): the frame that settles the   *)
(* giver has no other giver within the margin of the best.                 *)
GiverIsUnambiguous == ~doubted
=============================================================================
