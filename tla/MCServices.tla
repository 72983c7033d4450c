----------------------------- MODULE MCServices -----------------------------
(***************************************************************************)
(* Four components that share no state, side by side: the first state     *)
(* chooses the one that is at work, and the others stay where they begin.  *)
(***************************************************************************)
EXTENDS MCNativeInput, MCQuestScan, LegacyPort, Hotkeys

(* Texts as a profile may hold them: F1 and F2, the hard stop or another    *)
(* chord where it should be, one that has no function key and one with two. *)
Text(modifiers, functions) == [modifiers |-> modifiers, functions |-> functions, other |-> FALSE]
Typo == [modifiers |-> {}, functions |-> <<1>>, other |-> TRUE]
MCHard == Text({"ctrl", "shift"}, <<12>>)
MCBound ==
  {<<Text({}, <<1>>), Text({}, <<2>>), stop, MCHard>> :
     stop \in {Text({}, <<1>>), Text({}, <<25>>), MCHard}}
  \cup {<<Text({}, <<1>>), Typo, Text({"alt"}, <<>>), hard>> :
     hard \in {MCHard, Text({"ctrl"}, <<3, 4>>)}}
MCConflicts == {[modifiers |-> {}, key |-> 1], [modifiers |-> {"ctrl", "shift"}, key |-> 12]}

VARIABLE machine

At(name) == machine = name /\ UNCHANGED machine
InputIdle == UNCHANGED vars
ScanIdle == UNCHANGED scanVars
PortIdle == UNCHANGED portVars
KeysIdle == UNCHANGED hotkeyVars

ServicesInit ==
  /\ machine \in {"input", "scan", "port", "hotkeys"}
  /\ Init /\ ScanInit /\ PortInit /\ HotkeysInit
  /\ machine # "input" => ~foreground /\ ~faultySink
  /\ machine # "scan" => ~logOpen /\ ~focused
  /\ machine # "hotkeys" => taken = {}

ServicesNext ==
  \/ At("input") /\ Next /\ ScanIdle /\ PortIdle /\ KeysIdle
  \/ At("scan") /\ ScanNext /\ InputIdle /\ PortIdle /\ KeysIdle
  \/ At("port") /\ PortNext /\ InputIdle /\ ScanIdle /\ KeysIdle
  \/ At("hotkeys") /\ HotkeysNext /\ InputIdle /\ ScanIdle /\ PortIdle

ServicesVars == <<machine, vars, scanVars, portVars, hotkeyVars>>
Alone(name, A) == machine = name /\ A

(* Each component under the fairness that its own specification states.    *)
ServicesSpec ==
  /\ ServicesInit /\ [][ServicesNext]_ServicesVars
  /\ WF_vars(Alone("input", Proceed)) /\ WF_vars(Alone("input", Drop))
  /\ WF_vars(Alone("input", WorkerReleases)) /\ WF_vars(Alone("input", EmergencyRelease))
  /\ WF_scanVars(Alone("scan", ScanThread)) /\ WF_scanVars(Alone("scan", Waiter))
  /\ WF_portVars(Alone("port", PortCallStep)) /\ WF_hotkeyVars(Alone("hotkeys", HotkeyThread))
=============================================================================
