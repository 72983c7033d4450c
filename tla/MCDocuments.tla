----------------------------- MODULE MCDocuments -----------------------------
(***************************************************************************)
(* Seven components that share no state, side by side: the settings of a     *)
(* profile, the store of the daemon, the assets that become scripts, the   *)
(* pipe between the desktop and the daemon, a reconnect, the quest planner *)
(* and the statistics.  The first state chooses the one that is at work.   *)
(***************************************************************************)
EXTENDS MCSettings, MCAssetTrust, DaemonStore, PipeLink, Reconnect, MCQuestPlanner, Statistics

MCDelays == <<0, 1, 3>>

(* Screens: no client, two, a minimised one, a small one, and one whose    *)
(* counter is read as each of these.                                       *)
MCReads ==
  {<<1, 1, NotRead, NotRead, NotRead>>, <<3, 2, 3, NotRead, 1>>, <<2, 2, 2, 1, 0>>,
   <<1, 1, 2, 2, 2>>, <<9, 9, 9, 9, 9>>, <<1, 2, 3, NotRead, NotRead>>}
Screen(windows, large, reads) ==
  [windows |-> windows, captured |-> TRUE, large |-> large, reads |-> reads]
MCScreens ==
  {Screen(<<"shown">>, TRUE, reads) : reads \in MCReads}
  \cup {Screen(windows, TRUE, <<3, 3, 3, 3, 3>>) :
         windows \in {<<>>, <<"minimized">>, <<"shown", "shown">>}}
  \cup {Screen(<<"shown">>, FALSE, <<3, 3, 3, 3, 3>>)}
MCPauses == {1, 2, -1}

VARIABLE machine

At(name) == machine = name /\ UNCHANGED machine
Others(name) ==
  /\ name # "settings" => UNCHANGED settingsVars
  /\ name # "store" => UNCHANGED storeVars
  /\ name # "assets" => UNCHANGED trustVars
  /\ name # "pipe" => UNCHANGED linkVars
  /\ name # "reconnect" => UNCHANGED reconnectVars
  /\ name # "planner" => UNCHANGED plannerVars
  /\ name # "statistics" => UNCHANGED statisticsVars

DocumentsInit ==
  /\ machine \in {"settings", "store", "assets", "pipe", "reconnect", "planner", "statistics"}
  /\ SettingsInit /\ StoreInit /\ TrustInit /\ LinkInit /\ ReconnectInit
  /\ StatisticsInit
  /\ machine # "store" => db = Missing
  /\ IF machine = "planner" THEN PlannerInit
     ELSE wanted = <<>> /\ places = {} /\ here = Nothing /\ dwell = 0 /\ budget = {} /\ plan = Nothing

DocumentsNext ==
  \/ At("settings") /\ SettingsNext /\ Others("settings")
  \/ At("store") /\ StoreNext /\ Others("store")
  \/ At("assets") /\ TrustNext /\ Others("assets")
  \/ At("pipe") /\ LinkNext /\ Others("pipe")
  \/ At("reconnect") /\ ReconnectNext /\ Others("reconnect")
  \/ At("planner") /\ PlannerNext /\ Others("planner")
  \/ At("statistics") /\ StatisticsNext /\ Others("statistics")

documentsVars ==
  <<machine, settingsVars, storeVars, trustVars, linkVars, reconnectVars, plannerVars,
    statisticsVars>>
DocumentsSpec == DocumentsInit /\ [][DocumentsNext]_documentsVars
=============================================================================
