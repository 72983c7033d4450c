----------------------------- MODULE MCControl -----------------------------
(***************************************************************************)
(* The two ends of the program, side by side as in MCServices: the desktop *)
(* bridge, and the worker of a legacy session.                             *)
(***************************************************************************)
EXTENDS DesktopBridge, MCLegacySession

VARIABLE machine

At(name) == machine = name /\ UNCHANGED machine
BridgeIdle == UNCHANGED bridgeVars
SessionIdle == UNCHANGED vars

ControlInit ==
  /\ machine \in {"bridge", "session"}
  /\ BridgeInit /\ Init
  /\ machine # "bridge" => server = NoKid

ControlNext ==
  \/ At("bridge") /\ BridgeNext /\ SessionIdle
  \/ At("session") /\ Next /\ BridgeIdle

ControlVars == <<machine, bridgeVars, vars>>
Alone(name, A) == machine = name /\ A

(* Each component under the fairness that its own specification states.    *)
ControlSpec ==
  /\ ControlInit /\ [][ControlNext]_ControlVars
  /\ WF_bridgeVars(Alone("bridge", ServesClient))
  /\ \A k \in Kids : WF_bridgeVars(Alone("bridge", BindPipe(k)))
  /\ WF_bridgeVars(Alone("bridge", Supervises)) /\ WF_bridgeVars(Alone("bridge", ShutsDown))
  /\ \A c \in Calls : WF_bridgeVars(Alone("bridge", Dispatches(c)))
  /\ WF_vars(Alone("session", Tick)) /\ WF_vars(Alone("session", Supervise))
=============================================================================
