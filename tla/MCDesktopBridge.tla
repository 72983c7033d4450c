-------------------------- MODULE MCDesktopBridge --------------------------
(***************************************************************************)
(* The desktop bridge on small instances.                                  *)
(***************************************************************************)
EXTENDS DesktopBridge
=============================================================================
