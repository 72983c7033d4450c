------------------------------ MODULE MCEngine ------------------------------
(***************************************************************************)
(* The engine on small instances.                                          *)
(***************************************************************************)
EXTENDS EngineRefinement
=============================================================================
