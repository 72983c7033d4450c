--------------------------- MODULE MCNativeInput ---------------------------
(***************************************************************************)
(* A plan of two tasks: a move and a wait, then a click and a move.        *)
(***************************************************************************)
EXTENDS NativeInput

CONSTANTS key, button

MCPlan == <<<<key, Wait>>, <<button, key>>>>
=============================================================================
