-------------------------- MODULE MCLegacySession --------------------------
(***************************************************************************)
(* Two fields and one target.                                              *)
(***************************************************************************)
EXTENDS LegacySession

CONSTANT clock

MCGatherTime == [f \in 1..Rotations |-> 1]
MCCollect == <<[target |-> clock, cooldown |-> 3]>>

=============================================================================
