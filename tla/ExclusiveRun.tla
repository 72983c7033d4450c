---------------------------- MODULE ExclusiveRun ----------------------------
(***************************************************************************)
(* What the engine promises about runs, whoever issues commands: one run   *)
(* at a time, no run twice, and a stop that reaches the run at work and    *)
(* never one that begins later.                                            *)
(***************************************************************************)
CONSTANT Runs   (* every run there may ever be; 0 is none of them *)

None == 0

VARIABLES current,  (* the run at work, or None        *)
          stopped,  (* whether it has been told to end *)
          ended     (* the runs that are over          *)

exclusiveVars == <<current, stopped, ended>>

Begin(r) ==
  /\ current = None /\ r \notin ended
  /\ current' = r /\ stopped' = FALSE /\ UNCHANGED ended

StopCurrent ==
  /\ current # None
  /\ stopped' = TRUE /\ UNCHANGED <<current, ended>>

End ==
  /\ current # None
  /\ ended' = ended \cup {current}
  /\ current' = None /\ stopped' = FALSE

ExclusiveInit == current = None /\ stopped = FALSE /\ ended = {}
ExclusiveNext == (\E r \in Runs : Begin(r)) \/ StopCurrent \/ End
ExclusiveSpec == ExclusiveInit /\ [][ExclusiveNext]_exclusiveVars
=============================================================================
