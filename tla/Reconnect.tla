------------------------------ MODULE Reconnect ------------------------------
(***************************************************************************)
(* run_bounded_reconnect (core/src/reconnect.rs), as the worker of a run   *)
(* calls it after its automation failed.  Timers fire when they are due;   *)
(* between two awaits the worker may be kept from running for any time.    *)
(***************************************************************************)
EXTENDS Integers, Sequences

CONSTANTS
  Requested,   (* maximum_attempts, as the policy is asked for it           *)
  Delays,      (* before each attempt, the last one for all that follow     *)
  Deadline,
  Horizon      (* bound: the clock                                          *)

ASSUME ReconnectAssumption ==
  /\ Requested \in Nat /\ Deadline \in Nat /\ Horizon \in Nat /\ Delays \in Seq(Nat)

(* ReconnectPolicy::new.                                                   *)
Ceiling == 5
MaximumAttempts == IF Requested < 1 THEN 1 ELSE IF Requested > Ceiling THEN Ceiling ELSE Requested

VARIABLES
  stage,       (* "begin", "delay", "ready", "attempt" or a result          *)
  elapsed,     (* started.elapsed()                                         *)
  number,      (* attempt_number                                            *)
  completed,   (* completed_attempts                                        *)
  remaining,   (* of the deadline, when it was last looked at               *)
  due, cutoff, (* when the delay is over; when a timeout ends the wait      *)
  given,       (* the token is cancelled                                    *)
  begun,       (* the attempts that began                                   *)
  late         (* those of them that began although the token was cancelled *)

reconnectVars == <<stage, elapsed, number, completed, remaining, due, cutoff, given, begun, late>>

Results == {"Succeeded", "Exhausted", "DeadlineExceeded", "Cancelled"}

Delay(k) == IF Delays = <<>> THEN 0
            ELSE IF k <= Len(Delays) THEN Delays[k] ELSE Delays[Len(Delays)]

Returns(result) == stage' = result /\ UNCHANGED <<number, remaining, due, cutoff>>

(* The top of the loop.                                                    *)
BeginRound ==
  /\ stage = "begin"
  /\ IF given THEN Returns("Cancelled")
     ELSE IF elapsed > Deadline THEN Returns("DeadlineExceeded")
     ELSE /\ remaining' = Deadline - elapsed
          /\ stage' = IF Delay(number) = 0 THEN "ready" ELSE "delay"
          /\ due' = elapsed + Delay(number) /\ cutoff' = elapsed + remaining'
          /\ UNCHANGED number
  /\ UNCHANGED <<elapsed, completed, given, begun, late>>

(* select! polls its branches in any order, and a timeout looks at what it *)
(* waits for before it looks at its own clock.                             *)
DelayEnds ==
  /\ stage = "delay"
  /\ \/ given /\ Returns("Cancelled")
     \/ elapsed >= due /\ stage' = "ready" /\ UNCHANGED <<number, remaining, due, cutoff>>
     \/ elapsed < due /\ elapsed >= cutoff /\ Returns("DeadlineExceeded")
  /\ UNCHANGED <<elapsed, completed, given, begun, late>>

(* What is left of the deadline after the delay.                           *)
OldRemaining == remaining
NewRemaining == Deadline - elapsed

BeginAttempt ==
  /\ stage = "ready"
  /\ \/ elapsed > Deadline /\ Returns("DeadlineExceeded") /\ UNCHANGED <<begun, late>>
     \/ elapsed <= Deadline /\ given /\ Returns("Cancelled") /\ UNCHANGED <<begun, late>>
     \/ /\ elapsed <= Deadline
        /\ stage' = "attempt" /\ remaining' = NewRemaining /\ cutoff' = elapsed + remaining'
        /\ begun' = begun + 1 /\ late' = IF given THEN late + 1 ELSE late
        /\ UNCHANGED <<number, due>>
  /\ UNCHANGED <<elapsed, completed, given>>

(* The attempt is dropped when the token or the timeout ends it.           *)
AttemptEnds ==
  /\ stage = "attempt"
  /\ \/ given /\ Returns("Cancelled") /\ UNCHANGED completed
     \/ Returns("Succeeded") /\ completed' = number
     \/ /\ completed' = number
        /\ IF number = MaximumAttempts THEN Returns("Exhausted")
           ELSE stage' = "begin" /\ number' = number + 1 /\ UNCHANGED <<remaining, due, cutoff>>
     \/ elapsed >= cutoff /\ Returns("DeadlineExceeded") /\ completed' = number
  /\ UNCHANGED <<elapsed, given, begun, late>>

CancelReconnect ==
  /\ ~given /\ stage \notin Results /\ given' = TRUE
  /\ UNCHANGED <<stage, elapsed, number, completed, remaining, due, cutoff, begun, late>>

(* A timer that is due fires before the clock goes on.                     *)
ClockTicks ==
  /\ elapsed < Horizon /\ stage \notin Results
  /\ stage = "delay" => elapsed < due /\ elapsed < cutoff
  /\ stage = "attempt" => elapsed < cutoff
  /\ elapsed' = elapsed + 1
  /\ UNCHANGED <<stage, number, completed, remaining, due, cutoff, given, begun, late>>

ReconnectInit ==
  /\ stage = "begin" /\ elapsed = 0 /\ number = 1 /\ completed = 0 /\ remaining = 0
  /\ due = 0 /\ cutoff = 0 /\ given = FALSE /\ begun = 0 /\ late = 0

ReconnectNext ==
  BeginRound \/ DelayEnds \/ BeginAttempt \/ AttemptEnds \/ CancelReconnect \/ ClockTicks
ReconnectSpec == ReconnectInit /\ [][ReconnectNext]_reconnectVars

-----------------------------------------------------------------------------
(* "Both backoff and each backend attempt are constrained by the same wall-*)
(* clock deadline" (run_bounded_reconnect), "Attempts are always clamped to*)
(* the product safety ceiling of five" (ReconnectPolicy::new), and once the*)
(* token is cancelled at most one attempt, which select! had already turned*)
(* to, still begins; the attempts reported are those that ended.           *)
WithinDeadline == stage \in {"delay", "attempt"} => elapsed <= Deadline
AtMostFive == begun <= Ceiling
OneLateAttempt == late <= 1
CountsTrue == completed = IF stage = "attempt" \/ (stage = "Cancelled" /\ begun = number)
                            THEN begun - 1 ELSE begun
ReconnectIsBounded == WithinDeadline /\ AtMostFive /\ OneLateAttempt /\ CountsTrue
=============================================================================
