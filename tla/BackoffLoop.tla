---------------------------- MODULE BackoffLoop ----------------------------
(***************************************************************************)
(* The loop of Scheduler.backoff, statement by statement, run for every    *)
(* failure count and floor of the instance.                                *)
(***************************************************************************)
EXTENDS Backoff

CONSTANTS Failures, Floors   \* the arguments to run it on

ASSUME ArgumentsAssumption == Failures \subseteq Nat /\ Floors \subseteq Nat

VARIABLES failures, floor, i, wait, pc

vars == <<failures, floor, i, wait, pc>>

Init ==
  /\ failures \in Failures
  /\ floor \in Floors
  /\ i = 1
  /\ wait = Poll
  /\ pc = "double"

Continues_IgnoringCap == i < failures
Continues == i < failures /\ wait < MaxBackoff

Double ==
  /\ pc = "double"
  /\ Continues
  /\ wait' = 2 * wait
  /\ i' = i + 1
  /\ UNCHANGED <<failures, floor, pc>>

Cap(w) == Smaller(w, MaxBackoff)

Raise(w) == Larger(w, floor)

Finish ==
  /\ pc = "double"
  /\ ~Continues
  /\ wait' = Raise(Cap(wait))
  /\ pc' = "done"
  /\ UNCHANGED <<failures, floor, i>>

Next == Double \/ Finish
Spec == Init /\ [][Next]_vars

\* What the loop leaves is what the scheduler's table says, for every count; and on
\* its way it computes no wait of twice the cap or more, so that no failure count,
\* however large, overflows a duration.
LoopMatchesTable ==
  /\ pc = "done" => wait = BackoffWait(failures, floor)
  /\ pc = "double" => wait < 2 * MaxBackoff
=============================================================================
