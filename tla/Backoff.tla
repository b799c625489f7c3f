------------------------------ MODULE Backoff ------------------------------
(***************************************************************************)
(* The waiting times of internal/collect/scheduler.go.  Time is counted in *)
(* units of the configuration's choice: the code has Poll = 2 min and      *)
(* MaxBackoff = AuthCooldown = 30 min.                                     *)
(***************************************************************************)
EXTENDS Integers, Sequences

CONSTANTS
  Poll,          \* pollInterval: between two reads that succeed
  MaxBackoff,    \* maxBackoff: the longest wait that failures alone build up
  AuthCooldown   \* authCooldown: the least wait after a 401 or a 403

ASSUME PollAssumption == Poll \in Nat \ {0}

(***************************************************************************)
(* Sixteen polls reach the cap, as 30 min <= 16 * 2 min does in the code,  *)
(* so a table of four doublings covers every failure count.                *)
(***************************************************************************)
ASSUME MaxBackoffAssumption == MaxBackoff \in Poll .. 16 * Poll

ASSUME AuthCooldownAssumption == AuthCooldown \in Nat

Smaller(a, b) == IF a <= b THEN a ELSE b
Larger(a, b)  == IF a >= b THEN a ELSE b

Doublings == <<1, 2, 4, 8>>

\* The wait after n failures in a row.
Growth(n) ==
  IF n \in 1 .. Len(Doublings) THEN Smaller(Poll * Doublings[n], MaxBackoff)
  ELSE IF n < 1 THEN Poll
  ELSE MaxBackoff

\* The same, never shorter than what the reply demands.
BackoffWait(n, floor) == Larger(Growth(n), floor)

\* Retry-After in time units; 0 stands for a header that is absent, is not a
\* number, or is not positive.
RetryAfterWait(asked) == Larger(asked, Poll)
=============================================================================
