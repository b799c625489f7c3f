---------------------------- MODULE MCScheduler ----------------------------
(* Small instances of Scheduler.                                           *)
EXTENDS Scheduler, TLC

CONSTANTS a1, e1, e2, d1, d2, c1, c2

NoneUnbuildable == {}
\* The second endpoint cannot be asked, as grok-credits cannot without an
\* account reference.
SecondUnbuildable == {<<a1, e2, d>> : d \in Cred}
=============================================================================
