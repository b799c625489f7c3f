---------------------------- MODULE UsageLedger ----------------------------
(***************************************************************************)
(* What the ingest and retention promise together: calls are counted once, *)
(* expire behind a floor that only rises, and do not come back.            *)
(***************************************************************************)
EXTENDS Integers

CONSTANTS Call, Time    \* calls, each with the time .at it is counted at

VARIABLES counted, floor

Init == counted = {} /\ floor = 0

Count ==
  /\ counted \subseteq counted'
  /\ \A c \in counted' \ counted : c \in Call /\ c.at >= floor
  /\ UNCHANGED floor

Expire ==
  /\ floor' \in {t \in Time : t > floor}
  /\ counted' = {c \in counted : c.at >= floor'}

Next == Count \/ Expire

Spec == Init /\ [][Next]_<<counted, floor>>
=============================================================================
