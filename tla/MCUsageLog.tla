----------------------------- MODULE MCUsageLog -----------------------------
(* Small instances of UsageLog.                                            *)
EXTENDS UsageLog, TLC
=============================================================================
