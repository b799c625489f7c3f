----------------------------- MODULE MCIdentity -----------------------------
(* Two tokens of one account and an API key. *)
EXTENDS Identity, TLC
CONSTANTS t1, t2, k, r
MCRef == [c \in {t1, t2, k} |-> IF c = k THEN None ELSE r]
MCSymmetry == Permutations({t1, t2})
=============================================================================
