----------------------------- MODULE MCRateLimit -----------------------------
(* Two sessions of one wallet, for TLC. *)
EXTENDS RateLimit, TLC

CONSTANTS c1, c2

CallerSymmetry == Permutations(Caller)
=============================================================================
