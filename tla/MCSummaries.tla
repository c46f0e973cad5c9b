----------------------------- MODULE MCSummaries -----------------------------
(* Three reviews of one service, one of them eligible to weigh, and one of *)
(* another service, for TLC.                                               *)
EXTENDS Summaries, TLC

CONSTANTS s1, s2, r1, r2, r3, r4

Of == [r \in Review |-> IF r = r4 THEN s2 ELSE s1]

ReviewSymmetry == Permutations({r2, r3})
=============================================================================
