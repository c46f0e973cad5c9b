---------------------------- MODULE MCOwnerTrust ----------------------------
(* A small instance of OwnerTrust for TLC. *)
EXTENDS OwnerTrust

CONSTANTS s1, s2, a, b, c, w1, w2

MCFloor == -3
MCWalletTrust == [w \in Wallet |-> [raw |-> IF w = w1 THEN Cap ELSE 0, seed |-> FALSE, slashed |-> FALSE]]

Row(id, s, o, rating, basis) ==
    [id |-> id, service |-> s, owner |-> o, wallet |-> w2, rating |-> rating, basis |-> basis,
     excluded |-> FALSE, proof |-> 2, day |-> 1]
By(o, s, rating) == Row(0, s, o, rating, "hosted")
Past(id, s, rating, proof) ==
    [Row(id, s, None, rating, "legacy") EXCEPT !.wallet = w1, !.proof = proof]

MCScenario == {
    \* an owner earns trust beside a seed, on two services
    [lists |-> <<{a}>>, audited |-> {}, drafts |-> {By(b, s2, 5), By(c, s1, 5)},
     history |-> {Row(1, s1, a, 5, "hosted"), Row(2, s2, a, 5, "hosted"), Row(3, s1, b, 5, "hosted")}],
    \* two owners agree with one another, and with a wallet of old
    [lists |-> <<{}, {a}>>, audited |-> {}, drafts |-> {By(a, s1, 5), By(b, s2, 1)},
     history |-> {Row(1, s1, b, 5, "hosted"), Row(2, s1, c, 5, "hosted"), Row(3, s1, b, 1, "hosted")}],
    [lists |-> <<{}>>, audited |-> {}, drafts |-> {By(b, s2, 1), By(c, s1, 5)},
     history |-> {Past(1, s1, 5, 1), Past(2, s1, 1, 2), Past(3, s1, 5, 2)}],
    \* the seeds change
    [lists |-> <<{a}, {b}, {}>>, audited |-> {}, drafts |-> {By(a, s1, 5)},
     history |-> {Row(1, s1, b, 5, "hosted"), Row(2, s1, a, 1, "hosted"), Row(3, s2, a, 5, "hosted")}],
    \* reviews of our own defects
    [lists |-> <<{a}>>, audited |-> {1, 3}, drafts |-> {By(b, s1, 5), Row(0, s1, None, 1, "none")},
     history |-> {Row(1, s1, a, 1, "hosted"), Row(2, s2, a, 5, "hosted"), Row(3, s2, b, 5, "hosted")}]}
=============================================================================
