--------------------------- MODULE MCReviewClient ---------------------------
(* Small instances of ReviewClient for TLC. *)
EXTENDS ReviewClient, TLC

CONSTANTS i1, w1, s1, b1, b2, n1, n2, p1, p2

Unpaid == [kind |-> "unpaid", wallet |-> w1, ref |-> NoNonce, service |-> s1, body |-> b1]
Paid(kind, p) == [kind |-> kind, wallet |-> w1, ref |-> p, service |-> s1, body |-> b1]

\* One review: unpaid, or paid on Solana by the local key (p1) or by another.
\* (A payment on an EVM chain is sent as p1 is, and never with a link.)
OnePlan == {[i \in Intent |-> Unpaid],
            [i \in Intent |-> Paid("solana", p1)], [i \in Intent |-> Paid("solana", p2)]}

\* No review of the local client carries a gateway receipt.
NoPurchases == [q \in Receipt |-> [ref |-> p1, service |-> s1]]

\* Nonces are drawn at random.
Symmetry == Permutations(Nonce)
=============================================================================
