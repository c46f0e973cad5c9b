--------------------------- MODULE MCReviewWrites ---------------------------
(* Small instances of ReviewWrites for TLC. *)
EXTENDS ReviewWrites, TLC

CONSTANTS w1, w2, p1, n1, s1, s2, b1, b2, q1

\* The gateway's receipt q1 is of the payment p1 for the service s1.
PurchaseOfReceipt == [q \in {q1} |-> [ref |-> p1, service |-> s1]]

AttestedSub(kind, wallet, ref, service, body, receipt) ==
    [kind |-> kind, wallet |-> wallet, ref |-> ref, service |-> service, body |-> body,
     receipt |-> receipt]
Sub(kind, wallet, ref, service, body) ==
    AttestedSub(kind, wallet, ref, service, body, NoReceipt)
Submit(sub) == [op |-> "submit", sub |-> sub]
Remove(w, id) == [op |-> "delete", wallet |-> w, id |-> id]

\* Retries of one unpaid review, with a changed body and for another service.
NonceRequests ==
    {Submit(Sub("unpaid", w1, n1, s1, b1)), Submit(Sub("unpaid", w1, n1, s1, b2)),
     Submit(Sub("unpaid", w1, n1, s2, b1)), Submit(Sub("unpaid", w2, n1, s1, b1)),
     Remove(w1, 1), Remove(w1, 2), Remove(w2, 1), [op |-> "sweep"]}

\* The payer and an observer of one payment, with and without its receipt, the
\* unsigned path, and a review that is retried.
PaymentRequests ==
    {Submit(Sub("verified", w1, p1, s1, b1)), Submit(Sub("observed", w1, p1, s1, b1)),
     Submit(AttestedSub("verified", w1, p1, s1, b1, q1)),
     Submit(AttestedSub("observed", w2, p1, s1, b1, q1)),
     Submit(Sub("placeholder", NoWallet, p1, s1, b1)), Submit(Sub("unpaid", w1, n1, s1, b1)),
     Remove(w1, 1), Remove(w2, 1)}

CallSymmetry == Permutations(Call)
=============================================================================
