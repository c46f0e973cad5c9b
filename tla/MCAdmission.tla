----------------------------- MODULE MCAdmission -----------------------------
(* Small instances of Admission for TLC: a few transactions, and scenarios *)
(* of submissions that meet in one behaviour.                              *)
EXTENDS Admission

CONSTANTS w1, w2, k1, k2, q1, z1,   \* wallets, Solana keys, payees
          tb, tt, ts, text,         \* transactions on Base, Tempo and Solana
          g1, g2, n1                \* gateway keys, a nonce

Transfer(token, from, to, value) == [token |-> token, from |-> from, to |-> to, value |-> value]

MCNetworkOf ==
    [t \in Tx |-> CASE t = tb -> "base" [] t = tt -> "tempo" [] t = ts -> "solana" [] OTHER -> "text"]
MCTransfersOf ==
    [t \in Tx |->
       CASE t = tb -> <<Transfer("other", w2, q1, 9), Transfer("pinned", w1, q1, 2)>>
         [] t = tt -> <<Transfer("pinned", w1, q1, 1)>>
         \* k2 is refunded by the payee
         [] t = ts -> <<Transfer("pinned", k1, z1, 2), Transfer("pinned", k2, z1, 1),
                        Transfer("pinned", z1, k2, 1)>>
         [] OTHER  -> <<>>]

Ref(prefix, tx, capitals) == [prefix |-> prefix, tx |-> tx, capitals |-> capitals]
Proof(tx, network, required) ==
    [tx |-> tx, network |-> network, required |-> required, status |-> "success", recipient |-> None]

Signed(sub) == [sub EXCEPT !.signature = [by |-> sub.wallet, over |-> Payload(sub)]]
Draft(w, provider, payee, ref) ==
    [endpoint |-> "e", provider |-> provider, payee |-> payee, ref |-> ref,
     nonce |-> None, rating |-> 5, text |-> "works", wallet |-> w, signature |-> None,
     proof |-> None, link |-> None, attestation |-> None]
Review(w, provider, payee, ref) == Signed(Draft(w, provider, payee, ref))

Bare(w)     == Review(w, "x402", q1, Ref("", tb, FALSE))
Spelled(w)  == Review(w, "x402", q1, Ref("x402:base", tb, TRUE))
Capitals(w) == Review(w, "x402", q1, Ref("", tb, TRUE))
Tempo(w)    == Review(w, "mppx", q1, Ref("mppx:tempo", tt, FALSE))
Solana(w)   == Review(w, "x402", z1, Ref("x402:solana", ts, FALSE))
Unpaid(w)   == Signed([Draft(w, None, None, None) EXCEPT !.nonce = n1])
Invoice(ref) == Draft(None, "stripe", None, ref)

Proven(sub, proof) == [sub EXCEPT !.proof = proof]
Link(sub, by, named) ==
    [sub EXCEPT !.link = [named |-> named, by |-> by, over |-> PayerLinkMessage(sub)]]

Facts(sub, payeeOwner, amount) ==
    [attempt |-> "a", owner |-> "o1", payeeOwner |-> payeeOwner, endpoint |-> sub.endpoint,
     payee |-> sub.payee, ref |-> sub.ref, amount |-> amount]
Attest(sub, kid, by, facts, age) ==
    LET receipt == [kid |-> kid, facts |-> facts, age |-> 1] IN
    [sub EXCEPT !.attestation =
       [receipt |-> receipt, receiptBy |-> by, reviewBy |-> by,
        review |-> [kid |-> kid, receipt |-> receipt, facts |-> facts, rating |-> sub.rating,
                    text |-> sub.text, wallet |-> sub.wallet, age |-> age]]]
Hosted(sub) == Attest(sub, g1, g1, Facts(sub, "o2", 2), 0)
HostedAgain(sub) == Attest(sub, g1, g1, [Facts(sub, "o2", 2) EXCEPT !.attempt = "b"], 0)

\* Rows from before an outage refused a review, hash as it was written then.
Legacy(id, sub, key) ==
    [id |-> id, sub |-> sub, wallet |-> sub.wallet, key |-> OldKey(key),
     claims |-> TRUE, level |-> "signature_only", basis |-> "legacy", payer |-> None,
     failure |-> "rpc_unreachable", attempts |-> 0, recent |-> TRUE]
Before(id, sub)   == Legacy(id, sub, Bared(sub.ref))
Verbatim(id, sub) == Legacy(id, sub, sub.ref)

Now(asking) == [asks |-> asking, history |-> {}]
MCScenario == {
    \* the payer, another spelling, and a wallet that did not pay
    Now({Bare(w1), Spelled(w1), Bare(w2)}),
    \* proofs: of this payment, above its amount, of another chain or transaction
    Now({Proven(Bare(w1), Proof(tb, None, 2)), Proven(Spelled(w1), Proof(tb, "base", 3)),
         Proven(Bare(w1), Proof(tb, "monad", None)), Proven(Bare(w1), Proof(tb, "solana", None)),
         Proven(Bare(w1), Proof(tt, "other", None)), Proven(Bare(w1), Proof(text, None, None))}),
    Now({Tempo(w1), Proven(Tempo(w1), Proof(tt, "tempo", 1)), Proven(Tempo(w1), Proof(tt, "other", 1)),
         Proven(Tempo(w1), [Proof(tt, "tempo", 1) EXCEPT !.status = "failed"]),
         Proven(Tempo(w1), [Proof(tt, "tempo", 1) EXCEPT !.recipient = z1])}),
    \* a Solana payment, its payer and two observers
    Now({Solana(w1), Link(Solana(w1), k1, None), Solana(w2),
         [Solana(w2) EXCEPT !.link = Link(Solana(w1), k1, k1).link]}),
    Now({Link(Solana(w1), k2, k2), Link(Solana(w1), None, k1), Link(Bare(w1), k1, None),
         Proven(Link(Solana(w1), k1, k1), Proof(ts, "solana", 3)),
         Proven(Solana(w1), Proof(ts, "base", None)), Proven(Solana(w1), Proof(ts, None, 3))}),
    \* attested purchases: observed and then linked, forged, of the owner's own service
    Now({Hosted(Solana(w1)), HostedAgain(Link(Solana(w1), k1, None)), Hosted(Solana(w2)),
         Attest(Solana(w2), g1, g2, Facts(Solana(w2), None, 2), 0)}),
    Now({Attest(Bare(w1), g1, g1, Facts(Bare(w1), "o1", 2), 0),
         Attest(Spelled(w1), g1, g1, Facts(Bare(w1), None, 1), 0),
         Attest(Bare(w1), g1, g1, Facts(Tempo(w1), None, 2), 0),
         Attest(Bare(w1), g1, g1, Facts(Bare(w1), None, 2), AttestationMaxAge + 1)}),
    \* unpaid and unsigned reviews, and claims that name no transaction
    Now({Unpaid(w1), Invoice(Ref("", text, FALSE)), Review(w1, "x402", q1, Ref("", text, FALSE)),
         [Unpaid(w1) EXCEPT !.rating = 1], Proven(Unpaid(w1), Proof(tb, None, None))}),
    \* rows from before: of the payer, under capitals; of another wallet; of no hash
    [asks |-> {Bare(w1)}, history |-> {Before(1, Spelled(w1))}],
    [asks |-> {}, history |-> {Before(1, Bare(w2)), Before(2, Tempo(w1))}],
    [asks |-> {Bare(w1)},
     history |-> {Before(1, Bare(w2)), Before(2, Review(w1, "x402", q1, Ref("", text, FALSE)))}],
    \* one settlement twice, under a prefix as well
    [asks |-> {Bare(w1)}, history |-> {Before(1, Capitals(w1)), Verbatim(2, Spelled(w1))}]}
=============================================================================
