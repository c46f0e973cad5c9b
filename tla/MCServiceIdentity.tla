-------------------------- MODULE MCServiceIdentity --------------------------
(* Two endpoints, the service of the second registered with a slug for a payee. *)
EXTENDS ServiceIdentity, TLC

CONSTANTS e1, e2, a1, a2, b1, slug, plan

Families == [p \in Payee |-> IF p \in {slug, plan} THEN "none" ELSE IF p = b1 THEN "solana" ELSE "evm"]
Advertised == [e \in Endpoint |-> {a1, a2}]
LegacyId == [endpoint |-> e2, payee |-> slug]

Q(kind, idOf, endpoint, payee) ==
    [kind |-> kind, idOf |-> idOf, endpoint |-> endpoint, payee |-> payee]

Questions ==
    {Q("paid", NoEndpoint, e1, a1), Q("paid", NoEndpoint, e1, a2),
     Q("paid", NoEndpoint, e1, b1), Q("unpaid", NoEndpoint, e1, b1),
     Q("unpaid", e2, e1, NoPayee), Q("paid", NoEndpoint, NoEndpoint, a1),
     Q("paid", e2, NoEndpoint, a2), Q("placeholder", NoEndpoint, e1, plan), Q("lookup", NoEndpoint, e1, a1)}

CallSymmetry == Permutations(Call)
=============================================================================
