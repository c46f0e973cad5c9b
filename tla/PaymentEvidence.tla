--------------------------- MODULE PaymentEvidence ---------------------------
(***************************************************************************)
(* What a submitted review proves: verify_review_payment (payments.py),    *)
(* the transfers of a Solana transaction (solana.py) and the attestation   *)
(* of the hosted gateway (receipts.py), as operators over the chains as    *)
(* they are when they are asked.                                           *)
(*                                                                         *)
(* An RPC node may always fail to answer, so a check is a set of results.  *)
(* An address is a model value whose kind is the set it belongs to; a      *)
(* signature is the record of who signed what, a hash the value hashed.    *)
(***************************************************************************)
EXTENDS Integers, SequencesExt

CONSTANTS
    Wallet,         \* EVM wallets of reviewers
    SolanaKey,      \* Solana keys of payers
    EvmPayee, SolanaPayee,
    None,           \* an argument that is null
    Tx,             \* what a reference names, without its prefix
    NetworkOf,      \* the chain of a transaction, "text" for what is none
    TransfersOf,    \* the token transfers of a transaction, in order
    TrustedKeys,    \* the gateway keys in OPENCROWD_RECEIPT_KEYS
    MinAmount,      \* min_weighted_amount_atomic
    ReceiptMaxAge, AttestationMaxAge, MaxSkew

ASSUME NoneAssumption == None \notin Wallet \cup SolanaKey \cup EvmPayee \cup SolanaPayee
ASSUME AmountAssumption == MinAmount \in Nat

VARIABLES
    ledger,         \* ledger[tx]: "absent" until the transaction settles or fails
    pinned          \* the networks whose token is configured

MachineProviders == {"mppx", "x402"}
X402EvmNetworks == {"base", "monad"}
EvmNetworks == X402EvmNetworks \cup {"tempo"}

(***************************************************************************)
(* References.  A reference is a prefix, a transaction, and whether its    *)
(* hash is spelled with capitals.  Only hashes have two spellings of one   *)
(* transaction: a Solana signature is its own spelling.                    *)
(***************************************************************************)
IsHash(tx) == NetworkOf[tx] \in EvmNetworks
IsSolanaSignature(ref) ==
    ref # None /\ NetworkOf[ref.tx] = "solana" /\ ref.prefix \in {"", "x402:solana"}

CanonicalReference(ref) ==
    [prefix |-> "", tx |-> ref.tx, capitals |-> ref.capitals /\ ~IsHash(ref.tx)]

\* The references that TX_HASH_RE and the index on lower-case hashes match.
IsHashReference(ref) == ref.prefix = "" /\ IsHash(ref.tx)

PrefixNetwork(ref) ==
    CASE ref.prefix = "x402:monad"  -> "monad"
      [] ref.prefix = "x402:solana" -> "solana"
      [] OTHER                      -> "base"

\* The keys of stored reviews: of the payment, and of one wallet's observation of it.
PaymentKey(ref)     == [by |-> None, ref |-> CanonicalReference(ref), nonce |-> None]
UnlinkedKey(w, ref) == [by |-> w, ref |-> CanonicalReference(ref), nonce |-> None]
UnpaidKey(w, nonce) == [by |-> w, ref |-> None, nonce |-> nonce]

(***************************************************************************)
(* Results of a check of the chain.                                        *)
(***************************************************************************)
Failed(failure) == [failure |-> failure, amount |-> 0]
Found(amount)   == [failure |-> "none", amount |-> amount]

Visible(network, tx) == NetworkOf[tx] = network /\ ledger[tx] # "absent"

EvmTransfers(tx, from, payee) ==
    SelectSeq(TransfersOf[tx], LAMBDA t : t.token = "pinned" /\ t.from = from /\ t.to = payee)

\* Faulty: a transaction the node does not know yet has failed.
EvmAnswersEagerly(network, tx, from, payee) ==
    LET transfers == EvmTransfers(tx, from, payee) IN
    IF NetworkOf[tx] # network THEN {}
    ELSE IF ledger[tx] # "settled" THEN {Failed("tx_failed")}
    ELSE IF transfers = <<>> THEN {Failed("no_matching_transfer")}
    ELSE {Found(Head(transfers).value)}

\* Faulty: any payer of the payee will do.
EvmAnswersForAnyPayer(network, tx, from, payee) ==
    LET transfers == SelectSeq(TransfersOf[tx], LAMBDA t : t.token = "pinned" /\ t.to = payee) IN
    IF ~Visible(network, tx) THEN {}
    ELSE IF ledger[tx] = "failed" THEN {Failed("tx_failed")}
    ELSE IF transfers = <<>> THEN {Failed("no_matching_transfer")}
    ELSE {Found(Head(transfers).value)}

\* What a node that answers says of a transfer from a wallet to a payee.
EvmAnswers(network, tx, from, payee) ==
    LET transfers == EvmTransfers(tx, from, payee) IN
    IF ~Visible(network, tx) THEN {}
    ELSE IF ledger[tx] = "failed" THEN {Failed("tx_failed")}
    ELSE IF transfers = <<>> THEN {Failed("no_matching_transfer")}
    ELSE {Found(Head(transfers).value)}

\* The one check behind proofs, bare references and re-verification.
CheckReference(provider, network, tx, from, payee) ==
    IF network \notin (IF provider = "mppx" THEN {"tempo"} ELSE X402EvmNetworks)
    THEN {Failed("unsupported_chain")}
    ELSE IF network \notin pinned THEN {Failed("token_not_pinned")}
    ELSE IF payee \notin EvmPayee THEN {Failed("payee_unknown")}
    ELSE {Failed("rpc_unreachable")} \cup EvmAnswers(network, tx, from, payee)

(***************************************************************************)
(* A Solana transaction credits every payer with what it sent to the       *)
(* payee, capped by what the payee kept.                                   *)
(***************************************************************************)
Total(transfers) == FoldSeq(LAMBDA t, n : t.value + n, 0, transfers)

SentBy(tx, payer, payee) ==
    IF payer = payee THEN 0
    ELSE Total(SelectSeq(TransfersOf[tx],
                         LAMBDA t : t.token = "pinned" /\ t.from = payer /\ t.to = payee))
SentByAll(tx, payee) ==
    Total(SelectSeq(TransfersOf[tx], LAMBDA t : /\ t.token = "pinned" /\ t.to = payee
                                                /\ t.from \in SolanaKey \ {payee}))
Kept(tx, payee) ==
    Total(SelectSeq(TransfersOf[tx], LAMBDA t : t.token = "pinned" /\ t.to = payee))
      - Total(SelectSeq(TransfersOf[tx], LAMBDA t : t.token = "pinned" /\ t.from = payee))

Credit(tx, payer, payee) ==
    LET sent == SentBy(tx, payer, payee)
        kept == Kept(tx, payee)
    IN  IF kept < SentByAll(tx, payee)
        THEN IF kept > sent THEN sent ELSE IF kept > 0 THEN kept ELSE 0
        ELSE sent

Payers(tx, payee) == {k \in SolanaKey : Credit(tx, k, payee) > 0}

\* The payers of a transaction, or the one that payer_wallet names.
NamedPayers(tx, payee, named) ==
    IF named = None THEN Payers(tx, payee) ELSE Payers(tx, payee) \cap {named}

SolanaAnswers(tx, payee, named) ==
    IF ~Visible("solana", tx) THEN {}
    ELSE IF ledger[tx] = "failed" THEN {Failed("tx_failed")}
    ELSE IF NamedPayers(tx, payee, named) # {} THEN {Found(0)}
    ELSE IF Payers(tx, payee) # {} THEN {Failed("payer_mismatch")}
    ELSE {Failed("no_matching_transfer")}

CheckSolana(tx, payee, named) ==
    IF "solana" \notin pinned THEN {Failed("token_not_pinned")}
    ELSE IF payee \notin SolanaPayee THEN {Failed("payee_unknown")}
    ELSE {Failed("rpc_unreachable")} \cup SolanaAnswers(tx, payee, named)

(***************************************************************************)
(* Verdicts.                                                               *)
(***************************************************************************)
Refused(code) == [ok |-> FALSE, code |-> code]
Admitted(level, claims, key, payer, amount) ==
    [ok |-> TRUE, level |-> level, claims |-> claims, key |-> key,
     payer |-> payer, amount |-> amount]

\* The answers that the chain itself gives: no later call is answered better.
FinalFailures == {"tx_failed", "no_matching_transfer", "payer_mismatch"}

ChainFailure(failure) ==
    Refused(CASE failure = "rpc_unreachable"  -> "payment_rpc_unavailable"
              [] failure = "token_not_pinned" -> "payment_verifier_misconfigured"
              [] failure = "payee_unknown"    -> "payment_payee_unknown"
              [] failure = "tx_failed"        -> "payment_transaction_failed"
              [] OTHER                        -> "payment_transfer_mismatch")

\* The text a reviewer signs, and the text a Solana payer signs.
Payload(sub) ==
    [endpoint |-> sub.endpoint, provider |-> sub.provider, payee |-> sub.payee,
     ref |-> sub.ref, nonce |-> sub.nonce, rating |-> sub.rating, text |-> sub.text]

PayerLinkMessage(sub) == [wallet |-> sub.wallet, payload |-> Payload(sub)]

TooLittle(proof, amount) == proof # None /\ proof.required # None /\ amount < proof.required

VerifiedBy(sub, check) ==
    IF check.failure # "none" THEN ChainFailure(check.failure)
    ELSE IF TooLittle(sub.proof, check.amount) THEN Refused("payment_rejected")
    ELSE Admitted("onchain_verified", TRUE, PaymentKey(sub.ref), sub.wallet, check.amount)

\* No proof: a transaction hash stands for itself.
VerifyReference(sub) ==
    IF ~IsHash(sub.ref.tx) THEN {Refused("unsupported_payment_reference")}
    ELSE LET network == IF sub.provider = "mppx" THEN "tempo" ELSE PrefixNetwork(sub.ref)
         IN  {VerifiedBy(sub, check) :
                check \in CheckReference(sub.provider, network, sub.ref.tx, sub.wallet, sub.payee)}

VerifyMppx(sub) ==
    IF sub.proof.status # "success" THEN {Refused("payment_failed")}
    ELSE IF sub.proof.network # "tempo" THEN {Refused("unsupported_payment_chain")}
    ELSE IF \/ ~IsHash(sub.proof.tx) \/ sub.proof.tx # sub.ref.tx
            \/ sub.ref.prefix \notin {"", "mppx:tempo"}
    THEN {Refused("payment_rejected")}
    ELSE {IF check.failure = "none" /\ sub.proof.recipient \notin {None, sub.payee}
          THEN Refused("payment_rejected") ELSE VerifiedBy(sub, check) :
            check \in CheckReference("mppx", "tempo", sub.ref.tx, sub.wallet, sub.payee)}

\* The proof names the chain, or the reference does, or it is Base.
VerifyX402(sub) ==
    LET network == IF sub.proof.network = None THEN PrefixNetwork(sub.ref) ELSE sub.proof.network
        prefix == IF network = "monad" THEN "x402:monad" ELSE "x402:base"
    IN
    IF ~IsHash(sub.proof.tx) THEN {Refused("payment_rejected")}
    ELSE IF network = "solana" THEN {Refused("unsupported_payment_reference")}
    ELSE IF network \notin X402EvmNetworks THEN {Refused("unsupported_payment_chain")}
    ELSE IF sub.proof.tx # sub.ref.tx \/ sub.ref.prefix \notin {"", prefix}
    THEN {Refused("payment_rejected")}
    ELSE {VerifiedBy(sub, check) :
            check \in CheckReference("x402", network, sub.ref.tx, sub.wallet, sub.payee)}

(***************************************************************************)
(* Solana: the payer is a key that only a signature links to the reviewer. *)
(* Without one the payment is observed, and claimed by nobody.             *)
(***************************************************************************)
ProofDisagrees(sub) ==
    /\ sub.proof # None
    /\ sub.proof.network \notin {None, "solana"} \/ sub.proof.tx # sub.ref.tx

Named(sub) == IF sub.link = None THEN None ELSE sub.link.named

LinkedPayers(sub) ==
    {k \in NamedPayers(sub.ref.tx, sub.payee, Named(sub)) :
        sub.link.by = k /\ sub.link.over = PayerLinkMessage(sub)}

Observed(sub) ==
    Admitted("signature_only", FALSE, UnlinkedKey(sub.wallet, sub.ref), None, 0)

LinkedTo(sub, payer) ==
    LET amount == Credit(sub.ref.tx, payer, sub.payee) IN
    IF TooLittle(sub.proof, amount) THEN Refused("payment_rejected")
    ELSE Admitted("onchain_verified", TRUE, PaymentKey(sub.ref), payer, amount)

SolanaVerdicts(sub, check) ==
    IF check.failure # "none" THEN {ChainFailure(check.failure)}
    ELSE IF sub.link # None
    THEN IF LinkedPayers(sub) = {} THEN {Refused("payer_signature_invalid")}
         ELSE {LinkedTo(sub, k) : k \in LinkedPayers(sub)}
    ELSE IF \A k \in Payers(sub.ref.tx, sub.payee) :
              TooLittle(sub.proof, Credit(sub.ref.tx, k, sub.payee))
    THEN {Refused("payment_rejected")} ELSE {Observed(sub)}

VerifySolana(sub) ==
    \* link.by = None: payer_wallet without a payer_signature
    IF ProofDisagrees(sub) \/ (sub.link # None /\ sub.link.by = None)
    THEN {Refused("payment_rejected")}
    ELSE UNION {SolanaVerdicts(sub, check) :
                  check \in CheckSolana(sub.ref.tx, sub.payee, Named(sub))}

(***************************************************************************)
(* verify_review_payment.                                                  *)
(***************************************************************************)
Malformed(sub) ==
    \/ sub.link # None /\ ~(sub.provider = "x402" /\ IsSolanaSignature(sub.ref))
    \/ sub.ref = None  /\ (sub.proof # None \/ sub.nonce = None)
    \/ sub.ref # None  /\ (sub.nonce # None \/ sub.provider = None)

SignedByReviewer(sub) ==
    /\ sub.wallet \in Wallet
    /\ sub.signature = [by |-> sub.wallet, over |-> Payload(sub)]

\* The gate of the providers that have no verification yet.
Placeholder(sub) == Admitted("unverified", TRUE, PaymentKey(sub.ref), None, 0)
SignatureOnly(sub) == Admitted("signature_only", TRUE, UnpaidKey(sub.wallet, sub.nonce), None, 0)

VerifyReviewPayment(sub) ==
    IF Malformed(sub) THEN {Refused("payment_rejected")}
    ELSE IF sub.ref # None /\ sub.provider \notin MachineProviders THEN {Placeholder(sub)}
    ELSE IF ~SignedByReviewer(sub) THEN {Refused("payment_rejected")}
    ELSE IF sub.ref = None THEN {SignatureOnly(sub)}
    ELSE IF sub.provider = "x402" /\ IsSolanaSignature(sub.ref) THEN VerifySolana(sub)
    ELSE IF sub.proof = None THEN VerifyReference(sub)
    ELSE IF sub.provider = "mppx" THEN VerifyMppx(sub) ELSE VerifyX402(sub)

(***************************************************************************)
(* The attestation of the gateway: a receipt of the purchase and a review  *)
(* of it, each with its signer, and the facts that both state.             *)
(***************************************************************************)
\* verify_attestation
Genuine(att) ==
    /\ att.receipt.kid \in TrustedKeys
    /\ att.receiptBy = att.receipt.kid
    /\ att.reviewBy = att.review.kid
    /\ att.receipt.kid = att.review.kid
    /\ att.review.receipt = att.receipt
    /\ att.review.facts = att.receipt.facts
    /\ att.receipt.facts.amount > 0
    /\ att.receipt.age \in -MaxSkew .. ReceiptMaxAge
    /\ att.review.age \in -MaxSkew .. AttestationMaxAge
    /\ att.review.age =< att.receipt.age + MaxSkew

\* evaluate_attestation: the purchase that was attested is the one reviewed.
Agrees(sub, wallet) ==
    LET facts  == sub.attestation.receipt.facts
        review == sub.attestation.review
    IN  /\ facts.endpoint = sub.endpoint
        /\ facts.payee = sub.payee /\ sub.payee # None
        /\ CanonicalReference(facts.ref) = CanonicalReference(sub.ref)
        /\ review.rating = sub.rating
        /\ review.text = sub.text
        /\ review.wallet = wallet /\ wallet # None

Attested(sub, wallet) == sub.ref # None /\ Genuine(sub.attestation) /\ Agrees(sub, wallet)

WeightExclusion(att) ==
    IF att.receipt.facts.payeeOwner = att.receipt.facts.owner THEN "self_dealing"
    ELSE IF att.receipt.facts.amount < MinAmount THEN "dust_payment" ELSE "none"
=============================================================================
