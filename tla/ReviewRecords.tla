--------------------------- MODULE ReviewRecords ---------------------------
(***************************************************************************)
(* The reviews CrowdCode stores and the keys it recognises them by.        *)
(*                                                                         *)
(* A submission is what survives verify_review_payment (payments.py):      *)
(*   "unpaid"       signed by a wallet, identified by its review_nonce;    *)
(*   "verified"     a payment whose payer is proved, on an EVM chain or by *)
(*                  a Solana payer link: it claims the payment reference;  *)
(*   "observed"     a Solana payment seen on chain whose payer is not      *)
(*                  linked to the reviewer: it claims nothing;             *)
(*   "placeholder"  the unsigned stripe/manual path: a reference and no    *)
(*                  wallet, which claims the payment reference as well.    *)
(* A signed review of a payment may carry the gateway's receipt of the     *)
(* purchase (receipts.py, evaluate_attestation), attested for its wallet.  *)
(* Hashes (replay keys, receipt_sha256) are modelled by what is hashed.    *)
(***************************************************************************)
EXTENDS Naturals

CONSTANTS
    Wallet,     \* reviewer wallets, compared in lower case
    NoWallet,   \* reviewer_wallet is null
    Payment,    \* canonical payment references
    Nonce,      \* review nonces
    Service,    \* services, one per registered endpoint
    Body,       \* what a retry must repeat: the rating and the reason hash
    Receipt,    \* gateway receipts, by their receipt_sha256
    NoReceipt,  \* gateway_attestation is null
    PurchaseOf, \* PurchaseOf[r]: the payment and the service receipt r names
    ReviewId    \* the values reviews.id takes

ASSUME WalletAssumption == NoWallet \notin Wallet
ASSUME ReviewIdAssumption == ReviewId \subseteq Nat
ASSUME ReceiptAssumption ==
    /\ NoReceipt \notin Receipt
    /\ PurchaseOf \in [Receipt -> [ref : Payment, service : Service]]

\* evaluate_attestation: a receipt goes with the purchase it names.
Attested(sub) ==
    sub.receipt # NoReceipt =>
        PurchaseOf[sub.receipt] = [ref |-> sub.ref, service |-> sub.service]

Submission ==
    [kind : {"unpaid"}, wallet : Wallet, ref : Nonce, service : Service, body : Body,
     receipt : {NoReceipt}]
      \cup
    {sub \in [kind : {"verified", "observed"}, wallet : Wallet, ref : Payment,
              service : Service, body : Body, receipt : Receipt \cup {NoReceipt}] :
        Attested(sub)}
      \cup
    [kind : {"placeholder"}, wallet : {NoWallet}, ref : Payment, service : Service,
     body : Body, receipt : {NoReceipt}]

Review == [id : ReviewId, sub : Submission]

(***************************************************************************)
(* What the tools are asked, and what they answer.                         *)
(***************************************************************************)
SubmitRequest == [op : {"submit"}, sub : Submission]
DeleteRequest == [op : {"delete"}, wallet : Wallet, id : ReviewId]
SweepRequest  == [op : {"sweep"}]
Request == SubmitRequest \cup DeleteRequest \cup SweepRequest

Accepted(id) == [outcome |-> "accepted", id |-> id]
Outcome(o)   == [outcome |-> o]
Outcomes     == {"review_deleted", "review_nonce_used", "payment_reference_used",
                 "rejected", "unavailable", "deleted", "not_found", "swept", "lost"}
Answer == [outcome : {"accepted"}, id : ReviewId] \cup [outcome : Outcomes]

(***************************************************************************)
(* Keys.                                                                   *)
(***************************************************************************)
PaymentKey(p)     == [tag |-> "payment",  wallet |-> NoWallet, ref |-> p]
UnlinkedKey(w, p) == [tag |-> "unlinked", wallet |-> w,        ref |-> p]
UnpaidKey(w, n)   == [tag |-> "unpaid",   wallet |-> w,        ref |-> n]

ReplayKey ==
    [tag : {"payment"}, wallet : {NoWallet}, ref : Payment]
      \cup [tag : {"unlinked"}, wallet : Wallet, ref : Payment]
      \cup [tag : {"unpaid"}, wallet : Wallet, ref : Nonce]

\* Faulty: an observation reserves the payment it observes.
RowKeyReserving(sub) ==
    IF sub.kind = "unpaid" THEN UnpaidKey(sub.wallet, sub.ref) ELSE PaymentKey(sub.ref)

(***************************************************************************)
(* The key of a stored row: its payment_reference_canonical, or its wallet *)
(* and nonce.  The unique indexes on reviews make it unique, and           *)
(* delete_my_review keeps its hash.                                        *)
(***************************************************************************)
RowKey(sub) ==
    CASE sub.kind = "unpaid"   -> UnpaidKey(sub.wallet, sub.ref)
      [] sub.kind = "observed" -> UnlinkedKey(sub.wallet, sub.ref)
      [] OTHER                 -> PaymentKey(sub.ref)

(***************************************************************************)
(* The keys whose deletion refuses a submission.  An observation of a      *)
(* payment is also refused by the deletion of the review that claimed it;  *)
(* a claim is not refused by the deletion of an observation.               *)
(***************************************************************************)
IncomingKeys(sub) ==
    CASE sub.kind = "unpaid"   -> {UnpaidKey(sub.wallet, sub.ref)}
      [] sub.kind = "observed" -> {PaymentKey(sub.ref), UnlinkedKey(sub.wallet, sub.ref)}
      [] OTHER                 -> {PaymentKey(sub.ref)}

\* Faulty: a wallet may claim a payment that it has reviewed as an observer.
BlockingKeysOfClaims(sub) == IF sub.kind = "unpaid" THEN {} ELSE {PaymentKey(sub.ref)}

\* Faulty: an observer is only held to its own observations.
BlockingKeysOfOwn(sub) ==
    CASE sub.kind = "unpaid"   -> {}
      [] sub.kind = "observed" -> {UnlinkedKey(sub.wallet, sub.ref)}
      [] OTHER                 -> {PaymentKey(sub.ref), UnlinkedKey(sub.wallet, sub.ref)}

(***************************************************************************)
(* The stored rows that use up the payment of a submission: the row that   *)
(* claims it, and the same wallet's own observation of it.                 *)
(***************************************************************************)
BlockingKeys(sub) ==
    CASE sub.kind = "unpaid"      -> {}
      [] sub.kind = "placeholder" -> {PaymentKey(sub.ref)}
      [] OTHER                    -> {PaymentKey(sub.ref), UnlinkedKey(sub.wallet, sub.ref)}

Blocking(rows, sub) == {r \in rows : RowKey(r.sub) \in BlockingKeys(sub)}
SameKey(rows, sub)  == {r \in rows : RowKey(r.sub) = RowKey(sub)}

SameReceipt(s1, s2) == s1.receipt # NoReceipt /\ s1.receipt = s2.receipt

\* Faulty: there is no unique index on receipt_sha256.
ClashingKeyOnly(rows, sub) == {r \in rows : RowKey(r.sub) = RowKey(sub)}

\* The stored rows for which a unique index of reviews refuses a submission.
Clashing(rows, sub) ==
    {r \in rows : RowKey(r.sub) = RowKey(sub) \/ SameReceipt(r.sub, sub)}

\* Faulty: a retry with another rating or reason is taken for a replay.
IsReplayOfAnyBody(sub, r) ==
    /\ RowKey(r.sub) = RowKey(sub)
    /\ r.sub.service = sub.service

\* A replay repeats the service, the rating and the reason hash of the row.
IsReplayOf(sub, r) ==
    /\ RowKey(r.sub) = RowKey(sub)
    /\ r.sub.service = sub.service
    /\ r.sub.body = sub.body

\* A stored score, reduced to the reviews it was computed from.
Counted(rows) == [s \in Service |-> {r.id : r \in {x \in rows : x.sub.service = s}}]
=============================================================================
