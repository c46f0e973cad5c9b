------------------------------ MODULE Admission ------------------------------
(***************************************************************************)
(* Which reviews are stored, at which level, and what becomes of the level *)
(* afterwards: the checks and the write of review_service (server.py),     *)
(* delete_my_review, and the nightly run_payment_reverification (cron.py), *)
(* while the transactions that reviews cite settle or fail.                *)
(*                                                                         *)
(* A call verifies before it takes lock_review_writes and stores under it, *)
(* so that what it verified may be old.  A re-verification reads its       *)
(* candidates before the lock and updates them under it.  What is done     *)
(* under the lock is one step.  Services are those of ServiceIdentity,     *)
(* scores those of OwnerTrust.                                             *)
(***************************************************************************)
EXTENDS PaymentEvidence, FiniteSets

CONSTANTS
    Call,           \* calls of review_service
    Run,            \* runs of the re-verification
    Scenario,       \* what agents submit, and what is stored from before
    DefaultPinned,  \* the networks with a token by default
    MaxReviewId, MaxAttempts

ASSUME LimitAssumption == MaxReviewId \in Nat /\ MaxAttempts \in Nat

VARIABLES
    asks,           \* the submissions of this behaviour
    rows,           \* table reviews
    deletedKeys,    \* table deleted_review_keys
    nextId,         \* the sequence of reviews.id
    checked,        \* checked[c]: what c verified, and its verdict, until it is done
    refused,        \* the submissions that the chain refused
    candidates      \* candidates[r]: the rows r selected, until it is done

chain == <<ledger, pinned>>
vars == <<chain, asks, rows, deletedKeys, nextId, checked, refused, candidates>>

\* A row of reviews.
IsRow(row) ==
    row = [id |-> row.id, sub |-> row.sub, wallet |-> row.wallet, key |-> row.key,
           claims |-> row.claims, level |-> row.level, basis |-> row.basis,
           payer |-> row.payer, failure |-> row.failure, attempts |-> row.attempts,
           recent |-> row.recent]

\* References name transactions, and only hashes are spelled in two ways.
IsAsked(sub) ==
    /\ sub.ref # None => /\ sub.ref.tx \in Tx /\ sub.ref.capitals \in BOOLEAN
                         /\ sub.ref.capitals => IsHash(sub.ref.tx)
    /\ sub.attestation # None => sub.attestation.receipt.facts.amount \in Int

\* The key of a row from before keys were normalised, by its reference as it
\* was spelled: bare, or verbatim if another row has the bare reference.
OldKey(ref) == [by |-> None, ref |-> ref, nonce |-> None]
Bared(ref)  == [prefix |-> "", tx |-> ref.tx, capitals |-> ref.capitals]

\* A row from before refusals: a claim that an outage left unverified.
IsLegacy(row) ==
    /\ IsRow(row) /\ IsAsked(row.sub)
    /\ row.sub.ref # None /\ row.wallet = row.sub.wallet
    /\ row.key \in {OldKey(Bared(row.sub.ref)), OldKey(row.sub.ref)}
    /\ row.claims /\ row.level = "signature_only" /\ row.basis = "legacy"
    /\ row.failure = "rpc_unreachable" /\ row.attempts \in Nat

\* The unique indexes, which fold the case of bare hashes, and the backfill,
\* which leaves a row verbatim only beside the row with the bare reference.
ASSUME ScenarioAssumption ==
    \A s \in Scenario :
      /\ \A sub \in s.asks : IsAsked(sub)
      /\ IsFiniteSet(s.history)
      /\ \A row \in s.history : IsLegacy(row) /\ row.id \in 1..Cardinality(s.history)
      /\ \A row \in s.history : \E x \in s.history : x.key = OldKey(Bared(row.sub.ref))
      /\ \A a, b \in s.history :
           /\ a.id = b.id \/ a.key = b.key => a = b
           /\ IsHashReference(a.key.ref) /\ IsHashReference(b.key.ref)
                /\ a.key.ref.tx = b.key.ref.tx => a = b

VerifiedLevels == {"onchain_verified", "response_attested"}

Init ==
    /\ ledger = [tx \in Tx |-> "absent"]
    /\ pinned = DefaultPinned
    /\ \E s \in Scenario : asks = s.asks /\ rows = s.history
    /\ deletedKeys = {}
    /\ nextId = 1 + Cardinality(rows)
    /\ checked = [c \in Call |-> None]
    /\ refused = {}
    /\ candidates = [r \in Run |-> None]

(***************************************************************************)
(* The chains and the deployment.                                          *)
(***************************************************************************)
Cited == {sub.ref.tx : sub \in {x \in asks \cup {row.sub : row \in rows} : x.ref # None}}

Settle(tx) ==
    /\ tx \in Cited /\ ledger[tx] = "absent" /\ NetworkOf[tx] # "text"
    /\ \E outcome \in {"settled", "failed"} : ledger' = [ledger EXCEPT ![tx] = outcome]
    /\ UNCHANGED <<pinned, asks, rows, deletedKeys, nextId, checked, refused, candidates>>

\* An operator sets the variable that names the token of a network.
Pin(network) ==
    /\ network \notin pinned
    /\ pinned' = pinned \cup {network}
    /\ UNCHANGED <<ledger, asks, rows, deletedKeys, nextId, checked, refused, candidates>>

(***************************************************************************)
(* review_service.                                                         *)
(***************************************************************************)
FinalCodes == {"payment_transaction_failed", "payment_transfer_mismatch", "payer_signature_invalid"}

\* The wallet that verification proved; the placeholder path proves none.
ReviewerOf(sub) == IF sub.ref # None /\ sub.provider \notin MachineProviders THEN None ELSE sub.wallet

Refuse(c, sub) ==
    /\ checked[c] = None
    /\ \E v \in VerifyReviewPayment(sub) :
         /\ ~v.ok
         /\ refused' = IF v.code \in FinalCodes THEN refused \cup {sub} ELSE refused
    /\ UNCHANGED <<chain, asks, rows, deletedKeys, nextId, checked, candidates>>

\* An attestation that does not hold refuses the review.
Check(c, sub) ==
    /\ checked[c] = None
    /\ \E v \in VerifyReviewPayment(sub) :
         /\ v.ok
         /\ sub.attestation # None => Attested(sub, ReviewerOf(sub))
         /\ checked' = [checked EXCEPT ![c] = [sub |-> sub, verdict |-> v]]
    /\ UNCHANGED <<chain, asks, rows, deletedKeys, nextId, refused, candidates>>

\* Faulty: an old row counts only under the spelling it was stored with.
UsesAsSpelled(row, sub) ==
    /\ sub.ref # None
    /\ \/ row.key = PaymentKey(sub.ref)
       \/ row.claims /\ row.sub.ref = sub.ref
       \/ ReviewerOf(sub) # None /\ row.key = UnlinkedKey(ReviewerOf(sub), sub.ref)

\* The stored rows that use up the payment of a submission.
Uses(row, sub) ==
    /\ sub.ref # None
    /\ \/ row.key = PaymentKey(sub.ref)
       \/ row.key.by = None /\ IsHashReference(row.key.ref) /\ row.key.ref.tx = sub.ref.tx
       \/ row.claims /\ row.sub.ref = sub.ref
       \/ ReviewerOf(sub) # None /\ row.key = UnlinkedKey(ReviewerOf(sub), sub.ref)

ReplayKeys(sub, verdict) ==
    {IF sub.ref # None THEN PaymentKey(sub.ref) ELSE UnpaidKey(sub.wallet, sub.nonce)}
      \cup (IF verdict.claims THEN {} ELSE {verdict.key})

Basis(sub) ==
    IF sub.attestation # None /\ WeightExclusion(sub.attestation) = "none" THEN "hosted" ELSE "none"

NewRow(sub, verdict) ==
    [id |-> nextId, sub |-> sub, wallet |-> ReviewerOf(sub), key |-> verdict.key,
     claims |-> sub.ref # None /\ verdict.claims,
     level |-> IF sub.attestation = None THEN verdict.level ELSE "response_attested",
     basis |-> Basis(sub), payer |-> verdict.payer,
     failure |-> "none", attempts |-> 0, recent |-> TRUE]

\* Faulty: the index on receipts holds for each wallet.
SameReceiptOfWallet(row, sub) ==
    /\ row.sub.attestation # None /\ sub.attestation # None
    /\ row.sub.attestation.receipt = sub.attestation.receipt /\ row.wallet = ReviewerOf(sub)

SameReceipt(row, sub) ==
    /\ row.sub.attestation # None /\ sub.attestation # None
    /\ row.sub.attestation.receipt = sub.attestation.receipt

\* Under lock_review_writes.  The unique indexes refuse a key that is stored,
\* and a receipt that is.
Store(c) ==
    /\ checked[c] # None /\ nextId =< MaxReviewId
    /\ LET sub == checked[c].sub
           verdict == checked[c].verdict
       IN  /\ ReplayKeys(sub, verdict) \cap deletedKeys = {}
           /\ ~\E row \in rows : Uses(row, sub) \/ row.key = verdict.key \/ SameReceipt(row, sub)
           /\ rows' = rows \cup {NewRow(sub, verdict)}
    /\ nextId' = nextId + 1
    /\ checked' = [checked EXCEPT ![c] = None]
    /\ UNCHANGED <<chain, asks, deletedKeys, refused, candidates>>

\* The call ends without a review: it was deleted, is stored, or fails.
End(c) ==
    /\ checked[c] # None
    /\ checked' = [checked EXCEPT ![c] = None]
    /\ UNCHANGED <<chain, asks, rows, deletedKeys, nextId, refused, candidates>>

\* delete_my_review, by the wallet of the row.
DeletedKey(row) ==
    IF row.claims THEN PaymentKey(row.sub.ref)
    ELSE row.key
Delete(row) ==
    /\ row.wallet # None
    /\ rows' = rows \ {row}
    /\ deletedKeys' = deletedKeys \cup {DeletedKey(row)}
    /\ UNCHANGED <<chain, asks, nextId, checked, refused, candidates>>

(***************************************************************************)
(* run_payment_reverification.                                             *)
(***************************************************************************)
Candidate(row) ==
    /\ row.level = "signature_only"
    /\ row.failure = "rpc_unreachable"
    /\ row.attempts < MaxAttempts
    /\ row.recent
    /\ row.wallet # None

\* The rows are read before the lock is taken.
Select(r) ==
    /\ candidates[r] = None
    /\ candidates' = [candidates EXCEPT ![r] = {row \in rows : Candidate(row)}]
    /\ UNCHANGED <<chain, asks, rows, deletedKeys, nextId, checked, refused>>

\* The network that the check at submission recorded, Base if none is recorded.
RecordedNetwork(sub) ==
    IF sub.provider = "mppx" THEN "tempo"
    ELSE IF sub.proof = None \/ sub.proof.network = None THEN PrefixNetwork(sub.ref)
    ELSE sub.proof.network

Recheck(row) ==
    CheckReference(row.sub.provider, RecordedNetwork(row.sub),
                   row.key.ref.tx, row.wallet, row.sub.payee)

\* Faulty: an unreachable node does not use up an attempt.
UpdatedForFree(row, selected, check) ==
    IF check.failure = "none"
    THEN [row EXCEPT !.attempts = selected.attempts + 1, !.failure = "none",
                     !.level = "onchain_verified", !.payer = row.wallet]
    ELSE [row EXCEPT !.failure = check.failure]

\* What one update sets, from the row as selected and the answer of the chain.
Updated(row, selected, check) ==
    IF check.failure = "none"
    THEN [row EXCEPT !.attempts = selected.attempts + 1, !.failure = "none",
                     !.level = "onchain_verified", !.payer = row.wallet]
    ELSE [row EXCEPT !.attempts = selected.attempts + 1, !.failure = check.failure]

\* Faulty: the rows that were selected are written back.
ReverifySelected(r) ==
    /\ candidates[r] # None
    /\ LET due == {row \in candidates[r] : IsHashReference(row.key.ref)} IN
       \E answers \in [due -> UNION {Recheck(row) : row \in due}] :
         /\ \A row \in due : answers[row] \in Recheck(row)
         /\ rows' = {row \in rows : \A x \in due : x.id # row.id}
                      \cup {Updated(x, x, answers[x]) : x \in due}
    /\ candidates' = [candidates EXCEPT ![r] = None]
    /\ UNCHANGED <<chain, asks, deletedKeys, nextId, checked, refused>>

\* Under lock_review_writes, by id: a row deleted meanwhile is not touched, and
\* a reference that is no hash is passed over.
Reverify(r) ==
    /\ candidates[r] # None
    /\ LET due == {row \in candidates[r] : IsHashReference(row.key.ref)} IN
       \E answers \in [due -> UNION {Recheck(row) : row \in due}] :
         /\ \A row \in due : answers[row] \in Recheck(row)
         /\ rows' = {row \in rows : \A x \in due : x.id # row.id}
                      \cup {Updated(y[1], y[2], answers[y[2]]) :
                              y \in {z \in rows \X due : z[1].id = z[2].id}}
    /\ candidates' = [candidates EXCEPT ![r] = None]
    /\ UNCHANGED <<chain, asks, deletedKeys, nextId, checked, refused>>

\* A run dies: its transaction is rolled back.
Crash(r) ==
    /\ candidates[r] # None
    /\ candidates' = [candidates EXCEPT ![r] = None]
    /\ UNCHANGED <<chain, asks, rows, deletedKeys, nextId, checked, refused>>

\* REVERIFY_MAX_AGE_DAYS pass.
Age(row) ==
    /\ row.recent /\ row.failure = "rpc_unreachable"
    /\ rows' = (rows \ {row}) \cup {[row EXCEPT !.recent = FALSE]}
    /\ UNCHANGED <<chain, asks, deletedKeys, nextId, checked, refused, candidates>>

Next ==
    \/ \E tx \in Tx : Settle(tx)
    \/ \E network \in EvmNetworks : Pin(network)
    \/ \E c \in Call, sub \in asks : Refuse(c, sub) \/ Check(c, sub)
    \/ \E c \in Call : Store(c) \/ End(c)
    \/ \E row \in rows : Delete(row) \/ Age(row)
    \/ \E r \in Run : Select(r) \/ Reverify(r) \/ Crash(r)

Spec == Init /\ [][Next]_vars

(***************************************************************************)
(* The nightly cron keeps starting runs, and not every run dies.  Nothing  *)
(* is assumed of the nodes, the chains or the clock.                       *)
(***************************************************************************)
Fairness == \A r \in Run : WF_vars(Select(r)) /\ SF_vars(Reverify(r))
FairSpec == Spec /\ Fairness

(***************************************************************************)
(* Properties.                                                             *)
(***************************************************************************)
\* What the chain must show for a payment to be verified: a transfer by the
\* wallet, or by a key that signed this review for this wallet.
PaidByWallet(sub, payer) ==
    /\ payer = sub.wallet
    /\ IsHash(sub.ref.tx) /\ ledger[sub.ref.tx] = "settled"
    /\ EvmTransfers(sub.ref.tx, sub.wallet, sub.payee) # <<>>
PaidByKey(sub, payer) ==
    /\ ledger[sub.ref.tx] = "settled"
    /\ payer \in Payers(sub.ref.tx, sub.payee)
    /\ sub.link.by = payer /\ sub.link.over = PayerLinkMessage(sub)
Paid(sub, payer) == PaidByWallet(sub, payer) \/ PaidByKey(sub, payer)
PaymentSeen(sub) == ledger[sub.ref.tx] = "settled" /\ Payers(sub.ref.tx, sub.payee) # {}

(***************************************************************************)
(* A verified review was paid for: its transaction settled with a transfer *)
(* of the pinned token to the payee by the reviewer's wallet, or by a      *)
(* Solana key that signed this review for this wallet.  An attested one    *)
(* was paid for by somebody.  Holds whether the submission was verified or *)
(* a nightly run upgraded the row.                                         *)
(***************************************************************************)
VerifiedMeansPaid ==
    \A row \in rows :
      /\ row.level = "onchain_verified" => Paid(row.sub, row.payer)
      /\ row.level = "response_attested" => Paid(row.sub, row.payer) \/ PaymentSeen(row.sub)

(***************************************************************************)
(* A review that is stored never claims a settlement that another row      *)
(* claims, however its hash is spelled and whatever rows are left from     *)
(* before hashes were normalised, deleted or not.  Only two such old rows  *)
(* may claim one settlement, and re-verification never counts both.        *)
(***************************************************************************)
OneClaimPerSettlement ==
    \A a, b \in rows :
      a.claims /\ b.claims /\ a.sub.ref.tx = b.sub.ref.tx /\ a # b =>
        /\ a.basis = "legacy" /\ b.basis = "legacy"
        /\ a.level = "onchain_verified" => b.level # "onchain_verified"

(***************************************************************************)
(* A wallet has one weighted review of a payment, and none of a purchase   *)
(* from its own owner or of a trifle: an observed payment that is linked   *)
(* later is not weighed twice, even if it was attested twice.  And one     *)
(* receipt is weighed once, whoever it is attested for.                    *)
(***************************************************************************)
OneWeightedReview ==
    \A a, b \in rows :
      a.basis = "hosted" =>
        /\ LET facts == a.sub.attestation.receipt.facts IN
           facts.payeeOwner # facts.owner /\ facts.amount >= MinAmount
           /\ facts.ref.tx = a.sub.ref.tx
        /\ b.basis = "hosted" /\ a.wallet = b.wallet /\ a.sub.ref.tx = b.sub.ref.tx => a = b
        /\ b.basis = "hosted" /\ a.sub.attestation.receipt = b.sub.attestation.receipt => a = b

(***************************************************************************)
(* Only an answer that the chain will not take back is final: a submission *)
(* refused by the chain would be refused again, and a row given up for     *)
(* what the chain said has no payment.  An outage, a missing token or a    *)
(* transaction not seen yet never counts against a review.                 *)
(***************************************************************************)
FinalIsFinal ==
    /\ \A sub \in refused : \A v \in VerifyReviewPayment(sub) : ~v.ok
    /\ \A row \in rows : row.failure \in FinalFailures =>
         \A check \in Recheck(row) : check.failure # "none"

(***************************************************************************)
(* A step never brings back a deleted row, takes a verification away from  *)
(* a row, or changes what the row reviews: a re-verification that works on *)
(* rows it read before the lock does not.                                  *)
(***************************************************************************)
NothingTakenBack ==
    [][\A new \in rows' : new.id < nextId =>
         \E old \in rows :
           /\ old.id = new.id /\ old.sub = new.sub /\ old.key = new.key
           /\ old.level \in VerifiedLevels => new.level = old.level]_vars

(***************************************************************************)
(* A review left behind by an outage is decided in the end: upgraded,      *)
(* refused by the chain, or given up after a number of attempts, even if   *)
(* runs overlap or die.                                                    *)
(***************************************************************************)
CandidatesAreDecided ==
    \A id \in 1..MaxReviewId :
      <>[](\A row \in rows : row.id = id /\ Candidate(row) => ~IsHashReference(row.key.ref))
=============================================================================
