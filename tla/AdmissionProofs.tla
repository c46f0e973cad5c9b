--------------------------- MODULE AdmissionProofs ---------------------------
(* Theorems about Admission, for every scenario of well formed submissions. *)
EXTENDS Admission, FiniteSetTheorems, TLAPS

(***************************************************************************)
(* What a favourable verdict rests on, as the chains are now.              *)
(***************************************************************************)
KeyOf(sub, claims) ==
    IF sub.ref = None THEN UnpaidKey(sub.wallet, sub.nonce)
    ELSE IF claims THEN PaymentKey(sub.ref) ELSE UnlinkedKey(sub.wallet, sub.ref)

Backed(sub, v) ==
    /\ v.claims \in BOOLEAN
    /\ v.level \in {"unverified", "signature_only", "onchain_verified"}
    /\ v.level = "unverified" => ReviewerOf(sub) = None
    /\ v.level = "onchain_verified" => sub.ref # None /\ Paid(sub, v.payer)
    /\ v.level = "signature_only" /\ sub.ref # None => PaymentSeen(sub)
    /\ v.key = KeyOf(sub, v.claims)

Transferred(tx, from, payee) ==
    IsHash(tx) /\ ledger[tx] = "settled" /\ EvmTransfers(tx, from, payee) # <<>>

Chains == ledger \in [Tx -> {"absent", "failed", "settled"}]

\* A check of an EVM chain that succeeds has seen the transfer.
LEMMA ChainBacks ==
    ASSUME Chains, NEW provider, NEW network, NEW tx \in Tx, NEW from, NEW payee,
           NEW check \in CheckReference(provider, network, tx, from, payee),
           check.failure = "none"
    PROVE  Transferred(tx, from, payee)
<1>1. check \in {Failed("rpc_unreachable")} \cup EvmAnswers(network, tx, from, payee)
  BY DEF CheckReference, Failed
<1>2. network \in EvmNetworks
  BY DEF CheckReference, Failed, EvmNetworks, X402EvmNetworks
<1>3. check \in EvmAnswers(network, tx, from, payee)
  BY <1>1 DEF Failed
<1>4. /\ Visible(network, tx) /\ ledger[tx] # "failed"
      /\ EvmTransfers(tx, from, payee) # <<>>
  BY <1>3 DEF EvmAnswers, Failed
<1>5. QED
  BY <1>2, <1>4 DEF Transferred, Visible, IsHash, Chains

\* A verdict that comes from a check of an EVM chain.
FromChain(sub, v) ==
    \E provider, network :
      \E check \in CheckReference(provider, network, sub.ref.tx, sub.wallet, sub.payee) :
        v = VerifiedBy(sub, check)

LEMMA HashBacks ==
    ASSUME Chains, NEW sub, IsAsked(sub), sub.ref # None,
           NEW v \in VerifyReference(sub) \cup VerifyMppx(sub) \cup VerifyX402(sub), v.ok
    PROVE  Backed(sub, v)
<1>1. FromChain(sub, v)
  <2>1. CASE v \in VerifyReference(sub)
    <3>1. IsHash(sub.ref.tx)
      BY <2>1 DEF VerifyReference, Refused
    <3>2. PICK network : v \in {VerifiedBy(sub, check) :
            check \in CheckReference(sub.provider, network, sub.ref.tx, sub.wallet, sub.payee)}
      BY <2>1, <3>1 DEF VerifyReference
    <3>3. QED
      BY <3>2 DEF FromChain
  <2>2. CASE v \in VerifyMppx(sub)
    <3>1. v # Refused("payment_rejected") /\ v # Refused("payment_failed")
            /\ v # Refused("unsupported_payment_chain")
      BY DEF Refused
    <3>2. v \in {IF check.failure = "none" /\ sub.proof.recipient \notin {None, sub.payee}
                 THEN Refused("payment_rejected") ELSE VerifiedBy(sub, check) :
                   check \in CheckReference("mppx", "tempo", sub.ref.tx, sub.wallet, sub.payee)}
      BY <2>2, <3>1 DEF VerifyMppx
    <3>3. QED
      BY <3>1, <3>2 DEF FromChain
  <2>3. CASE v \in VerifyX402(sub)
    <3>1. /\ v # Refused("payment_rejected") /\ v # Refused("unsupported_payment_reference")
          /\ v # Refused("unsupported_payment_chain")
      BY DEF Refused
    <3>2. PICK network : v \in {VerifiedBy(sub, check) :
            check \in CheckReference("x402", network, sub.ref.tx, sub.wallet, sub.payee)}
      <4> DEFINE network == IF sub.proof.network = None THEN PrefixNetwork(sub.ref) ELSE sub.proof.network
      <4>1. v \in {VerifiedBy(sub, check) :
              check \in CheckReference("x402", network, sub.ref.tx, sub.wallet, sub.payee)}
        BY <2>3, <3>1 DEF VerifyX402
      <4>2. QED
        BY <4>1
    <3>3. QED
      BY <3>2 DEF FromChain
  <2>4. QED
    BY <2>1, <2>2, <2>3
<1>2. PICK provider, network :
        \E check \in CheckReference(provider, network, sub.ref.tx, sub.wallet, sub.payee) :
          v = VerifiedBy(sub, check)
  BY <1>1 DEF FromChain
<1>3. PICK check \in CheckReference(provider, network, sub.ref.tx, sub.wallet, sub.payee) :
        v = VerifiedBy(sub, check)
  BY <1>2
<1>4. /\ check.failure = "none"
      /\ v = Admitted("onchain_verified", TRUE, PaymentKey(sub.ref), sub.wallet, check.amount)
  BY <1>3 DEF VerifiedBy, ChainFailure, Refused
<1>5. Transferred(sub.ref.tx, sub.wallet, sub.payee)
  BY <1>4, ChainBacks DEF IsAsked
<1>6. PaidByWallet(sub, v.payer)
  BY <1>4, <1>5 DEF Admitted, PaidByWallet, Transferred
<1>7. QED
  BY <1>4, <1>6 DEF Admitted, Backed, KeyOf, Paid

\* A Solana transaction that pays the payee, and what it proves of the payer.
LEMMA SolanaBacks ==
    ASSUME Chains, NEW sub, IsAsked(sub), sub.ref # None,
           NEW v \in VerifySolana(sub), v.ok
    PROVE  Backed(sub, v)
<1>1. PICK check \in CheckSolana(sub.ref.tx, sub.payee, Named(sub)) : v \in SolanaVerdicts(sub, check)
  <2>1. v # Refused("payment_rejected")
    BY DEF Refused
  <2>2. v \in UNION {SolanaVerdicts(sub, check) : check \in CheckSolana(sub.ref.tx, sub.payee, Named(sub))}
    BY <2>1 DEF VerifySolana
  <2>3. QED
    BY <2>2
<1>2. check.failure = "none"
  BY <1>1 DEF SolanaVerdicts, ChainFailure, Refused
<1>3. check \in SolanaAnswers(sub.ref.tx, sub.payee, Named(sub))
  <2>1. \A failure : check # Failed(failure) \/ failure = "none"
    BY <1>2 DEF Failed
  <2>2. QED
    BY <2>1 DEF CheckSolana
<1>4. /\ Visible("solana", sub.ref.tx) /\ ledger[sub.ref.tx] # "failed"
      /\ NamedPayers(sub.ref.tx, sub.payee, Named(sub)) # {}
  BY <1>2, <1>3 DEF SolanaAnswers, Failed
<1>5. ledger[sub.ref.tx] = "settled"
  BY <1>4 DEF Visible, Chains, IsAsked
<1>6. NamedPayers(sub.ref.tx, sub.payee, Named(sub)) \subseteq Payers(sub.ref.tx, sub.payee)
  BY DEF NamedPayers
<1>7. PaymentSeen(sub)
  BY <1>4, <1>5, <1>6 DEF PaymentSeen
<1>8. CASE sub.link = None
  <2>1. v = Observed(sub)
    BY <1>1, <1>2, <1>8 DEF SolanaVerdicts, Refused
  <2>2. QED
    BY <2>1, <1>7 DEF Observed, Admitted, Backed, KeyOf
<1>9. CASE sub.link # None
  <2>1. PICK k \in LinkedPayers(sub) : v = LinkedTo(sub, k)
    BY <1>1, <1>2, <1>9 DEF SolanaVerdicts, Refused
  <2>2. v = Admitted("onchain_verified", TRUE, PaymentKey(sub.ref), k, Credit(sub.ref.tx, k, sub.payee))
    BY <2>1 DEF LinkedTo, Refused
  <2>3. PaidByKey(sub, k)
    BY <2>1, <1>5, <1>6 DEF LinkedPayers, PaidByKey
  <2>4. QED
    BY <2>2, <2>3 DEF Admitted, Backed, KeyOf, Paid
<1>10. QED
  BY <1>8, <1>9

\* The gate for the ways of payment together.
LEMMA VerdictBacks ==
    ASSUME Chains, NEW sub, IsAsked(sub), NEW v \in VerifyReviewPayment(sub), v.ok
    PROVE  Backed(sub, v)
<1>1. \/ v = Refused("payment_rejected")
      \/ /\ sub.ref # None /\ sub.provider \notin MachineProviders
         /\ v = Placeholder(sub)
      \/ sub.ref = None /\ v = SignatureOnly(sub)
      \/ sub.ref # None /\ v \in VerifySolana(sub)
      \/ /\ sub.ref # None
         /\ v \in VerifyReference(sub) \cup VerifyMppx(sub) \cup VerifyX402(sub)
  BY DEF VerifyReviewPayment
<1>2. CASE sub.ref # None /\ sub.provider \notin MachineProviders /\ v = Placeholder(sub)
  BY <1>2 DEF Placeholder, Admitted, Backed, KeyOf, ReviewerOf
<1>3. CASE sub.ref = None /\ v = SignatureOnly(sub)
  BY <1>3 DEF SignatureOnly, Admitted, Backed, KeyOf
<1>4. QED
  BY <1>1, <1>2, <1>3, SolanaBacks, HashBacks DEF Refused

(***************************************************************************)
(* The inductive invariant.  None of the properties is inductive: a call   *)
(* stores what it verified before, and a run updates rows that it has read *)
(* before.  A row is of today or left from before refusals.                *)
(***************************************************************************)
RowOfToday(row) ==
    /\ row.basis \in {"none", "hosted"} /\ row.failure = "none"
    /\ row.claims \in BOOLEAN /\ (row.claims => row.sub.ref # None)
    /\ row.wallet = ReviewerOf(row.sub)
    /\ row.key = KeyOf(row.sub, row.claims)

RowFromBefore(row) ==
    /\ row.basis = "legacy" /\ row.claims
    /\ row.sub.ref # None /\ row.wallet = row.sub.wallet
    /\ row.key \in {OldKey(Bared(row.sub.ref)), OldKey(row.sub.ref)}
    /\ row.level \in {"signature_only", "onchain_verified"}
    /\ row.level = "onchain_verified" => IsHashReference(row.key.ref)

Weighty(row) ==
    LET facts == row.sub.attestation.receipt.facts IN
    /\ row.sub.ref # None /\ row.wallet # None /\ row.sub.attestation # None
    /\ facts.payeeOwner # facts.owner /\ facts.amount >= MinAmount
    /\ facts.ref.tx = row.sub.ref.tx

RowOK(row) ==
    /\ IsRow(row) /\ IsAsked(row.sub) /\ row.id \in Nat
    /\ RowOfToday(row) \/ RowFromBefore(row)
    /\ row.basis = "hosted" => Weighty(row)
    /\ row.level = "onchain_verified" => row.sub.ref # None /\ Paid(row.sub, row.payer)
    /\ row.level = "response_attested" =>
         row.sub.ref # None /\ (Paid(row.sub, row.payer) \/ PaymentSeen(row.sub))

RowsOK == \A row \in rows : RowOK(row) /\ row.id < nextId
IdsUnique == \A a, b \in rows : a.id = b.id => a = b

\* Two claims of one settlement are left from before.
ClaimsOK ==
    \A a, b \in rows : a.claims /\ b.claims /\ a.sub.ref.tx = b.sub.ref.tx /\ a # b =>
      a.basis = "legacy" /\ b.basis = "legacy"

\* One old row of a hash is known by it, and none is without the row that has
\* its bare reference, unless that one has been deleted.
OldRowsOK ==
    /\ \A a, b \in rows :
         /\ a.basis = "legacy" /\ b.basis = "legacy"
         /\ IsHashReference(a.key.ref) /\ IsHashReference(b.key.ref)
         /\ a.key.ref.tx = b.key.ref.tx
         => a = b
    /\ \A a \in rows : a.basis = "legacy" =>
         \/ \E x \in rows : x.basis = "legacy" /\ x.key = OldKey(Bared(a.sub.ref))
         \/ PaymentKey(a.sub.ref) \in deletedKeys

\* What a call has verified stays true until it is stored.
CallOK(c) ==
    checked[c] # None =>
      LET sub == checked[c].sub IN
      /\ IsAsked(sub) /\ Backed(sub, checked[c].verdict)
      /\ sub.attestation # None => Attested(sub, ReviewerOf(sub))

CheckedOK == \A c \in Call : CallOK(c)

SameReview(a, b) ==
    /\ a.id = b.id /\ a.sub = b.sub /\ a.wallet = b.wallet /\ a.key = b.key
    /\ a.claims = b.claims /\ a.basis = b.basis

\* A selected row is one from before, and is still what it was, or is deleted.
SelectedOK ==
    \A r \in Run : candidates[r] # None =>
      /\ \A x \in candidates[r] :
           /\ x.id \in Nat /\ x.id < nextId /\ RowFromBefore(x) /\ IsAsked(x.sub)
           /\ \A row \in rows : row.id = x.id => SameReview(x, row)
      /\ \A x, y \in candidates[r] : x.id = y.id => x = y

AdmissionInv ==
    /\ Chains
    /\ nextId \in Nat
    /\ \A sub \in asks : IsAsked(sub)
    /\ checked = [c \in Call |-> checked[c]]
    /\ candidates = [r \in Run |-> candidates[r]]
    /\ RowsOK /\ IdsUnique /\ ClaimsOK /\ OldRowsOK /\ OneWeightedReview
    /\ CheckedOK /\ SelectedOK

(***************************************************************************)
(* What the chain has shown stays shown.                                   *)
(***************************************************************************)
LEMMA ShownStays ==
    ASSUME Chains, (\E tx \in Tx : Settle(tx)) \/ UNCHANGED ledger
    PROVE  /\ Chains'
           /\ \A sub : IsAsked(sub) /\ sub.ref # None =>
                /\ PaymentSeen(sub) => PaymentSeen(sub)'
                /\ \A payer : Paid(sub, payer) => Paid(sub, payer)'
<1>1. Chains'
  BY DEF Chains, Settle
<1>2. \A tx \in Tx : ledger[tx] = "settled" => ledger'[tx] = "settled"
  BY DEF Chains, Settle
<1>3. ASSUME NEW sub, IsAsked(sub), sub.ref # None
      PROVE  /\ PaymentSeen(sub) => PaymentSeen(sub)'
             /\ \A payer : Paid(sub, payer) => Paid(sub, payer)'
  BY <1>2, <1>3 DEF IsAsked, PaymentSeen, Paid, PaidByWallet, PaidByKey
<1>4. QED
  BY <1>1, <1>3

LEMMA BackedStays ==
    ASSUME Chains, (\E tx \in Tx : Settle(tx)) \/ UNCHANGED ledger,
           NEW sub, NEW v, IsAsked(sub), Backed(sub, v)
    PROVE  Backed(sub, v)'
BY ShownStays DEF Backed

LEMMA RowStays ==
    ASSUME Chains, (\E tx \in Tx : Settle(tx)) \/ UNCHANGED ledger,
           NEW row, RowOK(row)
    PROVE  RowOK(row)'
<1>1. IsAsked(row.sub)
  BY DEF RowOK
<1>2. QED
  BY <1>1, ShownStays DEF RowOK

LEMMA CallStays ==
    ASSUME Chains, (\E tx \in Tx : Settle(tx)) \/ UNCHANGED ledger,
           NEW c, CallOK(c), checked'[c] = checked[c]
    PROVE  CallOK(c)'
<1>1. PICK sub, v : sub = checked[c].sub /\ v = checked[c].verdict
  OBVIOUS
<1>2. CASE checked[c] = None
  BY <1>2 DEF CallOK
<1>3. CASE checked[c] # None
  <2>1. IsAsked(sub) /\ Backed(sub, v) /\ (sub.attestation # None => Attested(sub, ReviewerOf(sub)))
    BY <1>1, <1>3 DEF CallOK
  <2>2. Backed(sub, v)'
    BY <2>1, BackedStays
  <2>3. QED
    BY <1>1, <2>1, <2>2 DEF CallOK
<1>4. QED
  BY <1>2, <1>3

(***************************************************************************)
(* A step that only deletes rows, or sets in place what is not the review, *)
(* keeps what is said of the rows together.                                *)
(***************************************************************************)
Rewritten ==
    /\ \A n \in rows' : \E o \in rows : SameReview(o, n)
    /\ \A m, n \in rows' : m.id = n.id => m = n

LEMMA RewrittenKeeps ==
    ASSUME IdsUnique, ClaimsOK, OneWeightedReview, Rewritten
    PROVE  IdsUnique' /\ ClaimsOK' /\ OneWeightedReview'
<1>1. IdsUnique'
  BY DEF Rewritten, IdsUnique
<1>2. ClaimsOK'
  BY DEF Rewritten, ClaimsOK, SameReview
<1>3. OneWeightedReview'
  BY DEF Rewritten, OneWeightedReview, SameReview
<1>4. QED
  BY <1>1, <1>2, <1>3

\* A step that deletes no row keeps what is said of the old ones.
LEMMA KeptRows ==
    ASSUME OldRowsOK, Rewritten, \A o \in rows : \E n \in rows' : SameReview(o, n),
           UNCHANGED deletedKeys
    PROVE  OldRowsOK'
<1>1. ASSUME NEW a \in rows', NEW b \in rows', a.basis = "legacy", b.basis = "legacy",
             IsHashReference(a.key.ref), IsHashReference(b.key.ref),
             a.key.ref.tx = b.key.ref.tx
      PROVE  a = b
  <2>1. PICK o \in rows, q \in rows : SameReview(o, a) /\ SameReview(q, b)
    BY DEF Rewritten
  <2>2. o = q
    BY <1>1, <2>1 DEF SameReview, OldRowsOK
  <2>3. QED
    BY <2>1, <2>2 DEF SameReview, Rewritten
<1>2. ASSUME NEW a \in rows', a.basis = "legacy", PaymentKey(a.sub.ref) \notin deletedKeys
      PROVE  \E x \in rows' : x.basis = "legacy" /\ x.key = OldKey(Bared(a.sub.ref))
  <2>1. PICK o \in rows : SameReview(o, a)
    BY DEF Rewritten
  <2>2. PICK x \in rows : x.basis = "legacy" /\ x.key = OldKey(Bared(a.sub.ref))
    BY <1>2, <2>1 DEF SameReview, OldRowsOK
  <2>3. QED
    BY <2>2 DEF SameReview
<1>3. QED
  BY <1>1, <1>2 DEF OldRowsOK, IsHashReference, IsHash, PaymentKey, CanonicalReference

LEMMA OldKeyParts ==
    ASSUME NEW ref
    PROVE  /\ OldKey(ref).by = None /\ OldKey(ref).ref = ref
           /\ Bared(ref).tx = ref.tx /\ Bared(ref).prefix = ""
           /\ Bared(ref).capitals = ref.capitals
BY DEF OldKey, Bared

\* The key of an old row names its transaction.
LEMMA OldTx ==
    ASSUME NEW row, RowFromBefore(row)
    PROVE  row.key.ref.tx = row.sub.ref.tx
<1>1. CASE row.key = OldKey(Bared(row.sub.ref))
  <2>1. PICK b : b = Bared(row.sub.ref)
    OBVIOUS
  <2>2. b.tx = row.sub.ref.tx
    BY <2>1, OldKeyParts
  <2>5. row.key = OldKey(b)
    BY <1>1, <2>1
  <2>3. row.key.ref = b
    BY <2>5 DEF OldKey
  <2>4. QED
    BY <2>2, <2>3
<1>2. CASE row.key = OldKey(row.sub.ref)
  BY <1>2 DEF OldKey
<1>3. QED
  BY <1>1, <1>2 DEF RowFromBefore

\* Of the rows that claim one settlement, one is known by its hash.
LEMMA OneClaimFollows == AdmissionInv => OneClaimPerSettlement
<1> SUFFICES ASSUME AdmissionInv, NEW a \in rows, NEW b \in rows, a.claims, b.claims,
                    a.sub.ref.tx = b.sub.ref.tx, a # b
             PROVE  /\ a.basis = "legacy" /\ b.basis = "legacy"
                    /\ a.level = "onchain_verified" => b.level # "onchain_verified"
  BY DEF OneClaimPerSettlement
<1>1. a.basis = "legacy" /\ b.basis = "legacy"
  BY DEF AdmissionInv, ClaimsOK
<1>2. RowFromBefore(a) /\ RowFromBefore(b)
  BY <1>1 DEF AdmissionInv, RowsOK, RowOK, RowOfToday
<1>3. a.key.ref.tx = a.sub.ref.tx /\ b.key.ref.tx = b.sub.ref.tx
  BY <1>2, OldTx
<1>4. ~(IsHashReference(a.key.ref) /\ IsHashReference(b.key.ref))
  BY <1>1, <1>3 DEF AdmissionInv, OldRowsOK
<1>5. QED
  BY <1>1, <1>2, <1>4 DEF RowFromBefore

LEMMA UpdatedRow ==
    ASSUME NEW row, IsRow(row), NEW x, NEW check
    PROVE  LET n == Updated(row, x, check) IN
           /\ IsRow(n) /\ SameReview(row, n) /\ n.failure = check.failure
           /\ check.failure = "none" => n.level = "onchain_verified" /\ n.payer = row.wallet
           /\ check.failure # "none" => n.level = row.level /\ n.payer = row.payer
<1> DEFINE n == Updated(row, x, check)
<1>1. n = [id |-> row.id, sub |-> row.sub, wallet |-> row.wallet, key |-> row.key,
           claims |-> row.claims,
           level |-> IF check.failure = "none" THEN "onchain_verified" ELSE row.level,
           basis |-> row.basis,
           payer |-> IF check.failure = "none" THEN row.wallet ELSE row.payer,
           failure |-> check.failure, attempts |-> x.attempts + 1, recent |-> row.recent]
  BY DEF Updated, IsRow
<1>2. QED
  BY <1>1 DEF IsRow, SameReview

LEMMA InitInv == ASSUME Init PROVE AdmissionInv
<1>1. PICK s \in Scenario : asks = s.asks /\ rows = s.history
  BY DEF Init
<1>2. Cardinality(rows) \in Nat /\ nextId = 1 + Cardinality(rows)
  BY <1>1, ScenarioAssumption, FS_CardinalityType DEF Init
<1>3. \A row \in rows : IsLegacy(row) /\ row.id \in 1..Cardinality(rows)
  BY <1>1, ScenarioAssumption
<1>4. RowsOK
  BY <1>2, <1>3 DEF RowsOK, RowOK, RowFromBefore, IsLegacy
<1>5. IdsUnique /\ ClaimsOK
  BY <1>1, <1>3, ScenarioAssumption DEF IdsUnique, ClaimsOK, IsLegacy
<1>10. OldRowsOK
  BY <1>1, <1>3, ScenarioAssumption DEF OldRowsOK, IsLegacy
<1>6. OneWeightedReview
  BY <1>3 DEF OneWeightedReview, IsLegacy
<1>7. Chains
  BY DEF Chains, Init
<1>8. CheckedOK /\ SelectedOK
  BY DEF CheckedOK, CallOK, SelectedOK, Init
<1>9. QED
  BY <1>1, <1>2, <1>4, <1>5, <1>6, <1>7, <1>8, <1>10, ScenarioAssumption DEF AdmissionInv, Init

(***************************************************************************)
(* Steps of the chains and of the deployment.                              *)
(***************************************************************************)
LEMMA ChainKeepsInv ==
    ASSUME AdmissionInv, (\E tx \in Tx : Settle(tx)) \/ (\E network \in EvmNetworks : Pin(network))
    PROVE  AdmissionInv'
<1>1. /\ (\E tx \in Tx : Settle(tx)) \/ UNCHANGED ledger
      /\ UNCHANGED <<asks, rows, deletedKeys, nextId, checked, candidates>>
  BY DEF Settle, Pin
<1>2. Chains'
  BY <1>1, ShownStays DEF AdmissionInv
<1>3. RowsOK'
  BY <1>1, RowStays DEF AdmissionInv, RowsOK
<1>4. CheckedOK'
  BY <1>1, CallStays DEF AdmissionInv, CheckedOK
<1>5. SelectedOK' /\ IdsUnique' /\ ClaimsOK' /\ OldRowsOK' /\ OneWeightedReview'
  BY <1>1 DEF AdmissionInv, SelectedOK, IdsUnique, ClaimsOK, OldRowsOK, IsHashReference, IsHash,
              PaymentKey, CanonicalReference, OneWeightedReview
<1>6. QED
  BY <1>1, <1>2, <1>3, <1>4, <1>5 DEF AdmissionInv

(***************************************************************************)
(* Steps of review_service and delete_my_review.                           *)
(***************************************************************************)
LEMMA CheckKeepsInv ==
    ASSUME AdmissionInv, NEW c \in Call, NEW sub \in asks, Check(c, sub)
    PROVE  AdmissionInv'
<1>1. /\ checked' = [d \in Call |-> checked'[d]]
      /\ \A d \in Call : d # c => checked'[d] = checked[d]
      /\ UNCHANGED <<ledger, asks, rows, deletedKeys, nextId, candidates>>
  BY DEF Check, AdmissionInv, chain
<1>2. PICK v \in VerifyReviewPayment(sub) :
        /\ v.ok /\ checked'[c] = [sub |-> sub, verdict |-> v]
        /\ sub.attestation # None => Attested(sub, ReviewerOf(sub))
  BY DEF Check, AdmissionInv
<1>3. IsAsked(sub) /\ Backed(sub, v)
  BY <1>2, VerdictBacks DEF AdmissionInv
<1>4. /\ Chains' /\ RowsOK' /\ IdsUnique' /\ ClaimsOK' /\ OldRowsOK'
      /\ OneWeightedReview' /\ SelectedOK'
  <2>1. RowsOK'
    BY <1>1, RowStays DEF AdmissionInv, RowsOK
  <2>2. QED
    BY <1>1, <2>1 DEF AdmissionInv, Chains, IdsUnique, ClaimsOK, OldRowsOK, IsHashReference, IsHash,
                      PaymentKey, CanonicalReference, OneWeightedReview, SelectedOK
<1>5. CheckedOK'
  <2>1. \A d \in Call : d # c => CallOK(d)'
    BY <1>1, CallStays DEF AdmissionInv, CheckedOK
  <2>2. CallOK(c)'
    <3>1. Backed(sub, v)'
      BY <1>1, <1>3, BackedStays DEF AdmissionInv
    <3>2. QED
      BY <1>2, <1>3, <3>1 DEF CallOK
  <2>3. QED
    BY <2>1, <2>2 DEF CheckedOK
<1>6. QED
  BY <1>1, <1>4, <1>5 DEF AdmissionInv

\* One transaction has one canonical reference.
LEMMA OneReference ==
    ASSUME NEW s1, NEW s2, IsAsked(s1), IsAsked(s2), s1.ref # None, s2.ref # None,
           s1.ref.tx = s2.ref.tx
    PROVE  CanonicalReference(s1.ref) = CanonicalReference(s2.ref)
BY DEF IsAsked, CanonicalReference

\* A row of today that is not used up by a submission of its payment.
LEMMA NotUsed ==
    ASSUME NEW row, RowOK(row), RowOfToday(row), NEW sub, IsAsked(sub), sub.ref # None,
           ~Uses(row, sub), row.sub.ref # None, row.sub.ref.tx = sub.ref.tx
    PROVE  /\ ~row.claims
           /\ row.wallet # None => row.wallet # ReviewerOf(sub)
<1>1. CanonicalReference(row.sub.ref) = CanonicalReference(sub.ref)
  BY OneReference DEF RowOK
<1>2. ~row.claims
  BY <1>1 DEF RowOfToday, KeyOf, PaymentKey, Uses
<1>3. ASSUME row.wallet # None, row.wallet = ReviewerOf(sub) PROVE FALSE
  <2>1. row.key = UnlinkedKey(row.wallet, sub.ref)
    BY <1>1, <1>2, <1>3 DEF RowOfToday, KeyOf, UnlinkedKey, ReviewerOf
  <2>2. QED
    BY <2>1, <1>3 DEF Uses
<1>4. QED
  BY <1>2, <1>3

\* A settlement of an old row is used up, or was deleted with the row that had
\* its bare reference.
LEMMA OldUsesUp ==
    ASSUME AdmissionInv, NEW row \in rows, row.basis = "legacy", NEW sub, NEW verdict,
           IsAsked(sub), sub.ref # None, row.sub.ref.tx = sub.ref.tx,
           ReplayKeys(sub, verdict) \cap deletedKeys = {}
    PROVE  \E x \in rows : Uses(x, sub)
<1>1. RowFromBefore(row) /\ IsAsked(row.sub)
  BY DEF AdmissionInv, RowsOK, RowOK, RowOfToday
<1>2. CanonicalReference(row.sub.ref) = CanonicalReference(sub.ref)
  BY <1>1, OneReference DEF RowFromBefore
<1>3. PaymentKey(row.sub.ref) \notin deletedKeys
  BY <1>2 DEF PaymentKey, ReplayKeys
<1>4. PICK x \in rows : x.key = OldKey(Bared(row.sub.ref))
  BY <1>3 DEF AdmissionInv, OldRowsOK
<1>5. CASE IsHash(sub.ref.tx)
  <2>4. PICK b : b = Bared(row.sub.ref)
    OBVIOUS
  <2>5. b.prefix = "" /\ b.tx = sub.ref.tx
    BY <2>4, OldKeyParts
  <2>6. x.key = OldKey(b)
    BY <1>4, <2>4
  <2>1. x.key.by = None /\ x.key.ref = b
    BY <2>6 DEF OldKey
  <2>2. IsHashReference(x.key.ref) /\ x.key.ref.tx = sub.ref.tx
    BY <1>5, <2>1, <2>5 DEF IsHashReference
  <2>3. QED
    BY <2>1, <2>2 DEF Uses
<1>6. CASE ~IsHash(sub.ref.tx)
  <2>1. row.sub.ref.capitals = FALSE /\ sub.ref.capitals = FALSE
    BY <1>1, <1>6 DEF IsAsked, RowFromBefore
  <2>2. x.key = PaymentKey(sub.ref)
    BY <1>4, <1>6, <2>1 DEF OldKey, Bared, PaymentKey, CanonicalReference
  <2>3. QED
    BY <2>2 DEF Uses
<1>7. QED
  BY <1>5, <1>6

\* What a verdict that holds makes of a submission.
LEMMA NewRowOK ==
    ASSUME NEW sub, NEW v, IsAsked(sub), Backed(sub, v), nextId \in Nat,
           sub.attestation # None => Attested(sub, ReviewerOf(sub))
    PROVE  RowOK(NewRow(sub, v)) /\ RowOfToday(NewRow(sub, v))
<1> DEFINE n == NewRow(sub, v)
<1>1. /\ n.id = nextId /\ n.sub = sub /\ n.wallet = ReviewerOf(sub) /\ n.key = v.key
      /\ n.claims = (sub.ref # None /\ v.claims)
      /\ n.level = IF sub.attestation = None THEN v.level ELSE "response_attested"
      /\ n.basis = Basis(sub) /\ n.payer = v.payer /\ n.failure = "none"
      /\ IsRow(n)
  BY DEF NewRow, IsRow
<1>2. RowOfToday(n)
  BY <1>1 DEF RowOfToday, Backed, KeyOf, Basis
<1>3. ASSUME sub.attestation # None
      PROVE  /\ sub.ref # None /\ ReviewerOf(sub) # None
             /\ sub.attestation.receipt.facts.ref.tx = sub.ref.tx
  BY <1>3 DEF Attested, Agrees, CanonicalReference
<1>4. n.basis = "hosted" => Weighty(n)
  <2> SUFFICES ASSUME n.basis = "hosted" PROVE Weighty(n)
    OBVIOUS
  <2>1. sub.attestation # None /\ WeightExclusion(sub.attestation) = "none"
    BY <1>1 DEF Basis
  <2>2. LET facts == sub.attestation.receipt.facts IN
        facts.payeeOwner # facts.owner /\ facts.amount >= MinAmount
    BY <2>1, AmountAssumption DEF WeightExclusion, IsAsked
  <2>3. QED
    BY <1>1, <1>3, <2>1, <2>2 DEF Weighty
<1>5. n.level = "onchain_verified" => sub.ref # None /\ Paid(sub, v.payer)
  BY <1>1 DEF Backed
<1>6. n.level = "response_attested" =>
        sub.ref # None /\ (Paid(sub, v.payer) \/ PaymentSeen(sub))
  BY <1>1, <1>3 DEF Backed
<1>7. QED
  BY <1>1, <1>2, <1>4, <1>5, <1>6 DEF RowOK

LEMMA StoreKeepsInv ==
    ASSUME AdmissionInv, NEW c \in Call, Store(c)
    PROVE  AdmissionInv'
<1>1. PICK sub, v : /\ sub = checked[c].sub /\ v = checked[c].verdict
                    /\ ReplayKeys(sub, v) \cap deletedKeys = {}
                    /\ \A row \in rows : ~Uses(row, sub) /\ ~SameReceipt(row, sub)
                    /\ rows' = rows \cup {NewRow(sub, v)}
  BY DEF Store
<1>2. /\ checked' = [d \in Call |-> checked'[d]]
      /\ \A d \in Call : checked'[d] = None \/ checked'[d] = checked[d]
      /\ nextId \in Nat /\ nextId' = nextId + 1
      /\ UNCHANGED <<ledger, asks, deletedKeys, candidates>>
  BY DEF Store, AdmissionInv, chain
<1>3. /\ IsAsked(sub) /\ Backed(sub, v)
      /\ sub.attestation # None => Attested(sub, ReviewerOf(sub))
  BY <1>1 DEF Store, AdmissionInv, CheckedOK, CallOK
<1> DEFINE n == NewRow(sub, v)
<1>4. RowOK(n) /\ RowOfToday(n)
  BY <1>2, <1>3, NewRowOK
<1>5. /\ n.id = nextId /\ n.sub = sub /\ n.wallet = ReviewerOf(sub)
      /\ n.claims => sub.ref # None
  BY DEF NewRow
<1>6. \A row \in rows : RowOK(row) /\ row.id \in Nat /\ row.id < nextId
  BY DEF AdmissionInv, RowsOK, RowOK
<1> HIDE DEF n
<1>7. RowsOK'
  <2>1. \A row \in rows' : RowOK(row) /\ row.id < nextId'
    BY <1>1, <1>2, <1>4, <1>5, <1>6 DEF n
  <2>2. QED
    BY <2>1, <1>2, RowStays DEF AdmissionInv, RowsOK
<1>8. IdsUnique'
  BY <1>1, <1>2, <1>5, <1>6 DEF AdmissionInv, IdsUnique, n
<1>9. ASSUME NEW row \in rows, n.sub.ref # None, row.sub.ref # None,
             row.sub.ref.tx = n.sub.ref.tx
      PROVE  ~row.claims /\ (row.wallet # None => row.wallet # n.wallet)
  <2>1. CASE RowOfToday(row)
    BY <1>1, <1>3, <1>5, <1>6, <1>9, <2>1, NotUsed
  <2>2. row.basis # "legacy"
    BY <1>1, <1>3, <1>5, <1>9, OldUsesUp
  <2>3. QED
    BY <1>6, <2>1, <2>2 DEF RowOK, RowFromBefore
<1>10. ClaimsOK'
  <2>1. \A row \in rows : row.claims => row.sub.ref # None
    BY <1>6 DEF RowOK, RowOfToday, RowFromBefore
  <2>2. \A row \in rows : ~(row.claims /\ n.claims /\ row.sub.ref.tx = n.sub.ref.tx)
    BY <1>5, <1>9, <2>1
  <2>3. \A a, b \in rows \cup {n} : a.claims /\ b.claims /\ a.sub.ref.tx = b.sub.ref.tx /\ a # b =>
          a.basis = "legacy" /\ b.basis = "legacy"
    BY <2>2 DEF AdmissionInv, ClaimsOK
  <2>4. QED
    BY <1>1, <2>3 DEF ClaimsOK, n
<1>15. OldRowsOK'
  <2>1. n.basis # "legacy"
    BY <1>4 DEF RowOfToday
  <2>2. rows' = rows \cup {n} /\ UNCHANGED deletedKeys
    BY <1>1, <1>2 DEF n
  <2>3. QED
    BY <2>1, <2>2 DEF AdmissionInv, OldRowsOK, IsHashReference, IsHash, PaymentKey, CanonicalReference
<1>11. OneWeightedReview'
  <2>1. \A row \in rows \cup {n} : row.basis = "hosted" => Weighty(row)
    BY <1>4, <1>6 DEF RowOK
  <2>2. \A row \in rows :
          row.basis = "hosted" /\ n.basis = "hosted" =>
            /\ ~(row.wallet = n.wallet /\ row.sub.ref.tx = n.sub.ref.tx)
            /\ row.sub.attestation.receipt # n.sub.attestation.receipt
    BY <1>1, <1>5, <1>9, <2>1 DEF Weighty, SameReceipt
  <2>3. \A a, b \in rows \cup {n} :
          a.basis = "hosted" /\ b.basis = "hosted" =>
            /\ a.wallet = b.wallet /\ a.sub.ref.tx = b.sub.ref.tx => a = b
            /\ a.sub.attestation.receipt = b.sub.attestation.receipt => a = b
    BY <2>2 DEF AdmissionInv, OneWeightedReview
  <2>4. QED
    BY <1>1, <2>1, <2>3 DEF OneWeightedReview, Weighty, n
<1>12. CheckedOK'
  <2>1. \A d \in Call : checked'[d] # None => CallOK(d)'
    BY <1>2, CallStays DEF AdmissionInv, CheckedOK
  <2>2. QED
    BY <2>1 DEF CheckedOK, CallOK
<1>13. SelectedOK'
  BY <1>1, <1>2, <1>5 DEF AdmissionInv, SelectedOK, n
<1>14. QED
  BY <1>2, <1>7, <1>8, <1>10, <1>11, <1>12, <1>13, <1>15 DEF AdmissionInv, Chains

\* A step that rewrites the rows and leaves what was verified alone.
LEMMA RewriteKeepsInv ==
    ASSUME AdmissionInv, Rewritten, RowsOK', OldRowsOK', SelectedOK', candidates' = [r \in Run |-> candidates'[r]],
           UNCHANGED <<ledger, asks, nextId, checked>>
    PROVE  AdmissionInv'
<1>1. CheckedOK'
  BY CallStays DEF AdmissionInv, CheckedOK
<1>2. IdsUnique' /\ ClaimsOK' /\ OneWeightedReview'
  BY RewrittenKeeps DEF AdmissionInv
<1>3. QED
  BY <1>1, <1>2 DEF AdmissionInv, Chains

LEMMA SelectedStays ==
    ASSUME AdmissionInv, Rewritten, UNCHANGED nextId,
           \A r \in Run : candidates'[r] = None \/ candidates'[r] = candidates[r]
    PROVE  SelectedOK'
<1>1. ASSUME NEW r \in Run, candidates[r] # None, NEW x \in candidates[r],
             NEW n \in rows', n.id = x.id
      PROVE  SameReview(x, n)
  <2>1. PICK o \in rows : SameReview(o, n)
    BY DEF Rewritten
  <2>2. SameReview(x, o)
    BY <1>1, <2>1 DEF AdmissionInv, SelectedOK, SameReview
  <2>3. QED
    BY <2>1, <2>2 DEF SameReview
<1>2. QED
  BY <1>1 DEF AdmissionInv, SelectedOK

LEMMA DeleteKeepsInv ==
    ASSUME AdmissionInv, NEW row \in rows, Delete(row)
    PROVE  AdmissionInv'
<1>1. rows' \subseteq rows /\ UNCHANGED <<ledger, asks, nextId, checked, candidates>>
  BY DEF Delete, chain
<1>2. Rewritten
  BY <1>1 DEF Rewritten, AdmissionInv, IdsUnique, SameReview
<1>3. RowsOK'
  BY <1>1, RowStays DEF AdmissionInv, RowsOK
<1>4. SelectedOK'
  BY <1>1, <1>2, SelectedStays
<1>6. OldRowsOK'
  <2>1. rows' = rows \ {row} /\ deletedKeys' = deletedKeys \cup {DeletedKey(row)}
    BY DEF Delete
  <2>2. ASSUME NEW a \in rows', a.basis = "legacy", PaymentKey(a.sub.ref) \notin deletedKeys'
        PROVE  \E x \in rows' : x.basis = "legacy" /\ x.key = OldKey(Bared(a.sub.ref))
    <3>1. PICK x \in rows : x.basis = "legacy" /\ x.key = OldKey(Bared(a.sub.ref))
      BY <2>1, <2>2 DEF AdmissionInv, OldRowsOK
    <3>2. CASE x = row
      <4>1. RowFromBefore(row) /\ IsAsked(row.sub) /\ RowFromBefore(a) /\ IsAsked(a.sub)
        BY <1>1, <2>2, <3>1, <3>2 DEF AdmissionInv, RowsOK, RowOK, RowOfToday
      <4>2. row.sub.ref.tx = a.sub.ref.tx
        <5>3. PICK b : b = Bared(a.sub.ref)
          OBVIOUS
        <5>4. b.tx = a.sub.ref.tx
          BY <5>3, OldKeyParts
        <5>6. row.key = OldKey(b)
          BY <3>1, <3>2, <5>3
        <5>5. row.key.ref = b
          BY <5>6 DEF OldKey
        <5>1. row.key.ref.tx = a.sub.ref.tx
          BY <5>4, <5>5
        <5>2. QED
          BY <4>1, <5>1, OldTx
      <4>3. DeletedKey(row) = PaymentKey(a.sub.ref)
        BY <4>1, <4>2, OneReference DEF DeletedKey, PaymentKey, RowFromBefore
      <4>4. QED
        BY <2>1, <2>2, <4>3
    <3>3. QED
      BY <2>1, <3>1, <3>2
  <2>3. QED
    BY <1>1, <2>2 DEF AdmissionInv, OldRowsOK, IsHashReference, IsHash, PaymentKey, CanonicalReference
<1>5. QED
  BY <1>1, <1>2, <1>3, <1>4, <1>6, RewriteKeepsInv DEF AdmissionInv

LEMMA AgedRow ==
    ASSUME NEW row, IsRow(row), NEW recent
    PROVE  LET n == [row EXCEPT !.recent = recent] IN
           /\ IsRow(n) /\ SameReview(row, n)
           /\ n.level = row.level /\ n.payer = row.payer /\ n.failure = row.failure
<1>1. [row EXCEPT !.recent = recent] =
        [id |-> row.id, sub |-> row.sub, wallet |-> row.wallet, key |-> row.key,
         claims |-> row.claims, level |-> row.level, basis |-> row.basis,
         payer |-> row.payer, failure |-> row.failure, attempts |-> row.attempts,
         recent |-> recent]
  BY DEF IsRow
<1>2. QED
  BY <1>1 DEF IsRow, SameReview

LEMMA AgeKeepsInv ==
    ASSUME AdmissionInv, NEW row \in rows, Age(row)
    PROVE  AdmissionInv' /\ Rewritten
<1> DEFINE n == [row EXCEPT !.recent = FALSE]
<1>1. /\ rows' = (rows \ {row}) \cup {n}
      /\ UNCHANGED <<ledger, asks, deletedKeys, nextId, checked, candidates>>
  BY DEF Age, chain
<1>2. RowOK(row) /\ IsRow(row) /\ row.id < nextId
  BY DEF AdmissionInv, RowsOK, RowOK
<1>3. /\ IsRow(n) /\ SameReview(row, n)
      /\ n.level = row.level /\ n.payer = row.payer /\ n.failure = row.failure
  BY <1>2, AgedRow
<1> HIDE DEF n
<1>4. RowOK(n) /\ n.id < nextId
  BY <1>2, <1>3 DEF RowOK, RowOfToday, RowFromBefore, Weighty, SameReview
<1>5. Rewritten
  BY <1>1, <1>3 DEF Rewritten, AdmissionInv, IdsUnique, SameReview
<1>6. RowsOK'
  BY <1>1, <1>4, RowStays DEF AdmissionInv, RowsOK
<1>7. SelectedOK'
  BY <1>1, <1>5, SelectedStays
<1>9. OldRowsOK'
  <2>1. \A o \in rows : \E m \in rows' : SameReview(o, m)
    BY <1>1, <1>3 DEF SameReview
  <2>2. QED
    BY <1>1, <1>5, <2>1, KeptRows DEF AdmissionInv
<1>8. QED
  BY <1>1, <1>5, <1>6, <1>7, <1>9, RewriteKeepsInv DEF AdmissionInv

(***************************************************************************)
(* Steps of run_payment_reverification.                                    *)
(***************************************************************************)
LEMMA SelectKeepsInv ==
    ASSUME AdmissionInv, NEW r \in Run, Select(r)
    PROVE  AdmissionInv'
<1>1. /\ candidates' = [candidates EXCEPT ![r] = {row \in rows : Candidate(row)}]
      /\ UNCHANGED <<ledger, asks, rows, deletedKeys, nextId, checked>>
  BY DEF Select, chain
<1>2. \A x \in rows : Candidate(x) => RowFromBefore(x) /\ IsAsked(x.sub) /\ x.id \in Nat /\ x.id < nextId
  BY DEF AdmissionInv, RowsOK, RowOK, RowOfToday, Candidate
<1>3. SelectedOK'
  <2>1. ASSUME NEW q \in Run, candidates'[q] # None, NEW x \in candidates'[q]
        PROVE  /\ x.id \in Nat /\ x.id < nextId /\ RowFromBefore(x) /\ IsAsked(x.sub)
               /\ \A row \in rows : row.id = x.id => SameReview(x, row)
               /\ \A y \in candidates'[q] : x.id = y.id => x = y
    <3>1. CASE q = r
      BY <1>1, <1>2, <2>1, <3>1 DEF AdmissionInv, IdsUnique, SameReview
    <3>2. CASE q # r
      BY <1>1, <2>1, <3>2 DEF AdmissionInv, SelectedOK
    <3>3. QED
      BY <3>1, <3>2
  <2>2. QED
    BY <1>1, <2>1 DEF SelectedOK
<1>4. Rewritten
  BY <1>1 DEF Rewritten, AdmissionInv, IdsUnique, SameReview
<1>5. RowsOK'
  BY <1>1, RowStays DEF AdmissionInv, RowsOK
<1>7. OldRowsOK'
  BY <1>1, <1>4, KeptRows DEF AdmissionInv, SameReview
<1>6. QED
  BY <1>1, <1>3, <1>4, <1>5, <1>7, RewriteKeepsInv DEF AdmissionInv

LEMMA CrashKeepsInv ==
    ASSUME AdmissionInv, NEW r \in Run, Crash(r)
    PROVE  AdmissionInv'
<1>1. /\ candidates' = [candidates EXCEPT ![r] = None]
      /\ UNCHANGED <<ledger, asks, rows, deletedKeys, nextId, checked>>
  BY DEF Crash, chain
<1>2. Rewritten
  BY <1>1 DEF Rewritten, AdmissionInv, IdsUnique, SameReview
<1>3. SelectedOK'
  BY <1>1, <1>2, SelectedStays DEF AdmissionInv
<1>4. RowsOK'
  BY <1>1, RowStays DEF AdmissionInv, RowsOK
<1>7. OldRowsOK'
  BY <1>1, <1>2, KeptRows DEF AdmissionInv, SameReview
<1>5. QED
  BY <1>1, <1>2, <1>3, <1>4, <1>7, RewriteKeepsInv DEF AdmissionInv

\* What a run writes: the row that still has the id of a selected one, with
\* what the chain has answered for the payment that both are about.
Rechecked(old, new) ==
    \E x, check :
      /\ RowFromBefore(x) /\ IsAsked(x.sub) /\ SameReview(x, old)
      /\ IsHashReference(x.key.ref) /\ check \in Recheck(x)
      /\ new = Updated(old, x, check)

LEMMA RecheckedRowOK ==
    ASSUME Chains, NEW old, RowOK(old), NEW new, Rechecked(old, new)
    PROVE  /\ RowOK(new) /\ SameReview(old, new)
           /\ old.level \in VerifiedLevels => new.level = old.level
<1>1. PICK x, check :
        /\ RowFromBefore(x) /\ IsAsked(x.sub) /\ SameReview(x, old)
        /\ IsHashReference(x.key.ref) /\ check \in Recheck(x)
        /\ new = Updated(old, x, check)
  BY DEF Rechecked
<1>2. /\ IsRow(new) /\ SameReview(old, new)
      /\ check.failure = "none" => new.level = "onchain_verified" /\ new.payer = old.wallet
      /\ check.failure # "none" => new.level = old.level /\ new.payer = old.payer
  BY <1>1, UpdatedRow DEF RowOK
<1>3. RowFromBefore(old)
  BY <1>1 DEF RowOK, RowOfToday, RowFromBefore, SameReview
<1>4. RowFromBefore(new)
  BY <1>1, <1>2, <1>3 DEF RowFromBefore, SameReview
<1>5. ASSUME check.failure = "none" PROVE Paid(new.sub, new.payer)
  <2>1. /\ x.key.ref.tx = x.sub.ref.tx /\ x.sub.ref.tx \in Tx
        /\ x.wallet = x.sub.wallet /\ x.sub = new.sub
    BY <1>1, <1>2, OldTx DEF RowFromBefore, IsAsked, SameReview
  <2>2. PICK network : check \in CheckReference(x.sub.provider, network, x.sub.ref.tx, x.wallet, x.sub.payee)
    BY <1>1, <2>1 DEF Recheck
  <2>3. Transferred(x.sub.ref.tx, x.wallet, x.sub.payee)
    BY <1>5, <2>1, <2>2, ChainBacks
  <2>4. QED
    BY <1>1, <1>2, <1>5, <2>1, <2>3 DEF Transferred, Paid, PaidByWallet, SameReview
<1>6. RowOK(new)
  BY <1>2, <1>3, <1>4, <1>5 DEF RowOK, SameReview, RowFromBefore
<1>7. QED
  BY <1>2, <1>3, <1>6 DEF VerifiedLevels, RowFromBefore

LEMMA ReverifyRewrites ==
    ASSUME AdmissionInv, NEW r \in Run, Reverify(r)
    PROVE  /\ Rewritten
           /\ \A n \in rows' : n \in rows \/ \E o \in rows : Rechecked(o, n)
           /\ \A o \in rows : \E n \in rows' : SameReview(o, n)
<1> DEFINE due == {row \in candidates[r] : IsHashReference(row.key.ref)}
<1>1. PICK answers :
        /\ \A x \in due : answers[x] \in Recheck(x)
        /\ rows' = {row \in rows : \A x \in due : x.id # row.id}
                     \cup {Updated(y[1], y[2], answers[y[2]]) :
                             y \in {z \in rows \X due : z[1].id = z[2].id}}
  BY DEF Reverify
<1>2. ASSUME NEW x \in due, NEW o \in rows, x.id = o.id
      PROVE  Rechecked(o, Updated(o, x, answers[x]))
  BY <1>1, <1>2 DEF AdmissionInv, SelectedOK, Rechecked, Reverify
<1>3. ASSUME NEW n \in rows', n \notin rows \/ \E x \in due : x.id = n.id
      PROVE  \E o \in rows : \E x \in due : o.id = x.id /\ n = Updated(o, x, answers[x])
  BY <1>1, <1>3
<1>4. \A n \in rows' : n \in rows \/ \E o \in rows : Rechecked(o, n)
  BY <1>2, <1>3
<1>5. Rewritten
  <2>1. \A n \in rows' : \E o \in rows : SameReview(o, n)
    BY <1>4, RecheckedRowOK DEF AdmissionInv, RowsOK, SameReview
  <2>2. ASSUME NEW m \in rows', NEW n \in rows', m.id = n.id PROVE m = n
    <3>1. CASE \E x \in due : x.id = m.id
      <4>1. PICK o \in rows, x \in due : o.id = x.id /\ m = Updated(o, x, answers[x])
        BY <1>3, <3>1
      <4>2. PICK p \in rows, y \in due : p.id = y.id /\ n = Updated(p, y, answers[y])
        BY <1>3, <3>1, <2>2
      <4>3. m.id = o.id /\ n.id = p.id
        BY <4>1, <4>2, UpdatedRow DEF AdmissionInv, RowsOK, RowOK, SameReview
      <4>4. o = p /\ x = y
        BY <1>1, <2>2, <4>1, <4>2, <4>3 DEF AdmissionInv, IdsUnique, SelectedOK, Reverify
      <4>5. QED
        BY <4>1, <4>2, <4>4
    <3>2. CASE ~\E x \in due : x.id = m.id
      <4>1. m \in rows /\ n \in rows
        <5>1. \A o \in rows, x \in due : Updated(o, x, answers[x]).id = o.id
          BY UpdatedRow DEF AdmissionInv, RowsOK, RowOK, SameReview
        <5>2. QED
          BY <1>1, <2>2, <3>2, <5>1
      <4>2. QED
        BY <2>2, <4>1 DEF AdmissionInv, IdsUnique
    <3>3. QED
      BY <3>1, <3>2
  <2>3. QED
    BY <2>1, <2>2 DEF Rewritten
<1>7. ASSUME NEW o \in rows PROVE \E n \in rows' : SameReview(o, n)
  <2>1. CASE \E x \in due : x.id = o.id
    <3>1. PICK x \in due : x.id = o.id
      BY <2>1
    <3>2. Updated(o, x, answers[x]) \in rows'
      <4>1. <<o, x>> \in {z \in rows \X due : z[1].id = z[2].id}
        BY <3>1
      <4>2. QED
        BY <1>1, <4>1
    <3>3. QED
      BY <3>2, UpdatedRow DEF AdmissionInv, RowsOK, RowOK
  <2>2. QED
    BY <1>1, <2>1 DEF SameReview
<1>6. QED
  BY <1>4, <1>5, <1>7

LEMMA ReverifyKeepsInv ==
    ASSUME AdmissionInv, NEW r \in Run, Reverify(r)
    PROVE  AdmissionInv'
<1>1. /\ candidates' = [candidates EXCEPT ![r] = None]
      /\ UNCHANGED <<ledger, asks, deletedKeys, nextId, checked>>
  BY DEF Reverify, chain
<1>2. Rewritten /\ \A n \in rows' : n \in rows \/ \E o \in rows : Rechecked(o, n)
  BY ReverifyRewrites
<1>3. SelectedOK'
  BY <1>1, <1>2, SelectedStays DEF AdmissionInv
<1>4. RowsOK'
  <2>1. \A n \in rows' : RowOK(n) /\ n.id < nextId
    BY <1>2, RecheckedRowOK DEF AdmissionInv, RowsOK, SameReview
  <2>2. QED
    BY <1>1, <2>1, RowStays DEF AdmissionInv, RowsOK
<1>6. OldRowsOK'
  BY <1>1, <1>2, ReverifyRewrites, KeptRows DEF AdmissionInv
<1>5. QED
  BY <1>1, <1>2, <1>3, <1>4, <1>6, RewriteKeepsInv DEF AdmissionInv

(***************************************************************************)
(* Every step keeps the invariant.                                         *)
(***************************************************************************)
LEMMA NextKeepsInv == ASSUME AdmissionInv, [Next]_vars PROVE AdmissionInv'
<1>1. CASE (\E tx \in Tx : Settle(tx)) \/ (\E network \in EvmNetworks : Pin(network))
  BY <1>1, ChainKeepsInv
<1>2. CASE \E c \in Call, sub \in asks : Check(c, sub)
  BY <1>2, CheckKeepsInv
<1>3. CASE \E c \in Call : Store(c)
  BY <1>3, StoreKeepsInv
<1>4. CASE \E row \in rows : Delete(row)
  BY <1>4, DeleteKeepsInv
<1>5. CASE \E row \in rows : Age(row)
  BY <1>5, AgeKeepsInv
<1>6. CASE \E r \in Run : Select(r)
  BY <1>6, SelectKeepsInv
<1>7. CASE \E r \in Run : Reverify(r)
  BY <1>7, ReverifyKeepsInv
<1>8. CASE \E r \in Run : Crash(r)
  BY <1>8, CrashKeepsInv
<1>9. CASE (\E c \in Call, sub \in asks : Refuse(c, sub)) \/ (\E c \in Call : End(c)) \/ UNCHANGED vars
  <2>1. /\ UNCHANGED <<ledger, asks, rows, deletedKeys, nextId, candidates>>
        /\ checked' = [c \in Call |-> checked'[c]]
        /\ \A c \in Call : checked'[c] = None \/ checked'[c] = checked[c]
    BY <1>9 DEF Refuse, End, vars, chain, AdmissionInv
  <2>2. CheckedOK'
    <3>1. \A c \in Call : checked'[c] # None => CallOK(c)'
      BY <2>1, CallStays DEF AdmissionInv, CheckedOK
    <3>2. QED
      BY <3>1 DEF CheckedOK, CallOK
  <2>3. RowsOK'
    BY <2>1, RowStays DEF AdmissionInv, RowsOK
  <2>4. QED
    BY <2>1, <2>2, <2>3
    DEF AdmissionInv, Chains, IdsUnique, ClaimsOK, OldRowsOK, IsHashReference, IsHash, PaymentKey,
        CanonicalReference, OneWeightedReview, SelectedOK
<1>10. QED
  BY <1>1, <1>2, <1>3, <1>4, <1>5, <1>6, <1>7, <1>8, <1>9 DEF Next

(***************************************************************************)
(* The invariant holds, whatever is submitted, settles, fails or is aged.  *)
(***************************************************************************)
THEOREM AdmissionInvariance == Spec => []AdmissionInv
BY InitInv, NextKeepsInv, PTL DEF Spec

(***************************************************************************)
(* A verified review was paid for.                                         *)
(***************************************************************************)
THEOREM VerifiedMeansPaidAlways == Spec => []VerifiedMeansPaid
<1>1. AdmissionInv => VerifiedMeansPaid
  BY DEF AdmissionInv, RowsOK, RowOK, VerifiedMeansPaid
<1>2. QED
  BY <1>1, AdmissionInvariance, PTL

(***************************************************************************)
(* A review claims no settlement that another row claims; only old rows    *)
(* share one, and one of them at most is verified.                         *)
(***************************************************************************)
THEOREM OneClaimPerSettlementAlways == Spec => []OneClaimPerSettlement
<1>1. AdmissionInv => OneClaimPerSettlement
  BY OneClaimFollows
<1>2. QED
  BY <1>1, AdmissionInvariance, PTL

(***************************************************************************)
(* A wallet has one weighted review of a payment, and a receipt one of any *)
(* wallet.                                                                 *)
(***************************************************************************)
THEOREM OneWeightedReviewAlways == Spec => []OneWeightedReview
<1>1. AdmissionInv => OneWeightedReview
  BY DEF AdmissionInv
<1>2. QED
  BY <1>1, AdmissionInvariance, PTL

(***************************************************************************)
(* No step brings a row back, or takes a verification away from one.       *)
(***************************************************************************)
THEOREM NothingTakenBackAlways == Spec => NothingTakenBack
<1> DEFINE A == \A new \in rows' : new.id < nextId =>
                  \E old \in rows :
                    /\ old.id = new.id /\ old.sub = new.sub /\ old.key = new.key
                    /\ old.level \in VerifiedLevels => new.level = old.level
<1>1. AdmissionInv /\ [Next]_vars => [A]_vars
  <2> SUFFICES ASSUME AdmissionInv, Next, NEW new \in rows', new.id < nextId
               PROVE  \E old \in rows :
                        /\ old.id = new.id /\ old.sub = new.sub /\ old.key = new.key
                        /\ old.level \in VerifiedLevels => new.level = old.level
    OBVIOUS
  <2>1. ASSUME NEW r \in Run, Reverify(r)
        PROVE  new \in rows \/ \E old \in rows : Rechecked(old, new)
    BY <2>1, ReverifyRewrites
  <2>2. ASSUME NEW c \in Call, Store(c) PROVE new \in rows
    <3>1. PICK sub, v : rows' = rows \cup {NewRow(sub, v)}
      BY <2>2 DEF Store
    <3>2. NewRow(sub, v).id = nextId /\ nextId \in Nat
      BY DEF NewRow, AdmissionInv
    <3>3. QED
      BY <3>1, <3>2
  <2>3. ASSUME NEW row \in rows, Age(row)
        PROVE  \E old \in rows : old.id = new.id /\ old.sub = new.sub /\ old.key = new.key
                                 /\ new.level = old.level
    <3>1. rows' = (rows \ {row}) \cup {[row EXCEPT !.recent = FALSE]}
      BY <2>3 DEF Age
    <3>2. IsRow(row)
      BY DEF AdmissionInv, RowsOK, RowOK
    <3>3. LET n == [row EXCEPT !.recent = FALSE] IN
          n.id = row.id /\ n.sub = row.sub /\ n.key = row.key /\ n.level = row.level
      BY <3>2 DEF IsRow
    <3>4. QED
      BY <3>1, <3>3
  <2>4. new \in rows \/ (\E old \in rows : Rechecked(old, new))
          \/ \E old \in rows : old.id = new.id /\ old.sub = new.sub /\ old.key = new.key
                               /\ new.level = old.level
    BY <2>1, <2>2, <2>3 DEF Next, Settle, Pin, Refuse, Check, End, Delete, Select, Crash
  <2>5. QED
    BY <2>4, RecheckedRowOK DEF AdmissionInv, RowsOK, SameReview
<1>2. QED
  BY <1>1, AdmissionInvariance, PTL DEF Spec, NothingTakenBack

(***************************************************************************)
(* What is final.  Once a transaction is known on a network whose token is *)
(* configured, the chain answers the same for ever, or does not answer.    *)
(***************************************************************************)
ChainStep ==
    /\ (\E tx \in Tx : Settle(tx)) \/ UNCHANGED ledger
    /\ pinned \subseteq pinned'

NoAnswer == {"rpc_unreachable", "token_not_pinned", "payee_unknown"}

LEMMA AnswerStays ==
    ASSUME Chains, ChainStep, NEW provider, NEW network, NEW tx \in Tx, NEW from, NEW payee,
           NEW check \in CheckReference(provider, network, tx, from, payee),
           check.failure \notin NoAnswer
    PROVE  /\ CheckReference(provider, network, tx, from, payee)'
                = CheckReference(provider, network, tx, from, payee)
           /\ \A d \in CheckReference(provider, network, tx, from, payee) :
                d = check \/ d = Failed("rpc_unreachable")
<1> DEFINE Machine == IF provider = "mppx" THEN {"tempo"} ELSE X402EvmNetworks
<1>1. CASE network \notin Machine
  BY <1>1 DEF CheckReference
<1>2. CASE network \in Machine
  <2>1. network \in pinned /\ network \in pinned' /\ payee \in EvmPayee
    BY <1>2 DEF CheckReference, Failed, NoAnswer, ChainStep
  <2>2. check \in EvmAnswers(network, tx, from, payee)
    BY <1>2, <2>1 DEF CheckReference, Failed, NoAnswer
  <2>3. ledger[tx] # "absent" /\ ledger'[tx] = ledger[tx]
    BY <2>2 DEF EvmAnswers, Visible, ChainStep, Settle, Chains
  <2>4. EvmAnswers(network, tx, from, payee)' = EvmAnswers(network, tx, from, payee)
    BY <2>3 DEF EvmAnswers, Visible
  <2>5. EvmAnswers(network, tx, from, payee) = {check}
    BY <2>2 DEF EvmAnswers
  <2>6. QED
    BY <1>2, <2>1, <2>4, <2>5 DEF CheckReference
<1>3. QED
  BY <1>1, <1>2

LEMMA SolanaAnswerStays ==
    ASSUME Chains, ChainStep, NEW tx \in Tx, NEW payee, NEW named,
           NEW check \in CheckSolana(tx, payee, named), check.failure \notin NoAnswer
    PROVE  /\ CheckSolana(tx, payee, named)' = CheckSolana(tx, payee, named)
           /\ \A d \in CheckSolana(tx, payee, named) : d = check \/ d = Failed("rpc_unreachable")
<1>1. "solana" \in pinned /\ "solana" \in pinned' /\ payee \in SolanaPayee
  BY DEF CheckSolana, Failed, NoAnswer, ChainStep
<1>2. check \in SolanaAnswers(tx, payee, named)
  BY <1>1 DEF CheckSolana, Failed, NoAnswer
<1>3. ledger[tx] # "absent" /\ ledger'[tx] = ledger[tx]
  BY <1>2 DEF SolanaAnswers, Visible, ChainStep, Settle, Chains
<1>4. SolanaAnswers(tx, payee, named)' = SolanaAnswers(tx, payee, named)
  BY <1>3 DEF SolanaAnswers, Visible
<1>5. SolanaAnswers(tx, payee, named) = {check}
  BY <1>2 DEF SolanaAnswers
<1>6. QED
  BY <1>1, <1>4, <1>5 DEF CheckSolana

Final(v) == ~v.ok /\ v.code \in FinalCodes

\* A refusal by the chain stays the only answer, for each way of payment.
LEMMA ByReference ==
    ASSUME Chains, ChainStep, NEW sub, IsAsked(sub), sub.ref # None,
           NEW v \in VerifyReference(sub), Final(v)
    PROVE  VerifyReference(sub)' = VerifyReference(sub) /\ \A w \in VerifyReference(sub) : ~w.ok
<1> DEFINE network == IF sub.provider = "mppx" THEN "tempo" ELSE PrefixNetwork(sub.ref)
           S == CheckReference(sub.provider, network, sub.ref.tx, sub.wallet, sub.payee)
<1>1. IsHash(sub.ref.tx)
  BY DEF VerifyReference, Final, FinalCodes, Refused
<1>2. VerifyReference(sub) = {VerifiedBy(sub, check) : check \in S}
  BY <1>1 DEF VerifyReference
<1>3. VerifyReference(sub)' = {VerifiedBy(sub, check) : check \in S'}
  BY <1>1 DEF VerifyReference
<1>4. PICK check \in S : v = VerifiedBy(sub, check)
  BY <1>2
<1>5. check.failure \notin NoAnswer
  BY <1>4 DEF Final, FinalCodes, VerifiedBy, ChainFailure, NoAnswer, Refused
<1>6. S' = S /\ \A d \in S : d = check \/ d = Failed("rpc_unreachable")
  BY <1>5, AnswerStays DEF IsAsked
<1>7. ~VerifiedBy(sub, check).ok /\ ~VerifiedBy(sub, Failed("rpc_unreachable")).ok
  BY <1>4 DEF Final, VerifiedBy, ChainFailure, Failed, Refused
<1>8. QED
  BY <1>2, <1>3, <1>6, <1>7

LEMMA ByMppx ==
    ASSUME Chains, ChainStep, NEW sub, IsAsked(sub), sub.ref # None,
           NEW v \in VerifyMppx(sub), Final(v)
    PROVE  VerifyMppx(sub)' = VerifyMppx(sub) /\ \A w \in VerifyMppx(sub) : ~w.ok
<1> DEFINE S == CheckReference("mppx", "tempo", sub.ref.tx, sub.wallet, sub.payee)
           Verdict(check) ==
             IF check.failure = "none" /\ sub.proof.recipient \notin {None, sub.payee}
             THEN Refused("payment_rejected") ELSE VerifiedBy(sub, check)
<1>1. v # Refused("payment_rejected") /\ v # Refused("payment_failed")
        /\ v # Refused("unsupported_payment_chain")
  BY DEF Final, FinalCodes, Refused
<1>2. /\ VerifyMppx(sub) = {Verdict(check) : check \in S}
      /\ VerifyMppx(sub)' = {Verdict(check) : check \in S'}
  BY <1>1 DEF VerifyMppx
<1>3. PICK check \in S : v = Verdict(check)
  BY <1>2
<1>4. check.failure \notin NoAnswer
  BY <1>3 DEF Final, FinalCodes, VerifiedBy, ChainFailure, NoAnswer, Refused
<1>5. S' = S /\ \A d \in S : d = check \/ d = Failed("rpc_unreachable")
  BY <1>4, AnswerStays DEF IsAsked
<1>6. ~Verdict(check).ok /\ ~Verdict(Failed("rpc_unreachable")).ok
  BY <1>3 DEF Final, VerifiedBy, ChainFailure, Failed, Refused
<1>7. QED
  BY <1>2, <1>5, <1>6

LEMMA ByX402 ==
    ASSUME Chains, ChainStep, NEW sub, IsAsked(sub), sub.ref # None,
           NEW v \in VerifyX402(sub), Final(v)
    PROVE  VerifyX402(sub)' = VerifyX402(sub) /\ \A w \in VerifyX402(sub) : ~w.ok
<1> DEFINE network == IF sub.proof.network = None THEN PrefixNetwork(sub.ref) ELSE sub.proof.network
           S == CheckReference("x402", network, sub.ref.tx, sub.wallet, sub.payee)
<1>1. v # Refused("payment_rejected") /\ v # Refused("unsupported_payment_reference")
        /\ v # Refused("unsupported_payment_chain")
  BY DEF Final, FinalCodes, Refused
<1>2. /\ VerifyX402(sub) = {VerifiedBy(sub, check) : check \in S}
      /\ VerifyX402(sub)' = {VerifiedBy(sub, check) : check \in S'}
  BY <1>1 DEF VerifyX402
<1>3. PICK check \in S : v = VerifiedBy(sub, check)
  BY <1>2
<1>4. check.failure \notin NoAnswer
  BY <1>3 DEF Final, FinalCodes, VerifiedBy, ChainFailure, NoAnswer, Refused
<1>5. S' = S /\ \A d \in S : d = check \/ d = Failed("rpc_unreachable")
  BY <1>4, AnswerStays DEF IsAsked
<1>6. ~VerifiedBy(sub, check).ok /\ ~VerifiedBy(sub, Failed("rpc_unreachable")).ok
  BY <1>3 DEF Final, VerifiedBy, ChainFailure, Failed, Refused
<1>7. QED
  BY <1>2, <1>5, <1>6

LEMMA BySolana ==
    ASSUME Chains, ChainStep, NEW sub, IsAsked(sub), sub.ref # None,
           NEW v \in VerifySolana(sub), Final(v)
    PROVE  VerifySolana(sub)' = VerifySolana(sub) /\ \A w \in VerifySolana(sub) : ~w.ok
<1> DEFINE S == CheckSolana(sub.ref.tx, sub.payee, Named(sub))
<1>1. v # Refused("payment_rejected")
  BY DEF Final, FinalCodes, Refused
<1>2. /\ VerifySolana(sub) = UNION {SolanaVerdicts(sub, check) : check \in S}
      /\ VerifySolana(sub)' = UNION {SolanaVerdicts(sub, check) : check \in S'}
  BY <1>1 DEF VerifySolana
<1>3. PICK check \in S : v \in SolanaVerdicts(sub, check)
  BY <1>2
<1>4. check.failure \notin NoAnswer
  BY <1>3 DEF Final, FinalCodes, SolanaVerdicts, ChainFailure, NoAnswer, Refused
<1>5. S' = S /\ \A d \in S : d = check \/ d = Failed("rpc_unreachable")
  BY <1>4, SolanaAnswerStays DEF IsAsked
<1>6. \A w \in SolanaVerdicts(sub, check) : ~w.ok
  BY <1>1, <1>3 DEF Final, SolanaVerdicts, LinkedTo, Observed, Admitted, ChainFailure, Refused
<1>7. \A w \in SolanaVerdicts(sub, Failed("rpc_unreachable")) : ~w.ok
  BY DEF SolanaVerdicts, ChainFailure, Failed, Refused
<1>8. QED
  BY <1>2, <1>5, <1>6, <1>7

LEMMA RefusalStays ==
    ASSUME Chains, ChainStep, NEW sub, IsAsked(sub),
           NEW v \in VerifyReviewPayment(sub), Final(v)
    PROVE  /\ VerifyReviewPayment(sub)' = VerifyReviewPayment(sub)
           /\ \A w \in VerifyReviewPayment(sub) : ~w.ok
<1>1. v # Refused("payment_rejected") /\ v # Placeholder(sub) /\ v # SignatureOnly(sub)
  BY DEF Final, FinalCodes, Refused, Placeholder, SignatureOnly, Admitted
<1>2. /\ ~Malformed(sub) /\ SignedByReviewer(sub) /\ sub.ref # None
      /\ sub.provider \in MachineProviders
  BY <1>1 DEF VerifyReviewPayment
<1>3. CASE sub.provider = "x402" /\ IsSolanaSignature(sub.ref)
  BY <1>2, <1>3, BySolana DEF VerifyReviewPayment
<1>4. CASE ~(sub.provider = "x402" /\ IsSolanaSignature(sub.ref)) /\ sub.proof = None
  BY <1>2, <1>4, ByReference DEF VerifyReviewPayment
<1>5. CASE ~(sub.provider = "x402" /\ IsSolanaSignature(sub.ref)) /\ sub.proof # None
  BY <1>2, <1>5, ByMppx, ByX402 DEF VerifyReviewPayment
<1>6. QED
  BY <1>3, <1>4, <1>5

(***************************************************************************)
(* The chain has refused what is refused, and has answered for the payment *)
(* of a row what the row says of it.                                       *)
(***************************************************************************)
RefusedOK ==
    \A sub \in refused :
      /\ IsAsked(sub)
      /\ \E v \in VerifyReviewPayment(sub) : Final(v)
      /\ \A v \in VerifyReviewPayment(sub) : ~v.ok

Told(row) == \E check \in Recheck(row) : check.failure = row.failure
Answered(row) == Told(row) /\ \A check \in Recheck(row) : check.failure # "none"
AnsweredOK == \A row \in rows : row.failure \in FinalFailures => Answered(row)

FinalInv == RefusedOK /\ AnsweredOK

\* A row with an answer is one from before, and keeps its answer.
LEMMA AnsweredStays ==
    ASSUME Chains, ChainStep, NEW row, RowOK(row), row.failure \in FinalFailures, Told(row)
    PROVE  Answered(row)'
<1> DEFINE network == RecordedNetwork(row.sub)
           S == CheckReference(row.sub.provider, network, row.key.ref.tx, row.wallet, row.sub.payee)
<1>1. row.key.ref.tx \in Tx
  BY OldTx DEF RowOK, RowOfToday, RowFromBefore, IsAsked, FinalFailures
<1>2. PICK check \in S : check.failure = row.failure
  BY DEF Told, Recheck
<1>3. check.failure \notin NoAnswer /\ check.failure # "none"
  BY <1>2 DEF FinalFailures, NoAnswer
<1>4. S' = S /\ \A d \in S : d = check \/ d = Failed("rpc_unreachable")
  BY <1>1, <1>3, AnswerStays
<1>5. QED
  BY <1>2, <1>3, <1>4 DEF Answered, Told, Recheck, RecordedNetwork, PrefixNetwork, Failed

LEMMA NextFinal ==
    ASSUME AdmissionInv, FinalInv, [Next]_vars
    PROVE  FinalInv'
<1>1. ChainStep
  BY DEF ChainStep, Next, vars, chain, Settle, Pin, Refuse, Check, Store, End, Delete, Select,
         Reverify, Crash, Age
<1>2. RefusedOK'
  <2>1. ASSUME NEW sub, IsAsked(sub), NEW v \in VerifyReviewPayment(sub), Final(v)
        PROVE  /\ \E w \in VerifyReviewPayment(sub)' : Final(w)
               /\ \A w \in VerifyReviewPayment(sub)' : ~w.ok
    BY <1>1, <2>1, RefusalStays DEF AdmissionInv
  <2>2. ASSUME NEW c \in Call, NEW sub \in asks, Refuse(c, sub), refused' # refused
        PROVE  /\ refused' = refused \cup {sub} /\ IsAsked(sub)
               /\ \E v \in VerifyReviewPayment(sub) : Final(v)
    BY <2>2 DEF Refuse, Final, AdmissionInv
  <2>3. refused' = refused \/ \E c \in Call, sub \in asks : Refuse(c, sub)
    BY DEF Next, vars, Settle, Pin, Check, Store, End, Delete, Select, Reverify, Crash, Age
  <2>4. QED
    BY <2>1, <2>2, <2>3 DEF FinalInv, RefusedOK
<1>3. AnsweredOK'
  <2>1. ASSUME NEW row \in rows, row.failure \in FinalFailures PROVE Answered(row)'
    BY <1>1, <2>1, AnsweredStays DEF AdmissionInv, RowsOK, FinalInv, AnsweredOK, Answered
  <2>2. ASSUME NEW old \in rows, NEW new, Rechecked(old, new), new.failure \in FinalFailures
        PROVE  Answered(new)'
    <3>1. PICK x, check :
            /\ SameReview(x, old) /\ check \in Recheck(x) /\ new = Updated(old, x, check)
      BY <2>2 DEF Rechecked
    <3>2. SameReview(old, new) /\ new.failure = check.failure
      BY <3>1, UpdatedRow DEF AdmissionInv, RowsOK, RowOK
    <3>3. Recheck(new) = Recheck(x)
      BY <3>1, <3>2 DEF SameReview, Recheck
    <3>4. RowOK(new)
      BY <2>2, RecheckedRowOK DEF AdmissionInv, RowsOK
    <3>5. QED
      BY <1>1, <2>2, <3>1, <3>2, <3>3, <3>4, AnsweredStays DEF AdmissionInv, Told
  <2>3. ASSUME NEW c \in Call, Store(c), NEW new \in rows', new \notin rows
        PROVE  new.failure = "none"
    BY <2>3 DEF Store, NewRow
  <2>4. ASSUME NEW old \in rows, Age(old), NEW new \in rows', new \notin rows,
               new.failure \in FinalFailures
        PROVE  FALSE
    <3>1. new = [old EXCEPT !.recent = FALSE] /\ old.failure = "rpc_unreachable"
      BY <2>4 DEF Age
    <3>2. new.failure = old.failure
      BY <3>1, AgedRow DEF AdmissionInv, RowsOK, RowOK
    <3>3. QED
      BY <2>4, <3>1, <3>2 DEF FinalFailures
  <2>5. ASSUME NEW new \in rows', new \notin rows, new.failure \in FinalFailures
        PROVE  Answered(new)'
    <3>1. CASE \E r \in Run : Reverify(r)
      BY <2>2, <2>5, <3>1, ReverifyRewrites
    <3>2. CASE \E c \in Call : Store(c)
      BY <2>3, <2>5, <3>2 DEF FinalFailures
    <3>3. CASE \E row \in rows : Age(row)
      BY <2>4, <2>5, <3>3
    <3>4. CASE rows' \subseteq rows
      BY <2>5, <3>4
    <3>5. QED
      BY <3>1, <3>2, <3>3, <3>4
      DEF Next, vars, Settle, Pin, Refuse, Check, End, Delete, Select, Crash
  <2>6. QED
    BY <2>1, <2>5 DEF AnsweredOK
<1>4. QED
  BY <1>2, <1>3 DEF FinalInv

(***************************************************************************)
(* Only an answer that the chain will not take back is final.              *)
(***************************************************************************)
THEOREM FinalIsFinalAlways == Spec => []FinalIsFinal
<1>1. Init => FinalInv
  <2> SUFFICES ASSUME Init PROVE FinalInv
    OBVIOUS
  <2>1. \A row \in rows : row.failure = "rpc_unreachable"
    BY ScenarioAssumption DEF Init, IsLegacy
  <2>2. QED
    BY <2>1 DEF Init, FinalInv, RefusedOK, AnsweredOK, FinalFailures
<1>2. AdmissionInv /\ FinalInv /\ [Next]_vars => FinalInv'
  BY NextFinal
<1>3. FinalInv => FinalIsFinal
  BY DEF FinalInv, RefusedOK, AnsweredOK, Answered, FinalIsFinal
<1>4. QED
  BY <1>1, <1>2, <1>3, AdmissionInvariance, PTL DEF Spec
=============================================================================
