# CrowdCode in TLA+

TLA+ models of the CrowdCode server and its jobs (`src/src/crowdcode`,
`src/scripts`, `src/supabase/schema.sql`) and of its local client
(`src/packages/mcp`), the TLC instances that check them, and proofs, checked by
TLAPS, of what they must never do. Paths below are relative to the repository's
`src/` unless they start with `src/`.

CrowdCode lets agents review paid services. An agent signs a review with a
wallet, proves a payment with a reference or sends a nonce instead, and the
server stores the review, scores the service, and publishes summaries, request
clusters and listings. What can go wrong is mostly concurrency over one
PostgreSQL database: transactions at READ COMMITTED that read before they take a
lock, jobs that read, talk to other hosts for minutes and write afterwards,
chains that answer late or not at all, and clients that retry calls whose answer
they did not see.

## The system

| Component | State | Operations | Modelled in |
|---|---|---|---|
| Review writes (`server.py` 719-1110, `review_management.py`) | `reviews`, `deleted_review_keys`, `services.score`, the advisory lock `lock_review_writes` | `review_service`, `delete_my_review` | `ReviewRecords`, `ReviewLifecycle`, `ReviewWrites` |
| Payment verification (`payments.py`, `solana.py`, `networks.py`) | none: it asks chains | decide level, payer and failure of a reference | `PaymentEvidence`, `Admission` |
| Attestations (`receipts.py`) | none | decide what a gateway's receipt proves, and what a review weighs | `PaymentEvidence`, `Admission` |
| Payment reverification (`cron.py` 76-167) | `reviews.payment_*`, attempts in `metadata` | select candidates, ask again, upgrade or give up | `Admission` |
| Scoring and owner trust (`scoring.py`, `reputation.py`) | `review_owners`, `services.score`, `n_eff_*` | votes, consensus of the others, replay, seed sync | `OwnerTrust` |
| Consistency sweep (`cron.py` 170-325, 540-570) | the same | replay trust from nothing, rescore, under the lock | `ReviewWrites` (as a transaction), `OwnerTrust` (what it computes) |
| Platform-defect exclusion (`scripts/exclude_platform_defect_reviews.py`) | `reviews.weight_exclusion`, the watermark, scores | exclude, rescore without the lock | `Summaries`, `OwnerTrust` |
| Service summaries (`cron.py` 328-490, `summaries.py`) | `services.review_summary`, `last_summarized_at`, `review_revision` | read inputs, close, generate, publish under the revision | `Summaries` |
| Service requests (`rate_limit.py`, `server.py` 205-330) | `service_requests` | `request_service`: count, insert | `RateLimit` |
| Identity and payees (`identity.py`) | `services`, `service_identifiers` | resolve, create, register a payee | `ServiceIdentity` |
| Advertised payees (`advertised.py`) | the process's cooldown table, `service_identifiers` | probe the service's own 402, register what it names | `ServiceIdentity` |
| Payee repair (`scripts/fix_machine_payees.py`) | the same, and `services.metadata` | replace an unusable payee, or declare that it rotates | `ServiceIdentity`, `ListingMetadata` |
| Agent listings (`agent_listings.py`) | `services.name`, `services.metadata` | refresh from the agent's manifest | `ListingMetadata` |
| Listing descriptions (`listing_metadata.py`) | `services.metadata`, the origin cache | `fill_descriptions` | `ListingMetadata` (without the origin cache) |
| Local client (`packages/mcp`: `server.ts`, `upstream.ts`, `preferences.ts`, `tools/`) | preferences, wallet, one call per review | sign, forward, send once more, sign again, drop the payer link | `ReviewClient` |
| Redaction (`redaction.py`, `services/redactor`, `packages/redaction`) | none | replace private text, fail closed | its failure, in `ReviewWrites` |
| Client installer, completion hook | configuration files of agents | install, update, remove | not modelled |
| Canonical encodings (`packages/mcp/src/canonical`) | none | the bytes that are signed | not modelled |
| Proposals and demand (`proposals.py`, `demand.py`) | clusters, publication | nightly clustering | not modelled |
| Discovery, read tools, HTTP routes | none | read one snapshot | not modelled: they change nothing |
| Frontend, plugins, skills, one-off scripts | static | | not modelled |

How they interact. The local client signs a review for the identity it believes
the service has and forwards it; a lost answer or a refused signature makes it
send again. `review_service` calls, in this order: `build_identity`, the 402
probe (`_learn_payees`, with its own connections), `resolve_service`, payment
verification and attestation over the network, `lock_review_writes`, the
deletion and replay checks, the redactor (under the lock), creation of the
service, the insert, the registration of the payee, the score, the commit, and a
background refresh of the listing. `delete_my_review` takes the same lock,
removes the row, remembers its key, replays every score and clears every
summary. The nightly `cron.main` re-verifies payments, sweeps scores, writes
summaries and refreshes listings, each job isolated from the failure of the
others, beside the live server; a server that starts writes the configured seed
owners. Operators run scripts whenever they like.

The behaviours that make this hard, and the property each part owes:

- **Review writes.** The service and the payment are looked at before the lock, a
  unique index may still refuse the row after every check, a rollback releases the
  lock before the conflicting row is read, and answers get lost. Owed: one review
  per payment and wallet, one claim per payment, one row per receipt, deleted
  reviews stay deleted, retries name one row, scores equal the stored reviews, and
  all of it together as if each call took effect at one instant.
- **Payments and attestations.** A node may not answer, or not show a transaction
  yet; a transaction has several spellings and old rows were stored as spelled; a
  Solana payment is observed by one and claimed by another; what was verified is
  stored later. Owed: a verified review was paid for, a settlement is claimed
  once, but for rows left from before, and weighed once, and only what a chain
  will not take back is final.
- **Reverification.** Runs overlap each other, submissions and deletions, and work
  on rows they read before the lock. Owed: nothing deleted returns, no
  verification is taken back, and every candidate is decided in the end.
- **Trust and scores.** Trust is earned from agreement with others, whose trust
  is earned in the same way; the seed sync and the exclusion script do not take
  the lock. Owed: a ring earns nothing, an owner has one vote, stored scores
  follow stored reviews, and the nightly jobs repair what was left behind.
- **Summaries.** The run reads several snapshots and publishes minutes later.
  Owed: no summary outlives a deleted review it was written from, and an
  undisturbed run considers what was stored when it began.
- **Rate limit.** Count and insert are not one step. Owed: an overshoot that
  stays bounded, and a `retry_after_seconds` that suffices.
- **Identity.** A review resolves its service up to three times, with other
  calls, probes and an operator's repair between. Owed: one service per
  endpoint, reviews on the service of their endpoint, payees only from 402s
  or proved payments, no refusal of a payee the 402 has just named.
- **Listings.** Two writers read `metadata`, wait on other hosts and write back
  what they read, a third waits and merges, a fourth appends. Owed: found text
  never passes for declared or curated text, evidence survives, and listings
  converge to what the agent declares.
- **Client.** Any of the messages sent for a review may take effect, at any time
  later. Owed: one stored review, none after its deletion, and no conflict of
  a review with itself.

## Modules

**`ReviewRecords`** holds the data: submissions as they leave
`verify_review_payment` (unpaid, verified, observed, placeholder), the replay
keys of `review_management.py`, the keys that block a payment
(`server.py` 882-930) and the test for a replay (`_unpaid_review_replay`). Hashes
are the tuples that are hashed; rating and reason hash are one `Body`. A review of
a payment may carry the gateway's receipt of the purchase, and the receipt names
that payment and service (`Attested`). `Clashing` is what the unique indexes
refuse: the canonical reference or nonce of a row, and its receipt
(`schema.sql` 223-231 and 274-278).

**`ReviewLifecycle`** is the abstract specification: `Ask`, then one atomic
action that changes the store and answers (or loses the answer).

**`ReviewWrites`** is the detailed one. Each call is a process with a program
counter. `Resolve`, `Verify`, `Authorize` happen before `LockReviewWrites`;
`CheckReplay`, `Redact`, `EnsureService`, `InsertReview` or `InsertConflict`,
`ScoreService` follow for a submission (a conflict of the nonce goes on to
`ReadAfterConflict`, a conflict of the receipt is refused at once), `SelectReview`
and `ReplayScores` for a deletion, `ReplayScores` alone for the sweep; `Commit`
publishes the transaction's own writes (`row`, `newScore`, `created`), and `Abort`
is any exception or the end of the process at any step. A commit may lose its
answer.

**`PaymentEvidence`** is `verify_review_payment`, the transfers of a Solana
transaction and `verify_attestation`, as operators over a ledger: since a node
may always fail to answer, a check is the set of its possible results. Addresses
are model values, a signature is the record of who signed what.

**`Admission`** puts them to work: `Check` (before the lock) and `Store` (under it)
of `review_service`, `Delete`, and the runs of the nightly job, `Select` (before
the lock), `Reverify` (under it), `Crash`, while transactions `Settle`, networks
are configured (`Pin`) and rows get too old to be selected (`Age`). What the
code does under one lock is one step here, which `ReviewWrites` justifies. A
behaviour begins with a set of submissions and with rows left from before
references were normalised, as the backfill of `schema.sql` 191-221 leaves them: a
row keeps its reference verbatim when another has the bare one, so two of them may
be of one settlement.

**`OwnerTrust`** computes scores and trust as the code does, in whole numbers:
trust in steps, scores as weight and weighted sum. A process opens a transaction
(`Submit`, `Upgrade`, `DeleteMyReview`, `Sweep`), which computes from what it has
read and writes at `Commit`; `Deploy`, `SyncSeedOwners` and
`ExcludePlatformDefects` come between without the lock, though the script waits
for rows that a transaction has updated or deleted (`Locks`).

**`ReviewClient`** is `review_service` of the local server for each review an agent
intends: `CallReviewService`, `Prepare` (sign), `Forward`, `TransportFails` and
`Resend`, `Resign`, `Unlink`, `Deliver`. Its store is an instance of
`ReviewLifecycle` with one call for each message, so that what `ReviewWrites` is
proved to implement is all that it relies on. A message the client no longer
waits for may still `Commit`.

**`Summaries`** has one action for each query and update of the run
(`StartRun`, `SelectPending`, `ReadInput`, `CloseConnection`, `Skip`, `Publish`,
`EndRun`, `StopRun`) beside `Submit`/`Store`, `Delete` and `Exclude`. A review is
stamped with the start of its transaction (`created_at default now()`) and seen
from its commit, which is what makes `late` reviews possible. `ReadInput` is
`_summary_input_reviews`: `Fetch` takes `MaxReviews` rows, eligible ones first and
then the newest, and of these only the weighted ones are read, or all when none
has weight; which ones weigh is left open, since trust changes between runs.
`fetched` is a history variable, the rows a summary was chosen from. A service is
stale when it has no summary or a review newer than its watermark; a deployment that
changes `SUMMARY_VERSION`, which makes every service stale, is left out.

**`RateLimit`** separates `Check` from `Insert`. Time is in fractions of a second
so that rounding `retry_after_seconds` matters.

**`ServiceIdentity`** has the calls (`Ask`, `FindCandidate`, `Probe`,
`RegisterAdvertised`, `FailToLearn`, `Resolve`, `Verify`, `LockReviewWrites`,
`EnsureService`, `Store`, `RefuseAlias`, `Abort`), the loss of cooldown entries
(`Forget`) and the operator's `RepairPayee`. `vouched` is a history variable: the
payees a 402 is the reason for.

**`ListingMetadata`** is the row of one agent service and its writers: refreshes
(`Read`, `Fetch` or `FetchFails`, `Refresh`), nightly or in the background after a
registration, fills, a correction (`Read`, `Correct`), the learning of payees
(`Learn`, with the cut to the last entries), and the agent itself (`Declare`).
`FetchFails` is the None that `fetch_listing` answers of a live service, on which the
refresh writes the slug over the host's name. A fill uses nothing it read of the
row, so its update is one step. `curated` is a history variable.

The `MC*` modules give instances for TLC; the `*Proofs` modules hold the theorems
(`ReviewWritesProofs` also those about `ReviewLifecycle`). Definitions
whose comment begins with "Faulty:" are deliberate defects, used to confirm that
a property notices them; no specification uses one.

Modules compose by what one assumes of another: `Summaries` takes submissions
and deletions as atomic at their commit, which `KeepsPromise` shows,
and so do `Admission` and `OwnerTrust`; `ReviewClient` instantiates the promise
itself; `ReviewWrites` takes the kind of a payment as given, which `Admission`
details, and scores as sets of reviews, which `OwnerTrust` computes; it takes
resolution as "the service existed or not", which
`ServiceIdentity` details; `ServiceIdentity` leaves to `ReviewWrites` what is
stored, and `ListingMetadata` leaves payees to `ServiceIdentity`.

## What the runs check

| Run | Instance | Shows |
|---|---|---|
| `review_nonce` | 3 calls; two wallets, one nonce, two services, two bodies; deletions and the sweep | `DeletedStaysDeleted`, `ScoresMatchReviews`, `AcceptedIsKept`, `RetryNamesSameReview`, and `EveryCallIsAnswered` |
| `review_payment` | 3 calls: payer, with and without the receipt, an observer with the same receipt and an unsigned caller of one payment, an unpaid review, deletions | `OneReviewPerPayment`, `StrangersDoNotBlockPayer`, `NoObservationOfClaimed`, the invariants `IInv` and `HistoryInv`, and `KeepsPromise`: `ReviewWrites` implements `ReviewLifecycle` |
| `review_placeholder` | the same | violated: `PayerYieldsOnlyToProof` |
| `admission` | 2 calls and 2 runs; transactions on Base, Tempo and Solana and one that is none; 12 scenarios of submissions and old rows, one with two old rows of one settlement | `VerifiedMeansPaid`, `OneClaimPerSettlement`, `OneWeightedReview`, `FinalIsFinal`, `NothingTakenBack`, `CandidatesAreDecided` |
| `owner_trust` | two processes, three owners, two services, up to 6 reviews; 5 scenarios: a newcomer beside a seed, rings with and without a vote of old, changing seeds, exclusions | `NoRingEarnsTrust`, `OneVotePerOwner`, `ScoresExact`, `ScoresHeal` |
| `client` | one review, unpaid or paid by the local Solana key or by another; 2 calls of the agent, 5 messages, one deletion | `OneReviewPerIntent`, `UnpaidRetryIsSafe` |
| `summaries` | 3 reviews of one service, one of them eligible, and one of another; at most 2 are fetched; 3 moments | `NoDeletedInSummary`, `CleanRunCovers`, `SummaryInv` |
| `summaries_excluded` | the same | violated: `ExcludedLeavesSummary` |
| `rate_limit` | 2 sessions, limit 2, window 2 s of 2 ticks, 9 moments | `OvershootIsBounded`, `LimitInv`, `RetryAfterSuffices` |
| `service_identity` | 3 calls of nine kinds, two endpoints, five payees in three families | `IdentityInv` and six properties of services and payees |
| `listing_metadata` | a nightly refresh, one after a registration, fills, a correction, two payees, one known from the start, a list of one entry, any changes of the manifest | `ListingInv`, `FoundIsLabelled`, `LostOnlyToNewerOrStaleCopy`, and `ListingConverges` |
| `listing_evidence` | one refresh, fills, one payee, a list of 20 | violated: `EvidenceIsKept` |

The bounds and why they suffice. Every defect a property of the review writes
guards against needs at most three calls: one that has read, one that writes
meanwhile, and one that retries or deletes. Review ids run from 1 to 3 because
each of the three calls inserts at most once; a call that finds the sequence
exhausted (`nextId` not in `ReviewId`) cannot insert, which never happens in these
instances. In `admission` two calls and two runs can each hold what they read while
the other writes; `MaxAttempts` is 2 so that an attempt lost to an overlapping run
makes a difference, `MaxReviewId` leaves room for a stored review beside two rows
of old, and the scenarios go through the ways the checks can fail (a wrong network,
amount, recipient, status, signer or age). In `owner_trust` the scale divides every mean
that six reviews can have. In `client`, five messages let one call send again,
sign again and be sent again, and a second call follow. `MaxTime` lets a
run of the summaries, a transaction older than it and a second run fit; for the
rate limit it spans two windows. In the summaries a service has one review more than
are fetched, and only `Removable` ones, the eligible one and the one of the other
service, are deleted or excluded: one of each is enough for a deletion between the
read and the update, and for a service left without reviews. In `listing_metadata` the
manifest changes as often as it likes, a second refresh overlaps the nightly one, and
`MaxEvidence` is 1, so that the second payee that is learned pushes out the first:
with 20 entries the cut is the same and takes twenty more steps. Symmetry is
used for calls, sessions, nonces and reviews of one service, never in a run with
a liveness property. The largest runs are `client` (2.0 million states) and
`review_nonce`; the slowest, `review_nonce`, takes a little over three minutes with
two workers.

Fairness. `ReviewWrites`: a call that has begun gets the lock or goes on (weak
fairness of `LockReviewWrites(c) \/ Advance(c)`), because every wait on a chain,
the redactor and the database has a timeout, and PostgreSQL grants the advisory
lock in the order of requests. No strong fairness is needed: with finitely many
calls the lock cannot be taken away for ever.
`ListingMetadata`: the nightly refresh reads every night and comes to an end, well or
not (weak fairness of `Read` and of `Refresh` or `Abort`), and again and again there
is a night on which a service that is up answers and the transaction commits (strong
fairness of `Fetch`, and of `Refresh` with an answer). Nothing is assumed of the
refreshes after a registration, of fills or of corrections.
`Admission`: the job runs every night (weak fairness of `Select`) and not every
run dies (strong fairness of `Reverify`); nodes may fail to answer for ever.
`OwnerTrust`: a deployed server starts once (weak fairness of `SyncSeedOwners`)
and again and again some night's sweep commits. `Abort`, `Crash` and `Rollback`
have no fairness anywhere. The other specifications state safety only.
`CHECK_DEADLOCK FALSE` is set where the system may stop: the clock of
`Summaries` and `RateLimit` is bounded and their reviews and callers run out.

## Disagreements between the code and its documentation

- **Excluded reviews stay in summaries** (`summaries_excluded`).
  `docs/SCORING.md` 314-323 says an exclusion removes the review from the
  generated summary with the next run. The script clears only the watermark:
  if no other public review is left, no run regenerates the summary; if a
  run is between its read and its update, the revision has not moved and the
  run publishes the review.
- **A placeholder reserves a payment** (`review_placeholder`). `docs/SCORING.md`
  188-190 says that only a review that proves the payer reserves a payment reference,
  and `server.py` 877 the same. A review of a provider other than mppx and x402
  needs no signature (`payments.py` 354-370), and is nevertheless stored under the
  canonical reference: the payer's own review is then refused as
  `payment_reference_used`. `StrangersDoNotBlockPayer` says what does hold: the
  observation of another wallet never blocks the payer (`server.py` 882), so that
  besides other proofs, their own observation and a use of their receipt the
  placeholder is the only thing a payer yields to.
- **Evidence of a learned payee can be lost** (`listing_evidence`).
  `docs/shared-payment-wallets.md` 70 and `identity.py` 661 say that what was
  registered is kept in `metadata.advertised_payees`; a refresh or a payee
  correction that read the row before writes its older metadata back.
  `LostOnlyToNewerOrStaleCopy` shows that this, and the cut to 20 entries
  (`identity.py` 683), are the only ways.

Two smaller ones show in the passing runs. `README.md` 131 limits requests to 5 per
wallet per rolling 24 hours; calls that overlap do not count each other's rows and
pass the limit, and `OvershootIsBounded` says by how many. `docs/SCORING.md` 186-189
says that one settlement never yields two reviews under different spellings; two rows
from before references were normalised may be of one settlement, since the backfill
keeps both (`schema.sql` 201-221). `OneClaimPerSettlement` says that no review of
today joins them, and that re-verification never counts both.

## What is proved

The theorems hold for every value of the constants that satisfies the named
assumptions of the module: `WalletAssumption`, `ReviewIdAssumption`,
`ReceiptAssumption`, `AskedAssumption` and `SentinelAssumption` of the review
writes (sentinels are none of the data, ids are natural numbers, a receipt names
one purchase), `ServiceOfAssumption` and `MaxReviewsAssumption` (a review has a
service, at least one is fetched), `IdentityAssumption` (what endpoints offer, and
sentinels), `PayeeAssumption` (the payee of an unsigned review, or of a service
from before payees were validated, is no address), `ListingAssumption` (workers
and texts are of disjoint kinds, at least one entry of evidence is kept),
`LimitAssumption` (numbers are natural, sessions finite), `TrustAssumption` (the
floor is below 0, the threshold above 0 and not above the cap, steps are positive,
owners finite, `None` is no owner and no wallet) and `ScenarioAssumption` of
`OwnerTrust` (stored reviews have distinct ids that the sequence has given, new
ones are not legacy rows, at least one list of seeds is deployed),
`ScenarioAssumption` of `Admission` with `NoneAssumption` and `AmountAssumption`
(submissions and old rows have the fields they have, and the keys of old rows are
what the backfill and the unique indexes allow: two may be of one settlement, one
bare and others verbatim), `PlanAssumption` (a payment is on an EVM chain or on
Solana) and `SentinelAssumption` of the client. TLC evaluates each.

**Review writes** (`ReviewWritesProofs`). None of the safety properties is
inductive: each depends on what a call found out earlier in its transaction.
`IInv` adds, for every call and step, that what was checked under the lock still
holds: at most one call is between `LockReviewWrites` and its end, a call past
`CheckReplay` is not deleted and not blocked (`ClearOK`), the row it is about
to publish is its own (`RowOK`), its new score counts the reviews there will
be, and what a finished call was answered is what the tables say. Only
`Commit` changes the tables, and the lock is what keeps another `Commit` from
coming between. From `Invariance` (`Spec => []IInv`) follow `TypeOK`,
`OneReviewPerPayment`, `DeletedStaysDeleted`, `ScoresMatchReviews`,
`AcceptedIsKept` and `RetryNamesSameReview`, and with one more look at `Commit`
the action property `NoObservationOfClaimed`.

**The promise** (`ReviewWritesProofs`, its second half). `HistoryInv` says where
the rows come from: everything stored or deleted was submitted by a finished call;
what `CheckReplay` let through a unique index refuses for a repeated nonce, or for
a receipt that another wallet's observation has used (`ClashOK`), and for nothing
else; and the row or the deletion of a repeated nonce is still there when it is
read after the rollback. It is what makes the answer of `ReadAfterConflict`
explainable. With it `StrangersDoNotBlockPayer` is proved, and
`ImplementsPromise`: every step of `ReviewWrites` is a step of `ReviewLifecycle`
or changes nothing it sees. A call takes effect at its `Commit`, or, if refused or
a replay, at the read that decided it.

**Admission** (`AdmissionProofs`). A row of today and a row from before obey
different rules, and a call or a run may hold either while the other acts.
`AdmissionInv` says what a row of either sort looks like and what it proves
(`RowsOK`), that keys, receipts and the claims of today are unique, that what a
call has verified is still backed by the ledger (`CheckedOK`: transactions do not
unsettle), and that a row a run selected is one from before and, unless deleted,
still the same review under the same key (`SelectedOK`). `VerifiedMeansPaid`,
`OneClaimPerSettlement`, `OneWeightedReview` and the action property
`NothingTakenBack` follow. `FinalIsFinal` needs `FinalInv` too: once a transaction
has settled or failed and its network is configured, the set of possible answers
never changes, and only such answers are final.

**Scores and trust** (`OwnerTrustProofs`). A score is a sum over a set of votes
and the trust of an owner a fold over all reviews, so that facts about them are
facts about recursive functions. Induction over data is not available; the lemmas
argue by a least counterexample instead. `SumEquation` and `ReplayStepByStep` show
that the sums and the replay satisfy the equations one expects: a set for which
the sum does not exist, or a step that breaks what holds so far, would have a
smallest instance, and that one contradicts itself. On them rest `SumBounds`,
`SumWithin`, `ScoreBounds`, `LeanWithin` and `ReplayOfRing`. `StateInv` is the
invariant of the transactions, in five parts. `StoreInv`: rows have distinct ids,
at most one process has a transaction open, and what it drops is still there,
though the script may have marked other rows meanwhile. `WeightInv` says
`OneVotePerOwner` of the stored scores and of those an open transaction is about
to write, over the rows it will leave; marking a row does not change who has
voted. `RingInv` says that the trust in an open replay gives a ring nothing, for
every set of owners that is a ring in the rows as they are now. It survives an
exclusion because a ring is defined by hosted reviews, excluded or not. `ExactInv`
says, while there is one list of seeds and nothing to exclude, that the stored
scores are exact and that an open transaction is exact for what it will leave; a
sync of the same list changes nothing, since a replay keeps who is a seed.
`BoundsInv` keeps stored and pending trust between floor and cap.
`OneVotePerOwner`, `NoRingEarnsTrust`, `ScoresExact` and `TrustInBounds` follow.
The lemma `EveryScoreIsOfReviews`, with `OriginInv`, says that every stored and
every pending score is that of some reviews under trust that can arise from the
lists of seeds. It gives `ScoresWithinRatings` (the published score is between 1
and 5) and `NothingWithoutSeeds` (the promise of `reputation.py` 239: without a
seed, and without weight of old, nothing is ever weighted). `ReplaysRepair` is the
safety half of `ScoresHeal`: a replay starts from nothing, so that it comes to the
same whether or not it has run before (`ReplayTwice`), and the commit of one that
no unlocked writer has overtaken leaves nothing for the next to repair.

**The client** (`ReviewClientProofs`). `ClientInv` ties the parts together: a call
waits for a message that carries its draft (`IntentInv`), a draft follows from the
plan and from what the local keys sign, a message asks for what its draft says and
its verdict is that of its draft (`MessageInv`), rows and deleted keys come from
messages that passed (`RowInv`), and an answer about an unpaid review is explained
by the row stored for it (`AnswerInv`). A payment has one key under which its review
can be stored (`OneKey`): a message with the payer's link passes only for a local
payer, and then none without it is signed. `OneReviewPerIntent` and
`UnpaidRetryIsSafe` follow, for any number of reviews, calls, messages and deletions.

**Summaries** (`SummariesProofs`). `SummaryInv` says that an input read under the
service's present revision contains no deleted review: a deletion moves the
revision in the transaction that removes the row. `NoDeletedInSummary` follows.
`CoverInv` follows a run: a review that its service's summary was not chosen with is
newer than the watermark of its service or was met in flight (`UnreadIsFresh`), what a
run has fetched of a service was chosen with all that is not newer than the run
(`InputIsWhole`), and what no summary was chosen with is on the lists of an undisturbed
run (`NothingForgotten`). That rows fetched for a set stand for each of its members,
and go on to while reviews come and go, are lemmas about `Fetch` and `Considers`.
`CleanRunCovers` follows: the limit, weights and `late` are all that keeps a review out.

**Identity** (`ServiceIdentityProofs`). `IdentityInv` ties the three resolutions of a
call together: the service it last resolved is registered, or created by the
call itself, and belongs to the endpoint it named, and a service that is being
created still finds its endpoint free, because the lock is held.
`OneServicePerEndpoint` and `ReviewFollowsEndpoint` follow. `PayeeInv` adds where
payees come from: every registered address is advertised or reached by a stored
payment (`Proven`), at most one of a family is there without a 402's word
(`OneUnvouched`), and a call whose payee a 402 has named names a service that
accepts it, whatever is repaired meanwhile (`Taught`). The four properties of
payees follow.

**Listings** (`ListingMetadataProofs`). `FoundIsLabelled` is about the row; a writer
may still write back an old copy, so `ListingInv` says the same of every
copy, and that a row a curator described is open to no fill. For
`LostOnlyToNewerOrStaleCopy` each write of the metadata is one that keeps every entry,
pushes out the oldest, or replaces it by a copy.

**Rate limit** (`RateLimitProofs`). `LimitInv` counts requests in flight as if they
were stored: a check that passes sees fewer than the limit, and at most the other
sessions are in flight with it. `OvershootIsBounded` follows. `WaitInv` is about a
refused caller: as long as no calls have raced there is room when the oldest
counted request has left the window, and rounding up is never too short.
`RetryAfterSuffices` follows.

## What is only model-checked

Liveness: `EveryCallIsAnswered`, `ListingConverges`, `CandidatesAreDecided` and
`ScoresHeal`. Liveness under fairness and `ENABLED` are beyond the prover. Every
other property of a passing run is a theorem. That `Replay` in order comes to what
an update after each review would have come to is neither checked nor
proved: the code no longer updates trust with each review.

## What the models leave out

- The redactor is modelled by its outcome: text redacted or refused. Local
  redaction in the client is taken as done.
- The parsing of references, proofs and receipts is a submission that is malformed
  or has the fields it has; RPC answers are what the ledger shows or a failure.
  A Solana signature in other capitals is another transaction. The network stored
  with a review is a function of its proof and of the spelling of its reference, as
  verification records it.
- `OwnerTrust` leaves out the half-life of evidence and counts trust in whole
  steps. `apply_review_trust_update` (`reputation.py` 192-233) is called by tests
  only. `ReviewRow.legacy` looks at legacy rows without regard to exclusions, and so
  does the model. The exclusion script is one step, before, during or after
  the open transactions of the others, not interleaved with their statements.
  The replay takes events in the order of their ids; the code orders them by
  `created_at` and then id (`cron.py` 186, 264-270), which differs only for
  transactions that began in another order than they got their ids.
- The weights and the order of the summaries' input are decided by a set of eligible
  reviews and by stamps; a deployment that changes `SUMMARY_VERSION` is left out.
- One `cron.main` runs at a time, as its schedule has it, except in `Admission`,
  where an operator's run may overlap.
- In `ReviewWrites` a service is an id that exists or not; in `ServiceIdentity`
  provider and payee are given together, directory slugs are left out, callers
  supply only the ids of services that exist, and the rails are not told apart.
- The operator's repair is one step in `ServiceIdentity` and a read and a write in
  `ListingMetadata`; there it happens at most once. A fill always runs with
  `force`, so that its guard does not depend on the schedule of revisits.
- The single-flight cache of
  origins (`listing_metadata.py` 384) is left out: it decides who fetches, not
  what is written.
- `request_service` and the read tools of the client only forward. Reviews that the
  client passes on as they are, those of a non-machine provider and those that come
  signed (`sign-review.ts` 119-121), are in no plan of `ReviewClient`; they are sent
  and sent once more like the others, but never signed again.
- The installer edits configuration files one after another on request of a user
  and shares no state with the rest. The canonical encodings agree with Python
  byte by byte or not, which the repository's vectors test. The clustering of
  requests is a matter of similarities between texts, and its thresholds are one
  comparison each. Discovery, the read tools and the HTTP routes change nothing.
  The frontend, the plugins and skills are static. One-off backfill scripts run
  once, offline.

Three behaviours of the client that no document rules out are visible in the
model. A paid review whose answer is lost is told `payment_reference_used` when it
is sent again, though it is the one that was stored; only unpaid reviews are
recognised as replays. A call may be told that CrowdCode is off, or that it was
rejected, though its first message was stored. And what is sent again after the
user has turned CrowdCode off is a message that was already on its way;
`packages/mcp/README.md` 208 speaks of new calls.

## Plan

Done, in the order of importance: `ReviewRecords`, `ReviewLifecycle` and
`ReviewWrites`; `Summaries`; `ServiceIdentity`; `ListingMetadata`; `RateLimit`;
`PaymentEvidence` and `Admission`; `OwnerTrust`; `ReviewClient`; their instances and
the proofs above. What is left:

1. `OriginCache`: single flight of fetches with a wait that times out and the marker
   that the waiter then removes (`listing_metadata.py` 384).
2. The evidence of `OwnerTrust`: half-lives, and events in the order of `created_at`.
3. `Proposals`: when a cluster of requests is published and when it is withdrawn.
4. `Installer`: the order in which configurations are written, and what a failure
   halfway leaves.
