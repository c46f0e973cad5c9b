----------------------------- MODULE OwnerTrust -----------------------------
(***************************************************************************)
(* How stored reviews become the score of a service and the trust of the   *)
(* owners behind hosted agents (scoring.py, reputation.py), and the        *)
(* transactions that keep the stored numbers up to date: a submission and  *)
(* a re-verification recompute one service with the trust as stored, a     *)
(* deletion and the nightly sweep replay everything (cron.py), all under   *)
(* lock_review_writes; the seed sync and the script that excludes reviews  *)
(* (exclude_platform_defect_reviews.py) take no lock.                      *)
(*                                                                         *)
(* Trust is counted in steps: an event moves it up by Gain, down by Loss   *)
(* or not at all, by the sign of the consensus.  A score is kept as the    *)
(* weight behind it and its lean, the weighted sum of ratings above 3.     *)
(* The half-life of evidence is left out.  A replay takes the events in    *)
(* the order of their ids; the code's order is (created_at, id), another   *)
(* one only when a submission that began earlier is stored later.          *)
(***************************************************************************)
EXTENDS Integers, Sequences, FiniteSetsExt

CONSTANTS
    Service, Owner, Wallet,
    WalletTrust,              \* the trust of wallets, frozen at the cutover
    Slashed,                  \* owners an operator has slashed
    Theta, Cap, Floor,        \* THETA, TRUST_CAP and TRUST_FLOOR
    Gain, Loss,               \* what an event moves
    Scale,                    \* ratings count in 1/Scale, so that means are whole
    Scenario,
    MaxReviewId,
    None

\* A row of review_owners, and of reviews; a new review has no id yet.
StoredTrust == [raw : Int, seed : BOOLEAN, slashed : BOOLEAN]
Review == [id : 0..MaxReviewId, service : Service, owner : Owner \cup {None},
           wallet : Wallet \cup {None}, rating : 1..5, basis : {"hosted", "legacy", "none"},
           excluded : BOOLEAN, proof : {1, 2}, day : Nat]

ASSUME TrustAssumption ==
    /\ {Theta, Cap, Floor, Gain, Loss, Scale} \subseteq Int
    /\ Floor < 0 /\ 0 < Theta /\ Theta =< Cap
    /\ Gain > 0 /\ Loss > 0
    /\ Scale > 0 /\ MaxReviewId \in Nat
    /\ IsFiniteSet(Owner) /\ None \notin Owner /\ None \notin Wallet
    /\ WalletTrust \in [Wallet -> StoredTrust]

ASSUME ScenarioAssumption ==
    \A case \in Scenario :
      /\ case.drafts \subseteq Review /\ case.history \subseteq Review
      /\ \A draft \in case.drafts : draft.basis # "legacy"
      /\ IsFiniteSet(case.history)
      /\ \A row \in case.history : row.id \in 1..Cardinality(case.history)
      /\ \A row, other \in case.history : row.id = other.id => row = other
      /\ case.lists \in Seq(SUBSET Owner) \ {<<>>}

VARIABLES
    scenario,       \* the case at hand, fixed
    rows,           \* table reviews
    trust,          \* table review_owners
    score,          \* columns score, n_eff_hosted and n_eff_legacy of services
    nextId,         \* the sequence of reviews.id
    deploys,        \* how many lists of seeds were configured before this one
    tx              \* tx[p]: the open transaction of a process, or None

vars == <<scenario, rows, trust, score, nextId, deploys, tx>>

(***************************************************************************)
(* Scores.                                                                 *)
(***************************************************************************)
Weighted(row) == row.basis = "hosted" /\ ~row.excluded /\ row.owner # None
IsLegacyRow(row) == row.basis = "legacy" /\ row.wallet # None

EffectiveWeight(t) ==
    IF t.slashed THEN 0
    ELSE IF t.seed THEN Cap
    ELSE IF t.raw < Theta THEN 0 ELSE Min({Cap, t.raw})

\* What proves a purchase counts for legacy rows only.
LegacyMultiplier(row) == row.proof
ProofMultiplier(row) == IF IsLegacyRow(row) THEN LegacyMultiplier(row) ELSE 1

\* The mean rating of some rows above 3, each counted by its evidence.
MeanLean(S) ==
    SumFunction([row \in S |-> Scale * ProofMultiplier(row) * (row.rating - 3)])
      \div SumFunction([row \in S |-> ProofMultiplier(row)])

\* One vote of an owner on a service.
OwnerVotes(S) == {[by |-> o, rows |-> {row \in S : Weighted(row) /\ row.owner = o}] :
                    o \in {row.owner : row \in {x \in S : Weighted(x)}}}
\* The votes of a wallet from before the cutover, one a day.
LegacyVotes(S) == {[by |-> v[1], rows |-> {row \in S : IsLegacyRow(row) /\ v = <<row.wallet, row.day>>}] :
                     v \in {<<row.wallet, row.day>> : row \in {x \in S : IsLegacyRow(x)}}}

HostedWeight(vote, owners) == EffectiveWeight(owners[vote.by])
LegacyWeight(vote) ==
    EffectiveWeight(WalletTrust[vote.by]) * Max({LegacyMultiplier(row) : row \in vote.rows})

LegacyEvidence(S) == SumFunction([vote \in LegacyVotes(S) |-> LegacyWeight(vote)])
Lean(S, owners) ==
    SumFunction([vote \in OwnerVotes(S) |-> HostedWeight(vote, owners) * MeanLean(vote.rows)])
      + SumFunction([vote \in LegacyVotes(S) |-> LegacyWeight(vote) * MeanLean(vote.rows)])

\* Faulty: every weighted review is a vote of its own.
ComputeScorePerReview(S, owners) ==
    [hosted |-> SumFunction([row \in {x \in S : Weighted(x)} |-> EffectiveWeight(owners[row.owner])]),
     legacy |-> LegacyEvidence(S), lean |-> Lean(S, owners)]

\* The score of a service from its rows.
ComputeScore(S, owners) ==
    [hosted |-> SumFunction([vote \in OwnerVotes(S) |-> HostedWeight(vote, owners)]),
     legacy |-> LegacyEvidence(S), lean |-> Lean(S, owners)]

Of(S, s) == {row \in S : row.service = s}
Scores(S, owners) == [s \in Service |-> ComputeScore(Of(S, s), owners)]

(***************************************************************************)
(* Trust.                                                                  *)
(***************************************************************************)
\* Faulty: the prior of the published score, when it is optimistic.
ConsensusFromOptimism(S, owners, o) ==
    1 + ComputeScore({row \in S : ~(Weighted(row) /\ row.owner = o)}, owners).lean

\* The consensus of the others on a service, from the neutral TRUST_MU0.
TrustConsensus(S, owners, o) ==
    ComputeScore({row \in S : ~(Weighted(row) /\ row.owner = o)}, owners).lean

TrustDelta(consensus, rating) ==
    IF -Scale < rating /\ rating < Scale THEN 0
    ELSE IF consensus * rating > 0 THEN Gain
    ELSE IF consensus * rating < 0 THEN -Loss ELSE 0
UpdatedRawTrust(raw, consensus, rating) ==
    Min({Cap, Max({Floor, raw + TrustDelta(consensus, rating)})})

\* An owner's weighted reviews of a service are one event, at the last of them.
EventId(S, row) ==
    Max({x.id : x \in {y \in S : Weighted(y) /\ y.service = row.service /\ y.owner = row.owner}})
IsEvent(S, row) == Weighted(row) /\ EventId(S, row) = row.id
\* What the replay has seen of a service when it comes to an event.
SeenBefore(S, event) ==
    {row \in Of(S, event.service) : Weighted(row) => EventId(S, row) < event.id}

Pinned(t) == t.seed \/ t.slashed

\* The trust after an event of an owner that is not pinned.
Scored(S, event, owners) ==
    LET votes == {row \in S : Weighted(row) /\ row.service = event.service /\ row.owner = event.owner}
        consensus == TrustConsensus(SeenBefore(S, event), owners, event.owner)
    IN  IF Pinned(owners[event.owner]) THEN owners
        ELSE [owners EXCEPT ![event.owner].raw = UpdatedRawTrust(@, consensus, MeanLean(votes))]

\* The trust after the event of an id, if that review is one.
AfterEvent(S, id, owners) ==
    LET events == {row \in S : row.id = id /\ IsEvent(S, row)}
    IN  IF events = {} THEN owners ELSE Scored(S, CHOOSE e \in events : TRUE, owners)
ReplayFrom(S, start) ==
    LET after[i \in 0..MaxReviewId] == IF i = 0 THEN start ELSE AfterEvent(S, i, after[i - 1])
    IN  after[MaxReviewId]

\* Everyone's trust from nothing, event by event; seeds and slashed owners stay.
Replay(S, stored) ==
    ReplayFrom(S, [o \in Owner |-> IF Pinned(stored[o]) THEN stored[o]
                                   ELSE [stored[o] EXCEPT !.raw = 0]])

(***************************************************************************)
(* The transactions under lock_review_writes: what one has read and is     *)
(* about to write.                                                         *)
(***************************************************************************)
Process == {"request", "cron"}

Configured == scenario.lists[1 + deploys]
SeedsOf(owners) == {o \in Owner : owners[o].seed}
Unknown(o) == [raw |-> 0, seed |-> FALSE, slashed |-> o \in Slashed]
Seeded(owners, list) ==
    [o \in Owner |-> IF o \in list THEN [raw |-> Cap, seed |-> TRUE, slashed |-> owners[o].slashed]
                     ELSE [owners[o] EXCEPT !.seed = FALSE]]

Init ==
    /\ scenario \in Scenario
    /\ rows = scenario.history
    /\ trust = LET pinned == Seeded([o \in Owner |-> Unknown(o)], scenario.lists[1])
               IN  Replay(rows, pinned)
    /\ score = Scores(rows, trust)
    /\ nextId = 1 + Cardinality(rows)
    /\ deploys = 0
    /\ tx = [p \in Process |-> None]

\* Faulty: requests and the cron do not wait for one another.
UnlockedPerProcess(p) == tx[p] = None
LockReviewWrites(p) == \A q \in Process : tx[q] = None

\* One service is recomputed with the trust as stored, or all is replayed.
Recomputing(adds, drops, s) ==
    [adds |-> adds, drops |-> drops, replays |-> FALSE, trust |-> trust, services |-> {s},
     score |-> Scores((rows \ drops) \cup adds, trust)]
Replaying(drops) ==
    LET replayed == Replay(rows \ drops, trust)
    IN  [adds |-> {}, drops |-> drops, replays |-> TRUE, trust |-> replayed, services |-> Service,
         score |-> Scores(rows \ drops, replayed)]

Open(p, t) ==
    /\ LockReviewWrites(p)
    /\ tx' = [tx EXCEPT ![p] = t]

\* review_service inserts a row.  No new row is a legacy one.
Submit(draft) ==
    /\ nextId =< MaxReviewId
    /\ LET row == [draft EXCEPT !.id = nextId]
       IN  Open("request", Recomputing({row}, {}, draft.service))
    /\ nextId' = nextId + 1
    /\ UNCHANGED <<scenario, rows, trust, score, deploys>>

\* delete_my_review, by the wallet of the row.
DeleteMyReview(row) ==
    /\ row.wallet # None
    /\ Open("request", Replaying({row}))
    /\ UNCHANGED <<scenario, rows, trust, score, nextId, deploys>>

\* run_payment_reverification finds the payment of a row.
Upgrade(row) ==
    /\ row.proof = 1 /\ row.basis # "hosted"
    /\ Open("cron", Recomputing({[row EXCEPT !.proof = 2]}, {row}, row.service))
    /\ UNCHANGED <<scenario, rows, trust, score, nextId, deploys>>

\* run_consistency_sweep.
Sweep ==
    /\ Open("cron", Replaying({}))
    /\ UNCHANGED <<scenario, rows, trust, score, nextId, deploys>>

\* The replay writes the trust of the owners it did not find pinned.
Commit(p) ==
    /\ tx[p] # None
    /\ rows' = (rows \ tx[p].drops) \cup tx[p].adds
    /\ trust' = [o \in Owner |-> IF tx[p].replays /\ ~Pinned(tx[p].trust[o])
                                 THEN [trust[o] EXCEPT !.raw = tx[p].trust[o].raw] ELSE trust[o]]
    /\ score' = [s \in Service |-> IF s \in tx[p].services THEN tx[p].score[s] ELSE score[s]]
    /\ tx' = [tx EXCEPT ![p] = None]
    /\ UNCHANGED <<scenario, nextId, deploys>>

Rollback(p) ==
    /\ tx[p] # None
    /\ tx' = [tx EXCEPT ![p] = None]
    /\ UNCHANGED <<scenario, rows, trust, score, nextId, deploys>>

(***************************************************************************)
(* Without the lock.                                                       *)
(***************************************************************************)
\* A new deployment configures the next list of seeds.
Deploy ==
    /\ deploys + 1 < Len(scenario.lists)
    /\ deploys' = deploys + 1
    /\ UNCHANGED <<scenario, rows, trust, score, nextId, tx>>

\* Faulty: an owner taken off the list stays a seed.
SyncWithoutDemotion ==
    /\ Configured # {}
    /\ trust' = Seeded(trust, Configured \cup SeedsOf(trust))
    /\ UNCHANGED <<scenario, rows, score, nextId, deploys, tx>>

\* An empty list demotes nobody.
SyncSeedOwners ==
    /\ Configured # {}
    /\ trust' = Seeded(trust, Configured)
    /\ UNCHANGED <<scenario, rows, score, nextId, deploys, tx>>

\* A deletion has locked every service before it replays, and its own row; an
\* upgrade has updated its row.
LocksServices(t) == t.replays /\ t.drops # {}
Locks(t, S) == t # None /\ (LocksServices(t) \/ t.drops \cap S # {})

\* The script refuses to run when an audited row is missing.
ExcludePlatformDefects ==
    LET audited == {row \in rows : row.id \in scenario.audited}
        planned == {row \in audited : ~row.excluded}
        marked  == (rows \ planned) \cup {[row EXCEPT !.excluded = TRUE] : row \in planned}
    IN  /\ Cardinality(audited) = Cardinality(scenario.audited)
        /\ planned # {}
        /\ ~\E p \in Process : Locks(tx[p], planned)
        /\ rows' = marked
        /\ score' = [s \in Service |-> IF \E row \in planned : row.service = s
                                       THEN ComputeScore(Of(marked, s), trust) ELSE score[s]]
        /\ UNCHANGED <<scenario, trust, nextId, deploys, tx>>

Next ==
    \/ \E draft \in scenario.drafts : Submit(draft)
    \/ \E row \in rows : DeleteMyReview(row) \/ Upgrade(row)
    \/ Sweep \/ Deploy \/ SyncSeedOwners \/ ExcludePlatformDefects
    \/ \E p \in Process : Commit(p) \/ Rollback(p)

Spec == Init /\ [][Next]_vars

(***************************************************************************)
(* Every night the cron syncs the seeds and sweeps, and sweeps commit      *)
(* again and again, though any of them may fail.                           *)
(***************************************************************************)
SweepCommits == tx["cron"] # None /\ tx["cron"].replays /\ Commit("cron")
Fairness == WF_trust(SyncSeedOwners) /\ []<><<SweepCommits>>_tx
FairSpec == Spec /\ Fairness

(***************************************************************************)
(* Properties.                                                             *)
(***************************************************************************)
Hosted(o) == {row \in rows : row.basis = "hosted" /\ row.owner = o}
ReviewedBy(G) == {row.service : row \in UNION {Hosted(o) : o \in G}}
Weighing(row) == IsLegacyRow(row) /\ EffectiveWeight(WalletTrust[row.wallet]) > 0

\* Owners without a seed, whose services nobody else of weight has reviewed.
IsRing(G, owners) ==
    /\ \A o \in G : ~owners[o].seed
    /\ \A row \in rows : row.service \in ReviewedBy(G) =>
         ~Weighing(row) /\ (row.basis = "hosted" => row.owner \in G)

(***************************************************************************)
(* Trust starts at the seeds and at the evidence from before the cutover:  *)
(* owners who only review services that nobody else reviews have none      *)
(* after any replay, however they agree with one another.  Without a seed  *)
(* nothing is ever weighted.  A slashed owner keeps its number, which then *)
(* counts for nothing.                                                     *)
(***************************************************************************)
NoRingEarnsTrust ==
    \A p \in Process : tx[p] # None /\ tx[p].replays =>
      \A G \in SUBSET Owner : IsRing(G, tx[p].trust) =>
        \A o \in G : tx[p].trust[o].slashed \/ tx[p].trust[o].raw = 0

(***************************************************************************)
(* An owner has one vote on a service, however many agents, wallets and    *)
(* reviews it has, and a wallet had two at most for a day: no submission,  *)
(* replay, exclusion or seed change stores more weight than that.          *)
(***************************************************************************)
OneVotePerOwner ==
    \A s \in Service :
      /\ score[s].hosted =< Cap * Cardinality({o \in Owner : Of(Hosted(o), s) # {}})
      /\ score[s].legacy =< 2 * Cap * Cardinality({<<row.wallet, row.day>> : row \in
                                                     {x \in Of(rows, s) : x.basis = "legacy"}})

(***************************************************************************)
(* As long as the seeds stay and nothing is excluded, the stored score of  *)
(* every service is that of the stored reviews under the stored trust: no  *)
(* submission, deletion or sweep leaves a score based on a removed review  *)
(* or without a new one.                                                   *)
(***************************************************************************)
ScoresExact ==
    Len(scenario.lists) = 1 /\ scenario.audited = {} => score = Scores(rows, trust)

(***************************************************************************)
(* Whatever the unlocked writers left behind, the nightly jobs repair it:  *)
(* in the end trust and scores are those of a replay of the stored reviews *)
(* from the seeds that are configured, without the excluded reviews.       *)
(***************************************************************************)
ScoresHeal ==
    <>[](/\ Configured # {} => SeedsOf(trust) = Configured
         /\ trust = Replay(rows, trust)
         /\ score = Scores(rows, trust))
=============================================================================
