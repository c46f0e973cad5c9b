------------------------------ MODULE Summaries ------------------------------
(***************************************************************************)
(* The nightly review summaries (cron.py: _collect_summary_inputs,         *)
(* run_service_summaries), run beside the tools that write reviews.        *)
(*                                                                         *)
(* A run notes the time it starts, reads which services have reviews newer *)
(* than last_summarized_at and what those reviews say, closes its          *)
(* connection, and asks a model for one summary after another.  It         *)
(* publishes a summary only under the review_revision it read.  Reviews    *)
(* are submitted, deleted and excluded meanwhile.                          *)
(*                                                                         *)
(* Only reviews public_reviews admits appear here.  Submissions and        *)
(* deletions are atomic at their commit, which ReviewWrites justifies, but *)
(* a review is stamped with the start of its transaction.  Trust changes   *)
(* from night to night, so which of the rows it fetched carry weight is    *)
(* the run's to find.  Summaries of an older SUMMARY_VERSION, which exist  *)
(* only after a deployment changes it, are left out.                       *)
(***************************************************************************)
EXTENDS Naturals, FiniteSets

CONSTANTS
    Service,
    Review,
    ServiceOf,    \* the service each review is of
    Eligible,     \* the reviews stored with weight_exclusion null
    MaxReviews,   \* SUMMARY_MAX_REVIEWS, the reviews fetched for one summary
    MaxTime,      \* bound: the last moment at which something begins
    Removable     \* bound: the reviews that are ever deleted or excluded

ASSUME ServiceOfAssumption == ServiceOf \in [Review -> Service]
ASSUME MaxReviewsAssumption == MaxReviews \in Nat \ {0}

VARIABLES
    clock,
    status,       \* status[r]: the row of review r
    stamp,        \* stamp[r]: reviews.created_at, the start of its transaction
    summary,      \* summary[s]: the reviews the published summary was written from
    watermark,    \* watermark[s]: services.last_summarized_at
    revision,     \* revision[s]: services.review_revision
    phase,        \* what the nightly run is doing
    now,          \* when it started
    toRead,       \* stale services whose reviews it has not read yet
    toWrite,      \* stale services it has read and not yet summarized
    revisionRead, \* the revisions it read
    rowsRead,     \* the reviews it took for a summary
    fetchedRead,  \* history: the rows it fetched and took them from
    fetched,      \* history: the rows each published summary was taken from
    atStart,      \* history: the reviews' status when the run started
    late,         \* history: reviews in flight when a run read their service
    clean         \* history: the last run has done all its work undisturbed

reviewVars  == <<status, stamp>>
serviceVars == <<summary, fetched, watermark, revision>>
runVars     == <<phase, now, toRead, toWrite, revisionRead, rowsRead, fetchedRead>>
vars == <<clock, reviewVars, serviceVars, runVars, atStart, late, clean>>

Never == 0    \* last_summarized_at is null
NoRevision == [s \in Service |-> 0]
NoRows     == [s \in Service |-> {}]

Init ==
    /\ clock = 1
    /\ status = [r \in Review |-> "none"]
    /\ stamp = [r \in Review |-> Never]
    /\ summary = NoRows
    /\ fetched = NoRows
    /\ watermark = [s \in Service |-> Never]
    /\ revision = [s \in Service |-> 0]
    /\ phase = "off"
    /\ now = Never
    /\ toRead = {}
    /\ toWrite = {}
    /\ revisionRead = NoRevision
    /\ rowsRead = NoRows
    /\ fetchedRead = NoRows
    /\ atStart = status
    /\ late = {}
    /\ clean = FALSE

Public(s) == {r \in Review : ServiceOf[r] = s /\ status[r] = "stored"}

(***************************************************************************)
(* Reviews.                                                                *)
(***************************************************************************)
Tick ==
    /\ clock < MaxTime
    /\ clock' = clock + 1
    /\ UNCHANGED <<reviewVars, serviceVars, runVars, atStart, late, clean>>

\* review_service opens its transaction ...
Submit(r) ==
    /\ status[r] = "none"
    /\ status' = [status EXCEPT ![r] = "open"]
    /\ stamp' = [stamp EXCEPT ![r] = clock]
    /\ UNCHANGED <<clock, serviceVars, runVars, atStart, late, clean>>

\* ... and commits it.
Store(r) ==
    /\ status[r] = "open"
    /\ status' = [status EXCEPT ![r] = "stored"]
    /\ UNCHANGED <<clock, stamp, serviceVars, runVars, atStart, late, clean>>

\* delete_my_review clears every summary and starts a new revision.
Delete(r) ==
    /\ r \in Removable
    /\ status[r] \in {"stored", "excluded"}
    /\ status' = [status EXCEPT ![r] = "deleted"]
    /\ summary' = NoRows
    /\ fetched' = NoRows
    /\ watermark' = [s \in Service |-> Never]
    /\ revision' = [s \in Service |-> revision[s] + 1]
    /\ clean' = (clean /\ phase = "started")
    /\ UNCHANGED <<clock, stamp, runVars, atStart, late>>

\* An operator excludes a review (exclude_platform_defect_reviews.py): only
\* the watermark of its service is cleared.
Exclude(r) ==
    /\ r \in Removable
    /\ status[r] = "stored"
    /\ status' = [status EXCEPT ![r] = "excluded"]
    /\ watermark' = [watermark EXCEPT ![ServiceOf[r]] = Never]
    /\ UNCHANGED <<clock, stamp, summary, fetched, revision, runVars, atStart, late, clean>>

(***************************************************************************)
(* The nightly run.                                                        *)
(***************************************************************************)

\* main: `now` is read once, long before the summaries; time moves on.
StartRun ==
    /\ phase = "off"
    /\ clock < MaxTime
    /\ phase' = "started"
    /\ now' = clock
    /\ clock' = clock + 1
    /\ atStart' = status
    /\ clean' = TRUE
    /\ UNCHANGED <<reviewVars, serviceVars, toRead, toWrite, revisionRead, rowsRead,
                   fetchedRead, late>>

\* No summary is stored, or a review is newer than the watermark.
Stale == {s \in Service : \E r \in Public(s) : summary[s] = {} \/ stamp[r] > watermark[s]}

\* The first query: the stale services and their revisions.
SelectPending ==
    /\ phase = "started"
    /\ phase' = "reading"
    /\ toRead' = Stale
    /\ revisionRead' = revision
    /\ UNCHANGED <<clock, reviewVars, serviceVars, now, toWrite, rowsRead,
                   fetchedRead, atStart, late, clean>>

\* The order of the query: eligible reviews first, then the newest.
Ahead(q, r) ==
    \/ q \in Eligible /\ r \notin Eligible
    \/ (q \in Eligible <=> r \in Eligible) /\ stamp[q] > stamp[r]

\* What the query may return of the reviews R.
Fetch(R) ==
    IF Cardinality(R) <= MaxReviews THEN {R}
    ELSE {T \in SUBSET R : /\ Cardinality(T) = MaxReviews
                           /\ \A q \in T : \A r \in R \ T : ~Ahead(r, q)}

\* _summary_input_reviews: a statement, and so a snapshot, for each service.
\* The fetched reviews that carry weight are taken, or all when none does.
ReadInput(s) ==
    /\ phase = "reading"
    /\ s \in toRead
    /\ \E T \in Fetch(Public(s)) : \E weighted \in SUBSET T :
         /\ fetchedRead' = [fetchedRead EXCEPT ![s] = T]
         /\ rowsRead' = [rowsRead EXCEPT ![s] = IF weighted = {} THEN T ELSE weighted]
    /\ toRead' = toRead \ {s}
    /\ toWrite' = toWrite \cup {s}
    /\ late' = late \cup {r \in Review : /\ ServiceOf[r] = s
                                         /\ status[r] = "open" /\ stamp[r] <= now}
    /\ UNCHANGED <<clock, reviewVars, serviceVars, phase, now, revisionRead, atStart, clean>>

CloseConnection ==
    /\ phase = "reading"
    /\ toRead = {}
    /\ phase' = "writing"
    /\ UNCHANGED <<clock, reviewVars, serviceVars, now, toRead, toWrite, revisionRead,
                   rowsRead, fetchedRead, atStart, late, clean>>

\* No review was left to read, or the model gave no valid summary.
Skip(s) ==
    /\ phase = "writing"
    /\ s \in toWrite
    /\ toWrite' = toWrite \ {s}
    /\ clean' = (clean /\ rowsRead[s] = {})
    /\ UNCHANGED <<clock, reviewVars, serviceVars, phase, now, toRead, revisionRead,
                   rowsRead, fetchedRead, atStart, late>>

\* Faulty: the update ignores the revision.
PublishAnyRevision(s) ==
    /\ phase = "writing"
    /\ s \in toWrite /\ rowsRead[s] # {}
    /\ summary' = [summary EXCEPT ![s] = rowsRead[s]]
    /\ fetched' = [fetched EXCEPT ![s] = fetchedRead[s]]
    /\ watermark' = [watermark EXCEPT ![s] = now]
    /\ toWrite' = toWrite \ {s}
    /\ UNCHANGED <<clock, reviewVars, revision, phase, now, toRead, revisionRead,
                   rowsRead, fetchedRead, atStart, late, clean>>

\* Faulty: the watermark is the time of the update.
PublishAtCommitTime(s) ==
    /\ phase = "writing"
    /\ s \in toWrite /\ rowsRead[s] # {}
    /\ revision[s] = revisionRead[s]
    /\ summary' = [summary EXCEPT ![s] = rowsRead[s]]
    /\ fetched' = [fetched EXCEPT ![s] = fetchedRead[s]]
    /\ watermark' = [watermark EXCEPT ![s] = clock]
    /\ toWrite' = toWrite \ {s}
    /\ UNCHANGED <<clock, reviewVars, revision, phase, now, toRead, revisionRead,
                   rowsRead, fetchedRead, atStart, late, clean>>

\* The update matches no row when the revision has moved on.
Publish(s) ==
    /\ phase = "writing"
    /\ s \in toWrite /\ rowsRead[s] # {}
    /\ IF revision[s] = revisionRead[s]
       THEN /\ summary' = [summary EXCEPT ![s] = rowsRead[s]]
            /\ fetched' = [fetched EXCEPT ![s] = fetchedRead[s]]
            /\ watermark' = [watermark EXCEPT ![s] = now]
            /\ UNCHANGED clean
       ELSE clean' = FALSE /\ UNCHANGED <<summary, fetched, watermark>>
    /\ toWrite' = toWrite \ {s}
    /\ UNCHANGED <<clock, reviewVars, revision, phase, now, toRead, revisionRead,
                   rowsRead, fetchedRead, atStart, late>>

\* The run's variables are local to run_service_summaries.
ForgetRun ==
    /\ phase' = "off"
    /\ now' = Never
    /\ toRead' = {}
    /\ toWrite' = {}
    /\ revisionRead' = NoRevision
    /\ rowsRead' = NoRows
    /\ fetchedRead' = NoRows

EndRun ==
    /\ phase = "writing"
    /\ toWrite = {}
    /\ ForgetRun
    /\ UNCHANGED <<clock, reviewVars, serviceVars, atStart, late, clean>>

\* The redactor is unavailable, or the job raises: what is left waits a night.
StopRun ==
    /\ phase # "off"
    /\ ForgetRun
    /\ clean' = FALSE
    /\ UNCHANGED <<clock, reviewVars, serviceVars, atStart, late>>

Next ==
    \/ Tick
    \/ \E r \in Review : Submit(r) \/ Store(r) \/ Delete(r) \/ Exclude(r)
    \/ StartRun \/ SelectPending \/ CloseConnection \/ EndRun \/ StopRun
    \/ \E s \in Service : ReadInput(s) \/ Skip(s) \/ Publish(s)

Spec == Init /\ [][Next]_vars

(***************************************************************************)
(* Properties.                                                             *)
(***************************************************************************)
TypeOK ==
    /\ clock \in Nat
    /\ status \in [Review -> {"none", "open", "stored", "excluded", "deleted"}]
    /\ stamp \in [Review -> Nat]
    /\ summary \in [Service -> SUBSET Review]
    /\ fetched \in [Service -> SUBSET Review]
    /\ watermark \in [Service -> Nat]
    /\ revision \in [Service -> Nat]
    /\ phase \in {"off", "started", "reading", "writing"}
    /\ now \in Nat
    /\ toRead \in SUBSET Service
    /\ toWrite \in SUBSET Service
    /\ revisionRead \in [Service -> Nat]
    /\ rowsRead \in [Service -> SUBSET Review]
    /\ fetchedRead \in [Service -> SUBSET Review]
    /\ atStart \in [Review -> {"none", "open", "stored", "excluded", "deleted"}]
    /\ late \in SUBSET Review
    /\ clean \in BOOLEAN

\* No published summary is written from a deleted review, even when the review
\* is deleted between two queries of the run or while the model is writing.
NoDeletedInSummary == \A s \in Service : \A r \in summary[s] : status[r] # "deleted"

\* Rows fetched for one summary stand for review r as well: r is among them, or
\* they are as many as are fetched and r is ahead of none of them.
Considers(T, r) ==
    \/ r \in T
    \/ Cardinality(T) = MaxReviews /\ \A q \in T : ~Ahead(r, q)

\* After a run that does all its work, each service with a review that has been
\* stored since before the run has a summary, and the rows it was written from
\* were chosen with that review before the query: only the limit of the query
\* and the weight of other reviews have kept it out.  The exception is the
\* watermark's: a review whose transaction began before an earlier run and was
\* still open when that run read its service is older than the watermark and
\* stays unread.
CleanRunCovers ==
    phase = "off" /\ clean =>
        \A r \in Review : atStart[r] = "stored" /\ status[r] = "stored" =>
            \/ r \in late
            \/ summary[ServiceOf[r]] # {} /\ Considers(fetched[ServiceOf[r]], r)

\* What docs/SCORING.md:314 promises of an excluded review: the next run leaves
\* it out of the generated summary.
ExcludedLeavesSummary ==
    phase = "off" /\ clean =>
        \A r \in Review : atStart[r] = "excluded" => r \notin summary[ServiceOf[r]]

\* What makes NoDeletedInSummary inductive: under an unchanged revision
\* nothing that was read has been deleted.
ReadSinceRevision ==
    /\ phase \in {"off", "started"} => toWrite = {}
    /\ phase \in {"reading", "writing"} => \A s \in Service : revisionRead[s] <= revision[s]
    /\ \A s \in toWrite : revision[s] = revisionRead[s] =>
         \A r \in rowsRead[s] : status[r] # "deleted"

SummaryInv == TypeOK /\ NoDeletedInSummary /\ ReadSinceRevision
=============================================================================
