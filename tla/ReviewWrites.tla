---------------------------- MODULE ReviewWrites ----------------------------
(***************************************************************************)
(* The transactions that write reviews: review_service, delete_my_review   *)
(* (server.py) and the nightly consistency sweep (cron.py).                *)
(*                                                                         *)
(* A call runs one READ COMMITTED transaction.  It resolves the service    *)
(* and verifies the payment before it takes the advisory lock              *)
(* lock_review_writes, so that what it read may be stale once it holds the *)
(* lock; the lock is held to the end of the transaction.  Its writes       *)
(* (row, newScore, created) are its own until it commits.  Any exception,  *)
(* a crash included, rolls the transaction back and releases the lock.     *)
(*                                                                         *)
(* What verification, redaction and identity resolution decide is left     *)
(* open here: each may refuse a call.                                      *)
(***************************************************************************)
EXTENDS ReviewRecords, FiniteSets

CONSTANTS
    Call,         \* calls of the review tools, and runs of the sweep
    Asked,        \* the requests that are made
    NoRequest, NoAnswer,
    NoCall,       \* the lock is free
    NoReview      \* the transaction has not written or selected a row

VARIABLES
    request,      \* request[c]: the arguments of c
    answer,       \* answer[c]: what c returned
    reviews,      \* table reviews, as committed
    deletedKeys,  \* table deleted_review_keys
    scoreOf,      \* services.score, as the reviews it was computed from
    registered,   \* table services: the services that exist
    nextId,       \* the sequence of reviews.id
    lock,         \* the holder of lock_review_writes
    pc,           \* pc[c]: the last step of c
    found,        \* the calls whose service resolve_service found
    created,      \* the calls that inserted their service
    row,          \* row[c]: the review c inserted or selected for deletion
    newScore      \* newScore[c]: the scores c has computed

store   == <<reviews, deletedKeys, scoreOf, registered>>
private == <<found, created, row, newScore>>
vars == <<request, answer, store, nextId, lock, pc, private>>

Promise == INSTANCE ReviewLifecycle
             WITH Call <- Call, NoRequest <- NoRequest, NoAnswer <- NoAnswer,
                  request <- request, answer <- answer, reviews <- reviews,
                  deletedKeys <- deletedKeys, scoreOf <- scoreOf

ASSUME AskedAssumption == Asked \subseteq Request
ASSUME SentinelAssumption ==
    /\ NoRequest \notin Request
    /\ NoAnswer \notin Answer
    /\ NoCall \notin Call
    /\ NoReview \notin Review

Step == {"idle", "received", "resolved", "verified", "locked", "cleared", "redacted",
         "ready", "inserted", "selected", "scored", "rolledback", "done"}
\* The steps at which a call holds lock_review_writes.
Locked == {"locked", "cleared", "redacted", "ready", "inserted", "selected", "scored"}
Ended  == {"idle", "done"}

NoScore == [s \in Service |-> {}]

Init ==
    /\ request = [c \in Call |-> NoRequest]
    /\ answer = [c \in Call |-> NoAnswer]
    /\ reviews = {}
    /\ deletedKeys = {}
    /\ scoreOf = NoScore
    /\ registered = {}
    /\ nextId = 1
    /\ lock = NoCall
    /\ pc = [c \in Call |-> "idle"]
    /\ found = {}
    /\ created = {}
    /\ row = [c \in Call |-> NoReview]
    /\ newScore = [c \in Call |-> NoScore]

(***************************************************************************)
(* Control.                                                                *)
(***************************************************************************)
At(c, step, op) == pc[c] = step /\ request[c].op = op
Goto(c, step)   == pc' = [pc EXCEPT ![c] = step]

\* Faulty: an early return that never releases the lock.
ReturnKeepingLock(c, a) ==
    /\ answer' = [answer EXCEPT ![c] = a]
    /\ Goto(c, "done")
    /\ UNCHANGED <<request, store, nextId, lock, private>>

\* The transaction of c ends without a write: the lock, if held, is released.
Return(c, a) ==
    /\ answer' = [answer EXCEPT ![c] = a]
    /\ lock' = IF lock = c THEN NoCall ELSE lock
    /\ Goto(c, "done")
    /\ UNCHANGED <<request, store, nextId, private>>

\* What the transaction of c sees: the committed reviews and its own writes.
Visible(c) ==
    IF row[c] = NoReview THEN reviews
    ELSE IF request[c].op = "delete" THEN reviews \ {row[c]}
    ELSE reviews \cup {row[c]}

(***************************************************************************)
(* Before the lock.                                                        *)
(***************************************************************************)
Receive(c, req) ==
    /\ pc[c] = "idle"
    /\ request' = [request EXCEPT ![c] = req]
    /\ Goto(c, "received")
    /\ UNCHANGED <<answer, store, nextId, lock, private>>

\* review_service: build_identity, the rating and the reason may be invalid;
\* resolve_service finds the service, or not, or a conflict.
Resolve(c) ==
    /\ At(c, "received", "submit")
    /\ \/ /\ found' = IF request[c].sub.service \in registered THEN found \cup {c} ELSE found
          /\ Goto(c, "resolved")
          /\ UNCHANGED <<request, answer, store, nextId, lock, created, row, newScore>>
       \/ Return(c, Outcome("rejected"))

\* verify_review_payment and evaluate_attestation; the chain may be out of reach.
Verify(c) ==
    /\ At(c, "resolved", "submit")
    /\ \/ /\ Goto(c, "verified")
          /\ UNCHANGED <<request, answer, store, nextId, lock, private>>
       \/ \E o \in {"rejected", "unavailable"} : Return(c, Outcome(o))

\* delete_my_review: the signature of the wallet, for a few minutes.
Authorize(c) ==
    /\ At(c, "received", "delete")
    /\ \/ /\ Goto(c, "verified")
          /\ UNCHANGED <<request, answer, store, nextId, lock, private>>
       \/ Return(c, Outcome("rejected"))

\* Faulty: the lock does not exclude the other calls.
LockReviewWritesShared(c) ==
    /\ pc[c] = "verified" \/ At(c, "received", "sweep")
    /\ lock' = c
    /\ Goto(c, "locked")
    /\ UNCHANGED <<request, answer, store, nextId, private>>

LockReviewWrites(c) ==
    /\ pc[c] = "verified" \/ At(c, "received", "sweep")
    /\ lock = NoCall
    /\ lock' = c
    /\ Goto(c, "locked")
    /\ UNCHANGED <<request, answer, store, nextId, private>>

(***************************************************************************)
(* review_service, under the lock.                                         *)
(***************************************************************************)
\* Faulty: deleted_review_keys is not consulted.
IsDeletedIgnored(sub) == FALSE

IsDeleted(sub) == IncomingKeys(sub) \cap deletedKeys # {}

\* _unpaid_review_replay: same service, rating and reason hash, or refused.
ReplayUnpaid(c, r) ==
    Return(c, IF IsReplayOf(request[c].sub, r) THEN Accepted(r.id)
              ELSE Outcome("review_nonce_used"))

\* The row _unpaid_review_replay reads; only a call with a nonce reads one.
NonceRows(sub) == IF sub.kind = "unpaid" THEN SameKey(reviews, sub) ELSE {}

CheckReplay(c) ==
    /\ At(c, "locked", "submit")
    /\ LET sub == request[c].sub
           nonceRows == IF c \in found THEN NonceRows(sub) ELSE {}
           fresh == ~ IsDeleted(sub) /\ nonceRows = {}
       IN \/ IsDeleted(sub) /\ Return(c, Outcome("review_deleted"))
          \/ ~ IsDeleted(sub) /\ \E r \in nonceRows : ReplayUnpaid(c, r)
          \/ fresh /\ Blocking(reviews, sub) # {}
                   /\ Return(c, Outcome("payment_reference_used"))
          \/ /\ fresh /\ Blocking(reviews, sub) = {}
             /\ Goto(c, "cleared")
             /\ UNCHANGED <<request, answer, store, nextId, lock, private>>

\* redact_texts, fail closed, while the lock is held.
Redact(c) ==
    /\ At(c, "cleared", "submit")
    /\ \/ /\ Goto(c, "redacted")
          /\ UNCHANGED <<request, answer, store, nextId, lock, private>>
       \/ Return(c, Outcome("unavailable"))

\* create_service_from_identity, which resolves the service once more.
EnsureService(c) ==
    /\ At(c, "redacted", "submit")
    /\ \/ /\ created' = IF c \notin found /\ request[c].sub.service \notin registered
                      THEN created \cup {c} ELSE created
          /\ Goto(c, "ready")
          /\ UNCHANGED <<request, answer, store, nextId, lock, found, row, newScore>>
       \/ c \notin found /\ Return(c, Outcome("rejected"))

InsertReview(c) ==
    /\ At(c, "ready", "submit")
    /\ nextId \in ReviewId
    /\ Clashing(reviews, request[c].sub) = {}
    /\ row' = [row EXCEPT ![c] = [id |-> nextId, sub |-> request[c].sub]]
    /\ nextId' = nextId + 1
    /\ Goto(c, "inserted")
    /\ UNCHANGED <<request, answer, store, lock, found, created, newScore>>

\* A unique index refuses the row: the rollback releases the lock.  A call with
\* a nonce goes on to read the row it met; another is refused at once.
InsertConflict(c) ==
    /\ At(c, "ready", "submit")
    /\ Clashing(reviews, request[c].sub) # {}
    /\ lock' = IF lock = c THEN NoCall ELSE lock
    /\ created' = created \ {c}
    /\ nextId' = nextId + 1
    /\ \/ /\ request[c].sub.kind = "unpaid"
          /\ Goto(c, "rolledback")
          /\ UNCHANGED answer
       \/ /\ request[c].sub.kind # "unpaid"
          /\ answer' = [answer EXCEPT ![c] = Outcome("payment_reference_used")]
          /\ Goto(c, "done")
    /\ UNCHANGED <<request, store, found, row, newScore>>

\* After the rollback the row of the same nonce is read without the lock.
ReadAfterConflict(c) ==
    /\ At(c, "rolledback", "submit")
    /\ LET rows == NonceRows(request[c].sub) IN
       \/ \E r \in rows : ReplayUnpaid(c, r)
       \/ rows = {} /\ Return(c, Outcome("payment_reference_used"))

\* register_machine_payment_alias may refuse the payee of an existing
\* service; recompute_service_score scores the service of the review.
ScoreService(c) ==
    /\ At(c, "inserted", "submit")
    /\ \/ /\ LET s == request[c].sub.service IN
             newScore' = [newScore EXCEPT ![c][s] = Counted(Visible(c))[s]]
          /\ Goto(c, "scored")
          /\ UNCHANGED <<request, answer, store, nextId, lock, found, created, row>>
       \/ c \notin created /\ request[c].sub.kind = "verified" /\ Return(c, Outcome("rejected"))

(***************************************************************************)
(* delete_my_review and the sweep, under the lock.                         *)
(***************************************************************************)
\* Faulty: any signed wallet deletes a review, as long as it knows its id.
SelectReviewOfAnyone(c) ==
    /\ At(c, "locked", "delete")
    /\ LET own == {r \in reviews : r.id = request[c].id} IN
       \/ \E r \in own :
            /\ row' = [row EXCEPT ![c] = r]
            /\ Goto(c, "selected")
            /\ UNCHANGED <<request, answer, store, nextId, lock, found, created, newScore>>
       \/ own = {} /\ Return(c, Outcome("not_found"))

SelectReview(c) ==
    /\ At(c, "locked", "delete")
    /\ LET own == {r \in reviews : r.id = request[c].id /\ r.sub.wallet = request[c].wallet}
       IN \/ \E r \in own :
               /\ row' = [row EXCEPT ![c] = r]
               /\ Goto(c, "selected")
               /\ UNCHANGED <<request, answer, store, nextId, lock, found, created, newScore>>
          \/ own = {} /\ Return(c, Outcome("not_found"))

\* replay_scores: every service is scored again.
ReplayScores(c) ==
    /\ At(c, "selected", "delete") \/ At(c, "locked", "sweep")
    /\ newScore' = [newScore EXCEPT ![c] = Counted(Visible(c))]
    /\ Goto(c, "scored")
    /\ UNCHANGED <<request, answer, store, nextId, lock, found, created, row>>

(***************************************************************************)
(* Commit; the answer may be lost on its way back.                         *)
(***************************************************************************)
Touched(req) == IF req.op = "submit" THEN {req.sub.service} ELSE Service

Result(c) ==
    CASE request[c].op = "submit" -> Accepted(row[c].id)
      [] request[c].op = "delete" -> Outcome("deleted")
      [] OTHER                    -> Outcome("swept")

Commit(c) ==
    /\ pc[c] = "scored"
    /\ reviews' = Visible(c)
    /\ deletedKeys' = deletedKeys \cup
         (IF request[c].op = "delete" THEN {RowKey(row[c].sub)} ELSE {})
    /\ scoreOf' = [s \in Service |->
                     IF s \in Touched(request[c]) THEN newScore[c][s] ELSE scoreOf[s]]
    /\ registered' = registered \cup (IF c \in created THEN {request[c].sub.service} ELSE {})
    /\ \E a \in {Result(c), Outcome("lost")} : answer' = [answer EXCEPT ![c] = a]
    /\ lock' = IF lock = c THEN NoCall ELSE lock
    /\ Goto(c, "done")
    /\ UNCHANGED <<request, nextId, private>>

\* An exception, or the end of the process: the transaction is rolled back.
Abort(c) ==
    /\ pc[c] \notin Ended
    /\ \E o \in {"unavailable", "lost"} : Return(c, Outcome(o))

(***************************************************************************)
(* The specification.                                                      *)
(***************************************************************************)
Advance(c) ==
    \/ Resolve(c) \/ Verify(c) \/ Authorize(c)
    \/ CheckReplay(c) \/ Redact(c) \/ EnsureService(c)
    \/ InsertReview(c) \/ InsertConflict(c) \/ ReadAfterConflict(c) \/ ScoreService(c)
    \/ SelectReview(c) \/ ReplayScores(c)
    \/ Commit(c)

Finished == (\A c \in Call : pc[c] = "done") /\ UNCHANGED vars

Next ==
    \/ \E c \in Call :
         \/ \E req \in Asked : Receive(c, req)
         \/ LockReviewWrites(c)
         \/ Advance(c)
         \/ Abort(c)
    \/ Finished

Spec == Init /\ [][Next]_vars

(***************************************************************************)
(* A call that has begun proceeds: every wait on the chain, the redactor   *)
(* and the database has a timeout, and a free lock is granted to a call    *)
(* that waits for it.                                                      *)
(***************************************************************************)
FairSpec ==
    /\ Spec
    /\ \A c \in Call : WF_vars(LockReviewWrites(c) \/ Advance(c))

(***************************************************************************)
(* Properties.                                                             *)
(***************************************************************************)

\* Every variable holds a value of its type.
TypeOK ==
    /\ request \in [Call -> Asked \cup {NoRequest}]
    /\ answer \in [Call -> Answer \cup {NoAnswer}]
    /\ reviews \in SUBSET Review
    /\ deletedKeys \in SUBSET ReplayKey
    /\ scoreOf \in [Service -> SUBSET ReviewId]
    /\ registered \in SUBSET Service
    /\ nextId \in Nat
    /\ lock \in Call \cup {NoCall}
    /\ pc \in [Call -> Step]
    /\ found \in SUBSET Call
    /\ created \in SUBSET Call
    /\ row \in [Call -> Review \cup {NoReview}]
    /\ newScore \in [Call -> [Service -> SUBSET ReviewId]]

\* A wallet has at most one review of a payment, and a payment at most one
\* review that claims it.  No index relates the observation and the claim of
\* one wallet: only the check made under lock_review_writes keeps them apart.
OneReviewPerPayment ==
    \A r1, r2 \in reviews :
        /\ {r1.sub.kind, r2.sub.kind} \cap {"unpaid"} = {}
        /\ r1.sub.ref = r2.sub.ref
        /\ \/ r1.sub.wallet = r2.sub.wallet
           \/ {r1.sub.kind, r2.sub.kind} \subseteq {"verified", "placeholder"}
        => r1 = r2

\* A deleted review never comes back, whichever retry of it was in flight
\* when delete_my_review committed.
DeletedStaysDeleted == \A r \in reviews : RowKey(r.sub) \notin deletedKeys

\* The stored score of every service counts exactly its stored reviews, after
\* every commit of a submission, a deletion or the sweep.
ScoresMatchReviews == scoreOf = Counted(reviews)

\* A review whose caller was told it is accepted is stored as it was sent, or
\* its owner deleted it.
AcceptedIsKept ==
    \A c \in Call : answer[c] # NoAnswer /\ answer[c].outcome = "accepted" =>
        \/ [id |-> answer[c].id, sub |-> request[c].sub] \in reviews
        \/ RowKey(request[c].sub) \in deletedKeys

\* Retrying a review gives the caller the id of the first attempt: no two
\* accepted calls for one payment or nonce name different rows.
RetryNamesSameReview ==
    \A c, d \in Call :
        /\ answer[c] # NoAnswer /\ answer[c].outcome = "accepted"
        /\ answer[d] # NoAnswer /\ answer[d].outcome = "accepted"
        /\ RowKey(request[c].sub) = RowKey(request[d].sub)
        => answer[c].id = answer[d].id

\* What a payer has to yield to: another proof of having paid, an observation of
\* their own, or a use of their receipt.
MayReserve(other, sub) ==
    \/ other.ref = sub.ref /\ other.kind = "verified"
    \/ other.ref = sub.ref /\ other.kind = "observed" /\ other.wallet = sub.wallet
    \/ SameReceipt(other, sub)

Placeholder(other, sub) == other.ref = sub.ref /\ other.kind = "placeholder"

RefusedPayer(c) ==
    /\ answer[c] \in {Outcome("payment_reference_used"), Outcome("review_deleted")}
    /\ request[c].sub.kind = "verified"

\* What docs/SCORING.md:188-190 and the comment at server.py:877 say: only a
\* review that proves the payer reserves the payment.  The code also lets an
\* unsigned placeholder claim it, and refuses the payer for that.
PayerYieldsOnlyToProof ==
    \A c \in Call : RefusedPayer(c) =>
        \E d \in Call \ {c} :
          /\ request[d] # NoRequest /\ request[d].op = "submit"
          /\ MayReserve(request[d].sub, request[c].sub)

\* What the code does keep: the observation of another wallet, stored or
\* deleted, neither reserves nor blocks the payment (server.py:882).  Whoever
\* proves to have paid is refused only for another proof, for an observation of
\* their own, for a use of the same receipt, or for an unsigned placeholder.
StrangersDoNotBlockPayer ==
    \A c \in Call : RefusedPayer(c) =>
        \E d \in Call \ {c} :
          /\ request[d] # NoRequest /\ request[d].op = "submit"
          /\ \/ MayReserve(request[d].sub, request[c].sub)
             \/ Placeholder(request[d].sub, request[c].sub)

\* Once a payment is claimed nobody adds an observation of it.
NoObservationOfClaimed ==
    [][\A r \in reviews' \ reviews : r.sub.kind = "observed" =>
         \A q \in reviews : RowKey(q.sub) # PaymentKey(r.sub.ref)]_vars

\* The interleaved transactions keep the atomic promise of ReviewLifecycle.
KeepsPromise == Promise!Spec

\* Every call that is made is answered, whatever holds the lock before it: in
\* the end, for good, no call has begun and not ended.
EveryCallIsAnswered == <>[](\A c \in Call : pc[c] # "idle" => pc[c] = "done")

(***************************************************************************)
(* The inductive invariant behind the safety properties.                   *)
(***************************************************************************)

\* Which step a call is at, and whether it holds the lock.
ControlOK(c) ==
    /\ pc[c] = "idle" <=> request[c] = NoRequest
    /\ pc[c] # "done" <=> answer[c] = NoAnswer
    /\ pc[c] \in Locked <=> lock = c
    /\ pc[c] \in {"resolved", "cleared", "redacted", "ready", "inserted", "rolledback"}
         => request[c].op = "submit"
    /\ pc[c] = "selected" => request[c].op = "delete"
    /\ c \in created => request[c] # NoRequest /\ request[c].op = "submit"

HasInserted(c) == pc[c] = "inserted" \/ At(c, "scored", "submit")
HasSelected(c) == pc[c] = "selected" \/ At(c, "scored", "delete")

\* The row a call has written or selected, while its transaction is open.
RowOK(c) ==
    /\ HasInserted(c) =>
         /\ row[c] \in Review
         /\ row[c].sub = request[c].sub
         /\ row[c].id < nextId
         /\ \A r \in reviews : r.id # row[c].id
         /\ \A d \in Call : answer[d] # Accepted(row[c].id)
    /\ HasSelected(c) =>
         /\ row[c] \in reviews
         /\ row[c].id = request[c].id
         /\ row[c].sub.wallet = request[c].wallet
    /\ pc[c] # "done" /\ ~ HasInserted(c) /\ ~ HasSelected(c) => row[c] = NoReview

\* What CheckReplay established holds until the end of the transaction.
ClearOK(c) ==
    /\ pc[c] \in {"cleared", "redacted", "ready"} \/ HasInserted(c) =>
         /\ IncomingKeys(request[c].sub) \cap deletedKeys = {}
         /\ Blocking(reviews, request[c].sub) = {}
    /\ HasInserted(c) => Clashing(reviews, request[c].sub) = {}

\* A computed score is still right when it is committed.
ScoreOK(c) ==
    pc[c] = "scored" =>
        \A s \in Touched(request[c]) : newScore[c][s] = Counted(Visible(c))[s]

CallInv == \A c \in Call : ControlOK(c) /\ RowOK(c) /\ ClearOK(c) /\ ScoreOK(c)

\* Ids come from the sequence.
IdInv ==
    /\ \A r \in reviews : r.id < nextId
    /\ \A r1, r2 \in reviews : r1.id = r2.id => r1 = r2
    /\ \A c \in Call : \A id \in ReviewId : answer[c] = Accepted(id) => id < nextId

\* The unique indexes on reviews.
KeyInv ==
    \A r1, r2 \in reviews :
        RowKey(r1.sub) = RowKey(r2.sub) \/ SameReceipt(r1.sub, r2.sub) => r1 = r2

\* What the committed tables and the answers satisfy between two steps.
StoreInv ==
    /\ IdInv /\ KeyInv
    /\ OneReviewPerPayment /\ DeletedStaysDeleted /\ ScoresMatchReviews
AnswerInv == AcceptedIsKept /\ RetryNamesSameReview

IInv == TypeOK /\ CallInv /\ StoreInv /\ AnswerInv

(***************************************************************************)
(* What else the promise rests on, inductive together with IInv.           *)
(***************************************************************************)

\* What CheckReplay let through, a unique index still refuses for two reasons
\* only: a repeated nonce, or a receipt that another wallet's observation of the
\* payment has used.
ClashOK(c) ==
    pc[c] = "ready" =>
        \A r \in Clashing(reviews, request[c].sub) :
          \/ request[c].sub.kind = "unpaid"
          \/ /\ SameReceipt(r.sub, request[c].sub)
             /\ r.sub.kind = "observed"
             /\ r.sub.wallet # request[c].sub.wallet

\* The row of the same nonce that a call met is stored, or deleted since.
ConflictOK(c) ==
    pc[c] = "rolledback" =>
        /\ request[c].sub.kind = "unpaid"
        /\ \/ SameKey(reviews, request[c].sub) # {}
           \/ RowKey(request[c].sub) \in deletedKeys

\* What is stored, and what is deleted, was submitted by a call that is over.
Submitted(d) == pc[d] = "done" /\ request[d].op = "submit"
OriginInv ==
    /\ \A r \in reviews : \E d \in Call : Submitted(d) /\ request[d].sub = r.sub
    /\ \A k \in deletedKeys : \E d \in Call : Submitted(d) /\ RowKey(request[d].sub) = k

PastInv == OriginInv /\ \A c \in Call : ConflictOK(c)

HistoryInv == PastInv /\ \A c \in Call : ClashOK(c)
=============================================================================
