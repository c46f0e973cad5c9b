------------------------- MODULE ReviewWritesProofs -------------------------
(* Theorems about ReviewWrites, for every set of calls and of requests: its safety, and that it implements ReviewLifecycle. *)
EXTENDS ReviewWrites, TLAPS

(***************************************************************************)
(* Lemmas about the keys of ReviewRecords.                                 *)
(***************************************************************************)

\* review_replay_key and the canonical reference are keys.
LEMMA RowKeyType ==
    ASSUME NEW sub \in Submission
    PROVE  /\ RowKey(sub) \in ReplayKey
           /\ IncomingKeys(sub) \subseteq ReplayKey
           /\ RowKey(sub) \in IncomingKeys(sub)
<1>1. CASE sub.kind = "unpaid"
  BY <1>1 DEF Submission, ReplayKey, RowKey, IncomingKeys, UnpaidKey
<1>2. CASE sub.kind = "observed"
  BY <1>2 DEF Submission, ReplayKey, RowKey, IncomingKeys, UnlinkedKey, PaymentKey
<1>3. CASE sub.kind \in {"verified", "placeholder"}
  BY <1>3 DEF Submission, ReplayKey, RowKey, IncomingKeys, PaymentKey
<1>4. QED
  BY <1>1, <1>2, <1>3 DEF Submission

\* A score counts ids of reviews.
LEMMA CountedType ==
    ASSUME NEW rows \in SUBSET Review
    PROVE  Counted(rows) \in [Service -> SUBSET ReviewId]
BY DEF Counted, Review

(***************************************************************************)
(* Type correctness and control.                                           *)
(***************************************************************************)

\* The answers the actions give are answers, and none is the sentinel.
LEMMA AnswerType ==
    /\ \A o \in Outcomes : Outcome(o) \in Answer
    /\ \A id \in ReviewId : Accepted(id) \in Answer
    /\ \A o \in {"rejected", "unavailable", "lost", "review_deleted", "review_nonce_used",
                 "payment_reference_used", "deleted", "not_found", "swept"} :
         Outcome(o) \in Answer
BY DEF Outcome, Accepted, Answer, Outcomes

\* A call that has begun asks one of the requests.
LEMMA RequestType ==
    ASSUME TypeOK, NEW c \in Call, ControlOK(c), pc[c] # "idle"
    PROVE  /\ request[c] \in Asked
           /\ request[c] \in Request
           /\ request[c].op = "submit" => request[c].sub \in Submission
           /\ request[c].op \in {"submit", "delete", "sweep"}
<1>1. request[c] \in Asked /\ request[c] \in Request
  BY AskedAssumption DEF TypeOK, ControlOK
<1>2. QED
  BY <1>1 DEF Request, SubmitRequest, DeleteRequest, SweepRequest

\* What a call sees are reviews.
LEMMA VisibleType ==
    ASSUME TypeOK, NEW c \in Call
    PROVE  Visible(c) \in SUBSET Review
BY DEF TypeOK, Visible

(***************************************************************************)
(* Frames.                                                                 *)
(***************************************************************************)

\* A step that leaves the tables alone keeps what is true of them.
LEMMA StoreFrame ==
    ASSUME IInv, UNCHANGED store, nextId' \in Nat, nextId' >= nextId,
           \A c \in Call : \A id \in ReviewId : answer'[c] = Accepted(id) => id < nextId
    PROVE  StoreInv'
<1>1. KeyInv' /\ OneReviewPerPayment' /\ DeletedStaysDeleted' /\ ScoresMatchReviews'
  BY DEF IInv, StoreInv, KeyInv, OneReviewPerPayment, DeletedStaysDeleted,
         ScoresMatchReviews, store
<1>2. IdInv'
  <2>1. \A r \in reviews : r.id \in Nat
    BY ReviewIdAssumption DEF IInv, TypeOK, Review
  <2>2. QED
    BY <2>1, ReviewIdAssumption DEF IInv, StoreInv, IdInv, TypeOK, store
<1>3. QED
  BY <1>1, <1>2 DEF StoreInv

\* A step of another call, which leaves the tables alone and gives no answer
\* naming the row of d, keeps what is true of call d.
LEMMA CallFrame ==
    ASSUME IInv, NEW d \in Call,
           UNCHANGED store,
           request'[d] = request[d], pc'[d] = pc[d], row'[d] = row[d],
           newScore'[d] = newScore[d],
           nextId' \in Nat, nextId' >= nextId,
           HasInserted(d) => \A e \in Call : answer'[e] # Accepted(row[d].id)
    PROVE  RowOK(d)' /\ ClearOK(d)' /\ ScoreOK(d)'
<1>0. RowOK(d) /\ ClearOK(d) /\ ScoreOK(d) /\ TypeOK
  BY DEF IInv, CallInv
<1>1. /\ HasInserted(d)' <=> HasInserted(d)
      /\ HasSelected(d)' <=> HasSelected(d)
      /\ Visible(d)' = Visible(d)
  BY DEF HasInserted, HasSelected, At, Visible, store
<1>2. RowOK(d)'
  <2>1. HasInserted(d) => row[d].id \in Nat
    BY <1>0, ReviewIdAssumption DEF RowOK, Review
  <2>2. QED
    BY <1>0, <1>1, <2>1 DEF RowOK, TypeOK, store
<1>3. ClearOK(d)'
  BY <1>0, <1>1 DEF ClearOK, store
<1>4. ScoreOK(d)'
  BY <1>0, <1>1 DEF ScoreOK
<1>5. QED
  BY <1>2, <1>3, <1>4

\* A step of c that gives no answer keeps what is true of answers.
LEMMA AnswerFrame ==
    ASSUME IInv, UNCHANGED <<store, answer>>,
           \A d \in Call : answer[d] # NoAnswer => request'[d] = request[d]
    PROVE  AnswerInv'
BY DEF IInv, AnswerInv, AcceptedIsKept, RetryNamesSameReview, store

(***************************************************************************)
(* Steps that end a transaction without a write, and steps inside one.     *)
(***************************************************************************)

\* Ending a transaction with an answer keeps the invariant, when an accepted
\* id names a stored copy of the submission.
LEMMA ReturnInv ==
    ASSUME IInv, NEW c \in Call, NEW a \in Answer,
           pc[c] \notin Ended, Return(c, a),
           \A id \in ReviewId : a = Accepted(id) =>
             request[c].op = "submit" /\ [id |-> id, sub |-> request[c].sub] \in reviews
    PROVE  IInv'
<1> USE DEF Return, Goto, store, private
<1>0. TypeOK /\ CallInv /\ StoreInv /\ AnswerInv
  BY DEF IInv
<1>1. TypeOK'
  BY <1>0 DEF TypeOK, Step
<1>2. answer' = [answer EXCEPT ![c] = a] /\ answer[c] = NoAnswer /\ a # NoAnswer
  BY <1>0, SentinelAssumption DEF TypeOK, CallInv, ControlOK, Ended
<1>3. \A d \in Call, id \in ReviewId : answer'[d] = Accepted(id) =>
        answer[d] = Accepted(id) \/ \E r \in reviews : r.id = id
  <2> SUFFICES ASSUME NEW d \in Call, NEW id \in ReviewId, answer'[d] = Accepted(id),
                      d = c
               PROVE \E r \in reviews : r.id = id
    BY <1>2, <1>0 DEF TypeOK
  <2>1. [id |-> id, sub |-> request[c].sub] \in reviews
    BY <1>2, <1>0 DEF TypeOK
  <2>2. QED
    BY <2>1
<1>4. StoreInv'
  <2>1. \A d \in Call : \A id \in ReviewId : answer'[d] = Accepted(id) => id < nextId
    BY <1>3, <1>0 DEF StoreInv, IdInv
  <2>2. QED
    BY <2>1, <1>0, StoreFrame DEF TypeOK
<1>5. ASSUME NEW d \in Call PROVE ControlOK(d)' /\ RowOK(d)' /\ ClearOK(d)' /\ ScoreOK(d)'
  <2>0. ControlOK(c) /\ ControlOK(d) /\ RowOK(d)
    BY <1>0 DEF CallInv
  <2>1. ControlOK(d)'
    BY <2>0, <1>0, <1>2, SentinelAssumption DEF TypeOK, ControlOK, Ended, Locked
  <2>2. CASE d = c
    <3>1. pc'[c] = "done"
      BY <1>0 DEF TypeOK
    <3>2. QED
      BY <2>1, <2>2, <3>1 DEF RowOK, ClearOK, ScoreOK, HasInserted, HasSelected, At
  <2>3. CASE d # c
    <3>1. HasInserted(d) => \A e \in Call : answer'[e] # Accepted(row[d].id)
      BY <2>0, <1>3 DEF RowOK, Review
    <3>2. pc'[d] = pc[d]
      BY <2>3, <1>0 DEF TypeOK
    <3>3. QED
      BY <2>1, <2>3, <3>1, <3>2, <1>0, CallFrame DEF TypeOK
  <2>4. QED
    BY <2>1, <2>2, <2>3
<1>6. AcceptedIsKept'
  <2> SUFFICES ASSUME NEW d \in Call, answer'[d] # NoAnswer, answer'[d].outcome = "accepted"
               PROVE \/ [id |-> answer'[d].id, sub |-> request[d].sub] \in reviews
                     \/ RowKey(request[d].sub) \in deletedKeys
    BY DEF AcceptedIsKept
  <2>1. CASE d = c
    <3>1. answer'[c] = a
      BY <1>2, <1>0 DEF TypeOK
    <3>2. a = Accepted(a.id) /\ a.id \in ReviewId
      BY <2>1, <3>1 DEF Answer, Accepted, Outcomes
    <3>3. QED
      BY <2>1, <3>1, <3>2
  <2>2. CASE d # c
    BY <2>2, <1>0, <1>2 DEF TypeOK, AnswerInv, AcceptedIsKept
  <2>3. QED
    BY <2>1, <2>2
<1>7. RetryNamesSameReview'
  <2> SUFFICES ASSUME NEW d \in Call, NEW e \in Call,
                      answer'[d] # NoAnswer, answer'[d].outcome = "accepted",
                      answer'[e] # NoAnswer, answer'[e].outcome = "accepted",
                      RowKey(request[d].sub) = RowKey(request[e].sub)
               PROVE answer'[d].id = answer'[e].id
    BY DEF RetryNamesSameReview
  <2>1. CASE d # c /\ e # c
    BY <2>1, <1>0, <1>2 DEF TypeOK, AnswerInv, RetryNamesSameReview
  <2>2. CASE d = c \/ e = c
    <3>1. a = Accepted(a.id) /\ a.id \in ReviewId
      BY <2>2, <1>0, <1>2 DEF TypeOK, Answer, Accepted, Outcomes
    <3>2. [id |-> a.id, sub |-> request[c].sub] \in reviews
      BY <3>1
    <3>3. RowKey(request[c].sub) \notin deletedKeys
      BY <3>2, <1>0 DEF StoreInv, DeletedStaysDeleted
    <3>4. [id |-> answer'[d].id, sub |-> request[d].sub] \in reviews
      BY <1>6, <3>3, <2>2 DEF AcceptedIsKept
    <3>5. [id |-> answer'[e].id, sub |-> request[e].sub] \in reviews
      BY <1>6, <3>3, <2>2 DEF AcceptedIsKept
    <3>6. [id |-> answer'[d].id, sub |-> request[d].sub] = [id |-> answer'[e].id, sub |-> request[e].sub]
      BY <3>4, <3>5, <1>0 DEF StoreInv, KeyInv
    <3>7. QED
      BY <3>6
  <2>3. QED
    BY <2>1, <2>2
<1>8. QED
  BY <1>1, <1>4, <1>5, <1>6, <1>7 DEF IInv, CallInv, AnswerInv

\* A step of c that gives no answer and changes no table keeps the invariant,
\* when it keeps what is true of c and leaves the other calls alone.
LEMMA QuietInv ==
    ASSUME IInv, NEW c \in Call, UNCHANGED <<store, answer>>, pc[c] # "done",
           \A d \in Call \ {c} :
             /\ request'[d] = request[d] /\ pc'[d] = pc[d] /\ row'[d] = row[d]
             /\ newScore'[d] = newScore[d] /\ (d \in created' => d \in created),
           lock' = lock \/ {lock, lock'} = {NoCall, c},
           nextId' \in Nat, nextId' >= nextId,
           TypeOK', ControlOK(c)', RowOK(c)', ClearOK(c)', ScoreOK(c)'
    PROVE  IInv'
<1>0. TypeOK /\ CallInv /\ StoreInv /\ AnswerInv
  BY DEF IInv
<1>1. StoreInv'
  <2>1. \A d \in Call : \A id \in ReviewId : answer'[d] = Accepted(id) => id < nextId
    BY <1>0 DEF StoreInv, IdInv
  <2>2. QED
    BY <2>1, StoreFrame
<1>2. AnswerInv'
  BY <1>0, AnswerFrame DEF CallInv, ControlOK
<1>3. ASSUME NEW d \in Call PROVE ControlOK(d)' /\ RowOK(d)' /\ ClearOK(d)' /\ ScoreOK(d)'
  <2>1. CASE d = c
    BY <2>1
  <2>2. CASE d # c
    <3>0. ControlOK(d) /\ RowOK(d)
      BY <1>0 DEF CallInv
    <3>1. ControlOK(d)'
      BY <2>2, <3>0, SentinelAssumption DEF ControlOK
    <3>2. HasInserted(d) => \A e \in Call : answer'[e] # Accepted(row[d].id)
      BY <3>0 DEF RowOK
    <3>3. QED
      BY <2>2, <3>1, <3>2, CallFrame
  <2>3. QED
    BY <2>1, <2>2
<1>4. QED
  BY <1>1, <1>2, <1>3 DEF IInv, CallInv

(***************************************************************************)
(* One lemma per group of actions.                                         *)
(***************************************************************************)

\* The sentinels answer nobody and the plain outcomes name no review.
LEMMA RefusalInv ==
    ASSUME IInv, NEW c \in Call, pc[c] \notin Ended,
           NEW o \in Outcomes, Return(c, Outcome(o))
    PROVE  IInv'
<1>1. \A id \in ReviewId : Outcome(o) # Accepted(id)
  BY DEF Outcome, Accepted, Outcomes
<1>2. QED
  BY <1>1, AnswerType, ReturnInv

\* Two unpaid submissions with one key, service and body are one submission.
LEMMA ReplayIsSame ==
    ASSUME NEW sub \in Submission, NEW r \in Review,
           sub.kind = "unpaid", IsReplayOf(sub, r)
    PROVE  r.sub = sub
<1>1. r.sub \in Submission
  BY DEF Review
<1>2. RowKey(sub) = UnpaidKey(sub.wallet, sub.ref)
  BY DEF RowKey
<1>3. r.sub.kind = "unpaid"
  BY <1>1, <1>2 DEF IsReplayOf, RowKey, Submission, UnpaidKey, UnlinkedKey, PaymentKey
<1>4. RowKey(r.sub) = UnpaidKey(r.sub.wallet, r.sub.ref)
  BY <1>3 DEF RowKey
<1>5. r.sub.wallet = sub.wallet /\ r.sub.ref = sub.ref
  BY <1>2, <1>4 DEF IsReplayOf, UnpaidKey
<1>6. QED
  BY <1>1, <1>3, <1>5 DEF IsReplayOf, Submission

\* _unpaid_review_replay, under the lock or after a conflict, keeps the invariant:
\* the id it gives is that of the stored copy.
LEMMA ReplayUnpaidInv ==
    ASSUME IInv, NEW c \in Call, pc[c] \notin Ended, request[c].op = "submit",
           NEW r \in NonceRows(request[c].sub), ReplayUnpaid(c, r)
    PROVE  IInv'
<1>0. TypeOK /\ ControlOK(c)
  BY DEF IInv, CallInv
<1>1. request[c].sub \in Submission
  BY <1>0, RequestType DEF Ended
<1>2. r \in reviews /\ r \in Review /\ request[c].sub.kind = "unpaid"
  BY <1>0 DEF NonceRows, SameKey, TypeOK
<1>3. CASE IsReplayOf(request[c].sub, r)
  <2>1. r.sub = request[c].sub
    BY <1>1, <1>2, <1>3, ReplayIsSame
  <2>2. r = [id |-> r.id, sub |-> request[c].sub] /\ r.id \in ReviewId
    BY <1>2, <2>1 DEF Review
  <2>3. \A id \in ReviewId : Accepted(r.id) = Accepted(id) => id = r.id
    BY DEF Accepted
  <2>4. Accepted(r.id) \in Answer /\ Return(c, Accepted(r.id))
    BY <2>2, <1>3, AnswerType DEF ReplayUnpaid
  <2>5. \A id \in ReviewId : Accepted(r.id) = Accepted(id) =>
             request[c].op = "submit" /\ [id |-> id, sub |-> request[c].sub] \in reviews
    BY <2>2, <2>3, <1>2
  <2>6. QED
    BY <2>4, <2>5, ReturnInv
<1>4. CASE ~ IsReplayOf(request[c].sub, r)
  BY <1>4, RefusalInv DEF ReplayUnpaid, Outcomes
<1>5. QED
  BY <1>3, <1>4

\* A new call keeps the invariant.
LEMMA ReceiveInv ==
    ASSUME IInv, NEW c \in Call, NEW req \in Asked, Receive(c, req)
    PROVE  IInv'
<1> USE DEF Receive, Goto, store, private
<1>0. TypeOK /\ ControlOK(c) /\ RowOK(c)
  BY DEF IInv, CallInv
<1>1. TypeOK'
  BY <1>0 DEF TypeOK, Step
<1>2. pc'[c] = "received" /\ request'[c] = req /\ req # NoRequest
  BY <1>0, AskedAssumption, SentinelAssumption DEF TypeOK
<1>3. ControlOK(c)' /\ RowOK(c)' /\ ClearOK(c)' /\ ScoreOK(c)'
  BY <1>0, <1>2 DEF ControlOK, RowOK, ClearOK, ScoreOK, HasInserted, HasSelected, At, Locked
<1>4. QED
  BY <1>0, <1>1, <1>3, QuietInv DEF TypeOK

\* lock_review_writes keeps the invariant.
LEMMA LockInv ==
    ASSUME IInv, NEW c \in Call, LockReviewWrites(c)
    PROVE  IInv'
<1> USE DEF LockReviewWrites, Goto, store, private
<1>0. TypeOK /\ ControlOK(c) /\ RowOK(c)
  BY DEF IInv, CallInv
<1>1. TypeOK'
  BY <1>0 DEF TypeOK, Step
<1>2. pc'[c] = "locked" /\ pc[c] \in {"verified", "received"}
  BY <1>0 DEF TypeOK, At
<1>3. ControlOK(c)' /\ RowOK(c)' /\ ClearOK(c)' /\ ScoreOK(c)'
  BY <1>0, <1>2 DEF ControlOK, RowOK, ClearOK, ScoreOK, HasInserted, HasSelected, At, Locked
<1>4. QED
  BY <1>0, <1>1, <1>2, <1>3, QuietInv DEF TypeOK

\* The steps before the lock.
LEMMA PrepareInv ==
    ASSUME IInv, NEW c \in Call, Resolve(c) \/ Verify(c) \/ Authorize(c)
    PROVE  IInv'
<1> USE DEF Goto, store, private
<1>0. TypeOK /\ ControlOK(c) /\ RowOK(c)
  BY DEF IInv, CallInv
<1>1. pc[c] \in {"received", "resolved"}
  BY DEF Resolve, Verify, Authorize, At
<1>2. CASE \E o \in {"rejected", "unavailable"} : Return(c, Outcome(o))
  BY <1>1, <1>2, RefusalInv DEF Ended, Outcomes
<1>3. ASSUME NEW step \in {"resolved", "verified"}, Goto(c, step),
             step = "resolved" => request[c].op = "submit",
             found' \in SUBSET Call,
             UNCHANGED <<request, answer, store, nextId, lock, created, row, newScore>>
      PROVE  IInv'
  <2>1. TypeOK'
    BY <1>0, <1>3 DEF TypeOK, Step
  <2>2. pc'[c] = step
    BY <1>0, <1>3 DEF TypeOK
  <2>3. ControlOK(c)' /\ RowOK(c)' /\ ClearOK(c)' /\ ScoreOK(c)'
    BY <1>0, <1>1, <1>3, <2>2
       DEF ControlOK, RowOK, ClearOK, ScoreOK, HasInserted, HasSelected, At, Locked
  <2>4. QED
    BY <1>0, <1>1, <1>3, <2>1, <2>3, QuietInv DEF TypeOK
<1>4. CASE Resolve(c)
  BY <1>0, <1>2, <1>3, <1>4 DEF Resolve, At, TypeOK
<1>5. CASE Verify(c)
  BY <1>0, <1>2, <1>3, <1>5 DEF Verify, TypeOK
<1>6. CASE Authorize(c)
  BY <1>0, <1>2, <1>3, <1>6 DEF Authorize, TypeOK
<1>7. QED
  BY <1>4, <1>5, <1>6

\* The checks of review_service under the lock keep the invariant, and establish
\* ClearOK when they let the submission through.
LEMMA CheckReplayInv ==
    ASSUME IInv, NEW c \in Call, CheckReplay(c)
    PROVE  IInv'
<1> USE DEF Goto, store, private
<1> DEFINE sub == request[c].sub
<1>0. TypeOK /\ ControlOK(c) /\ RowOK(c)
  BY DEF IInv, CallInv
<1>1. pc[c] = "locked" /\ request[c].op = "submit"
  BY DEF CheckReplay, At
<1>2. CASE Return(c, Outcome("review_deleted"))
  BY <1>1, <1>2, RefusalInv DEF Ended, Outcomes
<1>3. CASE Return(c, Outcome("payment_reference_used"))
  BY <1>1, <1>3, RefusalInv DEF Ended, Outcomes
<1>4. ASSUME NEW r \in NonceRows(sub), ReplayUnpaid(c, r) PROVE IInv'
  BY <1>1, <1>4, ReplayUnpaidInv DEF Ended
<1>5. CASE /\ ~ IsDeleted(sub) /\ Blocking(reviews, sub) = {}
           /\ Goto(c, "cleared")
           /\ UNCHANGED <<request, answer, store, nextId, lock, private>>
  <2>1. TypeOK'
    BY <1>0, <1>5 DEF TypeOK, Step
  <2>2. pc'[c] = "cleared"
    BY <1>0, <1>5 DEF TypeOK
  <2>3. ControlOK(c)' /\ RowOK(c)' /\ ScoreOK(c)'
    BY <1>0, <1>1, <1>5, <2>2 DEF ControlOK, RowOK, ScoreOK, HasInserted, HasSelected, At, Locked
  <2>4. ClearOK(c)'
    BY <1>0, <1>5, <2>2 DEF ClearOK, HasInserted, At, IsDeleted
  <2>5. QED
    BY <1>0, <1>1, <1>5, <2>1, <2>3, <2>4, QuietInv DEF TypeOK
<1>6. QED
  BY <1>2, <1>3, <1>4, <1>5 DEF CheckReplay

\* Redaction and create_service_from_identity keep the invariant.
LEMMA RedactInv ==
    ASSUME IInv, NEW c \in Call, Redact(c) \/ EnsureService(c)
    PROVE  IInv'
<1> USE DEF Goto, store, private
<1>0. TypeOK /\ ControlOK(c) /\ RowOK(c) /\ ClearOK(c)
  BY DEF IInv, CallInv
<1>1. pc[c] \in {"cleared", "redacted"} /\ request[c].op = "submit"
  BY DEF Redact, EnsureService, At
<1>2. CASE \E o \in {"rejected", "unavailable"} : Return(c, Outcome(o))
  BY <1>1, <1>2, RefusalInv DEF Ended, Outcomes
<1>3. ASSUME NEW step \in {"redacted", "ready"}, Goto(c, step),
             created' \in SUBSET Call, \A d \in Call \ {c} : d \in created' => d \in created,
             UNCHANGED <<request, answer, store, nextId, lock, found, row, newScore>>
      PROVE  IInv'
  <2>1. TypeOK'
    BY <1>0, <1>3 DEF TypeOK, Step
  <2>2. pc'[c] = step
    BY <1>0, <1>3 DEF TypeOK
  <2>3. ControlOK(c)' /\ RowOK(c)' /\ ScoreOK(c)'
    BY <1>0, <1>1, <1>3, <2>2 DEF ControlOK, RowOK, ScoreOK, HasInserted, HasSelected, At, Locked
  <2>4. ClearOK(c)'
    BY <1>0, <1>1, <1>3, <2>2 DEF ClearOK, HasInserted, At
  <2>5. QED
    BY <1>0, <1>1, <1>3, <2>1, <2>3, <2>4, QuietInv DEF TypeOK
<1>4. CASE Redact(c)
  BY <1>0, <1>2, <1>3, <1>4 DEF Redact, TypeOK
<1>5. CASE EnsureService(c)
  BY <1>0, <1>2, <1>3, <1>5 DEF EnsureService, TypeOK
<1>6. QED
  BY <1>4, <1>5

\* The insert keeps the invariant: the new id is on no row and in no answer.
LEMMA InsertReviewInv ==
    ASSUME IInv, NEW c \in Call, InsertReview(c)
    PROVE  IInv'
<1> USE DEF InsertReview, Goto, store, private
<1>0. TypeOK /\ ControlOK(c) /\ RowOK(c) /\ ClearOK(c) /\ StoreInv
  BY DEF IInv, CallInv
<1>1. pc[c] = "ready" /\ request[c].op = "submit" /\ request[c].sub \in Submission
  BY <1>0, RequestType DEF At
<1>2. /\ pc'[c] = "inserted"
      /\ row'[c] = [id |-> nextId, sub |-> request[c].sub]
      /\ row'[c] \in Review
      /\ nextId \in Nat /\ nextId' = nextId + 1
  BY <1>0, <1>1 DEF TypeOK, Review
<1>3. TypeOK'
  BY <1>0, <1>2 DEF TypeOK, Step
<1>4. ControlOK(c)' /\ ScoreOK(c)'
  BY <1>0, <1>1, <1>2 DEF ControlOK, ScoreOK, Locked
<1>5. ClearOK(c)'
  BY <1>0, <1>1, <1>2 DEF ClearOK, HasInserted
<1>6. RowOK(c)'
  <2>1. \A r \in reviews : r.id # nextId
    BY <1>0, <1>2, ReviewIdAssumption DEF StoreInv, IdInv, TypeOK, Review
  <2>2. \A d \in Call : answer[d] # Accepted(nextId)
    BY <1>0, <1>2 DEF StoreInv, IdInv
  <2>3. QED
    BY <1>2, <2>1, <2>2 DEF RowOK, HasInserted, HasSelected, At
<1>7. nextId' \in Nat /\ nextId' >= nextId
  BY <1>2
<1>8. \A d \in Call \ {c} :
        /\ request'[d] = request[d] /\ pc'[d] = pc[d] /\ row'[d] = row[d]
        /\ newScore'[d] = newScore[d] /\ (d \in created' => d \in created)
  BY <1>0 DEF TypeOK
<1>9. UNCHANGED <<store, answer>> /\ lock' = lock /\ pc[c] # "done"
  BY <1>1
<1>10. QED
  BY <1>3, <1>4, <1>5, <1>6, <1>7, <1>8, <1>9, QuietInv

\* A refusal that uses up an id keeps the invariant.
LEMMA RefusedAtInsertInv ==
    ASSUME IInv, NEW c \in Call, NEW a \in Answer, pc[c] \notin Ended, lock = c,
           \A id \in ReviewId : a # Accepted(id),
           a.outcome # "accepted",
           answer' = [answer EXCEPT ![c] = a], pc' = [pc EXCEPT ![c] = "done"],
           lock' = NoCall, nextId' = nextId + 1, created' \subseteq created,
           UNCHANGED <<request, store, found, row, newScore>>
    PROVE  IInv'
<1> USE DEF store
<1>0. TypeOK /\ CallInv /\ StoreInv /\ AnswerInv
  BY DEF IInv
<1>1. TypeOK'
  BY <1>0 DEF TypeOK, Step
<1>2. answer'[c] = a /\ a # NoAnswer /\ pc'[c] = "done"
      /\ \A d \in Call \ {c} : answer'[d] = answer[d] /\ pc'[d] = pc[d]
  BY <1>0, SentinelAssumption DEF TypeOK
<1>3. \A d \in Call, id \in ReviewId : answer'[d] = Accepted(id) => answer[d] = Accepted(id)
  BY <1>2
<1>4. nextId' \in Nat /\ nextId' >= nextId
  BY <1>0 DEF TypeOK
<1>5. StoreInv'
  <2>1. \A d \in Call : \A id \in ReviewId : answer'[d] = Accepted(id) => id < nextId
    BY <1>0, <1>3 DEF StoreInv, IdInv
  <2>2. QED
    BY <1>4, <2>1, StoreFrame
<1>6. AnswerInv'
  BY <1>0, <1>2 DEF AnswerInv, AcceptedIsKept, RetryNamesSameReview
<1>7. ASSUME NEW d \in Call PROVE ControlOK(d)' /\ RowOK(d)' /\ ClearOK(d)' /\ ScoreOK(d)'
  <2>0. ControlOK(c) /\ ControlOK(d) /\ RowOK(d)
    BY <1>0 DEF CallInv
  <2>1. CASE d = c
    BY <2>0, <2>1, <1>2, SentinelAssumption
       DEF ControlOK, RowOK, ClearOK, ScoreOK, HasInserted, HasSelected, At, Locked, Ended
  <2>2. CASE d # c
    <3>1. ControlOK(d)'
      BY <2>0, <2>2, <1>2, SentinelAssumption DEF ControlOK
    <3>2. HasInserted(d) => \A e \in Call : answer'[e] # Accepted(row[d].id)
      BY <2>0, <1>3 DEF RowOK, Review
    <3>3. QED
      BY <2>2, <1>2, <1>4, <3>1, <3>2, CallFrame
  <2>3. QED
    BY <2>1, <2>2
<1>8. QED
  BY <1>1, <1>5, <1>6, <1>7 DEF IInv, CallInv

\* The rollback after a unique violation keeps the invariant, when it goes on to
\* read the row of the nonce and when it refuses the call at once.
LEMMA InsertConflictInv ==
    ASSUME IInv, NEW c \in Call, InsertConflict(c)
    PROVE  IInv'
<1> USE DEF InsertConflict, Goto, store, private
<1>0. TypeOK /\ ControlOK(c) /\ RowOK(c)
  BY DEF IInv, CallInv
<1>1. pc[c] = "ready" /\ request[c].op = "submit" /\ lock = c
  BY <1>0 DEF At, ControlOK, Locked
<1>2. nextId' = nextId + 1 /\ lock' = NoCall /\ created' \in SUBSET Call
  BY <1>0, <1>1 DEF TypeOK
<1>3. CASE pc' = [pc EXCEPT ![c] = "rolledback"] /\ answer' = answer
  <2>1. pc'[c] = "rolledback"
    BY <1>0, <1>3 DEF TypeOK
  <2>2. TypeOK'
    BY <1>0, <1>2, <1>3 DEF TypeOK, Step
  <2>3. ControlOK(c)' /\ RowOK(c)' /\ ClearOK(c)' /\ ScoreOK(c)'
    BY <1>0, <1>1, <1>2, <1>3, <2>1, SentinelAssumption
       DEF ControlOK, RowOK, ClearOK, ScoreOK, HasInserted, HasSelected, At, Locked
  <2>4. \A d \in Call \ {c} :
          /\ request'[d] = request[d] /\ pc'[d] = pc[d] /\ row'[d] = row[d]
          /\ newScore'[d] = newScore[d] /\ (d \in created' => d \in created)
    BY <1>0, <1>3 DEF TypeOK
  <2>5. nextId' \in Nat /\ nextId' >= nextId
    BY <1>0, <1>2 DEF TypeOK
  <2>6. UNCHANGED <<store, answer>> /\ pc[c] # "done" /\ {lock, lock'} = {NoCall, c}
    BY <1>1, <1>2, <1>3
  <2>7. QED
    BY <2>2, <2>3, <2>4, <2>5, <2>6, QuietInv
<1>4. CASE /\ pc' = [pc EXCEPT ![c] = "done"]
           /\ answer' = [answer EXCEPT ![c] = Outcome("payment_reference_used")]
  <2>1. Outcome("payment_reference_used") \in Answer
        /\ \A id \in ReviewId : Outcome("payment_reference_used") # Accepted(id)
    BY AnswerType DEF Outcome, Accepted
  <2>2. QED
    BY <1>0, <1>1, <1>2, <1>4, <2>1, RefusedAtInsertInv DEF Ended, Outcome
<1>5. QED
  BY <1>3, <1>4

\* The read after the rollback keeps the invariant, though it holds no lock.
LEMMA ReadAfterConflictInv ==
    ASSUME IInv, NEW c \in Call, ReadAfterConflict(c)
    PROVE  IInv'
<1>1. pc[c] \notin Ended /\ request[c].op = "submit"
  BY DEF ReadAfterConflict, At, Ended
<1>2. QED
  BY <1>1, ReplayUnpaidInv, RefusalInv DEF ReadAfterConflict, Outcomes

\* The steps that compute scores or select a row inside the transaction.
LEMMA ScoreServiceInv ==
    ASSUME IInv, NEW c \in Call, ScoreService(c)
    PROVE  IInv'
<1> USE DEF Goto, store, private
<1>0. TypeOK /\ ControlOK(c) /\ RowOK(c) /\ ClearOK(c)
  BY DEF IInv, CallInv
<1>1. pc[c] = "inserted" /\ request[c].op = "submit" /\ request[c].sub \in Submission
  BY <1>0, RequestType DEF ScoreService, At
<1>2. CASE Return(c, Outcome("rejected"))
  BY <1>1, <1>2, RefusalInv DEF Ended, Outcomes
<1>3. ASSUME newScore' = [newScore EXCEPT ![c][request[c].sub.service] =
                            Counted(Visible(c))[request[c].sub.service]],
             Goto(c, "scored"),
             UNCHANGED <<request, answer, store, nextId, lock, found, created, row>>
      PROVE  IInv'
  <2>1. request[c].sub.service \in Service
    BY <1>1 DEF Submission
  <2>2. Counted(Visible(c)) \in [Service -> SUBSET ReviewId]
    BY <1>0, VisibleType, CountedType
  <2>3. TypeOK'
    BY <1>0, <1>3, <2>1, <2>2 DEF TypeOK, Step
  <2>4. /\ pc'[c] = "scored"
        /\ newScore'[c][request[c].sub.service] = Counted(Visible(c))[request[c].sub.service]
        /\ Visible(c)' = Visible(c)
    BY <1>0, <1>3, <2>1 DEF TypeOK, Visible
  <2>5. HasInserted(c) /\ HasInserted(c)' /\ ~ HasSelected(c)'
    BY <1>1, <1>3, <2>4 DEF HasInserted, HasSelected, At
  <2>6. ControlOK(c)' /\ RowOK(c)' /\ ClearOK(c)'
    BY <1>0, <1>1, <1>3, <2>4, <2>5 DEF ControlOK, RowOK, ClearOK, Locked
  <2>7. ScoreOK(c)'
    BY <1>1, <1>3, <2>4 DEF ScoreOK, Touched
  <2>8. QED
    BY <1>0, <1>1, <1>3, <2>3, <2>6, <2>7, QuietInv DEF TypeOK
<1>4. QED
  BY <1>2, <1>3 DEF ScoreService

\* The select of delete_my_review keeps the invariant.
LEMMA SelectReviewInv ==
    ASSUME IInv, NEW c \in Call, SelectReview(c)
    PROVE  IInv'
<1> USE DEF Goto, store, private
<1>0. TypeOK /\ ControlOK(c) /\ RowOK(c)
  BY DEF IInv, CallInv
<1>1. pc[c] = "locked" /\ request[c].op = "delete"
  BY DEF SelectReview, At
<1>2. CASE Return(c, Outcome("not_found"))
  BY <1>1, <1>2, RefusalInv DEF Ended, Outcomes
<1>3. ASSUME NEW r \in reviews, r.id = request[c].id, r.sub.wallet = request[c].wallet,
             row' = [row EXCEPT ![c] = r], Goto(c, "selected"),
             UNCHANGED <<request, answer, store, nextId, lock, found, created, newScore>>
      PROVE  IInv'
  <2>1. TypeOK'
    BY <1>0, <1>3 DEF TypeOK, Step
  <2>2. pc'[c] = "selected" /\ row'[c] = r
    BY <1>0, <1>3 DEF TypeOK
  <2>3. ControlOK(c)' /\ RowOK(c)' /\ ClearOK(c)' /\ ScoreOK(c)'
    BY <1>0, <1>1, <1>3, <2>2
       DEF ControlOK, RowOK, ClearOK, ScoreOK, HasInserted, HasSelected, At, Locked
  <2>4. QED
    BY <1>0, <1>1, <1>3, <2>1, <2>3, QuietInv DEF TypeOK
<1>4. QED
  BY <1>2, <1>3 DEF SelectReview

\* replay_scores keeps the invariant, and establishes ScoreOK for every service.
LEMMA ReplayScoresInv ==
    ASSUME IInv, NEW c \in Call, ReplayScores(c)
    PROVE  IInv'
<1> USE DEF ReplayScores, Goto, store, private
<1>0. TypeOK /\ ControlOK(c) /\ RowOK(c)
  BY DEF IInv, CallInv
<1>1. pc[c] \in {"selected", "locked"} /\ request[c].op \in {"delete", "sweep"}
  BY DEF At
<1>2. TypeOK'
  BY <1>0, VisibleType, CountedType DEF TypeOK, Step
<1>3. /\ pc'[c] = "scored"
      /\ newScore'[c] = Counted(Visible(c))
      /\ Visible(c)' = Visible(c)
  BY <1>0 DEF TypeOK, Visible
<1>4. /\ HasSelected(c)' <=> HasSelected(c)
      /\ ~ HasInserted(c)' /\ ~ HasInserted(c)
  BY <1>1, <1>3 DEF HasInserted, HasSelected, At
<1>5. ControlOK(c)' /\ RowOK(c)' /\ ClearOK(c)' /\ ScoreOK(c)'
  BY <1>0, <1>1, <1>3, <1>4 DEF ControlOK, RowOK, ClearOK, ScoreOK, Locked
<1>6. QED
  BY <1>0, <1>1, <1>2, <1>5, QuietInv DEF TypeOK

\* A rollback keeps the invariant.
LEMMA AbortInv ==
    ASSUME IInv, NEW c \in Call, Abort(c)
    PROVE  IInv'
BY RefusalInv DEF Abort, Outcomes

(***************************************************************************)
(* Commit.                                                                 *)
(***************************************************************************)

\* The commit of a submission keeps what is true of the tables.
LEMMA CommitSubmitTables ==
    ASSUME IInv, NEW c \in Call, Commit(c), request[c].op = "submit"
    PROVE  /\ reviews' = reviews \cup {row[c]}
           /\ row[c] \in Review /\ row[c].sub = request[c].sub
           /\ deletedKeys' = deletedKeys
           /\ scoreOf' = Counted(reviews')
           /\ KeyInv' /\ OneReviewPerPayment' /\ DeletedStaysDeleted'
<1>0. TypeOK /\ ControlOK(c) /\ RowOK(c) /\ ClearOK(c) /\ ScoreOK(c) /\ StoreInv
  BY DEF IInv, CallInv
<1>1. pc[c] = "scored" /\ HasInserted(c) /\ request[c].sub \in Submission
  BY <1>0, RequestType DEF Commit, HasInserted, At
<1>2. row[c] \in Review /\ row[c].sub = request[c].sub
  BY <1>0, <1>1 DEF RowOK
<1>3. reviews' = reviews \cup {row[c]} /\ Visible(c) = reviews \cup {row[c]}
  BY <1>2, SentinelAssumption DEF Commit, Visible
<1>4. deletedKeys' = deletedKeys
  BY DEF Commit
<1>5. scoreOf' = Counted(reviews')
  <2>1. \A s \in Service : s # row[c].sub.service => Counted(reviews \cup {row[c]})[s] = Counted(reviews)[s]
    BY DEF Counted
  <2>2. \A s \in Service : scoreOf[s] = Counted(reviews)[s]
    BY <1>0 DEF StoreInv, ScoresMatchReviews
  <2>3. \A s \in Service : scoreOf'[s] = Counted(reviews')[s]
    BY <1>0, <1>1, <1>2, <1>3, <2>1, <2>2 DEF Commit, Touched, ScoreOK
  <2>4. scoreOf' = [s \in Service |-> scoreOf'[s]]
    BY DEF Commit
  <2>5. Counted(reviews') = [s \in Service |-> Counted(reviews')[s]]
    BY DEF Counted
  <2>6. QED
    BY <2>3, <2>4, <2>5
<1>6. /\ \A r \in reviews : RowKey(r.sub) # RowKey(row[c].sub) /\ ~ SameReceipt(r.sub, row[c].sub)
      /\ RowKey(row[c].sub) \notin deletedKeys
      /\ \A r \in reviews : RowKey(r.sub) \notin BlockingKeys(row[c].sub)
  BY <1>0, <1>1, <1>2, RowKeyType DEF ClearOK, Clashing, Blocking
<1>7. KeyInv'
  BY <1>0, <1>3, <1>6 DEF StoreInv, KeyInv, SameReceipt
<1>8. DeletedStaysDeleted'
  BY <1>0, <1>3, <1>4, <1>6 DEF StoreInv, DeletedStaysDeleted
<1>9. OneReviewPerPayment'
  <2>1. ASSUME NEW r \in reviews, {r.sub.kind, row[c].sub.kind} \cap {"unpaid"} = {},
               r.sub.ref = row[c].sub.ref,
               \/ r.sub.wallet = row[c].sub.wallet
               \/ {r.sub.kind, row[c].sub.kind} \subseteq {"verified", "placeholder"}
        PROVE  FALSE
    <3>1. r.sub \in Submission /\ row[c].sub \in Submission
      BY <1>0, <1>1, <1>2 DEF TypeOK, Review
    <3>2. CASE r.sub.kind = "observed"
      <4>1. row[c].sub.kind \in {"observed", "verified"} /\ row[c].sub.wallet = r.sub.wallet
        BY <2>1, <3>1, <3>2, WalletAssumption DEF Submission
      <4>2. QED
        BY <1>6, <2>1, <3>2, <4>1 DEF RowKey, BlockingKeys
    <3>3. CASE r.sub.kind \in {"verified", "placeholder"}
      <4>1. RowKey(r.sub) = PaymentKey(row[c].sub.ref)
        BY <2>1, <3>3 DEF RowKey
      <4>2. row[c].sub.kind # "unpaid"
        BY <2>1
      <4>3. QED
        BY <1>6, <4>1, <4>2 DEF BlockingKeys
    <3>4. QED
      BY <2>1, <3>1, <3>2, <3>3 DEF Submission
  <2>2. QED
    BY <1>0, <1>3, <2>1 DEF StoreInv, OneReviewPerPayment
<1>10. QED
  BY <1>2, <1>3, <1>4, <1>5, <1>7, <1>8, <1>9

\* The commit of a deletion or of the sweep keeps what is true of the tables.
LEMMA CommitRemoveTables ==
    ASSUME IInv, NEW c \in Call, Commit(c), request[c].op # "submit"
    PROVE  /\ reviews' \subseteq reviews
           /\ deletedKeys \subseteq deletedKeys' /\ deletedKeys' \in SUBSET ReplayKey
           /\ scoreOf' = Counted(reviews')
           /\ \A r \in reviews \ reviews' : RowKey(r.sub) \in deletedKeys'
           /\ KeyInv' /\ OneReviewPerPayment' /\ DeletedStaysDeleted'
<1>0. TypeOK /\ ControlOK(c) /\ RowOK(c) /\ ScoreOK(c) /\ StoreInv
  BY DEF IInv, CallInv
<1>1. pc[c] = "scored" /\ request[c].op \in {"delete", "sweep"}
  BY <1>0, RequestType DEF Commit
<1>2. scoreOf' = Counted(reviews')
  <2>1. \A s \in Service : scoreOf'[s] = Counted(reviews')[s]
    BY <1>0, <1>1 DEF Commit, Touched, ScoreOK
  <2>2. scoreOf' = [s \in Service |-> scoreOf'[s]]
    BY DEF Commit
  <2>3. Counted(reviews') = [s \in Service |-> Counted(reviews')[s]]
    BY DEF Counted
  <2>4. QED
    BY <2>1, <2>2, <2>3
<1>3. /\ reviews' \subseteq reviews
      /\ deletedKeys \subseteq deletedKeys' /\ deletedKeys' \in SUBSET ReplayKey
      /\ \A r \in reviews \ reviews' : RowKey(r.sub) \in deletedKeys'
      /\ DeletedStaysDeleted'
  <2>1. CASE request[c].op = "delete"
    <3>1. HasSelected(c)
      BY <1>1, <2>1 DEF HasSelected, At
    <3>2. row[c] \in reviews /\ row[c] \in Review
      BY <1>0, <3>1 DEF RowOK, TypeOK
    <3>3. RowKey(row[c].sub) \in ReplayKey
      BY <3>2, RowKeyType DEF Review
    <3>4. reviews' = reviews \ {row[c]} /\ deletedKeys' = deletedKeys \cup {RowKey(row[c].sub)}
      BY <2>1, <3>2, SentinelAssumption DEF Commit, Visible
    <3>5. QED
      BY <1>0, <3>2, <3>3, <3>4 DEF StoreInv, KeyInv, DeletedStaysDeleted, TypeOK
  <2>2. CASE request[c].op = "sweep"
    <3>1. row[c] = NoReview
      BY <1>0, <1>1, <2>2 DEF RowOK, HasInserted, HasSelected, At
    <3>2. reviews' = reviews /\ deletedKeys' = deletedKeys
      BY <2>2, <3>1 DEF Commit, Visible
    <3>3. QED
      BY <1>0, <3>2 DEF StoreInv, DeletedStaysDeleted, TypeOK
  <2>3. QED
    BY <1>1, <2>1, <2>2
<1>4. KeyInv' /\ OneReviewPerPayment'
  BY <1>0, <1>3 DEF StoreInv, KeyInv, OneReviewPerPayment
<1>5. QED
  BY <1>2, <1>3, <1>4

\* Commit keeps the invariant: what the call checked before it wrote still holds,
\* because no other call has held the lock since.
LEMMA CommitInv ==
    ASSUME IInv, NEW c \in Call, Commit(c)
    PROVE  IInv'
<1> USE DEF Goto, private
<1>0. TypeOK /\ CallInv /\ StoreInv /\ AnswerInv
  BY DEF IInv
<1>1. ControlOK(c) /\ RowOK(c) /\ pc[c] = "scored"
  BY <1>0 DEF CallInv, Commit
<1>2. lock = c /\ lock' = NoCall /\ request[c] # NoRequest
  BY <1>1 DEF ControlOK, Locked, Commit
<1>3. PICK a \in {Result(c), Outcome("lost")} : answer' = [answer EXCEPT ![c] = a]
  BY DEF Commit
<1>4. request' = request /\ nextId' = nextId /\ row' = row /\ created' = created
      /\ found' = found /\ newScore' = newScore /\ pc' = [pc EXCEPT ![c] = "done"]
  BY DEF Commit
<1>5. request[c].op \in {"submit", "delete", "sweep"}
      /\ (request[c].op = "submit" => request[c].sub \in Submission)
  BY <1>0, <1>1, RequestType
<1>6. ASSUME request[c].op = "submit" PROVE a \in Answer /\ TypeOK' /\ StoreInv' /\ AnswerInv'
  <2>1. row[c] \in Review /\ row[c].sub = request[c].sub /\ reviews' = reviews \cup {row[c]}
        /\ KeyInv' /\ OneReviewPerPayment' /\ DeletedStaysDeleted' /\ scoreOf' = Counted(reviews')
        /\ deletedKeys' = deletedKeys
    BY <1>6, CommitSubmitTables DEF IInv
  <2>2. row[c].id \in ReviewId /\ row[c] = [id |-> row[c].id, sub |-> request[c].sub]
        /\ row[c].id < nextId /\ \A r \in reviews : r.id # row[c].id
        /\ \A d \in Call : answer[d] # Accepted(row[c].id)
    BY <2>1, <1>1, <1>6 DEF Review, RowOK, HasInserted, At
  <2>3. a \in {Accepted(row[c].id), Outcome("lost")} /\ a \in Answer
    BY <1>6, <2>2, AnswerType DEF Result
  <2>4. \A id \in ReviewId : a = Accepted(id) => id = row[c].id
    BY <2>3 DEF Accepted, Outcome
  <2>5. IdInv'
    BY <1>0, <1>3, <1>4, <2>1, <2>2, <2>4 DEF StoreInv, IdInv, TypeOK
  <2>6. StoreInv'
    BY <2>1, <2>5 DEF StoreInv, ScoresMatchReviews
  <2>7. AcceptedIsKept'
    <3> SUFFICES ASSUME NEW d \in Call, answer'[d] # NoAnswer, answer'[d].outcome = "accepted"
                 PROVE \/ [id |-> answer'[d].id, sub |-> request[d].sub] \in reviews'
                       \/ RowKey(request[d].sub) \in deletedKeys'
      BY <1>4 DEF AcceptedIsKept
    <3>1. CASE d = c
      <4>1. answer'[c] = a
        BY <1>0, <1>3 DEF TypeOK
      <4>2. answer'[c].id = row[c].id
        BY <3>1, <4>1, <2>3 DEF Accepted, Outcome
      <4>3. QED
        BY <3>1, <4>2, <2>1, <2>2
    <3>2. CASE d # c
      BY <3>2, <1>0, <1>3, <2>1 DEF TypeOK, AnswerInv, AcceptedIsKept
    <3>3. QED
      BY <3>1, <3>2
  <2>8. registered' \in SUBSET Service /\ scoreOf' \in [Service -> SUBSET ReviewId]
        /\ reviews' \in SUBSET Review
    BY <1>0, <1>5, <1>6, <2>1, CountedType DEF TypeOK, Commit, Submission
  <2>9. TypeOK'
    BY <1>0, <1>2, <1>3, <1>4, <2>1, <2>3, <2>8 DEF TypeOK, Step
  <2>10. \A d \in Call \ {c} : answer'[d] = answer[d]
    BY <1>0, <1>3 DEF TypeOK
  <2>11. RetryNamesSameReview'
    <3> SUFFICES ASSUME NEW d \in Call, NEW e \in Call,
                        answer'[d] # NoAnswer, answer'[d].outcome = "accepted",
                        answer'[e] # NoAnswer, answer'[e].outcome = "accepted",
                        RowKey(request[d].sub) = RowKey(request[e].sub)
                 PROVE answer'[d].id = answer'[e].id
      BY <1>4 DEF RetryNamesSameReview
    <3>1. CASE d # c /\ e # c
      BY <3>1, <1>0, <2>10 DEF AnswerInv, RetryNamesSameReview
    <3>2. CASE d = c \/ e = c
      <4>1. RowKey(request[c].sub) \notin deletedKeys'
        BY <2>1 DEF DeletedStaysDeleted
      <4>2. [id |-> answer'[d].id, sub |-> request[d].sub] \in reviews'
        BY <1>4, <2>7, <4>1, <3>2 DEF AcceptedIsKept
      <4>3. [id |-> answer'[e].id, sub |-> request[e].sub] \in reviews'
        BY <1>4, <2>7, <4>1, <3>2 DEF AcceptedIsKept
      <4>4. [id |-> answer'[d].id, sub |-> request[d].sub] = [id |-> answer'[e].id, sub |-> request[e].sub]
        BY <4>2, <4>3, <2>1 DEF KeyInv
      <4>5. QED
        BY <4>4
    <3>3. QED
      BY <3>1, <3>2
  <2>12. QED
    BY <2>3, <2>6, <2>7, <2>9, <2>11 DEF AnswerInv
<1>7. ASSUME request[c].op # "submit" PROVE a \in Answer /\ TypeOK' /\ StoreInv' /\ AnswerInv'
  <2>1. /\ reviews' \subseteq reviews
        /\ deletedKeys \subseteq deletedKeys' /\ deletedKeys' \in SUBSET ReplayKey
        /\ scoreOf' = Counted(reviews')
        /\ \A r \in reviews \ reviews' : RowKey(r.sub) \in deletedKeys'
        /\ KeyInv' /\ OneReviewPerPayment' /\ DeletedStaysDeleted'
    BY <1>7, CommitRemoveTables
  <2>2. a \in {Outcome("deleted"), Outcome("swept"), Outcome("lost")}
    BY <1>5, <1>7 DEF Result
  <2>3. a \in Answer /\ a.outcome # "accepted" /\ \A id \in ReviewId : a # Accepted(id)
    BY <2>2, AnswerType DEF Outcome, Accepted
  <2>4. \A d \in Call : d # c => answer'[d] = answer[d]
    BY <1>0, <1>3 DEF TypeOK
  <2>5. answer'[c] = a
    BY <1>0, <1>3 DEF TypeOK
  <2>6. IdInv'
    BY <1>0, <1>4, <2>1, <2>3, <2>4, <2>5 DEF StoreInv, IdInv
  <2>7. StoreInv'
    BY <2>1, <2>6 DEF StoreInv, ScoresMatchReviews
  <2>8. registered' = registered
    BY <1>1, <1>7 DEF Commit, ControlOK
  <2>9. scoreOf' \in [Service -> SUBSET ReviewId] /\ reviews' \in SUBSET Review
    BY <1>0, <2>1, CountedType DEF TypeOK
  <2>10. TypeOK'
    BY <1>0, <1>2, <1>3, <1>4, <2>1, <2>3, <2>8, <2>9 DEF TypeOK, Step
  <2>11. AcceptedIsKept'
    <3> SUFFICES ASSUME NEW d \in Call, answer'[d] # NoAnswer, answer'[d].outcome = "accepted"
                 PROVE \/ [id |-> answer'[d].id, sub |-> request[d].sub] \in reviews'
                       \/ RowKey(request[d].sub) \in deletedKeys'
      BY <1>4 DEF AcceptedIsKept
    <3>1. \/ [id |-> answer[d].id, sub |-> request[d].sub] \in reviews
          \/ RowKey(request[d].sub) \in deletedKeys
      BY <1>0, <2>3, <2>4, <2>5 DEF AnswerInv, AcceptedIsKept
    <3>2. answer'[d] = answer[d]
      BY <2>3, <2>4, <2>5
    <3>3. QED
      BY <3>1, <3>2, <2>1
  <2>12. RetryNamesSameReview'
    BY <1>0, <1>4, <2>3, <2>4, <2>5 DEF AnswerInv, RetryNamesSameReview
  <2>13. QED
    BY <2>3, <2>7, <2>10, <2>11, <2>12 DEF AnswerInv
<1>8. ASSUME NEW d \in Call PROVE ControlOK(d)' /\ RowOK(d)' /\ ClearOK(d)' /\ ScoreOK(d)'
  <2>0. ControlOK(d) /\ RowOK(d)
    BY <1>0 DEF CallInv
  <2>1. CASE d = c
    <3>1. pc'[c] = "done" /\ answer'[c] = a /\ a # NoAnswer
      <4>1. a \in Answer
        BY <1>6, <1>7
      <4>2. QED
        BY <1>0, <1>3, <1>4, <4>1, SentinelAssumption DEF TypeOK
    <3>2. QED
      BY <2>0, <2>1, <3>1, <1>2, <1>4, SentinelAssumption
         DEF ControlOK, RowOK, ClearOK, ScoreOK, HasInserted, HasSelected, At, Locked
  <2>2. CASE d # c
    <3>1. pc'[d] = pc[d] /\ answer'[d] = answer[d] /\ pc[d] \notin Locked /\ lock' # d
      BY <2>0, <2>2, <1>0, <1>2, <1>3, <1>4, SentinelAssumption DEF TypeOK, ControlOK
    <3>2. QED
      BY <2>0, <2>2, <3>1, <1>4
         DEF ControlOK, RowOK, ClearOK, ScoreOK, HasInserted, HasSelected, At, Locked
  <2>3. QED
    BY <2>1, <2>2
<1>9. QED
  BY <1>6, <1>7, <1>8 DEF IInv, CallInv

(***************************************************************************)
(* The invariant, and what follows from it.                                *)
(***************************************************************************)

\* The empty store satisfies the invariant.
LEMMA InitInv == Init => IInv
<1> SUFFICES ASSUME Init PROVE IInv
  OBVIOUS
<1>1. TypeOK
  BY SentinelAssumption DEF Init, TypeOK, Step, NoScore
<1>2. CallInv
  BY SentinelAssumption
     DEF Init, CallInv, ControlOK, RowOK, ClearOK, ScoreOK, HasInserted, HasSelected, At, Locked
<1>3. StoreInv
  <2>1. IdInv
    <3>1. \A id \in ReviewId : Accepted(id) # NoAnswer
      BY AnswerType, SentinelAssumption
    <3>2. QED
      BY <3>1 DEF Init, IdInv
  <2>2. ScoresMatchReviews
    BY DEF Init, ScoresMatchReviews, Counted, NoScore
  <2>3. QED
    BY <2>1, <2>2 DEF Init, StoreInv, KeyInv, OneReviewPerPayment, DeletedStaysDeleted
<1>4. AnswerInv
  BY DEF Init, AnswerInv, AcceptedIsKept, RetryNamesSameReview
<1>5. QED
  BY <1>1, <1>2, <1>3, <1>4 DEF IInv

\* A stuttering step keeps the invariant.
LEMMA StutterInv ==
    ASSUME IInv, UNCHANGED vars
    PROVE  IInv'
<1> USE DEF vars
<1>0. TypeOK /\ CallInv /\ StoreInv /\ AnswerInv
  BY DEF IInv
<1>1. TypeOK'
  BY <1>0 DEF TypeOK, store, private
<1>2. StoreInv'
  BY <1>0, StoreFrame DEF TypeOK, StoreInv, IdInv
<1>3. AnswerInv'
  BY AnswerFrame
<1>4. ASSUME NEW d \in Call PROVE ControlOK(d)' /\ RowOK(d)' /\ ClearOK(d)' /\ ScoreOK(d)'
  <2>1. ControlOK(d) /\ RowOK(d)
    BY <1>0 DEF CallInv
  <2>2. ControlOK(d)'
    BY <2>1 DEF ControlOK, private
  <2>3. RowOK(d)' /\ ClearOK(d)' /\ ScoreOK(d)'
    BY <1>0, <2>1, CallFrame DEF TypeOK, RowOK, private
  <2>4. QED
    BY <2>2, <2>3
<1>5. QED
  BY <1>1, <1>2, <1>3, <1>4 DEF IInv, CallInv

\* Every step keeps the invariant.
LEMMA NextInv == IInv /\ [Next]_vars => IInv'
<1> SUFFICES ASSUME IInv, [Next]_vars PROVE IInv'
  OBVIOUS
<1>1. ASSUME NEW c \in Call, NEW req \in Asked, Receive(c, req) PROVE IInv'
  BY <1>1, ReceiveInv
<1>2. ASSUME NEW c \in Call, LockReviewWrites(c) PROVE IInv'
  BY <1>2, LockInv
<1>3. ASSUME NEW c \in Call, Advance(c) PROVE IInv'
  BY <1>3, PrepareInv, CheckReplayInv, RedactInv, InsertReviewInv, InsertConflictInv,
     ReadAfterConflictInv, ScoreServiceInv, SelectReviewInv, ReplayScoresInv, CommitInv
     DEF Advance
<1>4. ASSUME NEW c \in Call, Abort(c) PROVE IInv'
  BY <1>4, AbortInv
<1>5. CASE Finished \/ UNCHANGED vars
  BY <1>5, StutterInv DEF Finished
<1>6. QED
  BY <1>1, <1>2, <1>3, <1>4, <1>5 DEF Next

\* The inductive invariant holds in every reachable state: what review_service
\* checked under lock_review_writes is still true when it commits.
THEOREM Invariance == Spec => []IInv
BY InitInv, NextInv, PTL DEF Spec

\* Every variable keeps its type.
THEOREM TypeCorrect == Spec => []TypeOK
<1>1. IInv => TypeOK
  BY DEF IInv
<1>2. QED
  BY <1>1, Invariance, PTL

\* A wallet has one review of a payment, and a payment one review that claims it,
\* though no unique index relates an observation to a claim.
THEOREM OneReviewPerPaymentAlways == Spec => []OneReviewPerPayment
<1>1. IInv => OneReviewPerPayment
  BY DEF IInv, StoreInv
<1>2. QED
  BY <1>1, Invariance, PTL

\* A deleted review never comes back, for any number of retries in flight.
THEOREM DeletedStaysDeletedAlways == Spec => []DeletedStaysDeleted
<1>1. IInv => DeletedStaysDeleted
  BY DEF IInv, StoreInv
<1>2. QED
  BY <1>1, Invariance, PTL

\* Stored scores count the stored reviews.
THEOREM ScoresMatchReviewsAlways == Spec => []ScoresMatchReviews
<1>1. IInv => ScoresMatchReviews
  BY DEF IInv, StoreInv
<1>2. QED
  BY <1>1, Invariance, PTL

\* A review its caller was told is accepted is stored until its owner deletes it.
THEOREM AcceptedIsKeptAlways == Spec => []AcceptedIsKept
<1>1. IInv => AcceptedIsKept
  BY DEF IInv, AnswerInv
<1>2. QED
  BY <1>1, Invariance, PTL

\* Retries of one review are all given the same id.
THEOREM RetryNamesSameReviewAlways == Spec => []RetryNamesSameReview
<1>1. IInv => RetryNamesSameReview
  BY DEF IInv, AnswerInv
<1>2. QED
  BY <1>1, Invariance, PTL

\* Only the commit of a submission adds a review, and it adds its own.
LEMMA OnlyCommitAdds ==
    ASSUME IInv, [Next]_vars, NEW r \in reviews' \ reviews
    PROVE  \E c \in Call : /\ HasInserted(c) /\ ClearOK(c)
                           /\ request[c].sub \in Submission /\ r.sub = request[c].sub
<1>1. reviews' # reviews
  OBVIOUS
<1>2. PICK c \in Call : Commit(c)
  <2>1. PICK c \in Call : \/ \E req \in Asked : Receive(c, req)
                         \/ LockReviewWrites(c) \/ Advance(c) \/ Abort(c)
    BY <1>1 DEF Next, Finished, vars, store
  <2>2. \A a : ~ Return(c, a)
    BY <1>1 DEF Return, store
  <2>3. Commit(c)
    BY <1>1, <2>1, <2>2
       DEF Receive, LockReviewWrites, Advance, Abort, Resolve, Verify, Authorize, CheckReplay,
           Redact, EnsureService, InsertReview, InsertConflict, ReadAfterConflict, ReplayUnpaid,
           ScoreService, SelectReview, ReplayScores, store
  <2>4. QED
    BY <2>3
<1>3. TypeOK /\ ControlOK(c) /\ ClearOK(c) /\ pc[c] = "scored"
  BY <1>2 DEF IInv, CallInv, Commit
<1>4. request[c].op = "submit"
  BY <1>1, <1>2, CommitRemoveTables
<1>5. r = row[c] /\ row[c].sub = request[c].sub
  BY <1>2, <1>4, CommitSubmitTables
<1>6. HasInserted(c) /\ request[c].sub \in Submission
  BY <1>3, <1>4, RequestType DEF HasInserted, At
<1>7. QED
  BY <1>3, <1>5, <1>6

\* Once a payment is claimed nobody adds an observation of it.
THEOREM NoObservationOfClaimedAlways == Spec => NoObservationOfClaimed
<1> DEFINE A == \A r \in reviews' \ reviews : r.sub.kind = "observed" =>
                  \A q \in reviews : RowKey(q.sub) # PaymentKey(r.sub.ref)
<1>1. IInv /\ [Next]_vars => [A]_vars
  <2> SUFFICES ASSUME IInv, [Next]_vars, NEW r \in reviews' \ reviews,
                      r.sub.kind = "observed", NEW q \in reviews
               PROVE  RowKey(q.sub) # PaymentKey(r.sub.ref)
    OBVIOUS
  <2>1. PICK c \in Call : HasInserted(c) /\ ClearOK(c) /\ r.sub = request[c].sub
    BY OnlyCommitAdds
  <2>2. QED
    BY <2>1 DEF ClearOK, Blocking, BlockingKeys
<1>2. QED
  BY <1>1, Invariance, PTL DEF Spec, NoObservationOfClaimed

(***************************************************************************)
(* What became of the reviews: HistoryInv.                               *)
(***************************************************************************)

\* A step of c keeps PastInv when what it adds is its own submission or the
\* key of a stored review, what it removes it remembers, and it is not a rollback.
LEMMA HistoryFrame ==
    ASSUME PastInv, NEW c \in Call, pc[c] # "done", pc'[c] # "rolledback",
           \A d \in Call \ {c} : pc'[d] = pc[d] /\ request'[d] = request[d],
           \A r \in reviews' \ reviews : Submitted(c)' /\ request'[c].sub = r.sub,
           \A k \in deletedKeys' \ deletedKeys : \E r \in reviews : RowKey(r.sub) = k,
           \A r \in reviews \ reviews' : RowKey(r.sub) \in deletedKeys',
           deletedKeys \subseteq deletedKeys'
    PROVE  PastInv'
<1>1. \A d \in Call : Submitted(d) => Submitted(d)' /\ request'[d] = request[d]
  BY DEF Submitted
<1>2. OriginInv'
  BY <1>1 DEF PastInv, OriginInv
<1>3. ASSUME NEW d \in Call PROVE ConflictOK(d)'
  BY DEF PastInv, ConflictOK, SameKey
<1>4. QED
  BY <1>2, <1>3 DEF PastInv

\* A step of c that changes no table and is not a rollback keeps PastInv.
LEMMA HistoryQuiet ==
    ASSUME PastInv, TypeOK, NEW c \in Call, NEW step \in Step \ {"rolledback"},
           pc[c] # "done", Goto(c, step), UNCHANGED store,
           \A d \in Call \ {c} : request'[d] = request[d]
    PROVE  PastInv'
<1>1. pc'[c] = step /\ \A d \in Call \ {c} : pc'[d] = pc[d]
  BY DEF TypeOK, Goto
<1>2. QED
  BY <1>1, HistoryFrame DEF store

\* The rollback of c is one of a repeated nonce, or the end of c.
LEMMA HistoryConflict ==
    ASSUME IInv, PastInv, NEW c \in Call, InsertConflict(c)
    PROVE  PastInv'
<1> USE DEF store, private
<1>0. TypeOK /\ ControlOK(c) /\ ClearOK(c)
  BY DEF IInv, CallInv
<1>1. pc[c] = "ready" /\ request[c].sub \in Submission /\ Clashing(reviews, request[c].sub) # {}
  BY <1>0, RequestType DEF InsertConflict, At
<1>2. UNCHANGED <<reviews, deletedKeys, request>>
  BY DEF InsertConflict
<1>3. CASE request[c].sub.kind = "unpaid"
  <2>1. SameKey(reviews, request[c].sub) # {}
    BY <1>1, <1>3 DEF Submission, Clashing, SameKey, SameReceipt
  <2>2. \A d \in Call : pc'[d] = IF d = c THEN "rolledback" ELSE pc[d]
    BY <1>0, <1>3 DEF TypeOK, InsertConflict, Goto
  <2>3. OriginInv'
    BY <1>1, <1>2, <2>2 DEF PastInv, OriginInv, Submitted
  <2>4. ASSUME NEW d \in Call PROVE ConflictOK(d)'
    BY <1>1, <1>2, <1>3, <2>1, <2>2 DEF PastInv, ConflictOK
  <2>5. QED
    BY <2>3, <2>4 DEF PastInv
<1>4. CASE request[c].sub.kind # "unpaid"
  <2>1. Goto(c, "done")
    BY <1>4 DEF InsertConflict
  <2>2. QED
    BY <1>0, <1>1, <1>2, <2>1, HistoryQuiet DEF InsertConflict, Step
<1>5. QED
  BY <1>3, <1>4

\* A commit keeps PastInv.
LEMMA HistoryCommit ==
    ASSUME IInv, PastInv, NEW c \in Call, Commit(c)
    PROVE  PastInv'
<1>0. TypeOK /\ ControlOK(c) /\ RowOK(c)
  BY DEF IInv, CallInv
<1>1. pc[c] = "scored" /\ request' = request
      /\ \A d \in Call : pc'[d] = IF d = c THEN "done" ELSE pc[d]
  BY <1>0 DEF Commit, Goto, TypeOK
<1>2. CASE request[c].op = "submit"
  <2>1. reviews' = reviews \cup {row[c]} /\ row[c].sub = request[c].sub /\ deletedKeys' = deletedKeys
    BY <1>2, CommitSubmitTables
  <2>2. Submitted(c)'
    BY <1>1, <1>2 DEF Submitted
  <2>3. QED
    BY <1>1, <2>1, <2>2, HistoryFrame
<1>3. CASE request[c].op # "submit"
  <2>1. /\ reviews' \subseteq reviews /\ deletedKeys \subseteq deletedKeys'
        /\ \A r \in reviews \ reviews' : RowKey(r.sub) \in deletedKeys'
    BY <1>3, CommitRemoveTables
  <2>2. \A k \in deletedKeys' \ deletedKeys : \E r \in reviews : RowKey(r.sub) = k
    <3>1. CASE request[c].op = "delete"
      <4>1. row[c] \in reviews
        BY <1>0, <1>1, <3>1 DEF RowOK, HasSelected, At
      <4>2. QED
        BY <3>1, <4>1 DEF Commit
    <3>2. CASE request[c].op # "delete"
      BY <3>2 DEF Commit
    <3>3. QED
      BY <3>1, <3>2
  <2>3. QED
    BY <1>1, <2>1, <2>2, HistoryFrame
<1>4. QED
  BY <1>2, <1>3

\* Every step keeps PastInv.
LEMMA HistoryNext == IInv /\ PastInv /\ [Next]_vars => PastInv'
<1> SUFFICES ASSUME IInv, PastInv, [Next]_vars PROVE PastInv'
  OBVIOUS
<1>0. TypeOK
  BY DEF IInv
<1>1. ASSUME NEW c \in Call, NEW a, Return(c, a), pc[c] # "done" PROVE PastInv'
  <2>1. Goto(c, "done") /\ UNCHANGED <<store, request>>
    BY <1>1 DEF Return
  <2>2. QED
    BY <1>0, <1>1, <2>1, HistoryQuiet DEF Step
<1>2. ASSUME NEW c \in Call, NEW req \in Asked, Receive(c, req) PROVE PastInv'
  <2>1. pc[c] # "done" /\ Goto(c, "received") /\ UNCHANGED store
    BY <1>2 DEF Receive
  <2>2. \A d \in Call \ {c} : request'[d] = request[d]
    BY <1>0, <1>2 DEF Receive, TypeOK
  <2>3. QED
    BY <1>0, <2>1, <2>2, HistoryQuiet DEF Step
<1>3. ASSUME NEW c \in Call, NEW step \in Step \ {"rolledback"}, pc[c] # "done", Goto(c, step),
             UNCHANGED <<store, request>>
      PROVE  PastInv'
  BY <1>0, <1>3, HistoryQuiet
<1>4. ASSUME NEW c \in Call,
             \/ LockReviewWrites(c) \/ Resolve(c) \/ Verify(c) \/ Authorize(c) \/ Redact(c)
             \/ EnsureService(c)
      PROVE  PastInv'
  BY <1>1, <1>3, <1>4
     DEF LockReviewWrites, Resolve, Verify, Authorize, Redact, EnsureService, At, Step
<1>5. ASSUME NEW c \in Call,
             \/ InsertReview(c) \/ ScoreService(c) \/ SelectReview(c) \/ ReplayScores(c)
      PROVE  PastInv'
  BY <1>1, <1>3, <1>5 DEF InsertReview, ScoreService, SelectReview, ReplayScores, At, Step
<1>6. ASSUME NEW c \in Call, CheckReplay(c) \/ ReadAfterConflict(c) \/ Abort(c) PROVE PastInv'
  BY <1>1, <1>3, <1>6 DEF CheckReplay, ReadAfterConflict, ReplayUnpaid, Abort, At, Step, Ended
<1>7. CASE UNCHANGED vars
  BY <1>7 DEF PastInv, OriginInv, Submitted, ConflictOK, vars, store
<1>8. QED
  BY <1>2, <1>4, <1>5, <1>6, <1>7, HistoryConflict, HistoryCommit DEF Next, Advance, Finished

\* What CheckReplay let through meets a unique index for its nonce or for a
\* receipt that another wallet's observation has used.
LEMMA ReadyClashes ==
    ASSUME IInv, NEW c \in Call
    PROVE  ClashOK(c)
<1> DEFINE sub == request[c].sub
<1> SUFFICES ASSUME pc[c] = "ready", NEW r \in Clashing(reviews, sub), sub.kind # "unpaid"
             PROVE  /\ SameReceipt(r.sub, sub)
                    /\ r.sub.kind = "observed"
                    /\ r.sub.wallet # sub.wallet
  BY DEF ClashOK
<1>0. TypeOK /\ ControlOK(c) /\ ClearOK(c)
  BY DEF IInv, CallInv
<1>1. sub \in Submission
  BY <1>0, RequestType DEF ControlOK
<1>2. r \in reviews /\ r.sub \in Submission /\ RowKey(r.sub) \notin BlockingKeys(sub)
  BY <1>0 DEF ClearOK, Blocking, Clashing, TypeOK, Review
<1>3. RowKey(sub) \in BlockingKeys(sub)
  BY <1>1 DEF Submission, RowKey, BlockingKeys
<1>4. SameReceipt(r.sub, sub)
  BY <1>2, <1>3 DEF Clashing
<1>5. /\ r.sub.kind \in {"verified", "observed"} /\ Attested(r.sub)
      /\ sub.kind \in {"verified", "observed"} /\ Attested(sub)
  BY <1>1, <1>2, <1>4 DEF Submission, SameReceipt
<1>6. r.sub.ref = sub.ref
  BY <1>4, <1>5 DEF Attested, SameReceipt
<1>7. r.sub.kind = "observed"
  BY <1>2, <1>5, <1>6 DEF RowKey, BlockingKeys
<1>8. r.sub.wallet # sub.wallet
  BY <1>2, <1>5, <1>6, <1>7 DEF RowKey, BlockingKeys
<1>9. QED
  BY <1>4, <1>7, <1>8

\* What is stored or deleted was submitted, and the row of a repeated nonce is
\* stored or deleted.
LEMMA PastInvariance == Spec => []PastInv
<1>1. Init => PastInv
  BY DEF Init, PastInv, OriginInv, ConflictOK
<1>2. QED
  BY <1>1, HistoryNext, Invariance, PTL DEF Spec

\* Everything stored or deleted was submitted; what a unique index refuses after
\* the check under the lock repeats a nonce, or the receipt of another wallet.
THEOREM HistoryInvariance == Spec => []HistoryInv
<1>1. IInv /\ PastInv => HistoryInv
  BY ReadyClashes DEF HistoryInv
<1>2. QED
  BY <1>1, Invariance, PastInvariance, PTL

(***************************************************************************)
(* The payer of a payment.                                                 *)
(***************************************************************************)

\* What refuses the claim of a payment comes from another call, that claimed the
\* payment too or is the same wallet's observation.
LEMMA RefusedByClaim ==
    ASSUME IInv, PastInv, NEW c \in Call, pc[c] # "done",
           request[c].op = "submit", request[c].sub \in Submission,
           request[c].sub.kind = "verified",
           IsDeleted(request[c].sub) \/ Blocking(reviews, request[c].sub) # {}
    PROVE  \E d \in Call \ {c} :
             /\ request[d] # NoRequest /\ request[d].op = "submit"
             /\ \/ MayReserve(request[d].sub, request[c].sub)
                \/ Placeholder(request[d].sub, request[c].sub)
<1> DEFINE sub == request[c].sub
<1>1. PICK d \in Call : /\ Submitted(d)
                       /\ RowKey(request[d].sub) \in
                            {PaymentKey(sub.ref), UnlinkedKey(sub.wallet, sub.ref)}
  <2>1. CASE IsDeleted(sub)
    <3>1. PaymentKey(sub.ref) \in deletedKeys
      BY <2>1 DEF IsDeleted, IncomingKeys
    <3>2. QED
      BY <3>1 DEF PastInv, OriginInv
  <2>2. CASE Blocking(reviews, sub) # {}
    <3>1. PICK r \in reviews : RowKey(r.sub) \in BlockingKeys(sub)
      BY <2>2 DEF Blocking
    <3>2. RowKey(r.sub) \in {PaymentKey(sub.ref), UnlinkedKey(sub.wallet, sub.ref)}
      BY <3>1 DEF BlockingKeys
    <3>3. QED
      BY <3>2 DEF PastInv, OriginInv
  <2>3. QED
    BY <2>1, <2>2
<1>2. TypeOK /\ ControlOK(d)
  BY DEF IInv, CallInv
<1>3. d # c /\ request[d] # NoRequest /\ request[d].op = "submit"
  BY <1>1, <1>2 DEF Submitted, ControlOK
<1>4. request[d].sub \in Submission
  BY <1>1, <1>2, RequestType DEF Submitted
<1>5. \/ /\ request[d].sub.kind \in {"verified", "placeholder"}
         /\ RowKey(request[d].sub) = PaymentKey(request[d].sub.ref)
      \/ /\ request[d].sub.kind = "observed"
         /\ RowKey(request[d].sub) = UnlinkedKey(request[d].sub.wallet, request[d].sub.ref)
      \/ /\ request[d].sub.kind = "unpaid"
         /\ RowKey(request[d].sub) = UnpaidKey(request[d].sub.wallet, request[d].sub.ref)
  BY <1>4 DEF Submission, RowKey
<1>6. QED
  BY <1>1, <1>3, <1>5 DEF PaymentKey, UnlinkedKey, UnpaidKey, MayReserve, Placeholder

\* A unique index refuses a claim for a receipt another call has used.
LEMMA RefusedByReceipt ==
    ASSUME IInv, PastInv, NEW c \in Call, InsertConflict(c), request[c].sub.kind # "unpaid"
    PROVE  \E d \in Call \ {c} :
             /\ request[d] # NoRequest /\ request[d].op = "submit"
             /\ MayReserve(request[d].sub, request[c].sub)
<1>1. pc[c] = "ready"
  BY DEF InsertConflict, At
<1>2. PICK r \in Clashing(reviews, request[c].sub) : SameReceipt(r.sub, request[c].sub)
  BY <1>1, ReadyClashes DEF InsertConflict, ClashOK
<1>3. PICK d \in Call : Submitted(d) /\ request[d].sub = r.sub
  BY DEF PastInv, OriginInv, Clashing
<1>4. ControlOK(d)
  BY DEF IInv, CallInv
<1>5. d # c /\ request[d] # NoRequest /\ request[d].op = "submit"
  BY <1>1, <1>3, <1>4 DEF Submitted, ControlOK
<1>6. QED
  BY <1>2, <1>3, <1>5 DEF MayReserve

\* Every step keeps the payer's right.
LEMMA PayerNext == IInv /\ PastInv /\ StrangersDoNotBlockPayer /\ [Next]_vars
                     => StrangersDoNotBlockPayer'
<1> DEFINE Refusals == {Outcome("payment_reference_used"), Outcome("review_deleted")}
           Rival(d, c) ==
             /\ request[d] # NoRequest /\ request[d].op = "submit"
             /\ \/ MayReserve(request[d].sub, request[c].sub)
                \/ Placeholder(request[d].sub, request[c].sub)
           Claimed(c) == \E d \in Call \ {c} : Rival(d, c)
<1> SUFFICES ASSUME IInv, PastInv, StrangersDoNotBlockPayer, [Next]_vars,
                    NEW c \in Call, answer'[c] \in Refusals, request'[c].sub.kind = "verified"
             PROVE  Claimed(c)'
  BY DEF StrangersDoNotBlockPayer, RefusedPayer
<1>0. TypeOK /\ \A d \in Call : ControlOK(d)
  BY DEF IInv, CallInv
<1>1. \A d \in Call : request[d] # NoRequest => request'[d] = request[d]
  <2>1. UNCHANGED request \/ \E d \in Call : pc[d] = "idle" /\ \E req : request' = [request EXCEPT ![d] = req]
    BY DEF Next, Finished, vars, Receive, LockReviewWrites, Advance, Abort, Resolve, Verify,
           Authorize, CheckReplay, Redact, EnsureService, InsertReview, InsertConflict,
           ReadAfterConflict, ReplayUnpaid, ScoreService, SelectReview, ReplayScores, Commit, Return
  <2>2. QED
    BY <1>0, <2>1 DEF ControlOK, TypeOK
<1>2. Claimed(c) /\ request[c] # NoRequest => Claimed(c)'
  <2>1. ASSUME NEW d \in Call, Rival(d, c), request[c] # NoRequest PROVE Rival(d, c)'
    BY <1>1, <2>1
  <2>2. QED
    BY <2>1
<1>3. CASE answer'[c] = answer[c]
  <2>1. answer[c] # NoAnswer
    BY <1>3, AnswerType, SentinelAssumption
  <2>2. pc[c] = "done" /\ request[c] # NoRequest
    BY <1>0, <2>1 DEF ControlOK
  <2>3. QED
    BY <1>1, <1>2, <1>3, <2>2 DEF StrangersDoNotBlockPayer, RefusedPayer
<1>4. CASE answer'[c] # answer[c]
  <2>1. ASSUME NEW o \in Outcomes \ {"payment_reference_used", "review_deleted"},
               answer'[c] = Outcome(o)
        PROVE  FALSE
    BY <2>1 DEF Outcome
  <2>2. \A id : answer'[c] # Accepted(id)
    BY DEF Outcome, Accepted
  <2>3. CheckReplay(c) \/ ReadAfterConflict(c) \/ InsertConflict(c)
    <3>1. ASSUME NEW d \in Call, NEW a, Return(d, a) PROVE d = c /\ answer'[c] = a
      BY <1>0, <1>4, <3>1 DEF Return, TypeOK
    <3>2. ASSUME NEW d \in Call,
                 \/ \E req \in Asked : Receive(d, req)
                 \/ LockReviewWrites(d) \/ Redact(d) \/ EnsureService(d) \/ InsertReview(d)
                 \/ ScoreService(d) \/ SelectReview(d) \/ ReplayScores(d)
                 \/ Resolve(d) \/ Verify(d) \/ Authorize(d) \/ Abort(d)
          PROVE  FALSE
      BY <1>4, <2>1, <3>1, <3>2
         DEF Receive, LockReviewWrites, Redact, EnsureService, InsertReview, ScoreService,
             SelectReview, ReplayScores, Resolve, Verify, Authorize, Abort, Outcomes
    <3>3. ASSUME NEW d \in Call, Commit(d) PROVE FALSE
      <4>1. PICK a \in {Result(d), Outcome("lost")} : answer' = [answer EXCEPT ![d] = a]
        BY <3>3 DEF Commit
      <4>2. d = c /\ answer'[c] = a
        BY <1>0, <1>4, <4>1 DEF TypeOK
      <4>3. QED
        BY <2>1, <2>2, <4>1, <4>2 DEF Result, Outcomes
    <3>4. ASSUME NEW d \in Call, CheckReplay(d) \/ ReadAfterConflict(d) \/ InsertConflict(d)
          PROVE  d = c
      BY <1>0, <1>4, <3>1, <3>4
         DEF CheckReplay, ReadAfterConflict, ReplayUnpaid, InsertConflict, TypeOK
    <3>5. QED
      BY <1>4, <3>2, <3>3, <3>4 DEF Next, Advance, Finished, vars
  <2>4. request[c].op = "submit" /\ pc[c] \notin {"idle", "done"} /\ UNCHANGED request
    BY <2>3 DEF CheckReplay, ReadAfterConflict, ReplayUnpaid, InsertConflict, Return, At
  <2>5. request[c].sub \in Submission /\ request[c] # NoRequest
    BY <1>0, <2>4, RequestType DEF ControlOK
  <2>6. ~ ReadAfterConflict(c)
    BY <2>4 DEF PastInv, ConflictOK, ReadAfterConflict, At
  <2>7. CASE CheckReplay(c)
    <3>1. \A nonceRows \in {NonceRows(request[c].sub), {}} : nonceRows = {}
      BY <2>4 DEF NonceRows
    <3>2. IsDeleted(request[c].sub) \/ Blocking(reviews, request[c].sub) # {}
      BY <1>4, <2>7, <3>1 DEF CheckReplay
    <3>3. QED
      BY <1>2, <2>4, <2>5, <3>2, RefusedByClaim
  <2>8. CASE InsertConflict(c)
    BY <1>2, <2>4, <2>5, <2>8, RefusedByReceipt
  <2>9. QED
    BY <2>3, <2>6, <2>7, <2>8
<1>5. QED
  BY <1>3, <1>4

\* Whoever proves to have paid is refused for another proof, their own observation,
\* a use of their receipt, or an unsigned placeholder: not for a stranger's observation.
THEOREM StrangersDoNotBlockPayerAlways == Spec => []StrangersDoNotBlockPayer
<1>1. Init => StrangersDoNotBlockPayer
  BY AnswerType, SentinelAssumption DEF Init, StrangersDoNotBlockPayer, RefusedPayer
<1>2. QED
  BY <1>1, PayerNext, Invariance, PastInvariance, PTL DEF Spec

(***************************************************************************)
(* The promise.                                                            *)
(***************************************************************************)

\* ReviewLifecycle speaks of the same keys, requests and answers.
LEMMA PromiseRecords ==
    /\ \A sub : /\ Promise!RowKey(sub) = RowKey(sub)
                /\ Promise!IncomingKeys(sub) = IncomingKeys(sub)
                /\ Promise!BlockingKeys(sub) = BlockingKeys(sub)
    /\ \A sub, r : Promise!IsReplayOf(sub, r) <=> IsReplayOf(sub, r)
    /\ \A rows, sub : /\ Promise!Blocking(rows, sub) = Blocking(rows, sub)
                      /\ Promise!SameKey(rows, sub) = SameKey(rows, sub)
                      /\ Promise!Clashing(rows, sub) = Clashing(rows, sub)
    /\ \A s1, s2 : Promise!SameReceipt(s1, s2) <=> SameReceipt(s1, s2)
    /\ \A rows : Promise!Counted(rows) = Counted(rows)
    /\ \A o : Promise!Outcome(o) = Outcome(o)
    /\ \A id : Promise!Accepted(id) = Accepted(id)
    /\ Promise!Request = Request
<1>1. \A sub : /\ Promise!RowKey(sub) = RowKey(sub)
              /\ Promise!IncomingKeys(sub) = IncomingKeys(sub)
              /\ Promise!BlockingKeys(sub) = BlockingKeys(sub)
  BY DEF Promise!RowKey, RowKey, Promise!IncomingKeys, IncomingKeys, Promise!BlockingKeys,
         BlockingKeys, Promise!UnpaidKey, UnpaidKey, Promise!UnlinkedKey, UnlinkedKey,
         Promise!PaymentKey, PaymentKey
<1>7. \A s1, s2 : Promise!SameReceipt(s1, s2) <=> SameReceipt(s1, s2)
  BY DEF Promise!SameReceipt, SameReceipt
<1>2. \A sub, r : Promise!IsReplayOf(sub, r) <=> IsReplayOf(sub, r)
  BY <1>1 DEF Promise!IsReplayOf, IsReplayOf
<1>3. \A rows, sub : /\ Promise!Blocking(rows, sub) = Blocking(rows, sub)
                    /\ Promise!SameKey(rows, sub) = SameKey(rows, sub)
                    /\ Promise!Clashing(rows, sub) = Clashing(rows, sub)
  BY <1>1, <1>7
     DEF Promise!Blocking, Blocking, Promise!SameKey, SameKey, Promise!Clashing, Clashing
<1>4. \A rows : Promise!Counted(rows) = Counted(rows)
  BY DEF Promise!Counted, Counted
<1>5. Promise!Request = Request
  BY DEF Promise!Request, Request, Promise!SubmitRequest, SubmitRequest, Promise!DeleteRequest,
         DeleteRequest, Promise!SweepRequest, SweepRequest, Promise!Submission, Submission,
         Promise!Attested, Attested
<1>6. /\ \A o : Promise!Outcome(o) = Outcome(o)
      /\ \A id : Promise!Accepted(id) = Accepted(id)
  BY DEF Promise!Outcome, Outcome, Promise!Accepted, Accepted
<1>8. QED
  BY <1>1, <1>2, <1>3, <1>4, <1>5, <1>6, <1>7

\* A transaction that ends without a write answers its pending call.
LEMMA ReturnAnswers ==
    ASSUME IInv, NEW c \in Call, pc[c] \notin Ended, NEW a, Return(c, a)
    PROVE  Promise!Only(c, a) /\ Promise!Pending(c, request[c].op)
BY DEF IInv, CallInv, ControlOK, Ended, Return, store, Promise!Only, Promise!Pending

\* A call refused for its fields, a chain, the redactor or an exception fails.
LEMMA FailAnswers ==
    ASSUME IInv, NEW c \in Call, pc[c] \notin Ended,
           NEW o \in {"rejected", "unavailable", "lost"}, Return(c, Outcome(o))
    PROVE  Promise!Next
<1>1. Promise!Fail(c)
  BY ReturnAnswers, PromiseRecords DEF Promise!Fail, Promise!Pending
<1>2. QED
  BY <1>1 DEF Promise!Next

\* _unpaid_review_replay replays, or refuses the nonce.
LEMMA ReplayAnswers ==
    ASSUME IInv, NEW c \in Call, pc[c] \notin Ended, request[c].op = "submit",
           NEW r \in NonceRows(request[c].sub), ReplayUnpaid(c, r)
    PROVE  Promise!Next
<1>1. r \in reviews /\ r \in SameKey(reviews, request[c].sub) /\ request[c].sub.kind = "unpaid"
  BY DEF NonceRows, SameKey
<1>2. CASE IsReplayOf(request[c].sub, r)
  <2>1. Promise!Replay(c)
    BY <1>1, <1>2, ReturnAnswers, PromiseRecords DEF ReplayUnpaid, Promise!Replay
  <2>2. QED
    BY <2>1 DEF Promise!Next
<1>3. CASE ~ IsReplayOf(request[c].sub, r)
  <2>1. Promise!RefuseNonce(c)
    BY <1>1, <1>3, ReturnAnswers, PromiseRecords DEF ReplayUnpaid, Promise!RefuseNonce
  <2>2. QED
    BY <2>1 DEF Promise!Next
<1>4. QED
  BY <1>2, <1>3

\* The checks under the lock answer as promised, or let the call go on.
LEMMA CheckReplayAnswers ==
    ASSUME IInv, NEW c \in Call, CheckReplay(c)
    PROVE  Promise!Next \/ UNCHANGED Promise!vars
<1>1. pc[c] \notin Ended /\ request[c].op = "submit"
  BY DEF CheckReplay, At, Ended
<1>2. CASE IsDeleted(request[c].sub) /\ Return(c, Outcome("review_deleted"))
  <2>1. Promise!RefuseDeleted(c)
    BY <1>1, <1>2, ReturnAnswers, PromiseRecords DEF IsDeleted, Promise!RefuseDeleted
  <2>2. QED
    BY <2>1 DEF Promise!Next
<1>3. CASE Blocking(reviews, request[c].sub) # {} /\ Return(c, Outcome("payment_reference_used"))
  <2>1. Promise!RefuseUsed(c)
    BY <1>1, <1>3, ReturnAnswers, PromiseRecords DEF Promise!RefuseUsed
  <2>2. QED
    BY <2>1 DEF Promise!Next
<1>4. CASE \E r \in NonceRows(request[c].sub) : ReplayUnpaid(c, r)
  BY <1>1, <1>4, ReplayAnswers
<1>5. CASE UNCHANGED <<request, answer, store>>
  BY <1>5 DEF Promise!vars, store
<1>6. QED
  BY <1>2, <1>3, <1>4, <1>5 DEF CheckReplay

\* The answer read after a rollback is as promised, though no lock is held.
LEMMA ReadAfterConflictAnswers ==
    ASSUME IInv, PastInv, NEW c \in Call, ReadAfterConflict(c)
    PROVE  Promise!Next
<1>1. pc[c] \notin Ended /\ request[c].op = "submit" /\ request[c].sub.kind = "unpaid"
  BY DEF PastInv, ConflictOK, ReadAfterConflict, At, Ended
<1>2. CASE \E r \in NonceRows(request[c].sub) : ReplayUnpaid(c, r)
  BY <1>1, <1>2, ReplayAnswers
<1>3. CASE NonceRows(request[c].sub) = {} /\ Return(c, Outcome("payment_reference_used"))
  <2>1. RowKey(request[c].sub) \in deletedKeys
    BY <1>1, <1>3 DEF PastInv, ConflictOK, ReadAfterConflict, At, NonceRows
  <2>2. Promise!RefuseUsed(c)
    BY <1>1, <1>3, <2>1, ReturnAnswers, PromiseRecords DEF Promise!RefuseUsed
  <2>3. QED
    BY <2>2 DEF Promise!Next
<1>4. QED
  BY <1>2, <1>3 DEF ReadAfterConflict

\* The refusal by a unique index of a call without a nonce is as promised.
LEMMA InsertConflictAnswers ==
    ASSUME IInv, NEW c \in Call, InsertConflict(c)
    PROVE  Promise!Next \/ UNCHANGED Promise!vars
<1>1. pc[c] = "ready" /\ request[c].op = "submit"
  BY DEF InsertConflict, At
<1>2. CASE request[c].sub.kind = "unpaid"
  BY <1>2 DEF InsertConflict, store, Promise!vars
<1>3. CASE request[c].sub.kind # "unpaid"
  <2>1. \E r \in reviews : SameReceipt(r.sub, request[c].sub)
    BY <1>1, <1>3, ReadyClashes DEF InsertConflict, ClashOK, Clashing
  <2>2. Promise!Only(c, Outcome("payment_reference_used")) /\ Promise!Pending(c, "submit")
    BY <1>1, <1>3 DEF IInv, CallInv, ControlOK, InsertConflict, store, Promise!Only, Promise!Pending
  <2>3. Promise!RefuseUsed(c)
    BY <2>1, <2>2, PromiseRecords DEF Promise!RefuseUsed
  <2>4. QED
    BY <2>3 DEF Promise!Next
<1>4. QED
  BY <1>2, <1>3

\* The select of a deletion that finds no row of the wallet is the answer.
LEMMA SelectReviewAnswers ==
    ASSUME IInv, NEW c \in Call, SelectReview(c)
    PROVE  Promise!Next \/ UNCHANGED Promise!vars
<1>1. pc[c] \notin Ended /\ request[c].op = "delete"
  BY DEF SelectReview, At, Ended
<1>2. CASE /\ \A r \in reviews : ~ (r.id = request[c].id /\ r.sub.wallet = request[c].wallet)
           /\ Return(c, Outcome("not_found"))
  <2>1. Promise!DeleteNothing(c)
    BY <1>1, <1>2, ReturnAnswers, PromiseRecords DEF Promise!DeleteNothing
  <2>2. QED
    BY <2>1 DEF Promise!Next
<1>3. CASE UNCHANGED <<request, answer, store>>
  BY <1>3 DEF Promise!vars, store
<1>4. QED
  BY <1>2, <1>3 DEF SelectReview

\* The commit is the instant at which a submission, a deletion or the sweep
\* takes effect.
LEMMA CommitTakesEffect ==
    ASSUME IInv, NEW c \in Call, Commit(c)
    PROVE  Promise!Next
<1>0. TypeOK /\ ControlOK(c) /\ RowOK(c) /\ ClearOK(c) /\ pc[c] = "scored"
  BY DEF IInv, CallInv, Commit
<1>1. Promise!Pending(c, request[c].op)
  BY <1>0 DEF ControlOK, Promise!Pending
<1>2. Promise!Tell(c, Result(c)) /\ request' = request
  BY PromiseRecords DEF Commit, Promise!Tell
<1>3. CASE request[c].op = "submit"
  <2>1. /\ reviews' = reviews \cup {row[c]} /\ row[c] \in Review
        /\ row[c].sub = request[c].sub
        /\ deletedKeys' = deletedKeys /\ scoreOf' = Counted(reviews')
    BY <1>3, CommitSubmitTables
  <2>2. HasInserted(c)
    BY <1>0, <1>3 DEF HasInserted, At
  <2>3. /\ IncomingKeys(request[c].sub) \cap deletedKeys = {}
        /\ Blocking(reviews, request[c].sub) = {} /\ Clashing(reviews, request[c].sub) = {}
    BY <1>0, <2>2 DEF ClearOK
  <2>4. /\ row[c].id \in ReviewId /\ row[c] = [id |-> row[c].id, sub |-> request[c].sub]
        /\ \A r \in reviews : r.id # row[c].id
        /\ \A d \in Call : answer[d] # Accepted(row[c].id)
    BY <1>0, <2>1, <2>2 DEF RowOK, Review
  <2>5. Promise!Tell(c, Accepted(row[c].id))
    BY <1>2, <1>3 DEF Result
  <2>6. \E id \in ReviewId :
          /\ \A r \in reviews : r.id # id
          /\ \A d \in Call : answer[d] # Promise!Accepted(id)
          /\ reviews' = reviews \cup {[id |-> id, sub |-> request[c].sub]}
          /\ Promise!Tell(c, Promise!Accepted(id))
    BY <2>1, <2>4, <2>5, PromiseRecords
  <2>7. Promise!Store(c)
    BY <1>1, <1>2, <1>3, <2>1, <2>3, <2>6, PromiseRecords DEF Promise!Store
  <2>8. QED
    BY <2>7 DEF Promise!Next
<1>4. CASE request[c].op = "delete"
  <2>1. scoreOf' = Counted(reviews')
    BY <1>4, CommitRemoveTables
  <2>2. row[c] \in reviews /\ row[c].id = request[c].id /\ row[c].sub.wallet = request[c].wallet
    BY <1>0, <1>4 DEF RowOK, HasSelected, At
  <2>3. reviews' = reviews \ {row[c]} /\ deletedKeys' = deletedKeys \cup {RowKey(row[c].sub)}
    BY <1>0, <1>4, <2>2, SentinelAssumption DEF Commit, Visible, TypeOK
  <2>4. Promise!Tell(c, Outcome("deleted"))
    BY <1>2, <1>4 DEF Result
  <2>5. Promise!Delete(c)
    BY <1>1, <1>2, <1>4, <2>1, <2>2, <2>3, <2>4, PromiseRecords DEF Promise!Delete
  <2>6. QED
    BY <2>5 DEF Promise!Next
<1>5. CASE request[c].op = "sweep"
  <2>1. scoreOf' = Counted(reviews')
    BY <1>5, CommitRemoveTables
  <2>2. row[c] = NoReview
    BY <1>0, <1>5 DEF RowOK, HasInserted, HasSelected, At
  <2>3. reviews' = reviews /\ deletedKeys' = deletedKeys
    BY <1>5, <2>2 DEF Commit, Visible
  <2>4. Promise!Tell(c, Outcome("swept"))
    BY <1>2, <1>5 DEF Result
  <2>5. Promise!Sweep(c)
    BY <1>1, <1>2, <1>5, <2>1, <2>3, <2>4, PromiseRecords DEF Promise!Sweep
  <2>6. QED
    BY <2>5 DEF Promise!Next
<1>6. QED
  BY <1>0, <1>3, <1>4, <1>5, RequestType

\* Every step of the transactions is a step of the promise, or invisible to it.
LEMMA StepKeepsPromise == IInv /\ PastInv /\ [Next]_vars => [Promise!Next]_(Promise!vars)
<1> SUFFICES ASSUME IInv, PastInv, [Next]_vars PROVE Promise!Next \/ UNCHANGED Promise!vars
  OBVIOUS
<1>1. ASSUME NEW c \in Call, NEW req \in Asked, Receive(c, req) PROVE Promise!Next
  <2>1. request[c] = NoRequest /\ req \in Promise!Request
    BY <1>1, AskedAssumption, PromiseRecords DEF IInv, CallInv, ControlOK, Receive
  <2>2. Promise!Ask(c, req)
    BY <1>1, <2>1 DEF Receive, store, Promise!Ask
  <2>3. QED
    BY <2>1, <2>2 DEF Promise!Next
<1>2. CASE UNCHANGED <<request, answer, store>>
  BY <1>2 DEF Promise!vars, store
<1>3. ASSUME NEW c \in Call, pc[c] \notin Ended,
             NEW o \in {"rejected", "unavailable", "lost"}, Return(c, Outcome(o))
      PROVE  Promise!Next
  BY <1>3, FailAnswers
<1>4. ASSUME NEW c \in Call,
             \/ LockReviewWrites(c) \/ Resolve(c) \/ Verify(c) \/ Authorize(c) \/ Redact(c)
             \/ EnsureService(c) \/ ScoreService(c) \/ Abort(c)
      PROVE  Promise!Next \/ UNCHANGED Promise!vars
  BY <1>2, <1>3, <1>4
     DEF LockReviewWrites, Resolve, Verify, Authorize, Redact, EnsureService, ScoreService, Abort,
         At, Ended
<1>5. ASSUME NEW c \in Call, InsertReview(c) \/ ReplayScores(c)
      PROVE  UNCHANGED Promise!vars
  BY <1>5 DEF InsertReview, ReplayScores, store, Promise!vars
<1>6. CASE UNCHANGED vars
  BY <1>2, <1>6 DEF vars
<1>7. QED
  BY <1>1, <1>4, <1>5, <1>6, CheckReplayAnswers, InsertConflictAnswers,
     ReadAfterConflictAnswers, SelectReviewAnswers, CommitTakesEffect DEF Next, Advance, Finished

\* The interleaved, failing and rolled-back transactions of the review tools are,
\* to their callers, calls that take effect at one instant each.
THEOREM ImplementsPromise == Spec => KeepsPromise
<1>1. Init => Promise!Init
  BY DEF Init, NoScore, Promise!Init
<1>2. QED
  BY <1>1, StepKeepsPromise, Invariance, PastInvariance, PTL
     DEF Spec, KeepsPromise, Promise!Spec
=============================================================================
