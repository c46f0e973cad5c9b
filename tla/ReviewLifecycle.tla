-------------------------- MODULE ReviewLifecycle --------------------------
(***************************************************************************)
(* What the review store promises its callers: every call takes effect at  *)
(* one instant, together with its answer.  ReviewWrites shows that the     *)
(* transactions of review_service, delete_my_review and the nightly sweep, *)
(* interleaved, failing and rolled back, keep this promise.                *)
(***************************************************************************)
EXTENDS ReviewRecords

CONSTANTS
    Call,         \* calls of the review tools, and runs of the sweep
    NoRequest,    \* a call that has not been made
    NoAnswer      \* a call that has not been answered

VARIABLES
    request,      \* request[c]: what the caller of c asked
    answer,       \* answer[c]: what the caller of c was told
    reviews,      \* the stored reviews
    deletedKeys,  \* the replay keys of deleted reviews
    scoreOf       \* scoreOf[s]: the reviews the stored score of s counts

vars == <<request, answer, reviews, deletedKeys, scoreOf>>

Init ==
    /\ request = [c \in Call |-> NoRequest]
    /\ answer = [c \in Call |-> NoAnswer]
    /\ reviews = {}
    /\ deletedKeys = {}
    /\ scoreOf = [s \in Service |-> {}]

Ask(c, req) ==
    /\ request[c] = NoRequest
    /\ request' = [request EXCEPT ![c] = req]
    /\ UNCHANGED <<answer, reviews, deletedKeys, scoreOf>>

Pending(c, op) ==
    /\ request[c] # NoRequest
    /\ answer[c] = NoAnswer
    /\ request[c].op = op

\* The caller is told a, or the answer is lost on its way.
Tell(c, a) == \E b \in {a, Outcome("lost")} : answer' = [answer EXCEPT ![c] = b]

\* An answer that leaves the store as it is.
Only(c, a) ==
    /\ answer' = [answer EXCEPT ![c] = a]
    /\ UNCHANGED <<request, reviews, deletedKeys, scoreOf>>

\* A new review is stored under an id no caller has been given and no row has.
Store(c) ==
    /\ Pending(c, "submit")
    /\ LET sub == request[c].sub IN
       /\ IncomingKeys(sub) \cap deletedKeys = {}
       /\ Blocking(reviews, sub) = {}
       /\ Clashing(reviews, sub) = {}
       /\ \E id \in ReviewId :
            /\ \A r \in reviews : r.id # id
            /\ \A d \in Call : answer[d] # Accepted(id)
            /\ reviews' = reviews \cup {[id |-> id, sub |-> sub]}
            /\ Tell(c, Accepted(id))
    /\ scoreOf' = Counted(reviews')
    /\ UNCHANGED <<request, deletedKeys>>

\* A retry of a stored unpaid review is given the id it was stored under.
Replay(c) ==
    /\ Pending(c, "submit")
    /\ request[c].sub.kind = "unpaid"
    /\ \E r \in reviews : IsReplayOf(request[c].sub, r) /\ Only(c, Accepted(r.id))

RefuseDeleted(c) ==
    /\ Pending(c, "submit")
    /\ IncomingKeys(request[c].sub) \cap deletedKeys # {}
    /\ Only(c, Outcome("review_deleted"))

RefuseNonce(c) ==
    /\ Pending(c, "submit")
    /\ request[c].sub.kind = "unpaid"
    /\ \E r \in SameKey(reviews, request[c].sub) : ~ IsReplayOf(request[c].sub, r)
    /\ Only(c, Outcome("review_nonce_used"))

\* The payment has a review, or the receipt has been used for one; or the row of
\* the same nonce, met while inserting, was deleted before it could be read back.
RefuseUsed(c) ==
    /\ Pending(c, "submit")
    /\ \/ Blocking(reviews, request[c].sub) # {}
       \/ \E r \in reviews : SameReceipt(r.sub, request[c].sub)
       \/ request[c].sub.kind = "unpaid" /\ RowKey(request[c].sub) \in deletedKeys
    /\ Only(c, Outcome("payment_reference_used"))

\* Only the wallet that wrote a review deletes it.
Delete(c) ==
    /\ Pending(c, "delete")
    /\ \E r \in reviews :
         /\ r.id = request[c].id
         /\ r.sub.wallet = request[c].wallet
         /\ reviews' = reviews \ {r}
         /\ deletedKeys' = deletedKeys \cup {RowKey(r.sub)}
    /\ Tell(c, Outcome("deleted"))
    /\ scoreOf' = Counted(reviews')
    /\ UNCHANGED request

DeleteNothing(c) ==
    /\ Pending(c, "delete")
    /\ \A r \in reviews : ~ (r.id = request[c].id /\ r.sub.wallet = request[c].wallet)
    /\ Only(c, Outcome("not_found"))

\* The sweep finds every score as it should be.
Sweep(c) ==
    /\ Pending(c, "sweep")
    /\ Tell(c, Outcome("swept"))
    /\ scoreOf' = Counted(reviews)
    /\ UNCHANGED <<request, reviews, deletedKeys>>

\* Invalid, unverifiable or interrupted calls change nothing.
Fail(c) ==
    /\ request[c] # NoRequest
    /\ answer[c] = NoAnswer
    /\ \E o \in {"rejected", "unavailable", "lost"} : Only(c, Outcome(o))

Next ==
    \E c \in Call :
        \/ \E req \in Request : Ask(c, req)
        \/ Store(c) \/ Replay(c)
        \/ RefuseDeleted(c) \/ RefuseNonce(c) \/ RefuseUsed(c)
        \/ Delete(c) \/ DeleteNothing(c)
        \/ Sweep(c)
        \/ Fail(c)

Spec == Init /\ [][Next]_vars
=============================================================================
