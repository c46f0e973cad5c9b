---------------------------- MODULE ReviewClient ----------------------------
(***************************************************************************)
(* The local MCP server (packages/mcp) between an agent and the review     *)
(* store: review_service of server.ts, with prepareSignedReview and the    *)
(* two ways it submits again, and the transport that sends once more when  *)
(* it sees no answer (upstream.ts).                                        *)
(*                                                                         *)
(* The store is ReviewLifecycle, one of its calls for each message sent:   *)
(* what ReviewWrites is shown to implement.  A message the client has      *)
(* given up on may still take effect, at any time.                         *)
(*                                                                         *)
(* Plans are of reviews that the client signs.  It passes on as they are   *)
(* the reviews of a non-machine provider and those that come signed        *)
(* (sign-review.ts:119-121); such a message is sent and sent once more     *)
(* like the others, but never signed again, and is not modelled.  No       *)
(* review of this client carries a gateway receipt.                        *)
(***************************************************************************)
EXTENDS ReviewRecords, FiniteSets

CONSTANTS
    Intent,         \* reviews an agent means to submit
    Plan,           \* what they may be, before they have a nonce
    LocalKey,       \* payments whose payer is the local Solana key
    SignsLink,      \* payments the local Solana key signs a link for
    Message,        \* messages that can be sent
    MaxCalls,       \* times an agent calls review_service for one review
    MaxDeletions,
    NoRequest, NoAnswer, NoMessage, NoNonce

Draft == [identity : {"unsigned", "caller", "stored"}, linked : BOOLEAN]

\* A payment is on an EVM chain or on Solana, whoever reviews it.
ASSUME PlanAssumption ==
    /\ Plan \subseteq [Intent -> [kind : {"unpaid", "evm", "solana"}, wallet : Wallet,
                                 ref : Payment \cup {NoNonce}, service : Service, body : Body]]
    /\ \A p \in Plan : \A i, j \in Intent :
         /\ p[i].kind # "unpaid" => p[i].ref \in Payment
         /\ p[i].kind = "evm" /\ p[j].kind = "solana" => p[i].ref # p[j].ref
ASSUME SentinelAssumption ==
    /\ NoNonce \notin Nonce
    /\ NoRequest \notin Request
    /\ NoAnswer \notin Answer
    /\ NoMessage \notin [intent : Intent, draft : Draft]

VARIABLES
    plan,           \* plan[i]: the review i, fixed
    enabled,        \* what Preferences.status says
    pc,             \* pc[i]: where the call for i is
    calls,          \* calls[i]: how often the agent has called
    nonce,          \* nonce[i]: the review_nonce of an unpaid review
    draft,          \* draft[i]: what the outgoing arguments are signed for
    stage,          \* stage[i]: "first", "resigned" or "unlinked"
    tries,          \* tries[i]: sends of the current forward
    current,        \* current[i]: the message that i waits for
    told,           \* told[i]: what the last call returned
    form,           \* form[m]: the intent of m, and the draft it carries
    verdict,        \* verdict[m]: what verification made of m
    registered,     \* the services that exist
    request, answer, reviews, deletedKeys, scoreOf

agent == <<plan, calls, nonce, told>>
call  == <<pc, draft, stage, tries, current>>
wire  == <<form, verdict, registered>>
store == <<request, answer, reviews, deletedKeys, scoreOf>>
vars  == <<enabled, agent, call, wire, store>>

Store == INSTANCE ReviewLifecycle
           WITH Call <- Message, NoRequest <- NoRequest, NoAnswer <- NoAnswer,
                request <- request, answer <- answer, reviews <- reviews,
                deletedKeys <- deletedKeys, scoreOf <- scoreOf

NoDraft == [identity |-> "unsigned", linked |-> FALSE]

Init ==
    /\ Store!Init
    /\ plan \in Plan
    /\ enabled = TRUE
    /\ pc = [i \in Intent |-> "idle"]
    /\ calls = [i \in Intent |-> 0]
    /\ nonce = [i \in Intent |-> NoNonce]
    /\ draft = [i \in Intent |-> NoDraft]
    /\ stage = [i \in Intent |-> "first"]
    /\ tries = [i \in Intent |-> 0]
    /\ current = [i \in Intent |-> NoMessage]
    /\ told = [i \in Intent |-> NoAnswer]
    /\ form = [m \in Message |-> NoMessage]
    /\ verdict = [m \in Message |-> "none"]
    /\ registered = {}

Unsent == {m \in Message : request[m] = NoRequest}
NextMessage == CHOOSE m \in Unsent : TRUE

Goto(i, step) == pc' = [pc EXCEPT ![i] = step]
Return(i, a) ==
    /\ told' = [told EXCEPT ![i] = a]
    /\ Goto(i, "done")
    /\ draft' = [draft EXCEPT ![i] = NoDraft]
    /\ stage' = [stage EXCEPT ![i] = "first"]
    /\ tries' = [tries EXCEPT ![i] = 0]
    /\ current' = [current EXCEPT ![i] = NoMessage]

(***************************************************************************)
(* review_service of the client.                                           *)
(***************************************************************************)
\* An agent calls, and calls again with the nonce it was given when the
\* answer says that the store is unavailable.
CallReviewService(i) ==
    /\ pc[i] = "idle" \/ (pc[i] = "done" /\ told[i] = Outcome("unavailable"))
    /\ calls[i] < MaxCalls
    /\ calls' = [calls EXCEPT ![i] = @ + 1]
    /\ \/ enabled /\ Goto(i, "called") /\ UNCHANGED <<told, draft, stage, tries, current>>
       \/ ~enabled /\ Return(i, Outcome("disabled"))
    /\ UNCHANGED <<plan, enabled, nonce, wire, store>>

FreshNonces ==
    {n \in Nonce : \A m \in Message : form[m] # NoMessage => request[m].sub.ref # n}
      \ {nonce[i] : i \in Intent}

\* Faulty: every call draws a nonce of its own.
NonceOfCall(i) == IF plan[i].kind = "unpaid" THEN FreshNonces ELSE {NoNonce}

\* The nonce the agent supplies, or else a new one.
NonceOf(i) ==
    IF plan[i].kind = "unpaid" /\ nonce[i] = NoNonce THEN FreshNonces ELSE {nonce[i]}

\* prepareSignedReview signs for the identity of get_service_score, or for
\* the caller's when the service is not known; without a wallet or an answer
\* it leaves the review unsigned.
Prepare(i) ==
    /\ pc[i] = "called"
    /\ \E n \in NonceOf(i) : nonce' = [nonce EXCEPT ![i] = n]
    /\ \E identity \in {"unsigned", IF plan[i].service \in registered THEN "stored" ELSE "caller"} :
         draft' = [draft EXCEPT ![i] =
                     [identity |-> identity,
                      linked |-> identity # "unsigned" /\ plan[i].kind = "solana"
                                   /\ plan[i].ref \in SignsLink]]
    /\ Goto(i, "prepared")
    /\ UNCHANGED <<plan, enabled, calls, told, stage, tries, current, wire, store>>

\* A wallet that is configured in an unsupported way: nothing is sent.
RefuseWallet(i) ==
    /\ pc[i] = "called"
    /\ Return(i, Outcome("rejected"))
    /\ UNCHANGED <<plan, enabled, calls, nonce, wire, store>>

\* Faulty: a review that is signed again carries the reason before redaction.
SubmittedUnredacted(i) ==
    [kind    |-> CASE plan[i].kind = "unpaid" -> "unpaid"
                   [] plan[i].kind = "solana" /\ ~draft[i].linked -> "observed"
                   [] OTHER -> "verified",
     wallet  |-> plan[i].wallet, service |-> plan[i].service,
     body    |-> IF stage[i] = "first" THEN plan[i].body ELSE CHOOSE b \in Body : b # plan[i].body,
     ref     |-> IF plan[i].kind = "unpaid" THEN nonce[i] ELSE plan[i].ref,
     receipt |-> NoReceipt]

\* What the store is asked to keep, if the signatures hold.
Submitted(i) ==
    [kind    |-> CASE plan[i].kind = "unpaid" -> "unpaid"
                   [] plan[i].kind = "solana" /\ ~draft[i].linked -> "observed"
                   [] OTHER -> "verified",
     wallet  |-> plan[i].wallet, service |-> plan[i].service, body |-> plan[i].body,
     ref     |-> IF plan[i].kind = "unpaid" THEN nonce[i] ELSE plan[i].ref,
     receipt |-> NoReceipt]

Send(i, try) ==
    /\ Unsent # {}
    /\ Store!Ask(NextMessage, [op |-> "submit", sub |-> Submitted(i)])
    /\ form' = [form EXCEPT ![NextMessage] = [intent |-> i, draft |-> draft[i]]]
    /\ current' = [current EXCEPT ![i] = NextMessage]
    /\ tries' = [tries EXCEPT ![i] = try]
    /\ Goto(i, "waiting")

\* forwardPayload reads the preference again before it sends.
Forward(i) ==
    /\ pc[i] = "prepared"
    /\ \/ enabled /\ Send(i, 1) /\ UNCHANGED <<told, draft, stage>>
       \/ ~enabled /\ Return(i, Outcome("disabled")) /\ UNCHANGED <<form, store>>
    /\ UNCHANGED <<plan, enabled, calls, nonce, verdict, registered>>

\* The session breaks or the call times out: it is sent once more.
TransportFails(i) ==
    /\ pc[i] = "waiting"
    /\ \/ tries[i] = 1 /\ Goto(i, "resending") /\ UNCHANGED <<told, draft, stage, tries, current>>
       \/ tries[i] = 2 /\ Return(i, Outcome("unavailable"))
    /\ UNCHANGED <<plan, enabled, calls, nonce, wire, store>>

Resend(i) ==
    /\ pc[i] = "resending"
    /\ Send(i, 2)
    /\ UNCHANGED <<enabled, agent, draft, stage, verdict, registered>>

(***************************************************************************)
(* The answer.                                                             *)
(***************************************************************************)
Answered(i) ==
    pc[i] = "waiting" /\ answer[current[i]] # NoAnswer /\ answer[current[i]] # Outcome("lost")

\* resignFromMismatch, once.
Resign(i) ==
    /\ Answered(i) /\ verdict[current[i]] = "signature_mismatch"
    /\ stage[i] = "first"
    /\ stage' = [stage EXCEPT ![i] = "resigned"]
    /\ draft' = [draft EXCEPT ![i].identity = "stored"]
    /\ Goto(i, "prepared")
    /\ UNCHANGED <<enabled, agent, tries, current, wire, store>>

\* withoutPayerSignature, once: an observation of the payment.
Unlink(i) ==
    /\ Answered(i) /\ verdict[current[i]] = "payer_signature_invalid"
    /\ stage' = [stage EXCEPT ![i] = "unlinked"]
    /\ draft' = [draft EXCEPT ![i].linked = FALSE]
    /\ Goto(i, "prepared")
    /\ UNCHANGED <<enabled, agent, tries, current, wire, store>>

\* Also a mismatch, when what the store expects is not this review.
Deliver(i) ==
    /\ Answered(i) /\ verdict[current[i]] # "payer_signature_invalid"
    /\ Return(i, answer[current[i]])
    /\ UNCHANGED <<plan, enabled, calls, nonce, wire, store>>

(***************************************************************************)
(* The store, which may take its time.  A message that nobody waits for    *)
(* any more may still be stored; that it fails, or what it is answered,    *)
(* makes no difference and is left out.                                    *)
(***************************************************************************)
Awaited == {current[i] : i \in {j \in Intent : pc[j] = "waiting"}}

\* The signature is for the identity that resolve_service finds, and the
\* payer link by the payer.
Verdict(m) ==
    LET sub == request[m].sub
        sent == form[m].draft
    IN  IF sent.identity = "unsigned" THEN "refused"
        ELSE IF sent.identity = "caller" /\ sub.service \in registered THEN "signature_mismatch"
        ELSE IF sent.linked /\ sub.ref \notin LocalKey THEN "payer_signature_invalid"
        ELSE "passed"

Verify(m) ==
    /\ Store!Pending(m, "submit") /\ verdict[m] = "none"
    /\ verdict' = [verdict EXCEPT ![m] = Verdict(m)]
    /\ Verdict(m) = "passed" \/ m \in Awaited
    /\ IF Verdict(m) = "passed" THEN UNCHANGED store ELSE Store!Only(m, Outcome("rejected"))
    /\ UNCHANGED <<enabled, agent, call, form, registered>>

Commit(m) ==
    /\ verdict[m] = "passed"
    /\ Store!Store(m)
    /\ m \notin Awaited => answer'[m] = Outcome("lost")
    /\ registered' = registered \cup {request[m].sub.service}
    /\ UNCHANGED <<enabled, agent, call, form, verdict>>

Reply(m) ==
    /\ m \in Awaited
    /\ \/ verdict[m] = "passed" /\ (\/ Store!Replay(m) \/ Store!RefuseDeleted(m)
                                     \/ Store!RefuseNonce(m) \/ Store!RefuseUsed(m))
       \/ Store!Fail(m)
    /\ UNCHANGED <<enabled, agent, call, wire>>

(***************************************************************************)
(* The user, who may also turn CrowdCode off while a call is under way.    *)
(***************************************************************************)
SetEnabled ==
    /\ enabled' = ~enabled
    /\ UNCHANGED <<agent, call, wire, store>>

\* A review is found by list_my_reviews and deleted.
Deletions == {m \in Message : request[m] # NoRequest /\ request[m].op = "delete"}
DeleteMyReview ==
    /\ Cardinality(Deletions) < MaxDeletions /\ Unsent # {}
    /\ \E r \in reviews :
         Store!Ask(NextMessage, [op |-> "delete", wallet |-> r.sub.wallet, id |-> r.id])
    /\ UNCHANGED <<enabled, agent, call, wire>>

Delete(m) ==
    /\ Store!Delete(m)
    /\ UNCHANGED <<enabled, agent, call, wire>>

ClientStep(i) ==
    \/ Prepare(i) \/ RefuseWallet(i) \/ Forward(i) \/ Resend(i)
    \/ TransportFails(i) \/ Resign(i) \/ Unlink(i) \/ Deliver(i)
Next ==
    \/ SetEnabled \/ DeleteMyReview
    \/ \E i \in Intent : CallReviewService(i) \/ ClientStep(i)
    \/ \E m \in Message : Verify(m) \/ Commit(m) \/ Reply(m) \/ Delete(m)

Spec == Init /\ [][Next]_vars

(***************************************************************************)
(* Properties.                                                             *)
(***************************************************************************)
SentFor(i) == {m \in Message : form[m] # NoMessage /\ form[m].intent = i}
Stored(i)  == {r \in reviews : \E m \in SentFor(i) : r.sub = request[m].sub}
Deleted(i) == {RowKey(request[m].sub) : m \in SentFor(i)} \cap deletedKeys

(***************************************************************************)
(* What an agent means as one review is stored once, and not again after   *)
(* its owner deleted it, whichever of the messages sent for it (repeated   *)
(* by the transport, signed again, without the payer's signature, or by    *)
(* another call with the same nonce) take effect, and when.                *)
(***************************************************************************)
OneReviewPerIntent == \A i \in Intent : Cardinality(Stored(i)) + Cardinality(Deleted(i)) =< 1

(***************************************************************************)
(* An unpaid review never conflicts with itself: a call that comes through *)
(* names the one row that is stored for it, even when an earlier message   *)
(* created the service and changed what is signed; no call is told that    *)
(* its nonce or payment is used, unless the review was deleted.            *)
(***************************************************************************)
UnpaidRetryIsSafe ==
    \A i \in Intent : plan[i].kind = "unpaid" /\ Deleted(i) = {} =>
      /\ told[i] \notin {Outcome("review_nonce_used"), Outcome("payment_reference_used"),
                         Outcome("review_deleted")}
      /\ told[i] \in {Accepted(id) : id \in ReviewId} => \E r \in Stored(i) : told[i] = Accepted(r.id)
=============================================================================
