------------------------- MODULE ReviewClientProofs -------------------------
(* However often a review is sent, it is stored once: for every plan, every *)
(* number of calls and messages, over the store that ReviewWrites is shown  *)
(* to implement.                                                            *)
EXTENDS ReviewClient, FiniteSetTheorems, TLAPS

(***************************************************************************)
(* The inductive invariant.                                                *)
(***************************************************************************)
Steps == {"idle", "called", "prepared", "waiting", "resending", "done"}

\* What a message for i asks for, signed as the draft d says.
SubOf(i, d) ==
    [kind    |-> CASE plan[i].kind = "unpaid" -> "unpaid"
                   [] plan[i].kind = "solana" /\ ~d.linked -> "observed"
                   [] OTHER -> "verified",
     wallet  |-> plan[i].wallet, service |-> plan[i].service, body |-> plan[i].body,
     ref     |-> IF plan[i].kind = "unpaid" THEN nonce[i] ELSE plan[i].ref,
     receipt |-> NoReceipt]

TypesInv ==
    /\ plan \in Plan
    /\ pc \in [Intent -> Steps]
    /\ nonce \in [Intent -> Nonce \cup {NoNonce}]
    /\ draft \in [Intent -> Draft]
    /\ DOMAIN told = Intent /\ DOMAIN current = Intent
    /\ form \in [Message -> [intent : Intent, draft : Draft] \cup {NoMessage}]
    /\ DOMAIN verdict = Message /\ DOMAIN request = Message /\ DOMAIN answer = Message

\* A draft that is signed has the payer's link if the local key gives one,
\* unless that key is known not to be the payer.
GoodDraft(i, d) ==
    /\ plan[i].kind # "solana" => ~ d.linked
    /\ plan[i].kind = "solana" /\ d.identity # "unsigned" =>
         IF d.linked THEN plan[i].ref \in SignsLink ELSE plan[i].ref \notin SignsLink \cap LocalKey

\* A call waits for a message that carries its draft; nonces are never shared.
IntentOK(i) ==
    /\ GoodDraft(i, draft[i])
    /\ pc[i] \in {"prepared", "waiting", "resending"} /\ plan[i].kind = "unpaid" =>
         nonce[i] # NoNonce
    /\ pc[i] = "waiting" => /\ current[i] \in Message
                            /\ form[current[i]] = [intent |-> i, draft |-> draft[i]]
IntentInv ==
    /\ \A i, j \in Intent : i # j /\ nonce[i] # NoNonce => nonce[i] # nonce[j]
    /\ \A i \in Intent : IntentOK(i)

\* What a message says, and what its verdict tells about it.
MessageOK(m) ==
    IF form[m] = NoMessage
    THEN verdict[m] = "none" /\ (request[m] = NoRequest \/ request[m].op = "delete")
    ELSE LET i == form[m].intent
             d == form[m].draft
         IN  /\ GoodDraft(i, d)
             /\ plan[i].kind = "unpaid" => nonce[i] # NoNonce
             /\ request[m] = [op |-> "submit", sub |-> SubOf(i, d)]
             /\ verdict[m] = "signature_mismatch" => d.identity = "caller"
             /\ verdict[m] = "payer_signature_invalid" => d.linked /\ plan[i].ref \notin LocalKey
             /\ verdict[m] = "passed" =>
                  d.identity # "unsigned" /\ (d.linked => plan[i].ref \in LocalKey)
MessageInv == \A m \in Message : MessageOK(m)

\* Rows and deleted keys come from messages that passed, and keys are unique.
Passed(m) == form[m] # NoMessage /\ verdict[m] = "passed"
RowInv ==
    /\ \A r, q \in reviews : RowKey(r.sub) = RowKey(q.sub) => r = q
    /\ \A r \in reviews : /\ RowKey(r.sub) \notin deletedKeys
                          /\ \E m \in Message : Passed(m) /\ r.sub = request[m].sub
    /\ \A k \in deletedKeys : \E m \in Message : Passed(m) /\ k = RowKey(request[m].sub)

\* An answer that says something about an unpaid review says it of the row
\* that is stored for it, or the row has been deleted.
Telling == {Accepted(id) : id \in ReviewId}
             \cup {Outcome("review_nonce_used"), Outcome("payment_reference_used"),
                   Outcome("review_deleted")}
Explained(i, a) ==
    a \in Telling =>
      \E m \in SentFor(i) :
        \/ RowKey(request[m].sub) \in deletedKeys
        \/ \E r \in reviews : r.sub = request[m].sub /\ a = Accepted(r.id)
AnswerInv ==
    /\ \A m \in Message : request[m] = NoRequest => answer[m] = NoAnswer
    /\ \A i \in Intent : plan[i].kind = "unpaid" =>
         /\ Explained(i, told[i])
         /\ \A m \in SentFor(i) : Explained(i, answer[m])

ClientInv == TypesInv /\ IntentInv /\ MessageInv /\ RowInv /\ AnswerInv

(***************************************************************************)
(* Types.                                                                  *)
(***************************************************************************)

\* ReviewLifecycle speaks of the same keys and answers.
LEMMA StoreRecords ==
    /\ \A sub : /\ Store!RowKey(sub) = RowKey(sub)
                /\ Store!IncomingKeys(sub) = IncomingKeys(sub)
                /\ Store!BlockingKeys(sub) = BlockingKeys(sub)
    /\ \A sub, r : Store!IsReplayOf(sub, r) <=> IsReplayOf(sub, r)
    /\ \A rows, sub : /\ Store!Blocking(rows, sub) = Blocking(rows, sub)
                      /\ Store!SameKey(rows, sub) = SameKey(rows, sub)
                      /\ Store!Clashing(rows, sub) = Clashing(rows, sub)
    /\ \A s1, s2 : Store!SameReceipt(s1, s2) <=> SameReceipt(s1, s2)
    /\ \A o : Store!Outcome(o) = Outcome(o)
    /\ \A id : Store!Accepted(id) = Accepted(id)
<1>1. \A sub : /\ Store!RowKey(sub) = RowKey(sub)
              /\ Store!IncomingKeys(sub) = IncomingKeys(sub)
              /\ Store!BlockingKeys(sub) = BlockingKeys(sub)
  BY DEF Store!RowKey, RowKey, Store!IncomingKeys, IncomingKeys, Store!BlockingKeys,
         BlockingKeys, Store!UnpaidKey, UnpaidKey, Store!UnlinkedKey, UnlinkedKey,
         Store!PaymentKey, PaymentKey
<1>2. \A sub, r : Store!IsReplayOf(sub, r) <=> IsReplayOf(sub, r)
  BY <1>1 DEF Store!IsReplayOf, IsReplayOf
<1>3. \A rows, sub : /\ Store!Blocking(rows, sub) = Blocking(rows, sub)
                    /\ Store!SameKey(rows, sub) = SameKey(rows, sub)
  BY <1>1 DEF Store!Blocking, Blocking, Store!SameKey, SameKey
<1>6. \A s1, s2 : Store!SameReceipt(s1, s2) <=> SameReceipt(s1, s2)
  BY DEF Store!SameReceipt, SameReceipt
<1>7. \A rows, sub : Store!Clashing(rows, sub) = Clashing(rows, sub)
  BY <1>1, <1>6 DEF Store!Clashing, Clashing
<1>4. /\ \A o : Store!Outcome(o) = Outcome(o)
      /\ \A id : Store!Accepted(id) = Accepted(id)
  BY DEF Store!Outcome, Outcome, Store!Accepted, Accepted
<1>5. QED
  BY <1>1, <1>2, <1>3, <1>4, <1>6, <1>7

\* Refusals are outcomes, not acceptances, and neither is no answer.
LEMMA AnswersDiffer ==
    /\ NoAnswer \notin Telling
    /\ \A o : (\A id : Outcome(o) # Accepted(id))
    /\ \A o \in {"rejected", "unavailable", "lost", "disabled", "deleted"} : Outcome(o) \notin Telling
<1>1. \A o, id : Outcome(o) # Accepted(id)
  BY DEF Outcome, Accepted
<1>2. \A o, u : Outcome(o) = Outcome(u) => o = u
  BY DEF Outcome
<1>3. Telling \subseteq Answer
  BY DEF Telling, Answer, Outcomes, Outcome, Accepted
<1>4. QED
  BY <1>1, <1>2, <1>3, SentinelAssumption DEF Telling

\* What a draft says is a submission, never an absent request.
LEMMA SubmissionType ==
    ASSUME TypesInv, NEW i \in Intent, NEW d \in Draft,
           plan[i].kind = "unpaid" => nonce[i] # NoNonce
    PROVE  /\ SubOf(i, d) \in Submission
           /\ [op |-> "submit", sub |-> SubOf(i, d)] # NoRequest
           /\ plan[i].kind \in {"unpaid", "evm", "solana"}
<1>1. plan \in [Intent -> [kind : {"unpaid", "evm", "solana"}, wallet : Wallet,
                           ref : Payment \cup {NoNonce}, service : Service, body : Body]]
  BY PlanAssumption DEF TypesInv
<1>2. /\ plan[i].kind \in {"unpaid", "evm", "solana"} /\ plan[i].wallet \in Wallet
      /\ plan[i].service \in Service /\ plan[i].body \in Body
  BY <1>1
<1>3. plan[i].kind # "unpaid" => plan[i].ref \in Payment
  BY PlanAssumption DEF TypesInv
<1>4. plan[i].kind = "unpaid" => nonce[i] \in Nonce
  BY DEF TypesInv
<1>5. SubOf(i, d) \in Submission
  <2>1. CASE plan[i].kind = "unpaid"
    BY <1>2, <1>4, <2>1 DEF SubOf, Submission
  <2>2. CASE plan[i].kind # "unpaid"
    <3>1. PICK k \in {"verified", "observed"} : k = SubOf(i, d).kind
      BY <2>2 DEF SubOf
    <3>2. SubOf(i, d) = [kind |-> k, wallet |-> plan[i].wallet, service |-> plan[i].service,
                         body |-> plan[i].body, ref |-> plan[i].ref, receipt |-> NoReceipt]
      BY <2>2, <3>1 DEF SubOf
    <3>3. SubOf(i, d) \in [kind : {"verified", "observed"}, wallet : Wallet, ref : Payment,
                           service : Service, body : Body, receipt : Receipt \cup {NoReceipt}]
      BY <1>2, <1>3, <2>2, <3>2
    <3>4. Attested(SubOf(i, d))
      BY <3>2 DEF Attested
    <3>5. QED
      BY <3>3, <3>4 DEF Submission
  <2>3. QED
    BY <2>1, <2>2
<1>6. [op |-> "submit", sub |-> SubOf(i, d)] \in Request
  BY <1>5 DEF Request, SubmitRequest
<1>7. QED
  BY <1>2, <1>5, <1>6, SentinelAssumption

\* The next message has not been sent, so that sending it hides no other.
LEMMA NextIsUnsent ==
    ASSUME TypesInv, MessageInv, Unsent # {}
    PROVE  /\ NextMessage \in Message /\ request[NextMessage] = NoRequest
           /\ form[NextMessage] = NoMessage /\ verdict[NextMessage] = "none"
<1>1. NextMessage \in Unsent
  BY DEF NextMessage
<1>2. NextMessage \in Message /\ request[NextMessage] = NoRequest
  BY <1>1 DEF Unsent
<1> DEFINE m == NextMessage
<1>3. ASSUME form[m] # NoMessage PROVE FALSE
  <2>1. form[m].intent \in Intent /\ form[m].draft \in Draft
    BY <1>2, <1>3 DEF TypesInv
  <2>2. /\ request[m] = [op |-> "submit", sub |-> SubOf(form[m].intent, form[m].draft)]
        /\ plan[form[m].intent].kind = "unpaid" => nonce[form[m].intent] # NoNonce
    BY <1>2, <1>3 DEF MessageInv, MessageOK
  <2>3. QED
    BY <1>2, <2>1, <2>2, SubmissionType
<1>4. QED
  BY <1>2, <1>3 DEF MessageInv, MessageOK

\* The call returns.
LEMMA ReturnTypes ==
    ASSUME TypesInv, NEW i \in Intent, NEW a, Return(i, a),
           UNCHANGED <<plan, nonce, form, verdict, request, answer>>
    PROVE  TypesInv'
<1>1. "done" \in Steps /\ NoDraft \in Draft
  BY DEF Steps, NoDraft, Draft
<1>2. QED
  BY <1>1 DEF TypesInv, Return, Goto

\* A message is sent.
LEMMA SendTypes ==
    ASSUME TypesInv, NEW i \in Intent, NEW try, Send(i, try),
           UNCHANGED <<plan, nonce, draft, told, verdict>>
    PROVE  TypesInv'
<1>1. "waiting" \in Steps /\ [intent |-> i, draft |-> draft[i]] \in [intent : Intent, draft : Draft]
  BY DEF Steps, TypesInv
<1>2. QED
  BY <1>1 DEF TypesInv, Send, Goto, Store!Ask

LEMMA TypesNext == TypesInv /\ [Next]_vars => TypesInv'
<1> SUFFICES ASSUME TypesInv, [Next]_vars PROVE TypesInv'
  OBVIOUS
<1> USE DEF agent, call, wire, store
<1>1. ASSUME NEW i \in Intent, CallReviewService(i) PROVE TypesInv'
  <2>1. CASE Return(i, Outcome("disabled"))
    BY <1>1, <2>1, ReturnTypes DEF CallReviewService
  <2>2. CASE Goto(i, "called") /\ UNCHANGED <<told, draft, stage, tries, current>>
    BY <1>1, <2>2 DEF CallReviewService, TypesInv, Goto, Steps
  <2>3. QED
    BY <1>1, <2>1, <2>2 DEF CallReviewService
<1>2. ASSUME NEW i \in Intent, Prepare(i) PROVE TypesInv'
  <2>1. PICK n \in NonceOf(i) : nonce' = [nonce EXCEPT ![i] = n]
    BY <1>2 DEF Prepare
  <2>2. nonce' \in [Intent -> Nonce \cup {NoNonce}]
    BY <2>1 DEF TypesInv, NonceOf, FreshNonces
  <2>3. PICK identity \in {"unsigned", IF plan[i].service \in registered THEN "stored" ELSE "caller"} :
          draft' = [draft EXCEPT ![i] =
                     [identity |-> identity,
                      linked |-> identity # "unsigned" /\ plan[i].kind = "solana"
                                   /\ plan[i].ref \in SignsLink]]
    BY <1>2 DEF Prepare
  <2>4. PICK l \in BOOLEAN : l = (identity # "unsigned" /\ plan[i].kind = "solana"
                                   /\ plan[i].ref \in SignsLink)
    OBVIOUS
  <2>5. draft' = [draft EXCEPT ![i] = [identity |-> identity, linked |-> l]]
    BY <2>3, <2>4
  <2>6. draft' \in [Intent -> Draft]
    BY <2>5 DEF TypesInv, Draft
  <2>7. QED
    BY <1>2, <2>2, <2>6 DEF Prepare, TypesInv, Goto, Steps
<1>3. ASSUME NEW i \in Intent, RefuseWallet(i) PROVE TypesInv'
  BY <1>3, ReturnTypes DEF RefuseWallet
<1>4. ASSUME NEW i \in Intent, Forward(i) PROVE TypesInv'
  <2>1. CASE Send(i, 1) /\ UNCHANGED <<told, draft, stage>>
    BY <1>4, <2>1, SendTypes DEF Forward
  <2>2. CASE Return(i, Outcome("disabled")) /\ UNCHANGED <<form, store>>
    BY <1>4, <2>2, ReturnTypes DEF Forward
  <2>3. QED
    BY <1>4, <2>1, <2>2 DEF Forward
<1>5. ASSUME NEW i \in Intent, Resend(i) PROVE TypesInv'
  BY <1>5, SendTypes DEF Resend
<1>6. ASSUME NEW i \in Intent, TransportFails(i) PROVE TypesInv'
  <2>1. CASE Return(i, Outcome("unavailable"))
    BY <1>6, <2>1, ReturnTypes DEF TransportFails
  <2>2. CASE Goto(i, "resending") /\ UNCHANGED <<told, draft, stage, tries, current>>
    BY <1>6, <2>2 DEF TransportFails, TypesInv, Goto, Steps
  <2>3. QED
    BY <1>6, <2>1, <2>2 DEF TransportFails
<1>7. ASSUME NEW i \in Intent, Resign(i) PROVE TypesInv'
  <2>1. \A identity \in {"unsigned", "caller", "stored"} :
          [draft EXCEPT ![i].identity = identity] \in [Intent -> Draft]
    BY DEF TypesInv, Draft
  <2>2. draft' \in [Intent -> Draft]
    BY <1>7, <2>1 DEF Resign
  <2>3. QED
    BY <1>7, <2>2 DEF Resign, TypesInv, Goto, Steps
<1>8. ASSUME NEW i \in Intent, Unlink(i) PROVE TypesInv'
  <2>1. \A linked \in BOOLEAN : [draft EXCEPT ![i].linked = linked] \in [Intent -> Draft]
    BY DEF TypesInv, Draft
  <2>2. draft' \in [Intent -> Draft]
    BY <1>8, <2>1, Zenon DEF Unlink
  <2>3. QED
    BY <1>8, <2>2 DEF Unlink, TypesInv, Goto, Steps
<1>9. ASSUME NEW i \in Intent, Deliver(i) PROVE TypesInv'
  BY <1>9, ReturnTypes DEF Deliver
<1>10. ASSUME NEW m \in Message, Verify(m) PROVE TypesInv'
  BY <1>10 DEF Verify, TypesInv, Store!Only
<1>11. ASSUME NEW m \in Message, Commit(m) PROVE TypesInv'
  BY <1>11 DEF Commit, TypesInv, Store!Store, Store!Tell
<1>12. ASSUME NEW m \in Message, Reply(m) PROVE TypesInv'
  BY <1>12 DEF Reply, TypesInv, Store!Replay, Store!RefuseDeleted, Store!RefuseNonce,
               Store!RefuseUsed, Store!Fail, Store!Only
<1>13. ASSUME NEW m \in Message, Delete(m) PROVE TypesInv'
  BY <1>13 DEF Delete, TypesInv, Store!Delete, Store!Tell
<1>14. CASE DeleteMyReview
  BY <1>14 DEF DeleteMyReview, TypesInv, Store!Ask
<1>15. CASE SetEnabled \/ UNCHANGED vars
  BY <1>15 DEF SetEnabled, vars, TypesInv
<1>16. QED
  BY <1>1, <1>2, <1>3, <1>4, <1>5, <1>6, <1>7, <1>8, <1>9, <1>10, <1>11, <1>12, <1>13, <1>14, <1>15
     DEF Next, ClientStep

(***************************************************************************)
(* What no step takes back.                                                *)
(***************************************************************************)
KeepsMessages ==
    /\ plan' = plan
    /\ \A i \in Intent : nonce[i] # NoNonce => nonce'[i] = nonce[i]
    /\ \A m \in Message : form[m] # NoMessage => form'[m] = form[m] /\ request'[m] = request[m]
    /\ \A m \in Message : verdict[m] # "none" => verdict'[m] = verdict[m]
    /\ \A m \in Message : answer[m] # NoAnswer => answer'[m] = answer[m]

\* What a step may do to the wire and to the answers.
SendsOne ==
    /\ Unsent # {}
    /\ \A m \in Message \ {NextMessage} : form'[m] = form[m] /\ request'[m] = request[m]
    /\ UNCHANGED <<plan, verdict, answer>>

LEMMA SendsKeep ==
    ASSUME TypesInv, MessageInv, SendsOne,
           \A i \in Intent : nonce[i] # NoNonce => nonce'[i] = nonce[i]
    PROVE  KeepsMessages
  BY NextIsUnsent DEF SendsOne, KeepsMessages

LEMMA SendIsOne ==
    ASSUME TypesInv, NEW i \in Intent, NEW try, Send(i, try), UNCHANGED <<plan, verdict>>
    PROVE  SendsOne
  BY DEF TypesInv, Send, SendsOne, Store!Ask

LEMMA KeepsNext == TypesInv /\ MessageInv /\ [Next]_vars => KeepsMessages
<1> SUFFICES ASSUME TypesInv, MessageInv, [Next]_vars PROVE KeepsMessages
  OBVIOUS
<1> USE DEF agent, call, wire, store
<1>1. ASSUME NEW i \in Intent,
             \/ CallReviewService(i) \/ RefuseWallet(i) \/ TransportFails(i) \/ Resign(i)
             \/ Unlink(i) \/ Deliver(i)
      PROVE  KeepsMessages
  BY <1>1 DEF CallReviewService, RefuseWallet, TransportFails, Resign, Unlink, Deliver, KeepsMessages
<1>2. ASSUME NEW i \in Intent, Prepare(i) PROVE KeepsMessages
  <2>1. PICK n \in NonceOf(i) : nonce' = [nonce EXCEPT ![i] = n]
    BY <1>2 DEF Prepare
  <2>2. nonce[i] # NoNonce => n = nonce[i]
    BY <2>1 DEF NonceOf
  <2>3. \A j \in Intent : nonce[j] # NoNonce => nonce'[j] = nonce[j]
    BY <2>1, <2>2 DEF TypesInv
  <2>4. QED
    BY <1>2, <2>3 DEF Prepare, KeepsMessages
<1>3. ASSUME NEW i \in Intent, Forward(i) PROVE KeepsMessages
  <2>1. CASE Send(i, 1)
    BY <1>3, <2>1, SendIsOne, SendsKeep DEF Forward
  <2>2. CASE UNCHANGED <<form, store>>
    BY <1>3, <2>2 DEF Forward, KeepsMessages
  <2>3. QED
    BY <1>3, <2>1, <2>2 DEF Forward
<1>4. ASSUME NEW i \in Intent, Resend(i) PROVE KeepsMessages
  BY <1>4, SendIsOne, SendsKeep DEF Resend
<1>5. ASSUME NEW m \in Message, Verify(m) PROVE KeepsMessages
  BY <1>5 DEF Verify, KeepsMessages, TypesInv, Store!Only, Store!Pending
<1>6. ASSUME NEW m \in Message, Commit(m) PROVE KeepsMessages
  BY <1>6 DEF Commit, KeepsMessages, TypesInv, Store!Store, Store!Tell, Store!Pending
<1>7. ASSUME NEW m \in Message, Reply(m) PROVE KeepsMessages
  BY <1>7 DEF Reply, KeepsMessages, TypesInv, Store!Replay, Store!RefuseDeleted, Store!RefuseNonce,
              Store!RefuseUsed, Store!Fail, Store!Only, Store!Pending
<1>8. ASSUME NEW m \in Message, Delete(m) PROVE KeepsMessages
  BY <1>8 DEF Delete, KeepsMessages, TypesInv, Store!Delete, Store!Tell, Store!Pending
<1>9. CASE DeleteMyReview
  <2>1. SendsOne
    BY <1>9 DEF DeleteMyReview, SendsOne, TypesInv, Store!Ask
  <2>2. QED
    BY <1>9, <2>1, SendsKeep DEF DeleteMyReview
<1>10. CASE SetEnabled \/ UNCHANGED vars
  BY <1>10 DEF SetEnabled, vars, KeepsMessages
<1>11. QED
  BY <1>1, <1>2, <1>3, <1>4, <1>5, <1>6, <1>7, <1>8, <1>9, <1>10 DEF Next, ClientStep

(***************************************************************************)
(* The calls of the client.                                                *)
(***************************************************************************)

\* A call that a step leaves alone.
LEMMA OtherCalls ==
    ASSUME IntentInv, KeepsMessages, NEW i \in Intent,
           pc'[i] = pc[i], draft'[i] = draft[i], current'[i] = current[i], nonce'[i] = nonce[i],
           NoMessage \notin [intent : Intent, draft : Draft], draft[i] \in Draft
    PROVE  IntentOK(i)'
<1>1. IntentOK(i) /\ plan' = plan
  BY DEF IntentInv, KeepsMessages
<1>2. pc[i] = "waiting" => form'[current[i]] = form[current[i]]
  BY <1>1 DEF IntentOK, KeepsMessages
<1>3. QED
  BY <1>1, <1>2 DEF IntentOK, GoodDraft

\* A call that is not waiting after the step.
LEMMA OwnCall ==
    ASSUME NEW i \in Intent, KeepsMessages, GoodDraft(i, draft'[i]), pc'[i] # "waiting",
           pc'[i] \in {"prepared", "resending"} /\ plan[i].kind = "unpaid" => nonce'[i] # NoNonce
    PROVE  IntentOK(i)'
  BY DEF IntentOK, GoodDraft, KeepsMessages

LEMMA QuietCalls ==
    ASSUME TypesInv, IntentInv, KeepsMessages, UNCHANGED <<nonce, pc, draft, current>>
    PROVE  IntentInv'
<1>1. \A i \in Intent : IntentOK(i)'
  BY OtherCalls, SentinelAssumption DEF TypesInv
<1>2. QED
  BY <1>1 DEF IntentInv

\* A step of the call i, which leaves nonces alone.
LEMMA OneCall ==
    ASSUME TypesInv, IntentInv, KeepsMessages, NEW i \in Intent, nonce' = nonce, IntentOK(i)',
           \A j \in Intent \ {i} :
             pc'[j] = pc[j] /\ draft'[j] = draft[j] /\ current'[j] = current[j]
    PROVE  IntentInv'
<1>1. \A j \in Intent \ {i} : IntentOK(j)'
  BY OtherCalls, SentinelAssumption DEF TypesInv
<1>2. QED
  BY <1>1 DEF IntentInv

LEMMA ReturnCall ==
    ASSUME TypesInv, IntentInv, KeepsMessages, NEW i \in Intent, nonce' = nonce,
           NEW a, Return(i, a)
    PROVE  IntentInv'
<1>1. draft'[i] = NoDraft /\ pc'[i] = "done"
  BY DEF Return, Goto, TypesInv
<1>2. GoodDraft(i, NoDraft)
  BY DEF GoodDraft, NoDraft
<1>3. IntentOK(i)'
  BY <1>1, <1>2, OwnCall
<1>4. \A j \in Intent \ {i} : pc'[j] = pc[j] /\ draft'[j] = draft[j] /\ current'[j] = current[j]
  BY DEF Return, Goto, TypesInv
<1>5. QED
  BY <1>3, <1>4, OneCall

LEMMA SendCall ==
    ASSUME TypesInv, IntentInv, MessageInv, KeepsMessages, NEW i \in Intent, nonce' = nonce,
           draft' = draft, NEW try, Send(i, try), pc[i] \in {"prepared", "resending"}
    PROVE  IntentInv'
<1>1. /\ NextMessage \in Message /\ pc'[i] = "waiting" /\ current'[i] = NextMessage
      /\ form'[NextMessage] = [intent |-> i, draft |-> draft[i]]
  BY NextIsUnsent DEF Send, Goto, TypesInv
<1>2. GoodDraft(i, draft[i]) /\ (plan[i].kind = "unpaid" => nonce[i] # NoNonce)
  BY DEF IntentInv, IntentOK
<1>3. IntentOK(i)'
  BY <1>1, <1>2 DEF IntentOK, GoodDraft, KeepsMessages
<1>4. \A j \in Intent \ {i} : pc'[j] = pc[j] /\ draft'[j] = draft[j] /\ current'[j] = current[j]
  BY DEF Send, Goto, TypesInv
<1>5. QED
  BY <1>3, <1>4, OneCall

LEMMA PrepareCall ==
    ASSUME TypesInv, IntentInv, KeepsMessages, NEW i \in Intent, Prepare(i)
    PROVE  IntentInv'
<1> USE DEF wire, store
<1>1. PICK n \in NonceOf(i) : nonce' = [nonce EXCEPT ![i] = n]
  BY DEF Prepare
<1>2. n = nonce[i] \/ (n \in Nonce /\ \A j \in Intent : n # nonce[j])
  BY <1>1 DEF NonceOf, FreshNonces
<1>3. plan[i].kind = "unpaid" => n # NoNonce
  BY <1>1, SentinelAssumption DEF NonceOf, FreshNonces
<1>4. \A j \in Intent : nonce'[j] = IF j = i THEN n ELSE nonce[j]
  BY <1>1 DEF TypesInv
<1>5. \A j, k \in Intent : j # k /\ nonce'[j] # NoNonce => nonce'[j] # nonce'[k]
  BY <1>2, <1>4 DEF IntentInv
<1>6. PICK identity \in {"unsigned", IF plan[i].service \in registered THEN "stored" ELSE "caller"} :
        draft' = [draft EXCEPT ![i] =
                   [identity |-> identity,
                    linked |-> identity # "unsigned" /\ plan[i].kind = "solana"
                                 /\ plan[i].ref \in SignsLink]]
  BY DEF Prepare
<1>7. PICK l \in BOOLEAN : l = (identity # "unsigned" /\ plan[i].kind = "solana"
                                 /\ plan[i].ref \in SignsLink)
  OBVIOUS
<1>8. draft'[i] = [identity |-> identity, linked |-> l]
  BY <1>6, <1>7 DEF TypesInv
<1>9. GoodDraft(i, draft'[i])
  <2>0. \A d, x, y : d = [identity |-> x, linked |-> y] => d.identity = x /\ d.linked = y
    OBVIOUS
  <2>1. draft'[i].identity = identity /\ draft'[i].linked = l
    BY <1>8, <2>0, Zenon
  <2>3. CASE l
    BY <1>7, <2>1, <2>3, Zenon DEF GoodDraft
  <2>4. CASE ~ l
    BY <1>7, <2>1, <2>4, Zenon DEF GoodDraft
  <2>5. QED
    BY <2>3, <2>4
<1>10. IntentOK(i)'
  BY <1>3, <1>4, <1>9, OwnCall DEF Prepare, Goto, TypesInv
<1>11. ASSUME NEW j \in Intent \ {i} PROVE IntentOK(j)'
  <2>1. pc'[j] = pc[j] /\ draft'[j] = draft[j] /\ current'[j] = current[j] /\ nonce'[j] = nonce[j]
    BY <1>4, <1>6 DEF Prepare, Goto, TypesInv
  <2>2. draft[j] \in Draft
    BY DEF TypesInv
  <2>3. QED
    BY <2>1, <2>2, OtherCalls, SentinelAssumption
<1>12. QED
  BY <1>5, <1>10, <1>11 DEF IntentInv

\* What the answer to a waiting call was decided on.
LEMMA AnsweredDraft ==
    ASSUME IntentInv, MessageInv, NEW i \in Intent, Answered(i),
           NoMessage \notin [intent : Intent, draft : Draft], draft[i] \in Draft
    PROVE  /\ current[i] \in Message /\ form[current[i]] # NoMessage
           /\ form[current[i]].intent = i /\ form[current[i]].draft = draft[i]
           /\ GoodDraft(i, draft[i])
           /\ plan[i].kind = "unpaid" => nonce[i] # NoNonce
           /\ verdict[current[i]] = "signature_mismatch" => draft[i].identity = "caller"
           /\ verdict[current[i]] = "payer_signature_invalid" =>
                draft[i].linked /\ plan[i].ref \notin LocalKey
<1>1. /\ current[i] \in Message /\ form[current[i]] = [intent |-> i, draft |-> draft[i]]
      /\ GoodDraft(i, draft[i]) /\ (plan[i].kind = "unpaid" => nonce[i] # NoNonce)
  BY DEF IntentInv, IntentOK, Answered
<1>2. form[current[i]] # NoMessage
  BY <1>1
<1>3. form[current[i]].intent = i /\ form[current[i]].draft = draft[i]
  BY <1>1
<1>4. MessageOK(current[i])
  BY <1>1 DEF MessageInv
<1>5. QED
  BY <1>1, <1>2, <1>3, <1>4 DEF MessageOK

LEMMA ResignCall ==
    ASSUME TypesInv, IntentInv, MessageInv, KeepsMessages, NEW i \in Intent, Resign(i)
    PROVE  IntentInv'
<1> USE DEF agent, wire, store
<1>1. /\ GoodDraft(i, draft[i]) /\ draft[i].identity = "caller"
      /\ plan[i].kind = "unpaid" => nonce[i] # NoNonce
  BY AnsweredDraft, SentinelAssumption DEF Resign, TypesInv
<1>2. draft[i] \in Draft /\ draft' = [draft EXCEPT ![i] = [draft[i] EXCEPT !.identity = "stored"]]
  BY DEF Resign, TypesInv
<1>3. draft'[i].linked = draft[i].linked /\ draft'[i].identity = "stored"
  BY <1>2 DEF TypesInv, Draft
<1>4. GoodDraft(i, draft'[i])
  BY <1>1, <1>3, Zenon DEF GoodDraft
<1>5. pc'[i] = "prepared" /\ nonce' = nonce
  BY DEF Resign, Goto, TypesInv
<1>6. IntentOK(i)'
  BY <1>1, <1>4, <1>5, OwnCall
<1>7. \A j \in Intent \ {i} : pc'[j] = pc[j] /\ draft'[j] = draft[j] /\ current'[j] = current[j]
  BY <1>2 DEF Resign, Goto, TypesInv
<1>8. QED
  BY <1>5, <1>6, <1>7, OneCall

LEMMA UnlinkCall ==
    ASSUME TypesInv, IntentInv, MessageInv, KeepsMessages, NEW i \in Intent, Unlink(i)
    PROVE  IntentInv'
<1> USE DEF agent, wire, store
<1>1. /\ GoodDraft(i, draft[i]) /\ draft[i].linked /\ plan[i].ref \notin LocalKey
      /\ plan[i].kind = "unpaid" => nonce[i] # NoNonce
  BY AnsweredDraft, SentinelAssumption DEF Unlink, TypesInv
<1>2. PICK v : v = FALSE
  OBVIOUS
<1>3. draft[i] \in Draft /\ draft' = [draft EXCEPT ![i] = [draft[i] EXCEPT !.linked = v]]
  BY <1>2, Zenon DEF Unlink, TypesInv
<1>4. draft'[i].linked = v
  BY <1>3 DEF TypesInv, Draft
<1>5. ~ draft'[i].linked
  BY <1>2, <1>4, Zenon
<1>6. GoodDraft(i, draft'[i])
  BY <1>1, <1>5, Zenon DEF GoodDraft
<1>7. pc'[i] = "prepared" /\ nonce' = nonce
  BY DEF Unlink, Goto, TypesInv
<1>8. IntentOK(i)'
  BY <1>1, <1>6, <1>7, OwnCall
<1>9. \A j \in Intent \ {i} : pc'[j] = pc[j] /\ draft'[j] = draft[j] /\ current'[j] = current[j]
  BY <1>3 DEF Unlink, Goto, TypesInv
<1>10. QED
  BY <1>7, <1>8, <1>9, OneCall

LEMMA CallsNext == TypesInv /\ IntentInv /\ MessageInv /\ [Next]_vars => IntentInv'
<1> SUFFICES ASSUME TypesInv, IntentInv, MessageInv, [Next]_vars PROVE IntentInv'
  OBVIOUS
<1> USE DEF agent, call, wire, store
<1>0. KeepsMessages
  BY KeepsNext
<1>1. ASSUME NEW i \in Intent, NEW step \in {"called", "resending"}, Goto(i, step),
             UNCHANGED <<nonce, draft, current>>, step = "resending" => pc[i] = "waiting"
      PROVE  IntentInv'
  <2>1. pc'[i] = step /\ \A j \in Intent \ {i} : pc'[j] = pc[j]
    BY <1>1 DEF Goto, TypesInv
  <2>2. IntentOK(i)
    BY DEF IntentInv
  <2>3. IntentOK(i)'
    BY <1>0, <1>1, <2>1, <2>2, OwnCall DEF IntentOK
  <2>4. QED
    BY <1>0, <1>1, <2>1, <2>3, OneCall
<1>2. ASSUME NEW i \in Intent, CallReviewService(i) \/ TransportFails(i) PROVE IntentInv'
  BY <1>0, <1>1, <1>2, ReturnCall DEF CallReviewService, TransportFails
<1>3. ASSUME NEW i \in Intent, Prepare(i) PROVE IntentInv'
  BY <1>0, <1>3, PrepareCall
<1>4. ASSUME NEW i \in Intent, RefuseWallet(i) \/ Deliver(i) PROVE IntentInv'
  BY <1>0, <1>4, ReturnCall DEF RefuseWallet, Deliver
<1>5. ASSUME NEW i \in Intent, Forward(i) PROVE IntentInv'
  BY <1>0, <1>5, ReturnCall, SendCall DEF Forward
<1>6. ASSUME NEW i \in Intent, Resend(i) PROVE IntentInv'
  BY <1>0, <1>6, SendCall DEF Resend
<1>7. ASSUME NEW i \in Intent, Resign(i) PROVE IntentInv'
  BY <1>0, <1>7, ResignCall
<1>8. ASSUME NEW i \in Intent, Unlink(i) PROVE IntentInv'
  BY <1>0, <1>8, UnlinkCall
<1>9. CASE \/ SetEnabled \/ DeleteMyReview \/ UNCHANGED vars
           \/ \E m \in Message : Verify(m) \/ Commit(m) \/ Reply(m) \/ Delete(m)
  <2>1. UNCHANGED <<nonce, pc, draft, current>>
    BY <1>9 DEF SetEnabled, DeleteMyReview, vars, Verify, Commit, Reply, Delete
  <2>2. QED
    BY <1>0, <2>1, QuietCalls
<1>10. QED
  BY <1>2, <1>3, <1>4, <1>5, <1>6, <1>7, <1>8, <1>9 DEF Next, ClientStep

(***************************************************************************)
(* The messages.                                                           *)
(***************************************************************************)

\* A message that a step does not send or verify.
LEMMA OtherMessages ==
    ASSUME TypesInv, MessageInv, KeepsMessages, NEW m \in Message,
           form'[m] = form[m], verdict'[m] = verdict[m],
           form[m] = NoMessage => request'[m] = request[m]
    PROVE  MessageOK(m)'
<1>1. MessageOK(m) /\ plan' = plan
  BY DEF MessageInv, KeepsMessages
<1>2. CASE form[m] = NoMessage
  BY <1>1, <1>2 DEF MessageOK
<1>3. CASE form[m] # NoMessage
  <2>1. request'[m] = request[m] /\ form[m].intent \in Intent
    BY <1>3 DEF KeepsMessages, TypesInv
  <2>2. plan[form[m].intent].kind = "unpaid" =>
          nonce[form[m].intent] # NoNonce /\ nonce'[form[m].intent] = nonce[form[m].intent]
    BY <1>1, <1>3, <2>1 DEF MessageOK, KeepsMessages
  <2>3. SubOf(form[m].intent, form[m].draft)' = SubOf(form[m].intent, form[m].draft)
    BY <1>1, <2>2 DEF SubOf
  <2>4. QED
    BY <1>1, <1>3, <2>1, <2>2, <2>3 DEF MessageOK, GoodDraft
<1>4. QED
  BY <1>2, <1>3

LEMMA QuietMessages ==
    ASSUME TypesInv, MessageInv, KeepsMessages, UNCHANGED <<form, verdict, request>>
    PROVE  MessageInv'
<1>1. \A m \in Message : MessageOK(m)'
  BY OtherMessages
<1>2. QED
  BY <1>1 DEF MessageInv

LEMMA SendMessage ==
    ASSUME TypesInv, IntentInv, MessageInv, KeepsMessages, NEW i \in Intent,
           NEW try, Send(i, try), pc[i] \in {"prepared", "resending"},
           UNCHANGED <<plan, nonce, draft, verdict>>
    PROVE  MessageInv'
<1>0. PICK m \in Message : m = NextMessage
  BY NextIsUnsent DEF Send
<1>1. verdict'[m] = "none"
  BY <1>0, NextIsUnsent DEF Send
<1>2. /\ form'[m] = [intent |-> i, draft |-> draft[i]]
      /\ request'[m] = [op |-> "submit", sub |-> Submitted(i)]
  BY <1>0 DEF Send, Store!Ask, TypesInv
<1>3. draft[i] \in Draft /\ GoodDraft(i, draft[i]) /\ (plan[i].kind = "unpaid" => nonce[i] # NoNonce)
  BY DEF IntentInv, IntentOK, TypesInv
<1>4. form'[m] # NoMessage /\ form'[m].intent = i /\ form'[m].draft = draft[i]
  BY <1>2, <1>3, SentinelAssumption
<1>5. PICK d \in Draft : d = draft[i]
  BY <1>3
<1>6. Submitted(i) = SubOf(i, d) /\ SubOf(i, d)' = SubOf(i, d)
  BY <1>5 DEF Submitted, SubOf
<1>7. GoodDraft(i, d)'
  BY <1>3, <1>5 DEF GoodDraft
<1>8. MessageOK(m)'
  <2>1. /\ request'[m] = [op |-> "submit", sub |-> SubOf(i, d)'] /\ form'[m].draft = d
        /\ (plan[i].kind = "unpaid" => nonce[i] # NoNonce)'
    BY <1>2, <1>3, <1>4, <1>5, <1>6
  <2>2. QED
    BY <1>1, <1>4, <1>7, <2>1 DEF MessageOK
<1>9. \A x \in Message \ {m} : MessageOK(x)'
  <2>1. \A x \in Message \ {m} : form'[x] = form[x] /\ request'[x] = request[x] /\ verdict'[x] = verdict[x]
    BY <1>0 DEF Send, Store!Ask, TypesInv
  <2>2. QED
    BY <2>1, OtherMessages
<1>10. QED
  BY <1>8, <1>9 DEF MessageInv

LEMMA VerifyMessage ==
    ASSUME TypesInv, MessageInv, KeepsMessages, NEW m \in Message, Verify(m)
    PROVE  MessageInv'
<1> DEFINE i == form[m].intent
           d == form[m].draft
<1>1. /\ UNCHANGED <<plan, nonce, form, request>> /\ request[m].op = "submit"
      /\ request[m] # NoRequest
      /\ verdict' = [verdict EXCEPT ![m] = Verdict(m)]
  BY DEF Verify, Store!Only, Store!Pending, agent, call, store
<1>2. MessageOK(m)
  BY DEF MessageInv
<1>3. form[m] # NoMessage
  BY <1>1, <1>2 DEF MessageOK
<1>4. /\ i \in Intent /\ d \in Draft /\ GoodDraft(i, d)
      /\ (plan[i].kind = "unpaid" => nonce[i] # NoNonce)
      /\ request[m] = [op |-> "submit", sub |-> SubOf(i, d)]
  BY <1>2, <1>3 DEF MessageOK, TypesInv
<1>5. d.linked => request[m].sub.ref = plan[i].ref
  BY <1>4 DEF GoodDraft, SubOf
<1>6. /\ Verdict(m) = "signature_mismatch" => d.identity = "caller"
      /\ Verdict(m) = "payer_signature_invalid" => d.linked /\ plan[i].ref \notin LocalKey
      /\ Verdict(m) = "passed" => d.identity # "unsigned" /\ (d.linked => plan[i].ref \in LocalKey)
  BY <1>5 DEF Verdict
<1>7. verdict'[m] = Verdict(m) /\ \A x \in Message \ {m} : verdict'[x] = verdict[x]
  BY <1>1 DEF TypesInv
<1>8. MessageOK(m)'
  <2>1. SubOf(i, d)' = SubOf(i, d)
    BY <1>1 DEF SubOf
  <2> HIDE DEF i, d
  <2>2. form'[m] # NoMessage /\ form'[m].intent = i /\ form'[m].draft = d
    BY <1>1, <1>3 DEF i, d
  <2>3. GoodDraft(i, d)'
    BY <1>1, <1>4 DEF GoodDraft, i, d
  <2>4. QED
    BY <1>1, <1>3, <1>4, <1>6, <1>7, <2>1, <2>3 DEF MessageOK, i, d
<1>9. \A x \in Message \ {m} : MessageOK(x)'
  BY <1>1, <1>7, OtherMessages
<1>10. QED
  BY <1>8, <1>9 DEF MessageInv

LEMMA MessagesNext == TypesInv /\ IntentInv /\ MessageInv /\ [Next]_vars => MessageInv'
<1> SUFFICES ASSUME TypesInv, IntentInv, MessageInv, [Next]_vars PROVE MessageInv'
  OBVIOUS
<1> USE DEF agent, call, wire, store
<1>0. KeepsMessages
  BY KeepsNext
<1>1. ASSUME NEW i \in Intent, Forward(i) PROVE MessageInv'
  <2>1. CASE Send(i, 1) /\ UNCHANGED <<told, draft, stage>>
    BY <1>0, <1>1, <2>1, SendMessage DEF Forward
  <2>2. CASE UNCHANGED <<form, store>>
    BY <1>0, <1>1, <2>2, QuietMessages DEF Forward
  <2>3. QED
    BY <1>1, <2>1, <2>2 DEF Forward
<1>2. ASSUME NEW i \in Intent, Resend(i) PROVE MessageInv'
  BY <1>0, <1>2, SendMessage DEF Resend
<1>3. ASSUME NEW m \in Message, Verify(m) PROVE MessageInv'
  BY <1>0, <1>3, VerifyMessage
<1>4. CASE DeleteMyReview
  <2>0. PICK m \in Message : m = NextMessage /\ form[m] = NoMessage /\ verdict[m] = "none"
    BY <1>4, NextIsUnsent DEF DeleteMyReview
  <2>1. \E req : request' = [request EXCEPT ![m] = req] /\ req.op = "delete"
    <3>1. PICK r \in reviews :
            request' = [request EXCEPT ![m] = [op |-> "delete", wallet |-> r.sub.wallet, id |-> r.id]]
      BY <1>4, <2>0 DEF DeleteMyReview, Store!Ask
    <3>2. PICK req : req = [op |-> "delete", wallet |-> r.sub.wallet, id |-> r.id]
      OBVIOUS
    <3>3. req.op = "delete" /\ request' = [request EXCEPT ![m] = req]
      BY <3>1, <3>2
    <3>4. QED
      BY <3>3
  <2>2. UNCHANGED <<form, verdict>>
    BY <1>4 DEF DeleteMyReview
  <2>3. request'[m].op = "delete" /\ \A x \in Message \ {m} : request'[x] = request[x]
    BY <2>1 DEF TypesInv
  <2>4. MessageOK(m)'
    BY <2>0, <2>2, <2>3 DEF MessageOK
  <2>5. \A x \in Message \ {m} : MessageOK(x)'
    BY <1>0, <2>2, <2>3, OtherMessages
  <2>6. QED
    BY <2>4, <2>5 DEF MessageInv
<1>5. CASE \/ SetEnabled \/ UNCHANGED vars
           \/ \E m \in Message : Commit(m) \/ Reply(m) \/ Delete(m)
           \/ \E i \in Intent : \/ CallReviewService(i) \/ Prepare(i) \/ RefuseWallet(i)
                                \/ TransportFails(i) \/ Resign(i) \/ Unlink(i) \/ Deliver(i)
  <2>1. UNCHANGED <<form, verdict, request>>
    BY <1>5 DEF SetEnabled, vars, Commit, Reply, Delete, CallReviewService, Prepare, RefuseWallet,
                TransportFails, Resign, Unlink, Deliver, Store!Store, Store!Replay,
                Store!RefuseDeleted, Store!RefuseNonce, Store!RefuseUsed, Store!Fail,
                Store!Only, Store!Delete
  <2>2. QED
    BY <1>0, <2>1, QuietMessages
<1>6. QED
  BY <1>1, <1>2, <1>3, <1>4, <1>5 DEF Next, ClientStep

(***************************************************************************)
(* The rows.                                                               *)
(***************************************************************************)

\* A message that passed has been sent, and stays passed.
LEMMA PassedKept ==
    ASSUME MessageInv, KeepsMessages, NEW m \in Message, verdict[m] = "passed"
    PROVE  Passed(m) /\ Passed(m)' /\ request'[m] = request[m]
<1>1. form[m] # NoMessage
  BY DEF MessageInv, MessageOK
<1>2. QED
  BY <1>1 DEF KeepsMessages, Passed

LEMMA OwnKeyIsIncoming == \A sub : RowKey(sub) \in IncomingKeys(sub)
  BY DEF RowKey, IncomingKeys

LEMMA QuietRows ==
    ASSUME MessageInv, RowInv, KeepsMessages, UNCHANGED <<reviews, deletedKeys>>
    PROVE  RowInv'
<1>1. \A m \in Message : Passed(m) => Passed(m)' /\ request'[m] = request[m]
  BY PassedKept DEF Passed
<1>2. QED
  BY <1>1 DEF RowInv

LEMMA CommitRow ==
    ASSUME TypesInv, MessageInv, RowInv, KeepsMessages, NEW m \in Message, Commit(m)
    PROVE  /\ RowInv'
           /\ \E id \in ReviewId :
                /\ reviews' = reviews \cup {[id |-> id, sub |-> request[m].sub]}
                /\ answer'[m] \in {Accepted(id), Outcome("lost")}
           /\ UNCHANGED <<request, form, deletedKeys>>
<1> DEFINE sub == request[m].sub
<1>1. /\ verdict[m] = "passed" /\ UNCHANGED <<request, form, deletedKeys>>
      /\ IncomingKeys(sub) \cap deletedKeys = {} /\ Clashing(reviews, sub) = {}
  BY StoreRecords DEF Commit, Store!Store
<1>2. PICK id \in ReviewId : /\ reviews' = reviews \cup {[id |-> id, sub |-> sub]}
                             /\ Store!Tell(m, Accepted(id))
  BY StoreRecords DEF Commit, Store!Store
<1>3. answer'[m] \in {Accepted(id), Outcome("lost")}
  BY <1>2, StoreRecords DEF Store!Tell, TypesInv
<1>4. \A x \in Message : Passed(x) => Passed(x)' /\ request'[x] = request[x]
  BY PassedKept DEF Passed
<1>5. Passed(m)'
  BY <1>1, PassedKept
<1>6. PICK new : new = [id |-> id, sub |-> sub]
  OBVIOUS
<1>7. new.sub = request'[m].sub /\ new.sub = sub
  BY <1>1, <1>6
<1>8. \A r \in reviews : RowKey(r.sub) # RowKey(sub)
  BY <1>1 DEF Clashing
<1>9. RowKey(sub) \notin deletedKeys
  BY <1>1, OwnKeyIsIncoming
<1>10. reviews' = reviews \cup {new}
  BY <1>2, <1>6
<1>11. \A r, q \in reviews' : RowKey(r.sub) = RowKey(q.sub) => r = q
  BY <1>7, <1>8, <1>10 DEF RowInv
<1>12. ASSUME NEW r \in reviews'
       PROVE  /\ RowKey(r.sub) \notin deletedKeys
              /\ \E x \in Message : Passed(x)' /\ r.sub = request'[x].sub
  <2>1. CASE r = new
    BY <1>5, <1>7, <1>9, <2>1
  <2>2. CASE r \in reviews
    BY <1>4, <2>2 DEF RowInv
  <2>3. QED
    BY <1>10, <2>1, <2>2
<1>13. \A k \in deletedKeys : \E x \in Message : Passed(x)' /\ k = RowKey(request'[x].sub)
  BY <1>4 DEF RowInv
<1>14. RowInv'
  BY <1>1, <1>11, <1>12, <1>13 DEF RowInv
<1>15. QED
  BY <1>1, <1>2, <1>3, <1>14

LEMMA DeleteRow ==
    ASSUME MessageInv, RowInv, KeepsMessages, NEW m \in Message, Delete(m)
    PROVE  /\ RowInv' /\ deletedKeys \subseteq deletedKeys'
           /\ \A r \in reviews \ reviews' : RowKey(r.sub) \in deletedKeys'
<1>1. PICK r \in reviews : reviews' = reviews \ {r} /\ deletedKeys' = deletedKeys \cup {RowKey(r.sub)}
  BY StoreRecords DEF Delete, Store!Delete
<1>2. \A x \in Message : Passed(x) => Passed(x)' /\ request'[x] = request[x]
  BY PassedKept DEF Passed
<1>3. \A q \in reviews' : RowKey(q.sub) \notin deletedKeys'
  BY <1>1 DEF RowInv
<1>4. \A k \in deletedKeys' : \E x \in Message : Passed(x)' /\ k = RowKey(request'[x].sub)
  BY <1>1, <1>2 DEF RowInv
<1>5. RowInv'
  BY <1>1, <1>2, <1>3, <1>4 DEF RowInv
<1>6. QED
  BY <1>1, <1>5

\* Rows leave their key behind when they are deleted.
KeepsRows ==
    /\ deletedKeys \subseteq deletedKeys'
    /\ \A r \in reviews \ reviews' : RowKey(r.sub) \in deletedKeys'

LEMMA RowsNext == TypesInv /\ MessageInv /\ RowInv /\ [Next]_vars => RowInv' /\ KeepsRows
<1> SUFFICES ASSUME TypesInv, MessageInv, RowInv, [Next]_vars PROVE RowInv' /\ KeepsRows
  OBVIOUS
<1> USE DEF agent, call, wire, store
<1>0. KeepsMessages
  BY KeepsNext
<1>1. ASSUME NEW m \in Message, Commit(m) PROVE RowInv' /\ KeepsRows
  BY <1>0, <1>1, CommitRow DEF KeepsRows
<1>2. ASSUME NEW m \in Message, Delete(m) PROVE RowInv' /\ KeepsRows
  BY <1>0, <1>2, DeleteRow DEF KeepsRows
<1>3. CASE UNCHANGED <<reviews, deletedKeys>>
  BY <1>0, <1>3, QuietRows DEF KeepsRows
<1>4. ASSUME NEW i \in Intent, CallReviewService(i) \/ ClientStep(i)
      PROVE  UNCHANGED <<reviews, deletedKeys>>
  BY <1>4 DEF ClientStep, CallReviewService, Prepare, RefuseWallet, Forward, Resend, Send,
              TransportFails, Resign, Unlink, Deliver, Store!Ask
<1>5. ASSUME NEW m \in Message, Verify(m) \/ Reply(m)
      PROVE  UNCHANGED <<reviews, deletedKeys>>
  BY <1>5 DEF Verify, Reply, Store!Replay, Store!RefuseDeleted, Store!RefuseNonce,
              Store!RefuseUsed, Store!Fail, Store!Only
<1>6. CASE SetEnabled \/ DeleteMyReview \/ UNCHANGED vars
  BY <1>3, <1>6 DEF SetEnabled, DeleteMyReview, vars, Store!Ask
<1>7. QED
  BY <1>1, <1>2, <1>3, <1>4, <1>5, <1>6 DEF Next

(***************************************************************************)
(* The answers.                                                            *)
(***************************************************************************)

\* A sent message asks for what its intent and its draft say.
LEMMA SentSub ==
    ASSUME TypesInv, MessageInv, NEW m \in Message, form[m] # NoMessage
    PROVE  /\ form[m].intent \in Intent /\ form[m].draft \in Draft
           /\ request[m].op = "submit" /\ request[m].sub = SubOf(form[m].intent, form[m].draft)
           /\ request[m] # NoRequest
           /\ plan[form[m].intent].kind \in {"unpaid", "evm", "solana"}
           /\ plan[form[m].intent].kind = "unpaid" => nonce[form[m].intent] # NoNonce
<1>1. form[m].intent \in Intent /\ form[m].draft \in Draft
  BY DEF TypesInv
<1>2. /\ request[m] = [op |-> "submit", sub |-> SubOf(form[m].intent, form[m].draft)]
      /\ plan[form[m].intent].kind = "unpaid" => nonce[form[m].intent] # NoNonce
  BY DEF MessageInv, MessageOK
<1>3. QED
  BY <1>1, <1>2, SubmissionType

\* The key of a row tells an unpaid review from the others.
LEMMA KindOfKey ==
    ASSUME NEW i \in Intent, NEW d, plan[i].kind \in {"unpaid", "evm", "solana"}
    PROVE  /\ plan[i].kind = "unpaid" =>
                RowKey(SubOf(i, d)) = UnpaidKey(plan[i].wallet, nonce[i])
           /\ plan[i].kind = "solana" /\ ~ d.linked =>
                RowKey(SubOf(i, d)) = UnlinkedKey(plan[i].wallet, plan[i].ref)
           /\ plan[i].kind = "evm" \/ (plan[i].kind = "solana" /\ d.linked) =>
                RowKey(SubOf(i, d)) = PaymentKey(plan[i].ref)
  BY DEF SubOf, RowKey

LEMMA KeysDiffer ==
    /\ \A w, x, p, q : /\ UnpaidKey(w, p) # UnlinkedKey(x, q) /\ UnpaidKey(w, p) # PaymentKey(q)
                       /\ UnlinkedKey(w, p) # PaymentKey(q)
                       /\ UnpaidKey(w, p) = UnpaidKey(x, q) => p = q
                       /\ UnlinkedKey(w, p) = UnlinkedKey(x, q) => p = q
    /\ \A p, q : PaymentKey(p) = PaymentKey(q) => p = q
  BY DEF UnpaidKey, UnlinkedKey, PaymentKey

\* Nobody else's message has the key of an unpaid review.
LEMMA UnpaidKeyIsOwn ==
    ASSUME TypesInv, IntentInv, MessageInv, NEW m \in Message, NEW x \in Message,
           form[m] # NoMessage, form[x] # NoMessage, plan[form[m].intent].kind = "unpaid",
           RowKey(request[x].sub) = RowKey(request[m].sub)
    PROVE  request[x].sub = request[m].sub
<1>1. PICK i \in Intent, d \in Draft : i = form[m].intent /\ d = form[m].draft
  BY SentSub
<1>2. PICK j \in Intent, e \in Draft : j = form[x].intent /\ e = form[x].draft
  BY SentSub
<1>3. /\ request[m].sub = SubOf(i, d) /\ request[x].sub = SubOf(j, e)
      /\ plan[j].kind \in {"unpaid", "evm", "solana"} /\ nonce[i] # NoNonce
  BY <1>1, <1>2, SentSub
<1>4. RowKey(SubOf(i, d)) = UnpaidKey(plan[i].wallet, nonce[i])
  BY <1>1, KindOfKey
<1>5. plan[j].kind = "unpaid"
  BY <1>3, <1>4, KindOfKey, KeysDiffer
<1>6. nonce[j] = nonce[i]
  BY <1>3, <1>4, <1>5, KindOfKey, KeysDiffer
<1>7. j = i
  BY <1>3, <1>6 DEF IntentInv
<1>8. SubOf(i, d) = SubOf(j, e)
  BY <1>1, <1>5, <1>7 DEF SubOf
<1>9. QED
  BY <1>3, <1>8

\* An explanation lasts.
LEMMA ExplainedKept ==
    ASSUME KeepsMessages, KeepsRows, NEW i \in Intent, NEW a, Explained(i, a)
    PROVE  Explained(i, a)'
<1> SUFFICES ASSUME a \in Telling
             PROVE  \E m \in SentFor(i)' :
                      \/ RowKey(request'[m].sub) \in deletedKeys'
                      \/ \E r \in reviews' : r.sub = request'[m].sub /\ a = Accepted(r.id)
  BY DEF Explained
<1>1. PICK m \in SentFor(i) :
        \/ RowKey(request[m].sub) \in deletedKeys
        \/ \E r \in reviews : r.sub = request[m].sub /\ a = Accepted(r.id)
  BY DEF Explained
<1>2. m \in SentFor(i)' /\ request'[m] = request[m]
  BY DEF SentFor, KeepsMessages
<1>3. QED
  BY <1>1, <1>2 DEF KeepsRows

\* The store answers a message for an unpaid review.
LEMMA ReplyExplained ==
    ASSUME TypesInv, IntentInv, MessageInv, RowInv, NEW m \in Message, form[m] # NoMessage,
           plan[form[m].intent].kind = "unpaid", Reply(m)
    PROVE  Explained(form[m].intent, answer'[m])
<1>1. PICK i \in Intent, d \in Draft : i = form[m].intent /\ d = form[m].draft
  BY SentSub
<1>2. request[m].sub = SubOf(i, d) /\ m \in SentFor(i)
  BY <1>1, SentSub DEF SentFor
<1>3. request[m].sub.kind = "unpaid"
  BY <1>1, <1>2 DEF SubOf
<1>4. /\ IncomingKeys(request[m].sub) = {RowKey(request[m].sub)}
      /\ BlockingKeys(request[m].sub) = {}
  BY <1>3 DEF IncomingKeys, RowKey, BlockingKeys
<1>5. \A r \in reviews : RowKey(r.sub) = RowKey(request[m].sub) => r.sub = request[m].sub
  <2>1. ASSUME NEW r \in reviews, RowKey(r.sub) = RowKey(request[m].sub)
        PROVE  r.sub = request[m].sub
    <3>1. PICK x \in Message : Passed(x) /\ r.sub = request[x].sub
      BY DEF RowInv
    <3>2. QED
      BY <2>1, <3>1, UnpaidKeyIsOwn DEF Passed
  <2>2. QED
    BY <2>1
<1>6. ASSUME NEW a, Store!Only(m, a) PROVE answer'[m] = a
  BY <1>6 DEF Store!Only, TypesInv
<1>7. CASE Store!Replay(m)
  <2>1. PICK r \in reviews : IsReplayOf(request[m].sub, r) /\ Store!Only(m, Accepted(r.id))
    BY <1>7, StoreRecords DEF Store!Replay
  <2>2. r.sub = request[m].sub
    BY <1>5, <2>1 DEF IsReplayOf
  <2>3. QED
    BY <1>1, <1>2, <1>6, <2>1, <2>2 DEF Explained
<1>8. CASE Store!RefuseDeleted(m)
  <2>1. RowKey(request[m].sub) \in deletedKeys
    BY <1>4, <1>8, StoreRecords DEF Store!RefuseDeleted
  <2>2. QED
    BY <1>1, <1>2, <2>1 DEF Explained
<1>9. CASE Store!RefuseNonce(m)
  <2>1. PICK r \in SameKey(reviews, request[m].sub) : ~ IsReplayOf(request[m].sub, r)
    BY <1>9, StoreRecords DEF Store!RefuseNonce
  <2>2. r.sub = request[m].sub
    BY <1>5, <2>1 DEF SameKey
  <2>3. QED
    BY <2>1, <2>2 DEF IsReplayOf
<1>10. CASE Store!RefuseUsed(m)
  <2>1. Blocking(reviews, request[m].sub) = {}
    BY <1>4 DEF Blocking
  <2>2. \A r \in reviews : ~ SameReceipt(r.sub, request[m].sub)
    BY <1>2 DEF SubOf, SameReceipt
  <2>3. RowKey(request[m].sub) \in deletedKeys
    BY <1>10, <2>1, <2>2, StoreRecords DEF Store!RefuseUsed
  <2>4. QED
    BY <1>1, <1>2, <2>3 DEF Explained
<1>11. CASE Store!Fail(m)
  <2>1. PICK o \in {"rejected", "unavailable", "lost"} : answer'[m] = Outcome(o)
    BY <1>6, <1>11, StoreRecords DEF Store!Fail
  <2>2. QED
    BY <2>1, AnswersDiffer DEF Explained
<1>12. QED
  BY <1>7, <1>8, <1>9, <1>10, <1>11 DEF Reply

\* No message is answered, and calls are told nothing but answers to their own.
LEMMA AnswersKept ==
    ASSUME AnswerInv, KeepsMessages, KeepsRows, answer' = answer,
           \A m \in Message : request'[m] = NoRequest => request[m] = NoRequest,
           \A m \in Message : form'[m] # form[m] => request[m] = NoRequest,
           \A i \in Intent : plan[i].kind = "unpaid" =>
             \/ told'[i] = told[i] \/ told'[i] \notin Telling
             \/ \E m \in SentFor(i) : told'[i] = answer[m]
    PROVE  AnswerInv'
<1>1. \A m \in Message : request'[m] = NoRequest => answer'[m] = NoAnswer
  BY DEF AnswerInv
<1>2. ASSUME NEW i \in Intent, plan[i].kind = "unpaid"
      PROVE  Explained(i, told[i])' /\ \A m \in SentFor(i)' : Explained(i, answer[m])'
  <2>1. PICK a : a = told'[i]
    OBVIOUS
  <2>2. Explained(i, a)
    BY <1>2, <2>1 DEF AnswerInv, Explained
  <2>3. Explained(i, a)'
    BY <2>2, ExplainedKept
  <2>4. Explained(i, told[i])'
    BY <2>1, <2>3 DEF Explained
  <2>5. ASSUME NEW m \in SentFor(i)' PROVE Explained(i, answer[m])'
    <3>0. m \in Message /\ form'[m] # NoMessage /\ form'[m].intent = i
      BY <2>5 DEF SentFor
    <3>1. PICK b : b = answer'[m]
      OBVIOUS
    <3>2. CASE request[m] = NoRequest
      <4>1. b = NoAnswer
        BY <3>0, <3>1, <3>2 DEF AnswerInv
      <4>2. QED
        BY <3>1, <4>1, AnswersDiffer DEF Explained
    <3>3. CASE request[m] # NoRequest
      <4>1. m \in SentFor(i)
        BY <3>0, <3>3 DEF SentFor
      <4>2. Explained(i, b)
        BY <1>2, <3>1, <4>1 DEF AnswerInv
      <4>3. Explained(i, b)'
        BY <4>2, ExplainedKept
      <4>4. QED
        BY <3>1, <4>3 DEF Explained
    <3>4. QED
      BY <3>2, <3>3
  <2>6. QED
    BY <2>4, <2>5
<1>3. plan' = plan
  BY DEF KeepsMessages
<1>4. QED
  BY <1>1, <1>2, <1>3 DEF AnswerInv

\* One message is answered.
LEMMA AnswersOne ==
    ASSUME AnswerInv, KeepsMessages, KeepsRows, UNCHANGED <<request, form, told>>,
           NEW m \in Message, request[m] # NoRequest,
           \A x \in Message \ {m} : answer'[x] = answer[x],
           NEW a, a = answer'[m],
           \A i \in Intent : form[m] # NoMessage /\ form[m].intent = i /\ plan[i].kind = "unpaid" =>
             Explained(i, a)'
    PROVE  AnswerInv'
<1>1. \A x \in Message : request'[x] = NoRequest => answer'[x] = NoAnswer
  BY DEF AnswerInv
<1>2. ASSUME NEW i \in Intent, plan[i].kind = "unpaid"
      PROVE  Explained(i, told[i])' /\ \A x \in SentFor(i)' : Explained(i, answer[x])'
  <2>1. PICK t : t = told[i]
    OBVIOUS
  <2>2. Explained(i, t)'
    BY <1>2, <2>1, ExplainedKept DEF AnswerInv
  <2>3. Explained(i, told[i])'
    BY <2>1, <2>2 DEF Explained
  <2>4. ASSUME NEW x \in SentFor(i)' PROVE Explained(i, answer[x])'
    <3>0. x \in SentFor(i) /\ x \in Message
      BY <2>4 DEF SentFor
    <3>1. PICK b : b = answer'[x]
      OBVIOUS
    <3>2. CASE x = m
      <4>1. Explained(i, a)'
        BY <1>2, <3>0, <3>2 DEF SentFor
      <4>2. QED
        BY <3>2, <4>1 DEF Explained
    <3>3. CASE x # m
      <4>1. Explained(i, b)'
        BY <1>2, <3>0, <3>1, <3>3, ExplainedKept DEF AnswerInv
      <4>2. QED
        BY <3>1, <4>1 DEF Explained
    <3>4. QED
      BY <3>2, <3>3
  <2>5. QED
    BY <2>3, <2>4
<1>3. plan' = plan
  BY DEF KeepsMessages
<1>4. QED
  BY <1>1, <1>2, <1>3 DEF AnswerInv

LEMMA AnswersNext ==
    TypesInv /\ IntentInv /\ MessageInv /\ RowInv /\ AnswerInv /\ [Next]_vars => AnswerInv'
<1> SUFFICES ASSUME TypesInv, IntentInv, MessageInv, RowInv, AnswerInv, [Next]_vars PROVE AnswerInv'
  OBVIOUS
<1> USE DEF agent, call, wire, store
<1>0. KeepsMessages /\ KeepsRows
  BY KeepsNext, RowsNext
<1>1. ASSUME NEW i \in Intent, NEW a, a \notin Telling, Return(i, a),
             UNCHANGED <<form, request, answer>>
      PROVE  AnswerInv'
  <2>1. told'[i] = a /\ \A j \in Intent \ {i} : told'[j] = told[j]
    BY <1>1 DEF Return, TypesInv
  <2>2. QED
    BY <1>0, <1>1, <2>1, AnswersKept
<1>2. ASSUME UNCHANGED <<form, request, answer, told>> PROVE AnswerInv'
  BY <1>0, <1>2, AnswersKept
<1>3. ASSUME NEW i \in Intent, NEW try, Send(i, try), told' = told PROVE AnswerInv'
  <2>0. PICK m \in Message : m = NextMessage /\ request[m] = NoRequest
    BY <1>3, NextIsUnsent DEF Send
  <2>1. answer' = answer /\ \A x \in Message \ {m} : form'[x] = form[x] /\ request'[x] = request[x]
    BY <1>3, <2>0 DEF Send, Store!Ask, TypesInv
  <2>2. QED
    BY <1>0, <1>3, <2>0, <2>1, AnswersKept
<1>4. ASSUME NEW i \in Intent, CallReviewService(i) \/ RefuseWallet(i) \/ TransportFails(i)
      PROVE  AnswerInv'
  BY <1>1, <1>2, <1>4, AnswersDiffer DEF CallReviewService, RefuseWallet, TransportFails
<1>5. ASSUME NEW i \in Intent, Prepare(i) \/ Resign(i) \/ Unlink(i) PROVE AnswerInv'
  BY <1>2, <1>5 DEF Prepare, Resign, Unlink
<1>6. ASSUME NEW i \in Intent, Forward(i) \/ Resend(i) PROVE AnswerInv'
  BY <1>1, <1>3, <1>6, AnswersDiffer DEF Forward, Resend
<1>7. ASSUME NEW i \in Intent, Deliver(i) PROVE AnswerInv'
  <2>1. current[i] \in SentFor(i)
    BY <1>7, AnsweredDraft, SentinelAssumption DEF Deliver, TypesInv, SentFor
  <2>2. told'[i] = answer[current[i]] /\ \A j \in Intent \ {i} : told'[j] = told[j]
    BY <1>7 DEF Deliver, Return, TypesInv
  <2>3. QED
    BY <1>0, <1>7, <2>1, <2>2, AnswersKept DEF Deliver
<1>8. ASSUME NEW m \in Message, Verify(m) PROVE AnswerInv'
  <2>1. CASE UNCHANGED store
    BY <1>2, <1>8, <2>1 DEF Verify
  <2>2. CASE Store!Only(m, Outcome("rejected"))
    <3>1. PICK a : a = Outcome("rejected")
      OBVIOUS
    <3>2. answer'[m] = a /\ \A x \in Message \ {m} : answer'[x] = answer[x]
      BY <2>2, <3>1, StoreRecords DEF Store!Only, TypesInv
    <3>3. a \notin Telling
      BY <3>1, AnswersDiffer
    <3>4. request[m] # NoRequest /\ UNCHANGED <<request, form, told>>
      BY <1>8, <2>2 DEF Verify, Store!Pending, Store!Only
    <3>5. \A i \in Intent : Explained(i, a)'
      BY <3>3 DEF Explained
    <3>6. QED
      BY <1>0, <3>2, <3>4, <3>5, AnswersOne
  <2>3. QED
    BY <1>8, <2>1, <2>2, StoreRecords DEF Verify
<1>9. ASSUME NEW m \in Message, Commit(m) PROVE AnswerInv'
  <2>1. PICK id \in ReviewId :
          /\ reviews' = reviews \cup {[id |-> id, sub |-> request[m].sub]}
          /\ answer'[m] \in {Accepted(id), Outcome("lost")}
    BY <1>0, <1>9, CommitRow
  <2>2. PICK a : a = answer'[m]
    OBVIOUS
  <2>3. /\ \A x \in Message \ {m} : answer'[x] = answer[x]
        /\ request[m] # NoRequest /\ UNCHANGED <<request, form, told>>
    BY <1>9 DEF Commit, Store!Store, Store!Tell, Store!Pending, TypesInv
  <2>4. ASSUME NEW i \in Intent, form[m] # NoMessage, form[m].intent = i PROVE Explained(i, a)'
    <3>1. CASE a = Outcome("lost")
      BY <3>1, AnswersDiffer DEF Explained
    <3>2. CASE a = Accepted(id)
      <4>1. m \in SentFor(i)'
        BY <2>3, <2>4 DEF SentFor
      <4>2. PICK r : r = [id |-> id, sub |-> request[m].sub]
        OBVIOUS
      <4>3. r \in reviews' /\ r.sub = request'[m].sub /\ a = Accepted(r.id)
        BY <2>1, <2>3, <3>2, <4>2
      <4>4. QED
        BY <4>1, <4>3 DEF Explained
    <3>3. QED
      BY <2>1, <2>2, <3>1, <3>2
  <2>5. QED
    BY <1>0, <2>2, <2>3, <2>4, AnswersOne
<1>10. ASSUME NEW m \in Message, Reply(m) PROVE AnswerInv'
  <2>1. PICK a : a = answer'[m]
    OBVIOUS
  <2>2. /\ \A x \in Message \ {m} : answer'[x] = answer[x]
        /\ request[m] # NoRequest /\ UNCHANGED <<request, form, told>>
    BY <1>10 DEF Reply, Store!Replay, Store!RefuseDeleted, Store!RefuseNonce, Store!RefuseUsed,
                 Store!Fail, Store!Only, Store!Pending, TypesInv
  <2>3. ASSUME NEW i \in Intent, form[m] # NoMessage, form[m].intent = i, plan[i].kind = "unpaid"
        PROVE  Explained(i, a)'
    <3>1. Explained(i, a)
      BY <1>10, <2>1, <2>3, ReplyExplained
    <3>2. QED
      BY <1>0, <3>1, ExplainedKept
  <2>4. QED
    BY <1>0, <2>1, <2>2, <2>3, AnswersOne
<1>11. ASSUME NEW m \in Message, Delete(m) PROVE AnswerInv'
  <2>1. PICK a : a = answer'[m]
    OBVIOUS
  <2>2. /\ \A x \in Message \ {m} : answer'[x] = answer[x]
        /\ request[m] # NoRequest /\ request[m].op = "delete" /\ UNCHANGED <<request, form, told>>
    BY <1>11 DEF Delete, Store!Delete, Store!Tell, Store!Pending, TypesInv
  <2>3. form[m] = NoMessage
    BY <2>2, SentSub
  <2>4. QED
    BY <1>0, <2>1, <2>2, <2>3, AnswersOne
<1>12. CASE DeleteMyReview
  <2>0. PICK m \in Message : m = NextMessage /\ request[m] = NoRequest
    BY <1>12, NextIsUnsent DEF DeleteMyReview
  <2>1. UNCHANGED <<answer, form, told>> /\ \A x \in Message \ {m} : request'[x] = request[x]
    BY <1>12, <2>0 DEF DeleteMyReview, Store!Ask, TypesInv
  <2>2. QED
    BY <1>0, <2>0, <2>1, AnswersKept
<1>13. CASE SetEnabled \/ UNCHANGED vars
  BY <1>2, <1>13 DEF SetEnabled, vars
<1>14. QED
  BY <1>4, <1>5, <1>6, <1>7, <1>8, <1>9, <1>10, <1>11, <1>12, <1>13 DEF Next, ClientStep

(***************************************************************************)
(* The invariant.                                                          *)
(***************************************************************************)
LEMMA ClientInit == Init => ClientInv
<1> SUFFICES ASSUME Init PROVE ClientInv
  OBVIOUS
<1>1. /\ request = [m \in Message |-> NoRequest] /\ answer = [m \in Message |-> NoAnswer]
      /\ reviews = {} /\ deletedKeys = {}
  BY DEF Init, Store!Init
<1>2. TypesInv
  <2>1. NoDraft \in Draft /\ "idle" \in Steps
    BY DEF NoDraft, Draft, Steps
  <2>2. QED
    BY <1>1, <2>1 DEF Init, TypesInv
<1>3. IntentInv
  <2>1. \A i \in Intent : nonce[i] = NoNonce /\ pc[i] = "idle" /\ draft[i] = NoDraft
    BY DEF Init
  <2>2. \A i \in Intent : GoodDraft(i, NoDraft)
    BY DEF GoodDraft, NoDraft
  <2>3. QED
    BY <2>1, <2>2 DEF IntentInv, IntentOK
<1>4. MessageInv
  BY <1>1 DEF Init, MessageInv, MessageOK
<1>5. RowInv
  BY <1>1 DEF RowInv
<1>6. AnswerInv
  <2>1. \A m \in Message : form[m] = NoMessage /\ answer[m] = NoAnswer
    BY <1>1 DEF Init
  <2>2. \A i \in Intent : told[i] = NoAnswer
    BY DEF Init
  <2>3. \A i \in Intent : Explained(i, told[i]) /\ SentFor(i) = {}
    BY <2>1, <2>2, AnswersDiffer DEF Explained, SentFor
  <2>4. QED
    BY <2>1, <2>3 DEF AnswerInv
<1>7. QED
  BY <1>2, <1>3, <1>4, <1>5, <1>6 DEF ClientInv

\* The calls, messages, rows and answers of the client hang together as the
\* sections above say (ClientInv), at every time.
THEOREM ClientInvariance == Spec => []ClientInv
<1>1. ClientInv /\ [Next]_vars => ClientInv'
  BY TypesNext, CallsNext, MessagesNext, RowsNext, AnswersNext DEF ClientInv
<1>2. QED
  BY <1>1, ClientInit, PTL DEF Spec

(***************************************************************************)
(* One review per intent.                                                  *)
(***************************************************************************)

\* The one key under which a review of i may be stored.
KeyOf(i) ==
    CASE plan[i].kind = "unpaid" -> UnpaidKey(plan[i].wallet, nonce[i])
      [] plan[i].kind = "solana" /\ plan[i].ref \notin SignsLink \cap LocalKey ->
           UnlinkedKey(plan[i].wallet, plan[i].ref)
      [] OTHER -> PaymentKey(plan[i].ref)

\* A message that passed, and that has the key of a message for i, has this key.
LEMMA OneKey ==
    ASSUME TypesInv, IntentInv, MessageInv, NEW i \in Intent, NEW m \in SentFor(i),
           NEW x \in Message, Passed(x), RowKey(request[x].sub) = RowKey(request[m].sub)
    PROVE  RowKey(request[m].sub) = KeyOf(i)
<1>1. PICK d \in Draft : d = form[m].draft /\ m \in Message /\ form[m] # NoMessage /\ form[m].intent = i
  BY SentSub DEF SentFor
<1>2. request[m].sub = SubOf(i, d) /\ plan[i].kind \in {"unpaid", "evm", "solana"}
  BY <1>1, SentSub
<1>3. PICK j \in Intent, e \in Draft : j = form[x].intent /\ e = form[x].draft
  BY SentSub DEF Passed
<1>4. request[x].sub = SubOf(j, e) /\ plan[j].kind \in {"unpaid", "evm", "solana"}
  BY <1>3, SentSub DEF Passed
<1>5. CASE plan[i].kind # "solana"
  BY <1>2, <1>5, KindOfKey DEF KeyOf
<1>6. CASE plan[i].kind = "solana"
  <2>1. /\ GoodDraft(j, e) /\ e.identity # "unsigned"
        /\ e.linked => plan[j].ref \in LocalKey
    BY <1>3 DEF MessageInv, MessageOK, Passed
  <2>2. CASE d.linked
    <3>1. RowKey(SubOf(i, d)) = PaymentKey(plan[i].ref)
      BY <1>6, <2>2, KindOfKey
    <3>2. \/ plan[j].kind = "evm" \/ (plan[j].kind = "solana" /\ e.linked)
      BY <1>2, <1>4, <3>1, KindOfKey, KeysDiffer
    <3>3. plan[j].ref = plan[i].ref
      BY <1>2, <1>4, <3>1, <3>2, KindOfKey, KeysDiffer
    <3>4. plan[j].kind = "solana" /\ e.linked
      BY <1>6, <3>2, <3>3, PlanAssumption DEF TypesInv
    <3>5. plan[i].ref \in SignsLink \cap LocalKey
      BY <2>1, <3>3, <3>4 DEF GoodDraft
    <3>6. QED
      BY <1>2, <1>6, <3>1, <3>5 DEF KeyOf
  <2>3. CASE ~ d.linked
    <3>1. RowKey(SubOf(i, d)) = UnlinkedKey(plan[i].wallet, plan[i].ref)
      BY <1>6, <2>3, KindOfKey
    <3>2. plan[j].kind = "solana" /\ ~ e.linked
      BY <1>2, <1>4, <3>1, KindOfKey, KeysDiffer
    <3>3. plan[j].ref = plan[i].ref
      BY <1>2, <1>4, <3>1, <3>2, KindOfKey, KeysDiffer
    <3>4. plan[i].ref \notin SignsLink \cap LocalKey
      BY <2>1, <3>2, <3>3 DEF GoodDraft
    <3>5. QED
      BY <1>2, <1>6, <3>1, <3>4 DEF KeyOf
  <2>4. QED
    BY <2>2, <2>3
<1>7. QED
  BY <1>5, <1>6

\* A set with at most one element.
LEMMA AtMostOne ==
    ASSUME NEW S, \A x, y \in S : x = y
    PROVE  /\ S = {} => Cardinality(S) = 0
           /\ S # {} => Cardinality(S) = 1
<1>1. S = {} => Cardinality(S) = 0
  BY FS_EmptySet
<1>2. S # {} => \E x : S = {x}
  OBVIOUS
<1>3. QED
  BY <1>1, <1>2, FS_Singleton

\* OneReviewPerIntent, for every plan, number of messages and deletions: the
\* reviews stored and deleted for one intent share one key, rows have keys of
\* their own, and the key of a row is not deleted.
THEOREM OneReviewPerIntentAlways == Spec => []OneReviewPerIntent
<1>1. ClientInv => OneReviewPerIntent
  <2> SUFFICES ASSUME ClientInv, NEW i \in Intent
               PROVE  Cardinality(Stored(i)) + Cardinality(Deleted(i)) =< 1
    BY DEF OneReviewPerIntent
  <2> USE DEF ClientInv
  <2>1. ASSUME NEW r \in Stored(i) PROVE r \in reviews /\ RowKey(r.sub) = KeyOf(i)
    <3>1. PICK m \in SentFor(i) : r.sub = request[m].sub
      BY DEF Stored
    <3>2. PICK x \in Message : Passed(x) /\ r.sub = request[x].sub
      BY DEF Stored, RowInv
    <3>3. QED
      BY <3>1, <3>2, OneKey DEF Stored
  <2>2. ASSUME NEW k \in Deleted(i) PROVE k \in deletedKeys /\ k = KeyOf(i)
    <3>1. PICK m \in SentFor(i) : k = RowKey(request[m].sub)
      BY DEF Deleted
    <3>2. PICK x \in Message : Passed(x) /\ k = RowKey(request[x].sub)
      BY DEF Deleted, RowInv
    <3>3. QED
      BY <3>1, <3>2, OneKey DEF Deleted
  <2>3. \A r, q \in Stored(i) : r = q
    BY <2>1 DEF RowInv
  <2>4. \A k, l \in Deleted(i) : k = l
    BY <2>2
  <2>5. Stored(i) = {} \/ Deleted(i) = {}
    BY <2>1, <2>2 DEF RowInv
  <2>6. QED
    BY <2>3, <2>4, <2>5, AtMostOne
<1>2. QED
  BY <1>1, ClientInvariance, PTL

\* UnpaidRetryIsSafe, for every plan: whatever a call for an unpaid review is
\* told is explained by the row stored for it, unless it was deleted.
THEOREM UnpaidRetryIsSafeAlways == Spec => []UnpaidRetryIsSafe
<1>1. ClientInv => UnpaidRetryIsSafe
  <2> SUFFICES ASSUME ClientInv, NEW i \in Intent, plan[i].kind = "unpaid", Deleted(i) = {},
                      told[i] \in Telling
               PROVE  \E r \in Stored(i) : told[i] = Accepted(r.id)
    BY AnswersDiffer DEF UnpaidRetryIsSafe, Telling
  <2>1. Explained(i, told[i])
    BY DEF ClientInv, AnswerInv
  <2>2. PICK m \in SentFor(i) :
          \/ RowKey(request[m].sub) \in deletedKeys
          \/ \E r \in reviews : r.sub = request[m].sub /\ told[i] = Accepted(r.id)
    BY <2>1 DEF Explained
  <2>3. RowKey(request[m].sub) \notin deletedKeys
    BY DEF Deleted
  <2>4. QED
    BY <2>2, <2>3 DEF Stored
<1>2. QED
  BY <1>1, ClientInvariance, PTL
=============================================================================
