------------------------ MODULE ServiceIdentityProofs ------------------------
(* Theorems about ServiceIdentity, for every set of endpoints, payees, calls  *)
(* and questions.                                                             *)
EXTENDS ServiceIdentity, TLAPS

(***************************************************************************)
(* Resolution.                                                             *)
(***************************************************************************)

\* An identity that resolves to a service names no endpoint but the service's.
LEMMA ResolvedEndpoint ==
    ASSUME IdentityInv, NEW i \in Identity, NEW s \in Registered, Authorized(s, i)
    PROVE  i.endpoint # NoEndpoint => i.endpoint = s.endpoint
<1>1. SUFFICES ASSUME i.endpoint # NoEndpoint PROVE i.endpoint = s.endpoint
  OBVIOUS
<1>2. i.endpoint \in Endpoint /\ s \in ServiceId
  BY <1>1 DEF Identity, Registered
<1>3. services[s].endpoint = i.endpoint \/ owner[i.endpoint] = s
  BY <1>1 DEF Authorized
<1>4. QED
  BY <1>2, <1>3, IdentityAssumption DEF IdentityInv, RowsInv, Registered

\* What a review goes on with is an identity of the endpoint of its service.
LEMMA ResolvedType ==
    ASSUME IdentityInv, NEW i \in Identity, NEW s \in Registered, Authorized(s, i)
    PROVE  Resolved(i, s) \in Identity /\ Resolved(i, s).endpoint = s.endpoint
<1>1. s \in ServiceId /\ services[s] \in Row /\ services[s].endpoint = s.endpoint
  BY DEF IdentityInv, RowsInv, TypeOK, Registered
<1>2. i.endpoint # NoEndpoint => i.endpoint = s.endpoint
  BY ResolvedEndpoint
<1>3. QED
  BY <1>1, <1>2 DEF Resolved, Identity, Row, ServiceId

\* An endpoint that no service matches is free.
LEMMA MissingIsFree ==
    ASSUME IdentityInv, NEW i \in Identity, Missing(i), i.endpoint # NoEndpoint
    PROVE  owner[i.endpoint] = NoService
<1>1. i.endpoint \in Endpoint
  BY DEF Identity
<1>2. Matches(i) = {s \in Registered :
                      s = i.id \/ (i.endpoint # NoEndpoint /\ owner[i.endpoint] = s)}
  BY DEF Matches
<1>3. QED
  BY <1>1, <1>2 DEF Missing, IdentityInv, RowsInv

(***************************************************************************)
(* Frames.                                                                 *)
(***************************************************************************)

\* A step of one call that leaves the services and their endpoints alone.
LEMMA CallFrame ==
    ASSUME IdentityInv, NEW c \in Call, UNCHANGED <<services, owner>>, TypeOK',
           \A d \in Call \ {c} :
             /\ pc'[d] = pc[d] /\ ident'[d] = ident[d] /\ target'[d] = target[d]
             /\ outcome'[d] = outcome[d] /\ (d \in created' <=> d \in created),
           CallInv(c)', TargetInv(c)'
    PROVE  IdentityInv'
<1>1. RowsInv' /\ Registered' = Registered
  BY DEF IdentityInv, RowsInv, Registered
<1>2. \A d \in Call \ {c} : CallInv(d)' /\ TargetInv(d)'
  BY <1>1 DEF IdentityInv, CallInv, TargetInv
<1>3. QED
  BY <1>1, <1>2 DEF IdentityInv

\* A step that changes no call, and of the services neither which there are nor
\* their endpoints.
LEMMA RowFrame ==
    ASSUME IdentityInv, UNCHANGED <<owner, pc, ident, target, created, outcome>>, TypeOK',
           Registered' = Registered,
           \A s \in Registered : services'[s].endpoint = services[s].endpoint
    PROVE  IdentityInv'
BY DEF IdentityInv, RowsInv, CallInv, TargetInv

\* A call that ends without a write keeps the invariant.
LEMMA EndInv ==
    ASSUME IdentityInv, NEW c \in Call, pc[c] # "idle", pc[c] # "done",
           NEW o \in {"conflict", "not_found", "found", "rejected"}, End(c, o)
    PROVE  IdentityInv'
<1> USE DEF End, Goto, rows, local
<1>1. TypeOK'
  <2>1. {d \in Call : pc'[d] \in {"locked", "ensured"}} = {lock'} \ {NoCall}
    BY IdentityAssumption DEF IdentityInv, TypeOK
  <2>2. QED
    BY <2>1, IdentityAssumption DEF IdentityInv, TypeOK, vars
<1>2. CallInv(c)' /\ TargetInv(c)'
  BY IdentityAssumption DEF IdentityInv, TypeOK, CallInv, TargetInv
<1>3. QED
  BY <1>1, <1>2, CallFrame DEF IdentityInv, TypeOK

(***************************************************************************)
(* The steps.                                                              *)
(***************************************************************************)

LEMMA InitInv == Init => IdentityInv
<1> SUFFICES ASSUME Init PROVE IdentityInv
  OBVIOUS
<1>1. Legacy \in ServiceId /\ Legacy.endpoint \in Endpoint /\ Legacy.payee \in Payee
  BY IdentityAssumption DEF ServiceId
<1>2. services[Legacy] \in Row /\ services[Legacy].endpoint = Legacy.endpoint
  BY <1>1 DEF Init, Row
<1>3. Registered = {Legacy}
  BY <1>1, <1>2, IdentityAssumption DEF Init, Registered
<1>4. TypeOK
  <2>1. services \in [ServiceId -> Row \cup {NoService}]
    BY <1>1 DEF Init, Row
  <2>2. payees \subseteq ServiceId \X Payee /\ vouched \subseteq ServiceId \X Payee
    BY <1>1 DEF Init
  <2>3. {c \in Call : pc[c] \in {"locked", "ensured"}} = {lock} \ {NoCall}
    BY DEF Init
  <2>4. owner \in [Endpoint -> ServiceId \cup {NoService}]
    BY <1>1 DEF Init
  <2>5. /\ answered \in [ServiceId -> (SUBSET Payee) \cup {NoAnswer}]
        /\ offers \in [Call -> SUBSET Payee]
    BY DEF Init
  <2>6. /\ pc \in [Call -> {"idle", "asked", "probing", "answered", "ready", "resolved", "verified",
                          "locked", "ensured", "done"}]
        /\ ident \in [Call -> Identity \cup {NoIdentity}]
        /\ target \in [Call -> ServiceId \cup {NoService}]
        /\ taught \subseteq Call /\ created \subseteq Call
        /\ outcome \in [Call -> {"none", "conflict", "not_found", "found", "rejected", "stored"}]
    BY DEF Init
  <2>7. QED
    BY <2>1, <2>2, <2>3, <2>4, <2>5, <2>6 DEF TypeOK
<1>5. RowsInv
  BY <1>1, <1>2, <1>3 DEF Init, RowsInv
<1>6. QED
  BY <1>4, <1>5 DEF Init, IdentityInv, CallInv, TargetInv

LEMMA AskInv ==
    ASSUME IdentityInv, NEW c \in Call, NEW q \in Asked, Ask(c, q)
    PROVE  IdentityInv'
<1> USE DEF Ask, Goto, rows, local
<1>1. ident'[c] \in Identity /\ ident' \in [Call -> Identity \cup {NoIdentity}]
  <2>1. q \in Question
    BY IdentityAssumption
  <2>2. (IF q.idOf = NoEndpoint THEN NoService ELSE owner[q.idOf]) \in ServiceId \cup {NoService}
    BY <2>1 DEF IdentityInv, TypeOK, Question
  <2>3. QED
    BY <2>1, <2>2 DEF IdentityInv, TypeOK, Question, Identity
<1>2. TypeOK'
  BY <1>1 DEF IdentityInv, TypeOK
<1>3. CallInv(c)' /\ TargetInv(c)'
  BY <1>1 DEF IdentityInv, TypeOK, CallInv, TargetInv
<1>4. QED
  BY <1>2, <1>3, CallFrame DEF IdentityInv, TypeOK

LEMMA FindCandidateInv ==
    ASSUME IdentityInv, NEW c \in Call, FindCandidate(c)
    PROVE  IdentityInv'
<1> USE DEF FindCandidate, Goto, rows
<1>1. CASE \E s \in Registered :
             /\ target' = [target EXCEPT ![c] = s]
             /\ IF answered[s] = NoAnswer
                THEN /\ answered' = [answered EXCEPT ![s] = {}]
                     /\ Goto(c, "probing")
                     /\ UNCHANGED offers
                ELSE /\ offers' = [offers EXCEPT ![c] = answered[s]]
                     /\ Goto(c, "answered")
                     /\ UNCHANGED answered
  <2> PICK s \in Registered :
             /\ target' = [target EXCEPT ![c] = s]
             /\ IF answered[s] = NoAnswer
                THEN /\ answered' = [answered EXCEPT ![s] = {}]
                     /\ Goto(c, "probing")
                     /\ UNCHANGED offers
                ELSE /\ offers' = [offers EXCEPT ![c] = answered[s]]
                     /\ Goto(c, "answered")
                     /\ UNCHANGED answered
    BY <1>1
  <2>1. s \in ServiceId
    BY DEF Registered
  <2>2. TypeOK'
    <3>1. answered[s] = NoAnswer \/ answered[s] \in SUBSET Payee
      BY <2>1 DEF IdentityInv, TypeOK
    <3>2. answered' \in [ServiceId -> (SUBSET Payee) \cup {NoAnswer}]
      BY <2>1, <3>1 DEF IdentityInv, TypeOK
    <3>3. offers' \in [Call -> SUBSET Payee]
      BY <2>1, <3>1 DEF IdentityInv, TypeOK
    <3>4. pc' = [pc EXCEPT ![c] = "probing"] \/ pc' = [pc EXCEPT ![c] = "answered"]
      OBVIOUS
    <3>5. /\ pc' \in [Call -> {"idle", "asked", "probing", "answered", "ready", "resolved",
                               "verified", "locked", "ensured", "done"}]
          /\ {d \in Call : pc'[d] \in {"locked", "ensured"}} = {lock'} \ {NoCall}
      BY <3>4 DEF IdentityInv, TypeOK
    <3>6. target' \in [Call -> ServiceId \cup {NoService}]
      BY <2>1 DEF IdentityInv, TypeOK
    <3>7. UNCHANGED <<services, owner, payees, vouched, lock, ident, taught, created, outcome>>
      OBVIOUS
    <3> HIDE DEF FindCandidate
    <3>8. QED
      BY <3>2, <3>3, <3>5, <3>6, <3>7 DEF IdentityInv, TypeOK
  <2>3. CallInv(c)' /\ TargetInv(c)'
    BY <2>1 DEF IdentityInv, TypeOK, CallInv, TargetInv, Registered
  <2>4. QED
    BY <2>2, <2>3, CallFrame DEF IdentityInv, TypeOK
<1>2. CASE Goto(c, "ready") /\ UNCHANGED <<answered, target, offers>>
  <2>1. TypeOK'
    BY <1>2 DEF IdentityInv, TypeOK
  <2>2. CallInv(c)' /\ TargetInv(c)'
    BY <1>2 DEF IdentityInv, TypeOK, CallInv, TargetInv
  <2>3. QED
    BY <1>2, <2>1, <2>2, CallFrame DEF IdentityInv, TypeOK
<1>3. QED
  BY <1>1, <1>2

LEMMA ProbeInv ==
    ASSUME IdentityInv, NEW c \in Call, Probe(c)
    PROVE  IdentityInv'
<1> USE DEF Probe, Goto, rows
<1>1. target[c] \in Registered /\ target[c] \in ServiceId
  BY DEF IdentityInv, CallInv, Registered
<1>2. services[target[c]].endpoint \in Endpoint
  BY <1>1 DEF IdentityInv, TypeOK, Registered, Row
<1>3. PICK said \in SUBSET Offers[services[target[c]].endpoint] :
             /\ offers' = [offers EXCEPT ![c] = said]
             /\ answered' = [answered EXCEPT ![target[c]] = said]
  OBVIOUS
<1>4. said \in SUBSET Payee
  BY <1>2, IdentityAssumption
<1>5. TypeOK'
  BY <1>1, <1>3, <1>4 DEF IdentityInv, TypeOK
<1>6. CallInv(c)' /\ TargetInv(c)'
  BY <1>1 DEF IdentityInv, TypeOK, CallInv, TargetInv, Registered
<1>7. QED
  BY <1>5, <1>6, CallFrame DEF IdentityInv, TypeOK

LEMMA RegisterAdvertisedInv ==
    ASSUME IdentityInv, NEW c \in Call, RegisterAdvertised(c)
    PROVE  IdentityInv'
<1> USE DEF RegisterAdvertised, Goto
<1>1. target[c] \in ServiceId
  BY DEF IdentityInv, CallInv, Registered
<1>2. TypeOK'
  <2> DEFINE fresh == IF services[target[c]].rotates THEN {} ELSE offers[c] \ PayeesOf(target[c])
  <2>1. fresh \subseteq Payee
    BY DEF IdentityInv, TypeOK
  <2>2. payees' = payees \cup {<<target[c], p>> : p \in fresh}
    OBVIOUS
  <2>3. vouched' = vouched \cup {<<target[c], p>> : p \in fresh}
    OBVIOUS
  <2> HIDE DEF fresh
  <2>4. payees' \subseteq ServiceId \X Payee /\ vouched' \subseteq ServiceId \X Payee
    BY <1>1, <2>1, <2>2, <2>3 DEF IdentityInv, TypeOK
  <2>5. QED
    BY <2>4 DEF IdentityInv, TypeOK
<1>3. CallInv(c)' /\ TargetInv(c)'
  BY DEF IdentityInv, TypeOK, CallInv, TargetInv
<1>4. QED
  BY <1>2, <1>3, CallFrame DEF IdentityInv, TypeOK

LEMMA FailToLearnInv ==
    ASSUME IdentityInv, NEW c \in Call, FailToLearn(c)
    PROVE  IdentityInv'
<1> USE DEF FailToLearn, Goto, rows
<1>1. TypeOK'
  BY DEF IdentityInv, TypeOK
<1>2. CallInv(c)' /\ TargetInv(c)'
  BY DEF IdentityInv, TypeOK, CallInv, TargetInv
<1>3. QED
  BY <1>1, <1>2, CallFrame DEF IdentityInv, TypeOK

LEMMA ForgetInv ==
    ASSUME IdentityInv, NEW s \in ServiceId, Forget(s)
    PROVE  IdentityInv'
<1> USE DEF Forget, rows, local
<1>1. TypeOK'
  BY DEF IdentityInv, TypeOK
<1>2. QED
  BY <1>1, RowFrame DEF Registered

LEMMA RepairPayeeInv ==
    ASSUME IdentityInv, NEW s \in ServiceId, RepairPayee(s)
    PROVE  IdentityInv'
<1> USE DEF local
<1>1. services[s] \in Row /\ services[s] # NoService
  BY DEF RepairPayee, IdentityInv, TypeOK, Registered
<1>2. services[s].endpoint \in Endpoint
  BY <1>1 DEF Row
<1> DEFINE sound == {sp \in payees : sp[1] # s \/ Machine(sp[2])}
<1>3. /\ \E p \in Payee \cup {NoPayee}, r \in BOOLEAN :
           services' = [services EXCEPT ![s].payee = p, ![s].rotates = r]
      /\ payees' \subseteq payees \cup ({s} \X Payee)
      /\ vouched' \subseteq vouched \cup ({s} \X Payee)
  <2>1. CASE \E said \in SUBSET Offers[services[s].endpoint] : \E p \in said :
               /\ services' = [services EXCEPT ![s].payee = p, ![s].rotates = FALSE]
               /\ payees' = sound \cup {<<s, q>> : q \in said}
               /\ vouched' = vouched \cup {<<s, q>> : q \in said}
    <3>1. Offers[services[s].endpoint] \subseteq Payee
      BY <1>2, IdentityAssumption
    <3>2. PICK said \in SUBSET Offers[services[s].endpoint] : \E p \in said :
               /\ services' = [services EXCEPT ![s].payee = p, ![s].rotates = FALSE]
               /\ payees' = sound \cup {<<s, q>> : q \in said}
               /\ vouched' = vouched \cup {<<s, q>> : q \in said}
      BY <2>1
    <3>3. said \subseteq Payee
      BY <3>1
    <3>4. PICK p \in said :
               services' = [services EXCEPT ![s].payee = p, ![s].rotates = FALSE]
      BY <3>2
    <3>5. payees' \subseteq payees \cup ({s} \X Payee)
      BY <3>2, <3>3
    <3>6. vouched' \subseteq vouched \cup ({s} \X Payee)
      BY <3>2, <3>3
    <3>7. p \in Payee \cup {NoPayee} /\ FALSE \in BOOLEAN
      BY <3>3
    <3> HIDE DEF sound
    <3>8. QED
      BY <3>4, <3>5, <3>6, <3>7
  <2>2. CASE /\ services' = [services EXCEPT ![s].payee = NoPayee, ![s].rotates = TRUE]
             /\ payees' = sound
             /\ UNCHANGED vouched
    BY <2>2
  <2>3. QED
    BY <2>1, <2>2 DEF RepairPayee
<1>4. /\ services'[s] \in Row /\ services'[s].endpoint = services[s].endpoint
      /\ \A t \in ServiceId \ {s} : services'[t] = services[t]
      /\ services' \in [ServiceId -> Row \cup {NoService}]
  <2>1. PICK p \in Payee \cup {NoPayee}, r \in BOOLEAN :
           services' = [services EXCEPT ![s].payee = p, ![s].rotates = r]
    BY <1>3
  <2>2. services' = [services EXCEPT ![s] = [[services[s] EXCEPT !.payee = p] EXCEPT !.rotates = r]]
    BY <2>1 DEF IdentityInv, TypeOK
  <2> DEFINE row == [[services[s] EXCEPT !.payee = p] EXCEPT !.rotates = r]
  <2>3. row \in Row /\ row.endpoint = services[s].endpoint
    BY <1>1 DEF Row
  <2> HIDE DEF row
  <2>4. services' = [services EXCEPT ![s] = row]
    BY <2>2 DEF row
  <2>5. QED
    BY <2>3, <2>4 DEF IdentityInv, TypeOK
<1>6. payees' \subseteq ServiceId \X Payee /\ vouched' \subseteq ServiceId \X Payee
  BY <1>3 DEF IdentityInv, TypeOK
<1>7. UNCHANGED <<owner, answered, lock, pc, ident, target, offers, taught, created, outcome>>
  BY DEF RepairPayee
<1>8. TypeOK'
  BY <1>4, <1>6, <1>7 DEF IdentityInv, TypeOK
<1>9. Registered' = Registered
  BY <1>1, <1>4, IdentityAssumption DEF Registered
<1>10. \A t \in Registered : services'[t].endpoint = services[t].endpoint
  BY <1>4 DEF Registered
<1>11. QED
  BY <1>7, <1>8, <1>9, <1>10, RowFrame

LEMMA ResolveInv ==
    ASSUME IdentityInv, NEW c \in Call, Resolve(c)
    PROVE  IdentityInv'
<1>1. ident[c] \in Identity /\ target[c] = NoService /\ c \notin created /\ pc[c] = "ready"
  BY DEF Resolve, IdentityInv, CallInv
<1>2. CASE \E o \in {"conflict", "not_found", "found", "rejected"} : End(c, o)
  BY <1>1, <1>2, EndInv
<1>3. CASE /\ Goto(c, "resolved")
           /\ UNCHANGED <<rows, answered, lock, ident, local, outcome>>
  <2> USE <1>3 DEF Goto, rows, local
  <2>1. TypeOK'
    BY <1>1 DEF IdentityInv, TypeOK
  <2>2. CallInv(c)' /\ TargetInv(c)'
    BY <1>1 DEF IdentityInv, TypeOK, CallInv, TargetInv
  <2>3. QED
    BY <2>1, <2>2, CallFrame DEF IdentityInv, TypeOK
<1>4. CASE \E s \in Registered :
             /\ ResolvesTo(ident[c], s)
             /\ target' = [target EXCEPT ![c] = s]
             /\ ident' = [ident EXCEPT ![c] = Resolved(@, s)]
             /\ Goto(c, "resolved")
             /\ UNCHANGED <<rows, answered, lock, offers, taught, created, outcome>>
  <2> PICK s \in Registered :
             /\ ResolvesTo(ident[c], s)
             /\ target' = [target EXCEPT ![c] = s]
             /\ ident' = [ident EXCEPT ![c] = Resolved(@, s)]
             /\ Goto(c, "resolved")
             /\ UNCHANGED <<rows, answered, lock, offers, taught, created, outcome>>
    BY <1>4
  <2> USE DEF Goto, rows
  <2>1. s \in ServiceId
    BY DEF Registered
  <2>2. Resolved(ident[c], s) \in Identity /\ Resolved(ident[c], s).endpoint = s.endpoint
    BY <1>1, ResolvedType DEF ResolvesTo
  <2>3. ident'[c] = Resolved(ident[c], s) /\ ident' \in [Call -> Identity \cup {NoIdentity}]
    BY <2>2 DEF IdentityInv, TypeOK
  <2>4. TypeOK'
    BY <1>1, <2>1, <2>3 DEF IdentityInv, TypeOK
  <2>5. target'[c] = s /\ pc'[c] = "resolved" /\ Registered' = Registered
    BY DEF IdentityInv, TypeOK, Registered
  <2>6. CallInv(c)' /\ TargetInv(c)'
    BY <1>1, <2>2, <2>3, <2>5, IdentityAssumption DEF IdentityInv, CallInv, TargetInv
  <2>7. QED
    BY <2>3, <2>4, <2>6, CallFrame DEF IdentityInv, TypeOK
<1>5. QED
  BY <1>2, <1>3, <1>4 DEF Resolve

LEMMA VerifyInv ==
    ASSUME IdentityInv, NEW c \in Call, Verify(c)
    PROVE  IdentityInv'
<1>1. CASE End(c, "rejected")
  BY <1>1, EndInv DEF Verify
<1>2. CASE /\ ident[c].kind = "paid" => ident[c].payee # NoPayee /\ Machine(ident[c].payee)
           /\ Goto(c, "verified")
           /\ UNCHANGED <<rows, answered, lock, ident, local, outcome>>
  <2> USE <1>2 DEF Verify, Goto, rows, local
  <2>1. TypeOK'
    BY DEF IdentityInv, TypeOK
  <2>2. CallInv(c)' /\ TargetInv(c)'
    BY DEF IdentityInv, TypeOK, CallInv, TargetInv, Registered
  <2>3. QED
    BY <2>1, <2>2, CallFrame DEF IdentityInv, TypeOK
<1>3. QED
  BY <1>1, <1>2 DEF Verify

LEMMA LockReviewWritesInv ==
    ASSUME IdentityInv, NEW c \in Call, LockReviewWrites(c)
    PROVE  IdentityInv'
<1> USE DEF LockReviewWrites, Goto, rows, local
<1>1. {d \in Call : pc'[d] \in {"locked", "ensured"}} = {lock'} \ {NoCall}
  BY IdentityAssumption DEF IdentityInv, TypeOK
<1>2. TypeOK'
  BY <1>1 DEF IdentityInv, TypeOK
<1>3. CallInv(c)' /\ TargetInv(c)'
  BY DEF IdentityInv, TypeOK, CallInv, TargetInv, Registered
<1>4. QED
  BY <1>2, <1>3, CallFrame DEF IdentityInv, TypeOK

LEMMA EnsureServiceInv ==
    ASSUME IdentityInv, NEW c \in Call, EnsureService(c)
    PROVE  IdentityInv'
<1> DEFINE i == ident[c]
           strong == i.endpoint # NoEndpoint /\ (i.kind # "unpaid" => i.payee # NoPayee)
<1>1. i \in Identity /\ c \notin created /\ pc[c] = "locked"
  BY DEF EnsureService, IdentityInv, CallInv
<1>2. CASE \E o \in {"conflict", "not_found", "found", "rejected"} : End(c, o)
  BY <1>1, <1>2, EndInv
<1>3. CASE /\ target[c] # NoService
           /\ Goto(c, "ensured")
           /\ UNCHANGED <<rows, answered, lock, ident, local, outcome>>
  <2> USE <1>3 DEF Goto, rows, local
  <2>1. TypeOK'
    BY <1>1 DEF IdentityInv, TypeOK
  <2>2. CallInv(c)' /\ TargetInv(c)'
    BY <1>1 DEF IdentityInv, TypeOK, CallInv, TargetInv, Registered
  <2>3. QED
    BY <2>1, <2>2, CallFrame DEF IdentityInv, TypeOK
<1>4. CASE \E s \in Registered \cup {NewId(i)} :
             /\ target[c] = NoService /\ strong
             /\ \/ s \in Registered /\ ResolvesTo(i, s) /\ UNCHANGED created
                \/ Missing(i) /\ s = NewId(i) /\ created' = created \cup {c}
             /\ target' = [target EXCEPT ![c] = s]
             /\ Goto(c, "ensured")
             /\ UNCHANGED <<rows, answered, lock, ident, offers, taught, outcome>>
  <2>1. PICK s \in Registered \cup {NewId(i)} :
             /\ target[c] = NoService /\ strong
             /\ \/ s \in Registered /\ ResolvesTo(i, s) /\ UNCHANGED created
                \/ Missing(i) /\ s = NewId(i) /\ created' = created \cup {c}
             /\ target' = [target EXCEPT ![c] = s]
             /\ Goto(c, "ensured")
             /\ UNCHANGED <<rows, answered, lock, ident, offers, taught, outcome>>
    BY <1>4
  <2> USE DEF Goto, rows
  <2>2. NewId(i) \in ServiceId /\ NewId(i).endpoint = i.endpoint
    BY <1>1, <2>1 DEF NewId, ServiceId, Identity
  <2>3. s \in ServiceId /\ s # NoService
    BY <2>2, IdentityAssumption DEF Registered
  <2>4. /\ s.endpoint = i.endpoint
        /\ \/ s \in Registered /\ created' = created
           \/ owner[s.endpoint] = NoService /\ created' = created \cup {c}
    <3>1. CASE s \in Registered /\ ResolvesTo(i, s) /\ UNCHANGED created
      BY <1>1, <2>1, <3>1, ResolvedEndpoint DEF ResolvesTo
    <3>2. CASE Missing(i) /\ s = NewId(i) /\ created' = created \cup {c}
      BY <1>1, <2>1, <2>2, <3>2, MissingIsFree
    <3>3. QED
      BY <2>1, <3>1, <3>2
  <2>5. TypeOK'
    BY <1>1, <2>1, <2>3, <2>4 DEF IdentityInv, TypeOK
  <2>6. /\ target'[c] = s /\ pc'[c] = "ensured" /\ Registered' = Registered
        /\ ident'[c] = i /\ owner' = owner /\ outcome'[c] = outcome[c]
    BY <2>1 DEF IdentityInv, TypeOK, Registered
  <2>7. CallInv(c)' /\ TargetInv(c)'
    BY <1>1, <2>3, <2>4, <2>6 DEF IdentityInv, CallInv, TargetInv
  <2>8. \A d \in Call \ {c} :
          /\ pc'[d] = pc[d] /\ ident'[d] = ident[d] /\ target'[d] = target[d]
          /\ outcome'[d] = outcome[d] /\ (d \in created' <=> d \in created)
    BY <2>1, <2>4 DEF IdentityInv, TypeOK
  <2>9. QED
    BY <2>1, <2>5, <2>7, <2>8, CallFrame
<1>5. QED
  BY <1>2, <1>3, <1>4 DEF EnsureService

\* What registering a payee may do to the rows of services.
LEMMA RegisterAliasRows ==
    ASSUME IdentityInv, NEW c \in Call, c \notin created, pc[c] = "ensured",
           ident[c].kind = "paid", RegisterAlias(c)
    PROVE  /\ services' \in [ServiceId -> Row \cup {NoService}]
           /\ Registered' = Registered
           /\ \A s \in Registered : services'[s].endpoint = services[s].endpoint
           /\ payees' \in SUBSET (ServiceId \X Payee)
           /\ owner' = owner
<1> DEFINE p == ident[c].payee  old == services[target[c]]
           row == IF old.rotates \/ old.provider # "none" THEN old
                  ELSE [old EXCEPT !.provider = "machine", !.payee = p]
<1>1. target[c] \in ServiceId /\ old \in Row /\ old # NoService
  BY DEF IdentityInv, TypeOK, CallInv, TargetInv, Registered
<1>2. p \in Payee
  BY DEF IdentityInv, CallInv, Identity
<1>3. row \in Row /\ row.endpoint = old.endpoint
  BY <1>1, <1>2 DEF Row
<1>4. services' = [services EXCEPT ![target[c]] = row]
  BY <1>1 DEF RegisterAlias, IdentityInv, TypeOK
<1>5. payees' \in SUBSET (ServiceId \X Payee) /\ owner' = owner
  BY <1>1, <1>2 DEF RegisterAlias, IdentityInv, TypeOK
<1> HIDE DEF row, p
<1>6. QED
  BY <1>1, <1>3, <1>4, <1>5, IdentityAssumption DEF IdentityInv, TypeOK, Registered

\* What a call whose review is stored leaves behind, but for the services.
LEMMA StoreType ==
    ASSUME IdentityInv, NEW c \in Call, Store(c),
           services' \in [ServiceId -> Row \cup {NoService}],
           owner' \in [Endpoint -> ServiceId \cup {NoService}],
           payees' \in SUBSET (ServiceId \X Payee)
    PROVE  /\ TypeOK'
           /\ pc'[c] = "done" /\ outcome'[c] = "stored" /\ pc[c] = "ensured"
           /\ \A d \in Call \ {c} : /\ pc'[d] = pc[d] /\ outcome'[d] = outcome[d]
                                   /\ pc[d] \notin {"locked", "ensured"}
           /\ UNCHANGED <<vouched, answered, ident, target, offers, taught, created>>
<1> USE DEF Store, Goto, local
<1>1. \A d \in Call : pc[d] \in {"locked", "ensured"} => d = lock
  BY DEF IdentityInv, TypeOK
<1>2. /\ pc[c] = "ensured" /\ lock' = NoCall
      /\ pc' = [pc EXCEPT ![c] = "done"] /\ outcome' = [outcome EXCEPT ![c] = "stored"]
      /\ UNCHANGED <<vouched, answered, ident, target, offers, taught, created>>
  OBVIOUS
<1> HIDE DEF Store
<1>3. /\ pc'[c] = "done" /\ outcome'[c] = "stored"
      /\ \A d \in Call \ {c} : /\ pc'[d] = pc[d] /\ outcome'[d] = outcome[d]
                              /\ pc[d] \notin {"locked", "ensured"}
  BY <1>1, <1>2 DEF IdentityInv, TypeOK
<1>4. {d \in Call : pc'[d] \in {"locked", "ensured"}} = {lock'} \ {NoCall}
  BY <1>2, <1>3
<1>5. TypeOK'
  BY <1>2, <1>4 DEF IdentityInv, TypeOK
<1>6. QED
  BY <1>2, <1>3, <1>5

LEMMA StoreInv ==
    ASSUME IdentityInv, NEW c \in Call, Store(c)
    PROVE  IdentityInv'
<1> DEFINE s == target[c]
<1>1. /\ pc[c] = "ensured" /\ s \in ServiceId /\ s # NoService
      /\ s.endpoint = ident[c].endpoint /\ s.endpoint \in Endpoint
  BY DEF Store, IdentityInv, TypeOK, CallInv, TargetInv, ServiceId
<1>2. CASE c \in created /\ Create(c)
  <2> DEFINE new == [endpoint |-> s.endpoint, provider |-> Provider(s.payee),
                     payee |-> s.payee, rotates |-> FALSE]
  <2>1. new \in Row /\ new.endpoint = s.endpoint /\ new # NoService
    <3>1. s.endpoint \in Endpoint /\ s.payee \in Payee \cup {NoPayee}
      BY <1>1 DEF ServiceId
    <3>2. Provider(s.payee) \in {"none", "machine", "other"}
      BY DEF Provider
    <3>3. new \in Row /\ new.endpoint = s.endpoint
      BY <3>1, <3>2 DEF Row
    <3>4. QED
      BY <3>3, IdentityAssumption
  <2> HIDE DEF new
  <2>2. services' = [services EXCEPT ![s] = new]
    BY <1>2 DEF Create, new
  <2>3. owner[s.endpoint] = NoService
    BY <1>1, <1>2 DEF IdentityInv, TargetInv
  <2>4. owner' = [owner EXCEPT ![s.endpoint] = s]
    BY <1>1, <1>2, <2>3 DEF Create, IdentityInv, TypeOK
  <2>5. payees' \in SUBSET (ServiceId \X Payee)
    BY <1>1, <1>2 DEF Create, IdentityInv, TypeOK, ServiceId
  <2>6. /\ services' \in [ServiceId -> Row \cup {NoService}]
        /\ owner' \in [Endpoint -> ServiceId \cup {NoService}]
    BY <1>1, <2>1, <2>2, <2>4 DEF IdentityInv, TypeOK
  <2>7. Registered' = Registered \cup {s}
    BY <1>1, <2>1, <2>2 DEF Registered, IdentityInv, TypeOK
  <2>8. RowsInv'
    <3>1. \A t \in Registered \ {s} : services'[t] = services[t] /\ t.endpoint # s.endpoint
      <4>1. \A t \in Registered : t \in ServiceId /\ t # NoService /\ owner[t.endpoint] = t
        BY IdentityAssumption DEF IdentityInv, RowsInv, Registered
      <4>2. QED
        BY <1>1, <2>2, <2>3, <4>1 DEF IdentityInv, TypeOK
    <3>2. services'[s] = new /\ owner'[s.endpoint] = s
      BY <1>1, <2>2, <2>4 DEF IdentityInv, TypeOK
    <3>3. \A e \in Endpoint \ {s.endpoint} : owner'[e] = owner[e]
      BY <2>4 DEF IdentityInv, TypeOK
    <3>4. \A t \in Registered \ {s} : t.endpoint \in Endpoint
      BY DEF Registered, ServiceId
    <3>5. QED
      BY <1>1, <2>1, <2>7, <3>1, <3>2, <3>3, <3>4 DEF IdentityInv, RowsInv
  <2>9. \A d \in Call : CallInv(d)' /\ TargetInv(d)'
    BY <1>1, <2>5, <2>6, <2>7, StoreType DEF IdentityInv, CallInv, TargetInv
  <2>10. QED
    BY <2>5, <2>6, <2>8, <2>9, StoreType DEF IdentityInv
<1>3. CASE c \notin created
  <2>1. /\ services' \in [ServiceId -> Row \cup {NoService}]
        /\ Registered' = Registered
        /\ \A t \in Registered : services'[t].endpoint = services[t].endpoint
        /\ payees' \in SUBSET (ServiceId \X Payee)
        /\ owner' = owner
    <3>1. CASE ident[c].kind = "paid" /\ RegisterAlias(c)
      BY <1>1, <1>3, <3>1, RegisterAliasRows
    <3>2. CASE UNCHANGED <<services, owner, payees>>
      BY <3>2 DEF IdentityInv, TypeOK, Registered
    <3>3. QED
      BY <1>3, <3>1, <3>2 DEF Store
  <2>2. RowsInv'
    BY <2>1 DEF IdentityInv, RowsInv
  <2>3. owner' \in [Endpoint -> ServiceId \cup {NoService}]
    BY <2>1 DEF IdentityInv, TypeOK
  <2>4. s \in Registered
    BY <1>1, <1>3 DEF IdentityInv, TargetInv
  <2>5. \A d \in Call : CallInv(d)' /\ TargetInv(d)'
    BY <1>1, <1>3, <2>1, <2>3, <2>4, StoreType DEF IdentityInv, CallInv, TargetInv
  <2>6. QED
    BY <2>1, <2>2, <2>3, <2>5, StoreType DEF IdentityInv
<1>4. QED
  BY <1>2, <1>3 DEF Store

LEMMA NextInv == IdentityInv /\ [Next]_vars => IdentityInv'
<1> SUFFICES ASSUME IdentityInv, [Next]_vars PROVE IdentityInv'
  OBVIOUS
<1>1. ASSUME NEW c \in Call, NEW q \in Asked, Ask(c, q) PROVE IdentityInv'
  BY <1>1, AskInv
<1>2. ASSUME NEW c \in Call, FindCandidate(c) PROVE IdentityInv'
  BY <1>2, FindCandidateInv
<1>3. ASSUME NEW c \in Call, Probe(c) PROVE IdentityInv'
  BY <1>3, ProbeInv
<1>4. ASSUME NEW c \in Call, RegisterAdvertised(c) PROVE IdentityInv'
  BY <1>4, RegisterAdvertisedInv
<1>5. ASSUME NEW c \in Call, FailToLearn(c) PROVE IdentityInv'
  BY <1>5, FailToLearnInv
<1>6. ASSUME NEW c \in Call, Resolve(c) PROVE IdentityInv'
  BY <1>6, ResolveInv
<1>7. ASSUME NEW c \in Call, Verify(c) PROVE IdentityInv'
  BY <1>7, VerifyInv
<1>8. ASSUME NEW c \in Call, LockReviewWrites(c) PROVE IdentityInv'
  BY <1>8, LockReviewWritesInv
<1>9. ASSUME NEW c \in Call, EnsureService(c) PROVE IdentityInv'
  BY <1>9, EnsureServiceInv
<1>10. ASSUME NEW c \in Call, Store(c) PROVE IdentityInv'
  BY <1>10, StoreInv
<1>11. ASSUME NEW c \in Call, RefuseAlias(c) \/ Abort(c) PROVE IdentityInv'
  BY <1>11, EndInv DEF RefuseAlias, Abort
<1>12. ASSUME NEW s \in ServiceId, Forget(s) PROVE IdentityInv'
  BY <1>12, ForgetInv
<1>13. ASSUME NEW s \in ServiceId, RepairPayee(s) PROVE IdentityInv'
  BY <1>13, RepairPayeeInv
<1>14. CASE UNCHANGED vars
  <2>1. TypeOK'
    BY <1>14 DEF vars, rows, local, IdentityInv, TypeOK
  <2>2. QED
    BY <1>14, <2>1, RowFrame DEF vars, rows, local, Registered
<1>15. QED
  BY <1>1, <1>2, <1>3, <1>4, <1>5, <1>6, <1>7, <1>8, <1>9, <1>10, <1>11, <1>12, <1>13, <1>14
     DEF Next, Finished

(***************************************************************************)
(* The theorems.                                                           *)
(***************************************************************************)

\* The invariant holds in every reachable state.
THEOREM IdentityInvariance == Spec => []IdentityInv
BY InitInv, NextInv, PTL DEF Spec

\* Whatever first reviews, paid and unpaid, overlap, an endpoint has at most one
\* service.
THEOREM OneServicePerEndpointAlways == Spec => []OneServicePerEndpoint
<1>1. IdentityInv => OneServicePerEndpoint
  BY DEF IdentityInv, RowsInv, OneServicePerEndpoint
<1>2. QED
  BY <1>1, IdentityInvariance, PTL

\* No payee, shared by services, learned from a 402 or repaired by an operator
\* between the steps of a review, moves the review to another endpoint's service.
THEOREM ReviewFollowsEndpointAlways == Spec => []ReviewFollowsEndpoint
<1>1. IdentityInv => ReviewFollowsEndpoint
  BY DEF IdentityInv, RowsInv, TargetInv, ReviewFollowsEndpoint
<1>2. QED
  BY <1>1, IdentityInvariance, PTL

(***************************************************************************)
(* The payees of services.  PayeeInv is inductive over IdentityInv: where  *)
(* every payee comes from, and what a call knows of the payee it names.    *)
(***************************************************************************)

Has(s, p) == <<s, p>> \in payees

\* The canonical payee has an identifier, a service without a provider has no
\* payee, and one whose payee rotates has only addresses.
PayeeRows ==
    /\ \A s \in ServiceId, p \in Payee : Has(s, p) => s \in Registered
    /\ \A s \in Registered :
         /\ services[s].payee # NoPayee => Has(s, services[s].payee)
         /\ services[s].provider = "none" => \A p \in Payee : ~ Has(s, p)
         /\ services[s].rotates => \A p \in Payee : Has(s, p) => Machine(p)

Vouched(s, p) == <<s, p>> \in vouched

PaidTo(s, p) ==
    \E c \in Call : /\ outcome[c] = "stored" /\ ident[c].kind = "paid"
                    /\ target[c] = s /\ ident[c].payee = p

Proven ==
    \A s \in ServiceId, p \in Payee : Has(s, p) /\ Machine(p) => Vouched(s, p) \/ PaidTo(s, p)

OneUnvouched ==
    \A s \in ServiceId, p, q \in Payee :
        /\ Has(s, p) /\ Has(s, q) /\ ~ Vouched(s, p) /\ ~ Vouched(s, q)
        /\ Machine(p) /\ Family[p] = Family[q]
        => p = q

\* A payment to p is a payment to s.
Accepts(s, p) == p \in Payee /\ Machine(p) /\ (Has(s, p) \/ services[s].rotates)

\* What c names is s, its payee apart.
Names(c, s) ==
    /\ s \in Registered
    /\ ident[c].id \in {NoService, s} /\ ident[c].endpoint \in {NoEndpoint, s.endpoint}
    /\ ident[c].id # NoService \/ ident[c].endpoint # NoEndpoint

\* The payee a call names: proved, if it paid; no address, if it comes with a
\* placeholder and not from the service.
HeldPayee(c) ==
    /\ pc[c] # "done" => outcome[c] # "conflict"
    /\ pc[c] # "idle" =>
      /\ pc[c] \in {"resolved", "verified", "locked", "ensured"} => ident[c].kind # "lookup"
      /\ pc[c] \in {"verified", "locked", "ensured"} /\ ident[c].kind = "paid" =>
           ident[c].payee \in Payee /\ Machine(ident[c].payee)
      /\ outcome[c] = "stored" /\ ident[c].kind = "paid" => Accepts(target[c], ident[c].payee)
      /\ c \in created =>
           target[c].payee = IF ident[c].kind = "unpaid" THEN NoPayee ELSE ident[c].payee
      /\ /\ ident[c].kind = "placeholder"
         /\ \/ pc[c] \in {"asked", "probing", "answered", "ready"}
            \/ target[c] = NoService
            \/ c \in created
         => ident[c].payee = NoPayee \/ ~ Machine(ident[c].payee)

\* A call that asks a 402 disagrees with a machine service about the payee alone.
Learning(c) ==
    pc[c] \in {"probing", "answered"} =>
      /\ Names(c, target[c]) /\ services[target[c]].provider # "none"
      /\ ident[c].payee \in Payee /\ Machine(ident[c].payee)

\* A call whose payee the 402 advertised names a service that has the payee.
Taught(c) ==
    c \in taught =>
      /\ pc[c] \notin {"idle", "asked", "probing", "answered"}
      /\ outcome[c] # "conflict"
      /\ \E s \in ServiceId :
           /\ Names(c, s) /\ Accepts(s, ident[c].payee)
           /\ target[c] = s \/ pc[c] \in {"ready", "done"}

PayeeInv ==
    /\ PayeeRows /\ Proven /\ OneUnvouched
    /\ \A c \in Call : HeldPayee(c) /\ Learning(c) /\ Taught(c)

\* PayeesOf is what the identifiers say.
LEMMA PayeesOfRows ==
    ASSUME PayeeRows, NEW s \in Registered, NEW p \in Payee
    PROVE  p \in PayeesOf(s) <=> Has(s, p)
<1>1. services[s].payee = p => Has(s, p)
  BY IdentityAssumption DEF PayeeRows
<1>2. QED
  BY <1>1 DEF PayeesOf, Has

\* A call that names a service that has its payee resolves to the service.
LEMMA NamedResolves ==
    ASSUME IdentityInv, PayeeRows, NEW c \in Call, ident[c] \in Identity, NEW s, Names(c, s),
           Accepts(s, ident[c].payee)
    PROVE  ResolvesTo(ident[c], s) /\ s \in Registered
<1> DEFINE i == ident[c]
<1>1. s \in Registered /\ s \in ServiceId /\ s.endpoint \in Endpoint
  BY DEF Names, Registered, ServiceId
<1>2. services[s].endpoint = s.endpoint /\ owner[s.endpoint] = s
  BY <1>1 DEF IdentityInv, RowsInv
<1>3. Matches(i) = {s}
  <2>1. Matches(i) = {t \in Registered :
                        t = i.id \/ (i.endpoint # NoEndpoint /\ owner[i.endpoint] = t)}
    BY DEF Matches, Names
  <2>2. \A t \in Registered :
          t = i.id \/ (i.endpoint # NoEndpoint /\ owner[i.endpoint] = t) <=> t = s
    BY <1>1, <1>2, IdentityAssumption DEF Names, Registered
  <2>3. QED
    BY <1>1, <2>1, <2>2
<1>4. PayeeAuthorized(s, i.payee)
  BY <1>1, PayeesOfRows DEF Accepts, PayeeAuthorized
<1>5. Authorized(s, i)
  BY <1>2, <1>4 DEF Authorized, Names
<1>6. QED
  BY <1>1, <1>3, <1>5 DEF ResolvesTo

\* A step of a call that writes no row and stores nothing.
LEMMA PayeeFrame ==
    ASSUME IdentityInv, PayeeInv, NEW c \in Call, UNCHANGED rows, pc[c] # "done",
           outcome'[c] # "stored",
           \A d \in Call \ {c} :
             /\ pc'[d] = pc[d] /\ ident'[d] = ident[d] /\ target'[d] = target[d]
             /\ outcome'[d] = outcome[d] /\ (d \in created' <=> d \in created)
             /\ (d \in taught' <=> d \in taught),
           HeldPayee(c)', Learning(c)', Taught(c)'
    PROVE  PayeeInv'
<1> USE DEF rows
<1>1. Registered' = Registered /\ outcome[c] # "stored"
  BY DEF Registered, IdentityInv, TargetInv
<1>2. PayeeRows' /\ OneUnvouched'
  BY <1>1 DEF PayeeInv, PayeeRows, OneUnvouched, Has, Vouched
<1>3. Proven'
  <2>1. ASSUME NEW s \in ServiceId, NEW p \in Payee, PaidTo(s, p) PROVE PaidTo(s, p)'
    <3>1. PICK d \in Call : /\ outcome[d] = "stored" /\ ident[d].kind = "paid"
                            /\ target[d] = s /\ ident[d].payee = p
      BY <2>1 DEF PaidTo
    <3>2. d # c
      BY <1>1, <3>1
    <3>3. QED
      BY <3>1, <3>2 DEF PaidTo
  <2>2. QED
    BY <2>1 DEF PayeeInv, Proven, Has, Vouched
<1>4. ASSUME NEW d \in Call \ {c} PROVE HeldPayee(d)' /\ Learning(d)' /\ Taught(d)'
  <2>1. HeldPayee(d) /\ Learning(d) /\ Taught(d)
    BY DEF PayeeInv
  <2>2. /\ \A s : Names(d, s)' <=> Names(d, s)
        /\ \A s, p : Accepts(s, p)' <=> Accepts(s, p)
    BY <1>1 DEF Names, Accepts, Has
  <2>3. HeldPayee(d)'
    BY <2>1, <2>2 DEF HeldPayee
  <2>4. Learning(d)'
    BY <2>1, <2>2 DEF Learning
  <2>5. Taught(d)'
    BY <2>1, <2>2 DEF Taught
  <2>6. QED
    BY <2>3, <2>4, <2>5
<1>5. QED
  BY <1>2, <1>3, <1>4 DEF PayeeInv

\* A call that ends without a write.
LEMMA PayeeEnd ==
    ASSUME IdentityInv, PayeeInv, NEW c \in Call, pc[c] # "idle", pc[c] # "done",
           pc[c] \notin {"asked", "probing", "answered"},
           NEW o \in {"conflict", "not_found", "found", "rejected"}, End(c, o),
           o = "conflict" => c \notin taught
    PROVE  PayeeInv'
<1> USE DEF End, Goto, rows, local
<1>1. /\ pc'[c] = "done" /\ outcome'[c] = o
      /\ UNCHANGED <<services, owner, payees, vouched, ident, target, created, taught>>
      /\ \A d \in Call \ {c} : pc'[d] = pc[d] /\ outcome'[d] = outcome[d]
  BY DEF IdentityInv, TypeOK
<1> HIDE DEF End
<1>2. Registered' = Registered /\ outcome[c] # "stored"
  BY <1>1 DEF Registered, IdentityInv, TargetInv
<1>3. HeldPayee(c)' /\ Learning(c)' /\ Taught(c)'
  BY <1>1, <1>2 DEF PayeeInv, HeldPayee, Learning, Taught, Names, Accepts, Has
<1>4. QED
  BY <1>1, <1>3, PayeeFrame

LEMMA PayeeInit == Init => PayeeInv
<1> SUFFICES ASSUME Init PROVE PayeeInv
  OBVIOUS
<1>1. Legacy \in ServiceId /\ Legacy.payee \in Payee /\ ~ Machine(Legacy.payee)
  BY IdentityAssumption, PayeeAssumption DEF Machine
<1>2. /\ services[Legacy] = [endpoint |-> Legacy.endpoint, provider |-> "machine",
                             payee |-> Legacy.payee, rotates |-> FALSE]
      /\ payees = {<<Legacy, Legacy.payee>>}
  BY <1>1 DEF Init
<1>3. services[Legacy] # NoService
  <2>1. services[Legacy] \in Row
    BY <1>1, <1>2, IdentityAssumption DEF Row, ServiceId
  <2>2. QED
    BY <2>1, IdentityAssumption
<1>4. Registered = {Legacy}
  BY <1>1, <1>3 DEF Init, Registered
<1>5. \A s \in ServiceId, p \in Payee : Has(s, p) <=> s = Legacy /\ p = Legacy.payee
  BY <1>2 DEF Has
<1>6. PayeeRows
  BY <1>1, <1>2, <1>4, <1>5 DEF PayeeRows
<1>7. Proven /\ OneUnvouched
  BY <1>1, <1>5 DEF Proven, OneUnvouched
<1>8. \A c \in Call : HeldPayee(c) /\ Learning(c) /\ Taught(c)
  BY DEF Init, HeldPayee, Learning, Taught
<1>9. QED
  BY <1>6, <1>7, <1>8 DEF PayeeInv

(***************************************************************************)
(* The steps that write no row.                                            *)
(***************************************************************************)

LEMMA AskPayee ==
    ASSUME IdentityInv, PayeeInv, NEW c \in Call, NEW q \in Asked, Ask(c, q)
    PROVE  PayeeInv'
<1> USE DEF Ask, Goto, local
<1>1. /\ pc[c] = "idle" /\ pc'[c] = "asked" /\ ident'[c].kind = q.kind /\ ident'[c].payee = q.payee
      /\ UNCHANGED <<rows, target, created, taught, outcome>>
      /\ \A d \in Call \ {c} : pc'[d] = pc[d] /\ ident'[d] = ident[d]
  BY DEF IdentityInv, TypeOK
<1> HIDE DEF Ask
<1>2. c \notin created /\ c \notin taught /\ outcome[c] \notin {"stored", "conflict"}
  BY <1>1 DEF IdentityInv, CallInv, TargetInv, PayeeInv, HeldPayee, Taught
<1>3. q.kind = "placeholder" => q.payee = NoPayee \/ ~ Machine(q.payee)
  BY PayeeAssumption DEF Machine
<1>4. HeldPayee(c)' /\ Learning(c)' /\ Taught(c)'
  BY <1>1, <1>2, <1>3 DEF HeldPayee, Learning, Taught
<1>5. QED
  BY <1>1, <1>2, <1>4, PayeeFrame

\* A candidate is the service the call names, whatever its payee.
LEMMA CandidateNamed ==
    ASSUME IdentityInv, NEW c \in Call, ident[c] \in Identity, NEW s \in Registered,
           Candidate(ident[c], s)
    PROVE  Names(c, s)
<1> DEFINE i == ident[c]  j == [i EXCEPT !.payee = NoPayee]
<1>1. j \in Identity /\ j.id = i.id /\ j.endpoint = i.endpoint
  BY DEF Identity
<1>2. Authorized(s, j)
  BY DEF Candidate, ResolvesTo
<1>3. j.endpoint # NoEndpoint => j.endpoint = s.endpoint
  BY <1>1, <1>2, ResolvedEndpoint
<1> HIDE DEF j
<1>4. QED
  BY <1>1, <1>2, <1>3 DEF Names, Authorized, Candidate

LEMMA FindCandidatePayee ==
    ASSUME IdentityInv, PayeeInv, NEW c \in Call, FindCandidate(c)
    PROVE  PayeeInv'
<1>1. /\ pc[c] = "asked" /\ c \notin created /\ c \notin taught /\ outcome[c] # "stored"
      /\ ident[c] \in Identity /\ target[c] = NoService
      /\ UNCHANGED <<rows, ident, created, taught, outcome>>
  BY DEF FindCandidate, IdentityInv, CallInv, TargetInv, PayeeInv, Taught
<1>2. CASE \E s \in Registered :
             /\ Candidate(ident[c], s)
             /\ target' = [target EXCEPT ![c] = s]
             /\ Goto(c, "probing") \/ Goto(c, "answered")
  <2>1. PICK s \in Registered :
             /\ Candidate(ident[c], s)
             /\ target' = [target EXCEPT ![c] = s]
             /\ Goto(c, "probing") \/ Goto(c, "answered")
    BY <1>2
  <2>2. /\ target'[c] = s /\ pc'[c] \in {"probing", "answered"}
        /\ \A d \in Call \ {c} : pc'[d] = pc[d] /\ target'[d] = target[d]
    BY <2>1 DEF Goto, IdentityInv, TypeOK
  <2>3. Names(c, s)
    BY <1>1, <2>1, CandidateNamed
  <2>4. ident[c].payee \in Payee /\ Machine(ident[c].payee) /\ services[s].provider = "machine"
    BY <1>1, <2>1 DEF Candidate, Identity
  <2>5. Learning(c)'
    BY <1>1, <2>2, <2>3, <2>4 DEF Learning, Names, rows, Registered
  <2>6. HeldPayee(c)' /\ Taught(c)'
    BY <1>1, <2>2 DEF PayeeInv, HeldPayee, Taught
  <2>7. QED
    BY <1>1, <2>2, <2>5, <2>6, PayeeFrame
<1>3. CASE Goto(c, "ready") /\ UNCHANGED target
  <2>1. pc'[c] = "ready" /\ \A d \in Call \ {c} : pc'[d] = pc[d]
    BY <1>3 DEF Goto, IdentityInv, TypeOK
  <2>2. HeldPayee(c)' /\ Learning(c)' /\ Taught(c)'
    BY <1>1, <1>3, <2>1 DEF PayeeInv, HeldPayee, Learning, Taught
  <2>3. QED
    BY <1>1, <1>3, <2>1, <2>2, PayeeFrame
<1>4. QED
  BY <1>2, <1>3 DEF FindCandidate

LEMMA LearnPayee ==
    ASSUME IdentityInv, PayeeInv, NEW c \in Call, Probe(c) \/ FailToLearn(c)
    PROVE  PayeeInv'
<1> USE DEF Goto, rows
<1>1. /\ pc[c] \in {"asked", "probing", "answered"}
      /\ c \notin taught /\ outcome[c] # "stored"
      /\ UNCHANGED <<rows, ident, created, taught, outcome>>
  BY DEF Probe, FailToLearn, IdentityInv, TargetInv, PayeeInv, Taught
<1>2. c \notin created
  BY <1>1 DEF IdentityInv, CallInv
<1>3. /\ \/ pc[c] = "probing" /\ pc'[c] = "answered" /\ target'[c] = target[c]
         \/ pc'[c] = "ready" /\ target'[c] = NoService
      /\ \A d \in Call \ {c} : pc'[d] = pc[d] /\ target'[d] = target[d]
  BY DEF Probe, FailToLearn, IdentityInv, TypeOK
<1>4. HeldPayee(c)' /\ Taught(c)'
  BY <1>1, <1>2, <1>3 DEF PayeeInv, HeldPayee, Taught
<1>5. Learning(c)'
  BY <1>1, <1>3 DEF PayeeInv, Learning, Names, Registered
<1>6. QED
  BY <1>1, <1>3, <1>4, <1>5, PayeeFrame

\* What the call resolves to is what it names, and its own payee stays.
LEMMA ResolvedNames ==
    ASSUME IdentityInv, NEW c \in Call, ident[c] \in Identity, NEW s \in Registered,
           ResolvesTo(ident[c], s), ident'[c] = Resolved(ident[c], s)
    PROVE  /\ ident'[c].id = s /\ ident'[c].endpoint = s.endpoint
           /\ ident'[c].kind = ident[c].kind
           /\ ident[c].payee # NoPayee => ident'[c].payee = ident[c].payee
<1>1. Resolved(ident[c], s).endpoint = s.endpoint
  BY ResolvedType DEF ResolvesTo
<1>2. QED
  BY <1>1 DEF Resolved, Identity

LEMMA ResolvePayee ==
    ASSUME IdentityInv, PayeeInv, NEW c \in Call, Resolve(c)
    PROVE  PayeeInv'
<1>1. /\ ident[c] \in Identity /\ target[c] = NoService /\ c \notin created /\ pc[c] = "ready"
      /\ outcome[c] # "stored"
  BY DEF Resolve, IdentityInv, CallInv, TargetInv
<1>2. ASSUME c \in taught
      PROVE  \E s \in Registered : /\ Names(c, s) /\ Accepts(s, ident[c].payee)
                                   /\ ResolvesTo(ident[c], s)
  <2>1. PICK s \in ServiceId : Names(c, s) /\ Accepts(s, ident[c].payee)
    BY <1>2 DEF PayeeInv, Taught
  <2>2. QED
    BY <1>1, <2>1, NamedResolves DEF PayeeInv
<1>3. CASE \/ Conflict(ident[c]) /\ End(c, "conflict")
           \/ End(c, "not_found") \/ End(c, "found")
  <2>1. Conflict(ident[c]) => c \notin taught
    BY <1>2 DEF Conflict
  <2>2. QED
    BY <1>1, <1>3, <2>1, PayeeEnd
<1>4. CASE /\ Missing(ident[c]) /\ ident[c].kind # "lookup"
           /\ Goto(c, "resolved")
           /\ UNCHANGED <<rows, answered, lock, ident, local, outcome>>
  <2>1. c \notin taught
    BY <1>2, <1>4 DEF ResolvesTo, Missing
  <2>2. pc'[c] = "resolved" /\ \A d \in Call \ {c} : pc'[d] = pc[d]
    BY <1>4 DEF Goto, IdentityInv, TypeOK
  <2>3. HeldPayee(c)' /\ Learning(c)' /\ Taught(c)'
    BY <1>1, <1>4, <2>1, <2>2 DEF local, PayeeInv, HeldPayee, Learning, Taught
  <2>4. QED
    BY <1>1, <1>4, <2>2, <2>3, PayeeFrame DEF local
<1>5. CASE \E s \in Registered :
             /\ ResolvesTo(ident[c], s)
             /\ ident[c].kind # "lookup"
             /\ target' = [target EXCEPT ![c] = s]
             /\ ident' = [ident EXCEPT ![c] = Resolved(@, s)]
             /\ Goto(c, "resolved")
             /\ UNCHANGED <<rows, answered, lock, offers, taught, created, outcome>>
  <2>1. PICK s \in Registered :
             /\ ResolvesTo(ident[c], s)
             /\ ident[c].kind # "lookup"
             /\ target' = [target EXCEPT ![c] = s]
             /\ ident' = [ident EXCEPT ![c] = Resolved(@, s)]
             /\ Goto(c, "resolved")
             /\ UNCHANGED <<rows, answered, lock, offers, taught, created, outcome>>
    BY <1>5
  <2>2. /\ pc'[c] = "resolved" /\ target'[c] = s /\ ident'[c] = Resolved(ident[c], s)
        /\ \A d \in Call \ {c} : pc'[d] = pc[d] /\ target'[d] = target[d] /\ ident'[d] = ident[d]
        /\ s \in ServiceId /\ s # NoService /\ Registered' = Registered
    BY <2>1, IdentityAssumption DEF Goto, IdentityInv, TypeOK, Registered, rows
  <2>3. /\ ident'[c].id = s /\ ident'[c].endpoint = s.endpoint
        /\ ident'[c].kind = ident[c].kind
        /\ ident[c].payee # NoPayee => ident'[c].payee = ident[c].payee
    BY <1>1, <2>1, <2>2, ResolvedNames
  <2>4. HeldPayee(c)' /\ Learning(c)'
    BY <1>1, <2>1, <2>2, <2>3 DEF PayeeInv, HeldPayee, Learning
  <2>5. Taught(c)'
    <3>1. SUFFICES ASSUME c \in taught PROVE Taught(c)'
      BY <2>1 DEF Taught
    <3>2. PICK t \in Registered : /\ Names(c, t) /\ Accepts(t, ident[c].payee)
                                  /\ ResolvesTo(ident[c], t)
      BY <1>2, <3>1
    <3>3. t = s
      BY <2>1, <3>2 DEF ResolvesTo
    <3>4. ident'[c].payee = ident[c].payee
      BY <2>3, <3>2, IdentityAssumption DEF Accepts
    <3>5. Accepts(s, ident[c].payee)'
      BY <2>1, <3>2, <3>3, <3>4 DEF Accepts, Has, rows
    <3>6. Names(c, s)'
      BY <2>2, <2>3, IdentityAssumption DEF Names
    <3>7. outcome[c] # "conflict" /\ outcome' = outcome
      BY <2>1, <3>1 DEF PayeeInv, Taught
    <3>8. QED
      BY <2>2, <3>5, <3>6, <3>7 DEF Taught
  <2>6. QED
    BY <1>1, <2>1, <2>2, <2>4, <2>5, PayeeFrame
<1>6. QED
  BY <1>3, <1>4, <1>5 DEF Resolve

\* A step that only moves a call on under the lock, or towards it.
LEMMA AdvancePayee ==
    ASSUME IdentityInv, PayeeInv, NEW c \in Call, outcome[c] # "stored",
           UNCHANGED <<rows, ident, target, created, taught, outcome>>,
           pc[c] \in {"resolved", "verified", "locked"},
           pc'[c] \in {"verified", "locked", "ensured"},
           \A d \in Call \ {c} : pc'[d] = pc[d],
           ident[c].kind = "paid" => ident[c].payee \in Payee /\ Machine(ident[c].payee)
    PROVE  PayeeInv'
<1>1. /\ \A s : Names(c, s)' <=> Names(c, s)
      /\ \A s, p : Accepts(s, p)' <=> Accepts(s, p)
  BY DEF rows, Names, Accepts, Has, Registered
<1>2. HeldPayee(c)' /\ Learning(c)'
  BY DEF PayeeInv, HeldPayee, Learning
<1>3. Taught(c)'
  BY <1>1 DEF PayeeInv, Taught
<1>4. QED
  BY <1>2, <1>3, PayeeFrame

LEMMA VerifyPayee ==
    ASSUME IdentityInv, PayeeInv, NEW c \in Call, Verify(c)
    PROVE  PayeeInv'
<1>1. pc[c] = "resolved" /\ outcome[c] # "stored" /\ ident[c] \in Identity
  BY DEF Verify, IdentityInv, CallInv, TargetInv
<1>2. CASE End(c, "rejected")
  BY <1>1, <1>2, PayeeEnd
<1>3. CASE /\ ident[c].kind = "paid" => ident[c].payee # NoPayee /\ Machine(ident[c].payee)
           /\ Goto(c, "verified")
           /\ UNCHANGED <<rows, answered, lock, ident, local, outcome>>
  <2>1. pc'[c] = "verified" /\ \A d \in Call \ {c} : pc'[d] = pc[d]
    BY <1>3 DEF Goto, IdentityInv, TypeOK
  <2>2. ident[c].kind = "paid" => ident[c].payee \in Payee
    BY <1>1, <1>3 DEF Identity
  <2>3. QED
    BY <1>1, <1>3, <2>1, <2>2, AdvancePayee DEF local
<1>4. QED
  BY <1>2, <1>3 DEF Verify

LEMMA LockPayee ==
    ASSUME IdentityInv, PayeeInv, NEW c \in Call, LockReviewWrites(c)
    PROVE  PayeeInv'
<1>1. pc[c] = "verified" /\ outcome[c] # "stored"
  BY DEF LockReviewWrites, IdentityInv, TargetInv
<1>2. pc'[c] = "locked" /\ \A d \in Call \ {c} : pc'[d] = pc[d]
  BY DEF LockReviewWrites, Goto, IdentityInv, TypeOK
<1>3. ident[c].kind = "paid" => ident[c].payee \in Payee /\ Machine(ident[c].payee)
  BY <1>1 DEF PayeeInv, HeldPayee
<1>4. QED
  BY <1>1, <1>2, <1>3, AdvancePayee DEF LockReviewWrites, local

LEMMA EnsureServicePayee ==
    ASSUME IdentityInv, PayeeInv, NEW c \in Call, EnsureService(c)
    PROVE  PayeeInv'
<1> DEFINE i == ident[c]
           strong == i.endpoint # NoEndpoint /\ (i.kind # "unpaid" => i.payee # NoPayee)
<1>1. /\ i \in Identity /\ c \notin created /\ pc[c] = "locked"
      /\ outcome[c] \notin {"stored", "conflict"} /\ i.kind # "lookup"
      /\ i.kind = "paid" => i.payee \in Payee /\ Machine(i.payee)
  BY DEF EnsureService, IdentityInv, CallInv, TargetInv, PayeeInv, HeldPayee
<1>2. CASE target[c] # NoService /\ UNCHANGED <<rows, ident, local, outcome>> /\ Goto(c, "ensured")
  <2>1. pc'[c] = "ensured" /\ \A d \in Call \ {c} : pc'[d] = pc[d]
    BY <1>2 DEF Goto, IdentityInv, TypeOK
  <2>2. QED
    BY <1>1, <1>2, <2>1, AdvancePayee DEF local
<1>3. ASSUME target[c] = NoService PROVE c \notin taught
  BY <1>1, <1>3, IdentityAssumption DEF PayeeInv, Taught
<1>4. CASE target[c] = NoService /\ \E o \in {"rejected", "conflict"} : End(c, o)
  BY <1>1, <1>3, <1>4, PayeeEnd
<1>5. CASE \E s \in Registered \cup {NewId(i)} :
             /\ target[c] = NoService /\ strong
             /\ \/ s \in Registered /\ ResolvesTo(i, s) /\ UNCHANGED created
                \/ Missing(i) /\ s = NewId(i) /\ created' = created \cup {c}
             /\ target' = [target EXCEPT ![c] = s]
             /\ Goto(c, "ensured")
             /\ UNCHANGED <<rows, answered, lock, ident, offers, taught, outcome>>
  <2>1. PICK s \in Registered \cup {NewId(i)} :
             /\ target[c] = NoService /\ strong
             /\ \/ s \in Registered /\ ResolvesTo(i, s) /\ UNCHANGED created
                \/ Missing(i) /\ s = NewId(i) /\ created' = created \cup {c}
             /\ target' = [target EXCEPT ![c] = s]
             /\ Goto(c, "ensured")
             /\ UNCHANGED <<rows, answered, lock, ident, offers, taught, outcome>>
    BY <1>5
  <2>2. /\ pc'[c] = "ensured" /\ target'[c] = s
        /\ c \in created' => s = NewId(i)
        /\ \A d \in Call \ {c} : /\ pc'[d] = pc[d] /\ target'[d] = target[d]
                                /\ (d \in created' <=> d \in created)
    BY <1>1, <2>1 DEF Goto, IdentityInv, TypeOK
  <2>3. NewId(i).payee = IF i.kind = "unpaid" THEN NoPayee ELSE i.payee
    BY DEF NewId
  <2>4. i.kind = "placeholder" => i.payee = NoPayee \/ ~ Machine(i.payee)
    BY <1>1, <2>1 DEF PayeeInv, HeldPayee
  <2>5. HeldPayee(c)'
    BY <1>1, <2>1, <2>2, <2>3, <2>4 DEF HeldPayee
  <2>6. Learning(c)' /\ Taught(c)'
    BY <1>3, <2>1, <2>2 DEF Learning, Taught
  <2> HIDE DEF i, strong
  <2>7. UNCHANGED rows /\ pc[c] # "done" /\ outcome'[c] # "stored"
    BY <1>1, <2>1
  <2>8. \A d \in Call \ {c} :
          /\ pc'[d] = pc[d] /\ ident'[d] = ident[d] /\ target'[d] = target[d]
          /\ outcome'[d] = outcome[d] /\ (d \in created' <=> d \in created)
          /\ (d \in taught' <=> d \in taught)
    BY <2>1, <2>2
  <2>9. QED
    BY <2>5, <2>6, <2>7, <2>8, PayeeFrame
<1>6. QED
  BY <1>2, <1>4, <1>5 DEF EnsureService

LEMMA GiveUpPayee ==
    ASSUME IdentityInv, PayeeInv, NEW c \in Call, RefuseAlias(c) \/ Abort(c)
    PROVE  PayeeInv'
<1>1. CASE Abort(c)
  BY <1>1, PayeeEnd DEF Abort
<1>2. CASE RefuseAlias(c)
  <2>1. ident[c] \in Identity /\ pc[c] = "ensured"
    BY <1>2 DEF RefuseAlias, IdentityInv, CallInv
  <2>2. ASSUME c \in taught PROVE FALSE
    <3>1. PICK s \in ServiceId : Names(c, s) /\ Accepts(s, ident[c].payee) /\ target[c] = s
      BY <2>1, <2>2 DEF PayeeInv, Taught
    <3>2. Authorized(s, ident[c])
      BY <2>1, <3>1, NamedResolves DEF PayeeInv, ResolvesTo
    <3>3. QED
      BY <1>2, <3>1, <3>2 DEF RefuseAlias
  <2>3. QED
    BY <1>2, <2>1, <2>2, PayeeEnd DEF RefuseAlias
<1>3. QED
  BY <1>1, <1>2

LEMMA StutterPayee ==
    ASSUME IdentityInv, PayeeInv, UNCHANGED <<rows, pc, ident, target, taught, created, outcome>>
    PROVE  PayeeInv'
<1> USE DEF rows
<1>1. PayeeRows' /\ Proven' /\ OneUnvouched'
  BY DEF PayeeInv, PayeeRows, Proven, OneUnvouched, Has, Vouched, PaidTo, Registered
<1>2. /\ \A c, s : Names(c, s)' <=> Names(c, s)
      /\ \A s, p : Accepts(s, p)' <=> Accepts(s, p)
  BY DEF Names, Accepts, Has, Registered
<1>3. \A c \in Call : HeldPayee(c)' /\ Learning(c)' /\ Taught(c)'
  BY <1>2 DEF PayeeInv, HeldPayee, Learning, Taught
<1>4. QED
  BY <1>1, <1>3 DEF PayeeInv

(***************************************************************************)
(* The steps that write rows: no service loses an address, its provider or *)
(* the mark that its payee rotates.                                        *)
(***************************************************************************)

Grows ==
    \A s \in Registered :
        /\ s \in Registered'
        /\ services[s].provider # "none" => services'[s].provider # "none"
        /\ services[s].rotates => services'[s].rotates
        /\ \A p \in Payee : Has(s, p) /\ Machine(p) => Has(s, p)'

\* What is known of a call stays true while the rows grow.
LEMMA GrowsKeepsCall ==
    ASSUME IdentityInv, PayeeInv, Grows, NEW d \in Call, ident[d] \in Identity \/ pc[d] = "idle",
           pc'[d] = pc[d], ident'[d] = ident[d], target'[d] = target[d], outcome'[d] = outcome[d],
           d \in created' <=> d \in created, d \in taught' <=> d \in taught
    PROVE  HeldPayee(d)' /\ Learning(d)' /\ Taught(d)'
<1>1. ASSUME NEW s, Names(d, s) PROVE Names(d, s)'
  BY <1>1 DEF Grows, Names
<1>2. ASSUME NEW s \in Registered, NEW p, Accepts(s, p) PROVE Accepts(s, p)'
  BY <1>2 DEF Grows, Accepts, Machine
<1>3. HeldPayee(d)'
  <2>1. outcome[d] = "stored" => target[d] \in Registered
    BY DEF IdentityInv, TargetInv
  <2>2. QED
    BY <1>2, <2>1 DEF PayeeInv, HeldPayee, Machine
<1>4. Learning(d)'
  BY <1>1 DEF PayeeInv, Learning, Names, Grows, Machine
<1>5. Taught(d)'
  BY <1>1, <1>2 DEF PayeeInv, Taught, Names
<1>6. QED
  BY <1>3, <1>4, <1>5

LEMMA RegisterAdvertisedPayee ==
    ASSUME IdentityInv, PayeeInv, NEW c \in Call, RegisterAdvertised(c)
    PROVE  PayeeInv'
<1> PICK s \in ServiceId : s = target[c] /\ s \in Registered
  BY DEF RegisterAdvertised, IdentityInv, CallInv, Registered
<1> DEFINE fresh == IF services[s].rotates THEN {} ELSE offers[c] \ PayeesOf(s)
<1>1. /\ pc[c] = "answered"
      /\ ident[c] \in Identity /\ c \notin created /\ c \notin taught /\ outcome[c] # "stored"
      /\ Names(c, s) /\ services[s].provider # "none"
      /\ ident[c].payee \in Payee /\ Machine(ident[c].payee)
  BY DEF RegisterAdvertised, IdentityInv, CallInv, TargetInv, PayeeInv, Taught, Learning, Registered
<1>2. /\ payees' = payees \cup {<<s, p>> : p \in fresh}
      /\ vouched' = vouched \cup {<<s, p>> : p \in fresh}
      /\ UNCHANGED <<services, owner, ident, created, outcome>>
      /\ taught' = IF ident[c].payee \in offers[c] THEN taught \cup {c} ELSE taught
  BY DEF RegisterAdvertised
<1>3. /\ pc'[c] = "ready" /\ target'[c] = NoService
      /\ \A d \in Call \ {c} : pc'[d] = pc[d] /\ target'[d] = target[d]
  BY DEF RegisterAdvertised, Goto, IdentityInv, TypeOK
<1>4. /\ \A t \in ServiceId, p \in Payee :
           /\ <<t, p>> \in payees' <=> <<t, p>> \in payees \/ (t = s /\ p \in fresh)
           /\ <<t, p>> \in vouched' <=> <<t, p>> \in vouched \/ (t = s /\ p \in fresh)
      /\ Registered' = Registered
  <2> HIDE DEF fresh
  <2>1. QED
    BY <1>1, <1>2 DEF Registered
<1>5. fresh # {} => ~ services[s].rotates
  OBVIOUS
<1>6. ident[c].payee \in offers[c] => <<s, ident[c].payee>> \in payees' \/ services[s].rotates
  <2>1. ident[c].payee \in PayeesOf(s) => Has(s, ident[c].payee)
    BY <1>1, PayeesOfRows DEF PayeeInv
  <2>2. QED
    BY <1>1, <1>4, <2>1 DEF Has
<1> HIDE DEF fresh
<1>7. PayeeRows'
  BY <1>1, <1>2, <1>4, <1>5 DEF PayeeInv, PayeeRows, Has, Registered
<1>8. OneUnvouched'
  BY <1>4 DEF PayeeInv, OneUnvouched, Has, Vouched
<1>9. Proven'
  <2>1. ASSUME NEW t \in ServiceId, NEW p \in Payee, PaidTo(t, p) PROVE PaidTo(t, p)'
    BY <1>1, <1>2, <1>3, <2>1 DEF PaidTo
  <2>2. QED
    BY <1>4, <2>1 DEF PayeeInv, Proven, Has, Vouched
<1>10. Grows
  BY <1>2, <1>4 DEF Grows, Has, Registered
<1>11. ASSUME NEW d \in Call \ {c} PROVE HeldPayee(d)' /\ Learning(d)' /\ Taught(d)'
  <2>1. ident[d] \in Identity \/ pc[d] = "idle"
    BY DEF IdentityInv, CallInv
  <2>2. QED
    BY <1>2, <1>3, <1>10, <2>1, GrowsKeepsCall
<1>12. HeldPayee(c)' /\ Learning(c)'
  BY <1>1, <1>2, <1>3 DEF PayeeInv, HeldPayee, Learning
<1>13. Taught(c)'
  <2>1. SUFFICES ASSUME ident[c].payee \in offers[c] PROVE Taught(c)'
    BY <1>1, <1>2 DEF Taught
  <2>2. Names(c, s)' /\ Accepts(s, ident[c].payee)'
    BY <1>1, <1>2, <1>4, <1>6, <2>1 DEF Names, Accepts, Has
  <2>3. outcome[c] # "conflict"
    BY <1>1 DEF PayeeInv, HeldPayee
  <2>4. QED
    BY <1>1, <1>2, <1>3, <2>2, <2>3 DEF Taught
<1>14. QED
  BY <1>7, <1>8, <1>9, <1>11, <1>12, <1>13 DEF PayeeInv

LEMMA RepairPayeePayee ==
    ASSUME IdentityInv, PayeeInv, NEW s \in ServiceId, RepairPayee(s)
    PROVE  PayeeInv'
<1> DEFINE sound == {sp \in payees : sp[1] # s \/ Machine(sp[2])}
<1>1. /\ s \in Registered /\ services[s].provider = "machine"
      /\ services[s] \in Row /\ services[s] # NoService
      /\ UNCHANGED <<owner, pc, ident, target, taught, created, outcome>>
  BY DEF RepairPayee, local, Registered, IdentityInv, TypeOK
<1>2. ~ services[s].rotates
  <2>1. PICK p \in PayeesOf(s) : ~ Machine(p)
    BY DEF RepairPayee
  <2>2. p \in Payee
    BY DEF PayeesOf
  <2>3. QED
    BY <1>1, <2>1, <2>2, PayeesOfRows DEF PayeeInv, PayeeRows
<1>3. \E said \in SUBSET Payee, q \in Payee \cup {NoPayee}, r \in BOOLEAN :
        /\ \A p \in said : Machine(p)
        /\ q \in said \cup {NoPayee}
        /\ services' = [services EXCEPT ![s].payee = q, ![s].rotates = r]
        /\ payees' = sound \cup {<<s, p>> : p \in said}
        /\ vouched' = vouched \cup {<<s, p>> : p \in said}
  <2>1. ASSUME NEW said \in SUBSET Offers[services[s].endpoint]
        PROVE  said \in SUBSET Payee /\ \A p \in said : Machine(p)
    <3>1. services[s].endpoint \in Endpoint
      BY <1>1 DEF Row
    <3>2. QED
      BY <2>1, <3>1, IdentityAssumption DEF Machine
  <2>2. CASE \E said \in SUBSET Offers[services[s].endpoint] : \E p \in said :
               /\ services' = [services EXCEPT ![s].payee = p, ![s].rotates = FALSE]
               /\ payees' = sound \cup {<<s, q>> : q \in said}
               /\ vouched' = vouched \cup {<<s, q>> : q \in said}
    <3>1. PICK said \in SUBSET Offers[services[s].endpoint] : \E p \in said :
               /\ services' = [services EXCEPT ![s].payee = p, ![s].rotates = FALSE]
               /\ payees' = sound \cup {<<s, q>> : q \in said}
               /\ vouched' = vouched \cup {<<s, q>> : q \in said}
      BY <2>2
    <3>2. PICK p \in said :
               /\ services' = [services EXCEPT ![s].payee = p, ![s].rotates = FALSE]
               /\ payees' = sound \cup {<<s, q>> : q \in said}
               /\ vouched' = vouched \cup {<<s, q>> : q \in said}
      BY <3>1
    <3>3. said \in SUBSET Payee /\ \A q \in said : Machine(q)
      BY <2>1
    <3> HIDE DEF sound
    <3>4. p \in Payee \cup {NoPayee} /\ FALSE \in BOOLEAN
      BY <3>3
    <3>5. QED
      BY <3>2, <3>3, <3>4
  <2>3. CASE /\ services' = [services EXCEPT ![s].payee = NoPayee, ![s].rotates = TRUE]
             /\ payees' = sound
             /\ UNCHANGED vouched
    <3>1. /\ payees' = sound \cup {<<s, q>> : q \in {}}
          /\ vouched' = vouched \cup {<<s, q>> : q \in {}}
      BY <2>3
    <3> HIDE DEF sound
    <3>2. QED
      BY <2>3, <3>1
  <2>4. QED
    BY <2>2, <2>3 DEF RepairPayee
<1>4. PICK said \in SUBSET Payee, q \in Payee \cup {NoPayee}, r \in BOOLEAN :
        /\ \A p \in said : Machine(p)
        /\ q \in said \cup {NoPayee}
        /\ services' = [services EXCEPT ![s].payee = q, ![s].rotates = r]
        /\ payees' = sound \cup {<<s, p>> : p \in said}
        /\ vouched' = vouched \cup {<<s, p>> : p \in said}
  BY <1>3
<1>5. \A t \in ServiceId, p \in Payee :
        /\ <<t, p>> \in payees' <=>
             (<<t, p>> \in payees /\ (t # s \/ Machine(p))) \/ (t = s /\ p \in said)
        /\ <<t, p>> \in vouched' <=> <<t, p>> \in vouched \/ (t = s /\ p \in said)
  BY <1>4
<1>6. /\ services'[s].payee = q /\ services'[s].provider = "machine" /\ services'[s] # NoService
      /\ \A t \in ServiceId \ {s} : services'[t] = services[t]
  <2>1. services' = [services EXCEPT ![s] = [[services[s] EXCEPT !.payee = q] EXCEPT !.rotates = r]]
    BY <1>4 DEF IdentityInv, TypeOK
  <2> DEFINE row == [[services[s] EXCEPT !.payee = q] EXCEPT !.rotates = r]
  <2>2. row \in Row /\ row.payee = q /\ row.provider = "machine"
    BY <1>1 DEF Row
  <2>3. row # NoService
    BY <2>2, IdentityAssumption
  <2> HIDE DEF row
  <2>4. services' = [services EXCEPT ![s] = row]
    BY <2>1 DEF row
  <2>5. QED
    BY <2>2, <2>3, <2>4 DEF IdentityInv, TypeOK
<1> HIDE DEF sound
<1>7. Registered' = Registered
  BY <1>1, <1>6 DEF Registered
<1>8. PayeeRows'
  <2>1. \A t \in ServiceId, p \in Payee : Has(t, p)' => t \in Registered
    BY <1>1, <1>5 DEF PayeeInv, PayeeRows, Has
  <2>2. /\ q # NoPayee => <<s, q>> \in payees'
        /\ \A p \in Payee : <<s, p>> \in payees' => Machine(p)
    BY <1>4, <1>5
  <2>3. \A t \in Registered \ {s} :
          /\ services'[t].payee # NoPayee => <<t, services'[t].payee>> \in payees'
          /\ services'[t].provider = "none" => \A p \in Payee : <<t, p>> \notin payees'
          /\ services'[t].rotates => \A p \in Payee : <<t, p>> \in payees' => Machine(p)
    <3>1. ASSUME NEW t \in Registered \ {s} PROVE t \in ServiceId /\ services[t] \in Row
      BY DEF Registered, IdentityInv, TypeOK
    <3>2. QED
      BY <1>5, <1>6, <3>1 DEF PayeeInv, PayeeRows, Has, Row
  <2>4. QED
    BY <1>6, <1>7, <2>1, <2>2, <2>3 DEF PayeeRows, Has, Machine
<1>9. OneUnvouched'
  BY <1>5 DEF PayeeInv, OneUnvouched, Has, Vouched, Machine
<1>10. Proven'
  <2>1. ASSUME NEW t, NEW p, PaidTo(t, p) PROVE PaidTo(t, p)'
    BY <1>1, <2>1 DEF PaidTo
  <2>2. QED
    BY <1>5, <2>1 DEF PayeeInv, Proven, Has, Vouched, Machine
<1>11. Grows
  BY <1>1, <1>2, <1>5, <1>6, <1>7 DEF Grows, Has, Registered
<1>12. ASSUME NEW d \in Call PROVE HeldPayee(d)' /\ Learning(d)' /\ Taught(d)'
  <2>1. ident[d] \in Identity \/ pc[d] = "idle"
    BY DEF IdentityInv, CallInv
  <2>2. QED
    BY <1>1, <1>11, <2>1, GrowsKeepsCall
<1>13. QED
  BY <1>8, <1>9, <1>10, <1>12 DEF PayeeInv

\* What a call whose review is stored leaves of itself and the others.
LEMMA StoreCalls ==
    ASSUME IdentityInv, PayeeInv, NEW c \in Call, Store(c)
    PROVE  /\ pc[c] = "ensured" /\ pc'[c] = "done" /\ outcome'[c] = "stored"
           /\ outcome[c] # "stored"
           /\ UNCHANGED <<vouched, ident, target, taught, created>>
           /\ \A d \in Call \ {c} : pc'[d] = pc[d] /\ outcome'[d] = outcome[d]
           /\ ident[c] \in Identity
           /\ target[c] \in ServiceId /\ target[c].endpoint = ident[c].endpoint
           /\ c \notin created => target[c] \in Registered
           /\ ident[c].kind = "paid" => ident[c].payee \in Payee /\ Machine(ident[c].payee)
<1>1. /\ pc[c] = "ensured" /\ outcome[c] # "stored" /\ ident[c] \in Identity
      /\ target[c] \in ServiceId /\ target[c].endpoint = ident[c].endpoint
      /\ c \notin created => target[c] \in Registered
      /\ ident[c].kind = "paid" => ident[c].payee \in Payee /\ Machine(ident[c].payee)
  BY DEF Store, IdentityInv, TypeOK, CallInv, TargetInv, PayeeInv, HeldPayee
<1>2. /\ pc' = [pc EXCEPT ![c] = "done"] /\ outcome' = [outcome EXCEPT ![c] = "stored"]
      /\ UNCHANGED <<vouched, ident, target, taught, created>>
  BY DEF Store, Goto, local
<1>3. QED
  BY <1>1, <1>2 DEF IdentityInv, TypeOK

\* The rows a stored review may leave, whichever way it registers its payee.
LEMMA StoreFrame ==
    ASSUME IdentityInv, PayeeInv, NEW c \in Call, Store(c), NEW s \in ServiceId, s = target[c],
           PayeeRows', OneUnvouched', Grows, s \in Registered',
           ident[c].kind = "paid" => <<s, ident[c].payee>> \in payees' \/ services'[s].rotates,
           \A t \in ServiceId, p \in Payee :
              <<t, p>> \in payees' /\ <<t, p>> \notin payees /\ Machine(p) =>
                t = s /\ p = ident[c].payee /\ ident[c].kind = "paid"
    PROVE  PayeeInv'
<1>1. ASSUME NEW t, NEW p, PaidTo(t, p) PROVE PaidTo(t, p)'
  BY <1>1, StoreCalls DEF PaidTo
<1>2. ident[c].kind = "paid" => \A p : p = ident[c].payee => PaidTo(s, p)'
  BY StoreCalls DEF PaidTo
<1>3. Proven'
  BY <1>1, <1>2, StoreCalls DEF PayeeInv, Proven, Has, Vouched
<1>4. ASSUME NEW d \in Call \ {c} PROVE HeldPayee(d)' /\ Learning(d)' /\ Taught(d)'
  <2>1. ident[d] \in Identity \/ pc[d] = "idle"
    BY DEF IdentityInv, CallInv
  <2>2. QED
    BY <2>1, StoreCalls, GrowsKeepsCall
<1>5. HeldPayee(c)' /\ Learning(c)'
  BY StoreCalls DEF PayeeInv, HeldPayee, Learning, Accepts, Has
<1>6. Taught(c)'
  <2>1. SUFFICES ASSUME c \in taught PROVE Taught(c)'
    BY StoreCalls DEF Taught
  <2>2. PICK t \in ServiceId : Names(c, t) /\ Accepts(t, ident[c].payee)
    BY <2>1 DEF PayeeInv, Taught
  <2>3. Names(c, t)' /\ Accepts(t, ident[c].payee)'
    BY <2>2, StoreCalls DEF Grows, Names, Accepts, Has
  <2>4. QED
    BY <2>3, StoreCalls DEF Taught
<1>7. QED
  BY <1>3, <1>4, <1>5, <1>6 DEF PayeeInv

\* A stored review creates its service.
LEMMA CreatePayee ==
    ASSUME IdentityInv, PayeeInv, NEW c \in Call, Store(c), c \in created, Create(c)
    PROVE  PayeeInv'
<1> PICK s \in ServiceId : s = target[c]
  BY StoreCalls
<1> DEFINE p == s.payee
           new == [endpoint |-> s.endpoint, provider |-> Provider(p), payee |-> p, rotates |-> FALSE]
<1>1. s \notin Registered /\ \A q \in Payee : <<s, q>> \notin payees
  <2>1. owner[s.endpoint] = NoService
    BY StoreCalls DEF IdentityInv, TargetInv
  <2>2. s # NoService
    BY IdentityAssumption
  <2>3. s \notin Registered
    BY <2>1, <2>2 DEF IdentityInv, RowsInv
  <2>4. QED
    BY <2>3 DEF PayeeInv, PayeeRows, Has
<1>2. new # NoService
  <2>1. new \in Row
    BY DEF Row, ServiceId, Provider
  <2>2. QED
    BY <2>1, IdentityAssumption
<1>3. /\ services'[s] = new
      /\ \A t \in ServiceId \ {s} : services'[t] = services[t]
      /\ payees' = IF p = NoPayee THEN payees ELSE payees \cup {<<s, p>>}
  BY DEF Create, IdentityInv, TypeOK
<1>4. Registered' = Registered \cup {s}
  BY <1>2, <1>3 DEF Registered
<1>5. \A t \in ServiceId, q \in Payee :
        <<t, q>> \in payees' <=> <<t, q>> \in payees \/ (t = s /\ q = p)
  BY <1>3, IdentityAssumption
<1>6. p \in Payee \cup {NoPayee} /\ (Provider(p) = "none" => p = NoPayee)
  BY DEF ServiceId, Provider
<1>7. p \in Payee /\ Machine(p) => ident[c].kind = "paid" /\ p = ident[c].payee
  BY StoreCalls, IdentityAssumption DEF PayeeInv, HeldPayee, Identity
<1>8. ident[c].kind = "paid" => p = ident[c].payee
  BY StoreCalls DEF PayeeInv, HeldPayee
<1> HIDE DEF p
<1>9. PayeeRows'
  <2>1. \A t \in ServiceId, q \in Payee : Has(t, q)' => t \in Registered'
    BY <1>4, <1>5 DEF PayeeInv, PayeeRows, Has
  <2>2. ASSUME NEW t \in Registered
        PROVE  t \in ServiceId \ {s} /\ services'[t] = services[t] /\ services[t] \in Row
    BY <1>1, <1>3 DEF Registered, IdentityInv, TypeOK
  <2>3. \A t \in Registered :
          /\ services'[t].payee # NoPayee => <<t, services'[t].payee>> \in payees'
          /\ services'[t].provider = "none" => \A q \in Payee : <<t, q>> \notin payees'
          /\ services'[t].rotates => \A q \in Payee : <<t, q>> \in payees' => Machine(q)
    BY <1>5, <2>2 DEF PayeeInv, PayeeRows, Has, Row
  <2>4. /\ services'[s].payee # NoPayee => <<s, services'[s].payee>> \in payees'
        /\ services'[s].provider = "none" => \A q \in Payee : <<s, q>> \notin payees'
        /\ ~ services'[s].rotates
    BY <1>1, <1>3, <1>5, <1>6, IdentityAssumption
  <2>5. QED
    BY <1>4, <2>1, <2>3, <2>4 DEF PayeeRows, Has, Machine
<1>10. OneUnvouched'
  BY <1>1, <1>5, StoreCalls DEF PayeeInv, OneUnvouched, Has, Vouched, Machine
<1>11. Grows
  BY <1>1, <1>3, <1>4, <1>5 DEF Grows, Has, Registered
<1>12. ident[c].kind = "paid" => <<s, ident[c].payee>> \in payees'
  BY <1>5, <1>8, StoreCalls
<1>13. \A t \in ServiceId, q \in Payee :
         <<t, q>> \in payees' /\ <<t, q>> \notin payees /\ Machine(q) =>
           t = s /\ q = ident[c].payee /\ ident[c].kind = "paid"
  BY <1>5, <1>7
<1>14. s \in Registered'
  BY <1>4
<1>15. QED
  BY <1>9, <1>10, <1>11, <1>12, <1>13, <1>14, StoreFrame

\* A stored payment registers the payee it was proved to reach.
LEMMA RegisterAliasPayee ==
    ASSUME IdentityInv, PayeeInv, NEW c \in Call, Store(c), c \notin created,
           ident[c].kind = "paid", RegisterAlias(c)
    PROVE  PayeeInv'
<1> PICK s \in ServiceId : s = target[c] /\ s \in Registered
  BY StoreCalls
<1> PICK p \in Payee : p = ident[c].payee /\ Machine(p)
  BY StoreCalls
<1>1. PayeeAuthorized(s, p) /\ p # NoPayee
  BY IdentityAssumption DEF RegisterAlias, Authorized
<1>2. services[s] \in Row /\ services[s] # NoService
  BY DEF Registered, IdentityInv, TypeOK
<1>3. CASE services[s].rotates
  <2>1. UNCHANGED <<services, payees>>
    BY <1>3 DEF RegisterAlias
  <2>2. PayeeRows' /\ OneUnvouched' /\ Grows /\ s \in Registered'
    BY <2>1, StoreCalls DEF PayeeInv, PayeeRows, OneUnvouched, Grows, Has, Vouched, Registered
  <2>3. services'[s].rotates
    BY <1>3, <2>1
  <2>4. QED
    BY <2>1, <2>2, <2>3, StoreFrame
<1>4. CASE ~ services[s].rotates
  <2> DEFINE row == IF services[s].provider # "none" THEN services[s]
                    ELSE [[services[s] EXCEPT !.provider = "machine"] EXCEPT !.payee = p]
  <2>1. /\ row \in Row /\ row # NoService /\ row.provider # "none" /\ ~ row.rotates
        /\ row.payee \in {services[s].payee, p}
    <3>1. /\ row \in Row /\ row.provider # "none" /\ ~ row.rotates
          /\ row.payee \in {services[s].payee, p}
      BY <1>2, <1>4 DEF Row
    <3>2. QED
      BY <3>1, IdentityAssumption
  <2>2. services' = [services EXCEPT ![s] = row] /\ payees' = payees \cup {<<s, p>>}
    BY <1>2, <1>4 DEF RegisterAlias, IdentityInv, TypeOK
  <2> HIDE DEF row
  <2>3. /\ services'[s] = row
        /\ \A t \in ServiceId \ {s} : services'[t] = services[t]
    BY <2>2 DEF IdentityInv, TypeOK
  <2>4. \A t \in ServiceId, q \in Payee :
          <<t, q>> \in payees' <=> <<t, q>> \in payees \/ (t = s /\ q = p)
    BY <2>2
  <2>5. Registered' = Registered
    BY <1>2, <2>1, <2>3 DEF Registered
  <2>6. PayeeRows'
    <3>1. \A t \in ServiceId, q \in Payee : Has(t, q)' => t \in Registered
      BY <2>4 DEF PayeeInv, PayeeRows, Has
    <3>2. ASSUME NEW t \in Registered, t # s
          PROVE  t \in ServiceId /\ services'[t] = services[t] /\ services[t] \in Row
      BY <2>3, <3>2 DEF Registered, IdentityInv, TypeOK
    <3>3. \A t \in Registered \ {s} :
            /\ services'[t].payee # NoPayee => <<t, services'[t].payee>> \in payees'
            /\ services'[t].provider = "none" => \A q \in Payee : <<t, q>> \notin payees'
            /\ services'[t].rotates => \A q \in Payee : <<t, q>> \in payees' => Machine(q)
      BY <2>4, <3>2 DEF PayeeInv, PayeeRows, Has, Row
    <3>4. services'[s].payee # NoPayee => <<s, services'[s].payee>> \in payees'
      BY <1>2, <2>1, <2>3, <2>4 DEF PayeeInv, PayeeRows, Has, Row
    <3>5. QED
      BY <2>1, <2>3, <2>5, <3>1, <3>3, <3>4 DEF PayeeRows, Has, Machine
  <2>7. OneUnvouched'
    <3>1. ASSUME NEW q \in Payee, Has(s, q), Family[q] = Family[p]
          PROVE  Has(s, p)
      <4>1. q \in PayeesOf(s)
        BY <3>1, PayeesOfRows DEF PayeeInv
      <4>2. services[s].provider # "none"
        BY <3>1 DEF PayeeInv, PayeeRows
      <4>3. p \in PayeesOf(s)
        BY <1>1, <1>4, <3>1, <4>1, <4>2 DEF PayeeAuthorized
      <4>4. QED
        BY <4>3, PayeesOfRows DEF PayeeInv
    <3>2. \A q \in Payee : <<s, q>> \in payees /\ Family[q] = Family[p] => <<s, p>> \in payees
      BY <3>1 DEF Has
    <3>3. QED
      BY <2>4, <3>2, StoreCalls DEF PayeeInv, OneUnvouched, Has, Vouched, Machine
  <2>8. Grows
    BY <1>4, <2>1, <2>3, <2>4, <2>5 DEF Grows, Has, Registered
  <2>9. <<s, ident[c].payee>> \in payees' /\ s \in Registered'
    BY <2>4, <2>5
  <2>10. \A t \in ServiceId, q \in Payee :
           <<t, q>> \in payees' /\ <<t, q>> \notin payees /\ Machine(q) =>
             t = s /\ q = ident[c].payee /\ ident[c].kind = "paid"
    BY <2>4
  <2>11. QED
    BY <2>6, <2>7, <2>8, <2>9, <2>10, StoreFrame
<1>5. QED
  BY <1>3, <1>4

LEMMA StorePayee ==
    ASSUME IdentityInv, PayeeInv, NEW c \in Call, Store(c)
    PROVE  PayeeInv'
<1>1. CASE c \in created /\ Create(c)
  BY <1>1, CreatePayee
<1>2. CASE c \notin created /\ ident[c].kind = "paid" /\ RegisterAlias(c)
  BY <1>2, RegisterAliasPayee
<1>3. CASE c \notin created /\ ident[c].kind # "paid" /\ UNCHANGED <<services, owner, payees>>
  <2>1. PayeeRows' /\ OneUnvouched' /\ Grows
    BY <1>3, StoreCalls DEF PayeeInv, PayeeRows, OneUnvouched, Grows, Has, Vouched, Registered
  <2>2. PICK s \in ServiceId : s = target[c] /\ s \in Registered
    BY <1>3, StoreCalls
  <2>3. s \in Registered'
    BY <1>3, <2>2 DEF Registered
  <2>4. QED
    BY <1>3, <2>1, <2>2, <2>3, StoreFrame
<1>4. QED
  BY <1>1, <1>2, <1>3 DEF Store

\* Every step keeps it.
LEMMA PayeeNext == IdentityInv /\ PayeeInv /\ [Next]_vars => PayeeInv'
<1> SUFFICES ASSUME IdentityInv, PayeeInv, [Next]_vars PROVE PayeeInv'
  OBVIOUS
<1>1. ASSUME NEW c \in Call, NEW q \in Asked, Ask(c, q) PROVE PayeeInv'
  BY <1>1, AskPayee
<1>2. ASSUME NEW c \in Call, FindCandidate(c) PROVE PayeeInv'
  BY <1>2, FindCandidatePayee
<1>3. ASSUME NEW c \in Call, Probe(c) \/ FailToLearn(c) PROVE PayeeInv'
  BY <1>3, LearnPayee
<1>4. ASSUME NEW c \in Call, RegisterAdvertised(c) PROVE PayeeInv'
  BY <1>4, RegisterAdvertisedPayee
<1>5. ASSUME NEW c \in Call, Resolve(c) PROVE PayeeInv'
  BY <1>5, ResolvePayee
<1>6. ASSUME NEW c \in Call, Verify(c) PROVE PayeeInv'
  BY <1>6, VerifyPayee
<1>7. ASSUME NEW c \in Call, LockReviewWrites(c) PROVE PayeeInv'
  BY <1>7, LockPayee
<1>8. ASSUME NEW c \in Call, EnsureService(c) PROVE PayeeInv'
  BY <1>8, EnsureServicePayee
<1>9. ASSUME NEW c \in Call, Store(c) PROVE PayeeInv'
  BY <1>9, StorePayee
<1>10. ASSUME NEW c \in Call, RefuseAlias(c) \/ Abort(c) PROVE PayeeInv'
  BY <1>10, GiveUpPayee
<1>11. ASSUME NEW s \in ServiceId, Forget(s) PROVE PayeeInv'
  BY <1>11, StutterPayee DEF Forget, local
<1>12. ASSUME NEW s \in ServiceId, RepairPayee(s) PROVE PayeeInv'
  BY <1>12, RepairPayeePayee
<1>13. CASE UNCHANGED vars
  BY <1>13, StutterPayee DEF vars, local
<1>14. QED
  BY <1>1, <1>2, <1>3, <1>4, <1>5, <1>6, <1>7, <1>8, <1>9, <1>10, <1>11, <1>12, <1>13
     DEF Next, Finished

\* Where every payee comes from, and what every call knows of its own, in every
\* reachable state.
THEOREM PayeeInvariance == Spec => []PayeeInv
BY PayeeInit, PayeeNext, IdentityInvariance, PTL DEF Spec

\* However payments, 402s and repairs interleave, payments alone never give a
\* service two payees of one address family.
THEOREM OnePaidPayeePerFamilyAlways == Spec => []OnePaidPayeePerFamily
<1>1. PayeeInv => OnePaidPayeePerFamily
  BY PayeesOfRows DEF PayeeInv, OneUnvouched, OnePaidPayeePerFamily, Vouched, PayeesOf, Registered
<1>2. QED
  BY <1>1, PayeeInvariance, PTL

\* A review is never left on a service that its payment was not a payment to.
THEOREM PaidPayeeIsRegisteredAlways == Spec => []PaidPayeeIsRegistered
<1>1. IdentityInv /\ PayeeInv => PaidPayeeIsRegistered
  <2> SUFFICES ASSUME IdentityInv, PayeeInv, NEW c \in Call, outcome[c] = "stored",
                      ident[c].kind = "paid"
               PROVE  ident[c].payee \in PayeesOf(target[c]) \/ services[target[c]].rotates
    BY DEF PaidPayeeIsRegistered
  <2>1. Accepts(target[c], ident[c].payee) /\ target[c] \in Registered
    BY DEF IdentityInv, TargetInv, PayeeInv, HeldPayee
  <2>2. QED
    BY <2>1, PayeesOfRows DEF PayeeInv, Accepts
<1>2. QED
  BY <1>1, IdentityInvariance, PayeeInvariance, PTL

\* No payee a payment could be sent to becomes a service's by being named.
THEOREM PayeesAreProvenAlways == Spec => []PayeesAreProven
<1>1. PayeeInv => PayeesAreProven
  BY PayeesOfRows DEF PayeeInv, Proven, PaidTo, Vouched, PayeesAreProven, PayeesOf, Registered
<1>2. QED
  BY <1>1, PayeeInvariance, PTL

\* What a call has learned from the 402 is not lost before it is used.
THEOREM TaughtIsAcceptedAlways == Spec => []TaughtIsAccepted
<1>1. IdentityInv /\ PayeeInv => TaughtIsAccepted
  BY DEF IdentityInv, TypeOK, PayeeInv, Taught, TaughtIsAccepted
<1>2. QED
  BY <1>1, IdentityInvariance, PayeeInvariance, PTL
=============================================================================
