-------------------------- MODULE ServiceIdentity --------------------------
(***************************************************************************)
(* Which service a call is about, and which payees the service has:        *)
(* resolve_service, create_service_from_identity,                          *)
(* register_machine_payment_alias (identity.py), learn_advertised_payee    *)
(* (advertised.py) and scripts/fix_machine_payees.py.                      *)
(*                                                                         *)
(* A call names a service by its id, its endpoint, or a payee alone, and   *)
(* may name the payee it paid.  First it may ask the service's own 402     *)
(* whether it advertises that payee.  A review resolves the service when   *)
(* it begins, again when it creates the service and again when it          *)
(* registers the payee: services and payees change in between.             *)
(*                                                                         *)
(* The rails x402 and mppx are one here, as they are to the code that      *)
(* compares payees.  A directory slug is left out: it selects a service    *)
(* as an endpoint does.  Callers supply a provider and a payee together or *)
(* not at all, and only ids of services that exist.  The advisory lock of  *)
(* registration is taken under lock_review_writes and adds nothing to it.  *)
(* The row lock of a service is held from the registration of its payee to *)
(* the commit, so the two are one step.                                    *)
(***************************************************************************)
EXTENDS Naturals, FiniteSets

CONSTANTS
    Endpoint, Payee,
    Family,       \* the address family of a payee; "none" is not an address
    Offers,       \* Offers[e]: the payees the 402 of e may advertise
    Call,
    Asked,        \* what calls ask
    Legacy,       \* a service registered before payees were validated
    NoEndpoint, NoPayee, NoService, NoCall, NoAnswer, NoIdentity

\* A generated id, modelled by what it is a hash of.
ServiceId == [endpoint : Endpoint, payee : Payee \cup {NoPayee}]

\* idOf: the endpoint whose service id is supplied.
Question ==
    [kind : {"paid", "unpaid", "placeholder", "lookup"},
     idOf : Endpoint \cup {NoEndpoint}, endpoint : Endpoint \cup {NoEndpoint},
     payee : Payee \cup {NoPayee}]

Identity ==
    [kind : {"paid", "unpaid", "placeholder", "lookup"},
     id : ServiceId \cup {NoService}, endpoint : Endpoint \cup {NoEndpoint},
     payee : Payee \cup {NoPayee}]

\* A row of services.
Row == [endpoint : Endpoint, provider : {"none", "machine", "other"},
        payee : Payee \cup {NoPayee}, rotates : BOOLEAN]

ASSUME IdentityAssumption ==
    /\ Family \in [Payee -> {"evm", "solana", "none"}]
    /\ Offers \in [Endpoint -> SUBSET {p \in Payee : Family[p] # "none"}]
    /\ Asked \subseteq Question
    /\ Legacy \in ServiceId /\ Legacy.payee \in Payee
    /\ NoEndpoint \notin Endpoint /\ NoPayee \notin Payee /\ NoService \notin ServiceId \cup Row
    /\ NoCall \notin Call /\ NoIdentity \notin Identity

\* A payee of another provider, a placeholder's or one registered before payees
\* were validated, is no address.
ASSUME PayeeAssumption ==
    /\ Family[Legacy.payee] = "none"
    /\ \A q \in Asked : q.kind = "placeholder" /\ q.payee # NoPayee => Family[q.payee] = "none"

VARIABLES
    services,   \* services[s]: the row of s, or NoService
    owner,      \* owner[e]: the service with the api_endpoint identifier e
    payees,     \* the payment_target identifiers, as <<service, payee>>
    vouched,    \* history: the payees a 402 advertised, as <<service, payee>>
    answered,   \* _cooldown: what the 402 of a service said, or NoAnswer
    lock,       \* lock_review_writes
    pc,
    ident,      \* ident[c]: what c asks, or NoIdentity
    target,     \* target[c]: the service c probes, or has resolved or created
    offers,     \* offers[c]: the 402 c has read
    taught,     \* the calls whose payee the 402 advertised
    created,    \* the calls that create their service
    outcome     \* outcome[c]: what became of c

rows  == <<services, owner, payees, vouched>>
local == <<target, offers, taught, created>>
vars  == <<rows, answered, lock, pc, ident, local, outcome>>

Machine(p)  == Family[p] # "none"
Provider(p) == IF p = NoPayee THEN "none" ELSE IF Machine(p) THEN "machine" ELSE "other"
Registered  == {s \in ServiceId : services[s] # NoService}

Init ==
    /\ services = [s \in ServiceId |->
                     IF s = Legacy
                     THEN [endpoint |-> s.endpoint, provider |-> "machine",
                           payee |-> s.payee, rotates |-> FALSE]
                     ELSE NoService]
    /\ owner = [e \in Endpoint |-> IF e = Legacy.endpoint THEN Legacy ELSE NoService]
    /\ payees = {<<Legacy, Legacy.payee>>}
    /\ vouched = {}
    /\ answered = [s \in ServiceId |-> NoAnswer]
    /\ lock = NoCall
    /\ pc = [c \in Call |-> "idle"]
    /\ ident = [c \in Call |-> NoIdentity]
    /\ target = [c \in Call |-> NoService]
    /\ offers = [c \in Call |-> {}]
    /\ taught = {}
    /\ created = {}
    /\ outcome = [c \in Call |-> "none"]

(***************************************************************************)
(* Resolution.                                                             *)
(***************************************************************************)

\* A service's payees: its canonical payee and its payment_target identifiers.
PayeesOf(s) == {p \in Payee : <<s, p>> \in payees \/ services[s].payee = p}

\* A payee selects a service only when nothing else is named.
Matches(i) ==
    IF i.id = NoService /\ i.endpoint = NoEndpoint
    THEN {s \in Registered : i.payee # NoPayee /\ i.payee \in PayeesOf(s)}
    ELSE {s \in Registered :
            s = i.id \/ (i.endpoint # NoEndpoint /\ owner[i.endpoint] = s)}

\* Faulty: a payment adds a payee of a family the service already has.
PayeeAuthorizedAgain(s, p) ==
    \/ services[s].provider = "none"
    \/ p \in PayeesOf(s)
    \/ Machine(p) /\ services[s].provider = "machine"

\* _machine_payment_alias_authorized: a registered payee, any payee of a
\* service whose payee rotates, or the first payee of an address family.
PayeeAuthorized(s, p) ==
    \/ services[s].provider = "none"
    \/ p \in PayeesOf(s)
    \/ Machine(p) /\ services[s].rotates
    \/ /\ Machine(p)
       /\ services[s].provider = "machine"
       /\ \A q \in PayeesOf(s) : Family[q] # Family[p]

\* Faulty: an endpoint that is not the service's is let pass.
AuthorizedAnywhere(s, i) ==
    /\ i.id \in {NoService, s}
    /\ i.payee # NoPayee => PayeeAuthorized(s, i.payee)

\* _resolved_identity.
Authorized(s, i) ==
    /\ i.id \in {NoService, s}
    /\ i.endpoint # NoEndpoint =>
         services[s].endpoint = i.endpoint \/ owner[i.endpoint] = s
    /\ i.payee # NoPayee => PayeeAuthorized(s, i.payee)

ResolvesTo(i, s) == Matches(i) = {s} /\ Authorized(s, i)
Missing(i)  == Matches(i) = {}
Conflict(i) == ~ Missing(i) /\ \A s \in Registered : ~ ResolvesTo(i, s)

\* The identity a review goes on with: what it left out is the service's.
Resolved(i, s) ==
    [i EXCEPT !.id = s,
              !.endpoint = IF @ = NoEndpoint THEN services[s].endpoint ELSE @,
              !.payee = IF @ = NoPayee THEN services[s].payee ELSE @]

(***************************************************************************)
(* Calls.                                                                  *)
(***************************************************************************)
Goto(c, step) == pc' = [pc EXCEPT ![c] = step]

\* The call ends without a write; its transaction, if any, is rolled back.
End(c, o) ==
    /\ outcome' = [outcome EXCEPT ![c] = o]
    /\ lock' = IF lock = c THEN NoCall ELSE lock
    /\ Goto(c, "done")
    /\ UNCHANGED <<rows, answered, ident, local>>

Ask(c, q) ==
    /\ pc[c] = "idle"
    /\ q.idOf # NoEndpoint => owner[q.idOf] # NoService
    /\ ident' = [ident EXCEPT ![c] =
                   [kind |-> q.kind, endpoint |-> q.endpoint, payee |-> q.payee,
                    id |-> IF q.idOf = NoEndpoint THEN NoService ELSE owner[q.idOf]]]
    /\ Goto(c, "asked")
    /\ UNCHANGED <<rows, answered, lock, local, outcome>>

\* unregistered_payee_service: the payee is the whole reason of a conflict.
Candidate(i, s) ==
    /\ i.payee # NoPayee /\ Machine(i.payee)
    /\ i.id # NoService \/ i.endpoint # NoEndpoint
    /\ Conflict(i)
    /\ ResolvesTo([i EXCEPT !.payee = NoPayee], s)
    /\ services[s].provider = "machine"
    /\ ~ services[s].rotates

\* An answer that is not older than its cooldown is not asked for again; a
\* probe that is under way counts as an answer with no offer.
FindCandidate(c) ==
    /\ pc[c] = "asked"
    /\ \/ \E s \in Registered :
            /\ Candidate(ident[c], s)
            /\ target' = [target EXCEPT ![c] = s]
            /\ IF answered[s] = NoAnswer
               THEN /\ answered' = [answered EXCEPT ![s] = {}]
                    /\ Goto(c, "probing")
                    /\ UNCHANGED offers
               ELSE /\ offers' = [offers EXCEPT ![c] = answered[s]]
                    /\ Goto(c, "answered")
                    /\ UNCHANGED answered
       \/ /\ \A s \in Registered : ~ Candidate(ident[c], s)
          /\ Goto(c, "ready")
          /\ UNCHANGED <<answered, target, offers>>
    /\ UNCHANGED <<rows, lock, ident, taught, created, outcome>>

\* The 402 as it is now: an outage advertises nothing.
Probe(c) ==
    /\ pc[c] = "probing"
    /\ \E said \in SUBSET Offers[services[target[c]].endpoint] :
         /\ offers' = [offers EXCEPT ![c] = said]
         /\ answered' = [answered EXCEPT ![target[c]] = said]
    /\ Goto(c, "answered")
    /\ UNCHANGED <<rows, lock, ident, target, taught, created, outcome>>

\* The cooldown is over, or the table is full and cleared, perhaps while a
\* probe is under way.
Forget(s) ==
    /\ answered[s] # NoAnswer
    /\ answered' = [answered EXCEPT ![s] = NoAnswer]
    /\ UNCHANGED <<rows, lock, pc, ident, local, outcome>>

\* Faulty: the payees a cached 402 advertises are not registered again.
RegisterAdvertisedOnce(c) ==
    /\ pc[c] = "answered"
    /\ LET s == target[c]
           fresh == {p \in offers[c] : offers[c] # answered[s] /\ p \notin PayeesOf(s)}
       IN /\ payees' = payees \cup {<<s, p>> : p \in fresh}
          /\ vouched' = vouched \cup {<<s, p>> : p \in fresh}
    /\ taught' = IF ident[c].payee \in offers[c] THEN taught \cup {c} ELSE taught
    /\ target' = [target EXCEPT ![c] = NoService]
    /\ Goto(c, "ready")
    /\ UNCHANGED <<services, owner, answered, lock, ident, offers, created, outcome>>

\* register_advertised_payees, whatever became of the service meanwhile.
RegisterAdvertised(c) ==
    /\ pc[c] = "answered"
    /\ LET s == target[c]
           fresh == IF services[s].rotates THEN {} ELSE offers[c] \ PayeesOf(s)
       IN /\ payees' = payees \cup {<<s, p>> : p \in fresh}
          /\ vouched' = vouched \cup {<<s, p>> : p \in fresh}
    /\ taught' = IF ident[c].payee \in offers[c] THEN taught \cup {c} ELSE taught
    /\ target' = [target EXCEPT ![c] = NoService]
    /\ Goto(c, "ready")
    /\ UNCHANGED <<services, owner, answered, lock, ident, offers, created, outcome>>

\* _learn_payees swallows every failure; the call resolves as it would have.
FailToLearn(c) ==
    /\ pc[c] \in {"asked", "probing", "answered"}
    /\ target' = [target EXCEPT ![c] = NoService]
    /\ Goto(c, "ready")
    /\ UNCHANGED <<rows, answered, lock, ident, offers, taught, created, outcome>>

Resolve(c) ==
    /\ pc[c] = "ready"
    /\ \/ Conflict(ident[c]) /\ End(c, "conflict")
       \/ Missing(ident[c]) /\ ident[c].kind = "lookup" /\ End(c, "not_found")
       \/ /\ Missing(ident[c]) /\ ident[c].kind # "lookup"
          /\ Goto(c, "resolved")
          /\ UNCHANGED <<rows, answered, lock, ident, local, outcome>>
       \/ \E s \in Registered :
            /\ ResolvesTo(ident[c], s)
            /\ IF ident[c].kind = "lookup" THEN End(c, "found")
               ELSE /\ target' = [target EXCEPT ![c] = s]
                    /\ ident' = [ident EXCEPT ![c] = Resolved(@, s)]
                    /\ Goto(c, "resolved")
                    /\ UNCHANGED <<rows, answered, lock, offers, taught, created, outcome>>

\* verify_review_payment: a payment is proved to reach the payee, which must
\* be known.
Verify(c) ==
    /\ pc[c] = "resolved"
    /\ \/ /\ ident[c].kind = "paid" => ident[c].payee # NoPayee /\ Machine(ident[c].payee)
          /\ Goto(c, "verified")
          /\ UNCHANGED <<rows, answered, lock, ident, local, outcome>>
       \/ End(c, "rejected")

\* Faulty: the lock is not waited for.
LockReviewWritesShared(c) ==
    /\ pc[c] = "verified"
    /\ lock' = c
    /\ Goto(c, "locked")
    /\ UNCHANGED <<rows, answered, ident, local, outcome>>

LockReviewWrites(c) ==
    /\ pc[c] = "verified"
    /\ lock = NoCall
    /\ lock' = c
    /\ Goto(c, "locked")
    /\ UNCHANGED <<rows, answered, ident, local, outcome>>

\* Faulty: a service keeps the payee its first reviewer names.
NewIdAsNamed(i) == [endpoint |-> i.endpoint, payee |-> i.payee]

\* The identity a service is created with: an unpaid review names no payee.
NewId(i) == [endpoint |-> i.endpoint, payee |-> IF i.kind = "unpaid" THEN NoPayee ELSE i.payee]

\* Faulty: the service is created although another call has created it.
EnsureServiceBlindly(c) ==
    /\ pc[c] = "locked"
    /\ LET i == ident[c] IN
       \/ target[c] # NoService
            /\ Goto(c, "ensured")
            /\ UNCHANGED <<rows, answered, lock, ident, local, outcome>>
       \/ /\ target[c] = NoService /\ i.endpoint # NoEndpoint
          /\ target' = [target EXCEPT ![c] = NewId(i)]
          /\ created' = created \cup {c}
          /\ Goto(c, "ensured")
          /\ UNCHANGED <<rows, answered, lock, ident, offers, taught, outcome>>

\* create_service_from_identity resolves once more before it creates.
EnsureService(c) ==
    /\ pc[c] = "locked"
    /\ LET i == ident[c]
           strong == i.endpoint # NoEndpoint /\ (i.kind # "unpaid" => i.payee # NoPayee)
       IN \/ /\ target[c] # NoService
             /\ Goto(c, "ensured")
             /\ UNCHANGED <<rows, answered, lock, ident, local, outcome>>
          \/ target[c] = NoService /\ ~ strong /\ End(c, "rejected")
          \/ target[c] = NoService /\ strong /\ Conflict(i) /\ End(c, "conflict")
          \/ \E s \in Registered \cup {NewId(i)} :
               /\ target[c] = NoService /\ strong
               /\ \/ s \in Registered /\ ResolvesTo(i, s) /\ UNCHANGED created
                  \/ Missing(i) /\ s = NewId(i) /\ created' = created \cup {c}
               /\ target' = [target EXCEPT ![c] = s]
               /\ Goto(c, "ensured")
               /\ UNCHANGED <<rows, answered, lock, ident, offers, taught, outcome>>

\* The new service and its identifiers; an endpoint keeps its first owner.
Create(c) ==
    LET s == target[c]  p == s.payee IN
    /\ services' = [services EXCEPT ![s] =
                      [endpoint |-> s.endpoint, provider |-> Provider(p), payee |-> p,
                       rotates |-> FALSE]]
    /\ owner' = [owner EXCEPT ![s.endpoint] = IF @ = NoService THEN s ELSE @]
    /\ payees' = IF p = NoPayee THEN payees ELSE payees \cup {<<s, p>>}

\* Faulty: only the first payee of a service is registered.
RegisterAliasFirst(c) ==
    LET s == target[c]  p == ident[c].payee IN
    /\ Authorized(s, ident[c])
    /\ services' = [services EXCEPT ![s] =
          IF @.provider = "none" THEN [@ EXCEPT !.provider = "machine", !.payee = p] ELSE @]
    /\ UNCHANGED <<owner, payees>>

\* register_machine_payment_alias: checked again under the row lock; the payee
\* of a service whose payee rotates is not stored.
RegisterAlias(c) ==
    LET s == target[c]  p == ident[c].payee IN
    /\ Authorized(s, ident[c])
    /\ IF services[s].rotates THEN UNCHANGED <<services, payees>>
       ELSE /\ services' = [services EXCEPT ![s] =
                 IF @.provider = "none" THEN [@ EXCEPT !.provider = "machine", !.payee = p] ELSE @]
            /\ payees' = payees \cup {<<s, p>>}
    /\ UNCHANGED owner

\* The review is stored and committed, with what it registers.
Store(c) ==
    /\ pc[c] = "ensured"
    /\ \/ c \in created /\ Create(c)
       \/ c \notin created /\ ident[c].kind = "paid" /\ RegisterAlias(c)
       \/ c \notin created /\ ident[c].kind # "paid" /\ UNCHANGED <<services, owner, payees>>
    /\ outcome' = [outcome EXCEPT ![c] = "stored"]
    /\ lock' = NoCall
    /\ Goto(c, "done")
    /\ UNCHANGED <<vouched, answered, ident, local>>

\* ValueError: the payee is not the service's any more.
RefuseAlias(c) ==
    /\ pc[c] = "ensured"
    /\ c \notin created /\ ident[c].kind = "paid"
    /\ ~ Authorized(target[c], ident[c])
    /\ End(c, "conflict")

\* A replay, a used payment, an unavailable redactor, an exception.
Abort(c) ==
    /\ pc[c] \in {"ready", "resolved", "verified", "locked", "ensured"}
    /\ End(c, "rejected")

\* fix_machine_payees.py, for a machine service whose payee is no address:
\* two probes agree on a payee for it, or differ, and then its payee rotates.
RepairPayee(s) ==
    /\ s \in Registered
    /\ services[s].provider = "machine"
    /\ \E p \in PayeesOf(s) : ~ Machine(p)
    /\ LET sound == {sp \in payees : sp[1] # s \/ Machine(sp[2])} IN
       \/ \E said \in SUBSET Offers[services[s].endpoint] : \E p \in said :
            /\ services' = [services EXCEPT ![s].payee = p, ![s].rotates = FALSE]
            /\ payees' = sound \cup {<<s, q>> : q \in said}
            /\ vouched' = vouched \cup {<<s, q>> : q \in said}
       \/ /\ Offers[services[s].endpoint] # {}
          /\ services' = [services EXCEPT ![s].payee = NoPayee, ![s].rotates = TRUE]
          /\ payees' = sound
          /\ UNCHANGED vouched
    /\ UNCHANGED <<owner, answered, lock, pc, ident, local, outcome>>

Finished == (\A c \in Call : pc[c] = "done") /\ UNCHANGED vars

Next ==
    \/ \E c \in Call :
         \/ \E q \in Asked : Ask(c, q)
         \/ FindCandidate(c) \/ Probe(c) \/ RegisterAdvertised(c) \/ FailToLearn(c)
         \/ Resolve(c) \/ Verify(c) \/ LockReviewWrites(c)
         \/ EnsureService(c) \/ Store(c) \/ RefuseAlias(c) \/ Abort(c)
    \/ \E s \in ServiceId : Forget(s) \/ RepairPayee(s)
    \/ Finished

Spec == Init /\ [][Next]_vars

(***************************************************************************)
(* Properties.                                                             *)
(***************************************************************************)

\* Types of rows and calls; the lock is held by the call between its lock and
\* its commit.
TypeOK ==
    /\ services \in [ServiceId -> Row \cup {NoService}]
    /\ owner \in [Endpoint -> ServiceId \cup {NoService}]
    /\ payees \subseteq ServiceId \X Payee /\ vouched \subseteq ServiceId \X Payee
    /\ answered \in [ServiceId -> (SUBSET Payee) \cup {NoAnswer}]
    /\ pc \in [Call -> {"idle", "asked", "probing", "answered", "ready", "resolved", "verified",
                        "locked", "ensured", "done"}]
    /\ ident \in [Call -> Identity \cup {NoIdentity}]
    /\ target \in [Call -> ServiceId \cup {NoService}]
    /\ offers \in [Call -> SUBSET Payee]
    /\ taught \subseteq Call /\ created \subseteq Call
    /\ outcome \in [Call -> {"none", "conflict", "not_found", "found", "rejected", "stored"}]
    /\ {c \in Call : pc[c] \in {"locked", "ensured"}} = {lock} \ {NoCall}

\* Concurrent first reviews of an endpoint register one service for it.
OneServicePerEndpoint ==
    \A s1, s2 \in Registered : services[s1].endpoint = services[s2].endpoint => s1 = s2

\* A review lands on the service of the endpoint it names: no payee, shared or
\* stale, moves it to another.
ReviewFollowsEndpoint ==
    \A c \in Call : outcome[c] = "stored" => services[target[c]].endpoint = ident[c].endpoint

\* docs/shared-payment-wallets.md:49: payments alone add at most one payee of
\* an address family to a service; every other came from its own 402.
OnePaidPayeePerFamily ==
    \A s \in Registered : \A p, q \in PayeesOf(s) :
        /\ Machine(p) /\ Family[p] = Family[q]
        /\ <<s, p>> \notin vouched /\ <<s, q>> \notin vouched
        => p = q

\* The payee a stored payment was proved to reach is a payee of the service
\* the review is on, or the service's payee rotates.
PaidPayeeIsRegistered ==
    \A c \in Call : outcome[c] = "stored" /\ ident[c].kind = "paid" =>
        ident[c].payee \in PayeesOf(target[c]) \/ services[target[c]].rotates

\* A payee a payment could be sent to is a service's because its 402 advertised
\* it or a stored payment to it was proved; naming one is not enough.
PayeesAreProven ==
    \A s \in Registered : \A p \in PayeesOf(s) : Machine(p) =>
        \/ <<s, p>> \in vouched
        \/ \E c \in Call : /\ outcome[c] = "stored" /\ ident[c].kind = "paid"
                           /\ target[c] = s /\ ident[c].payee = p

\* A call whose payee the 402 advertised is not refused for that payee,
\* whatever is registered or repaired before it resolves (advertised.py:217).
TaughtIsAccepted == \A c \in taught : outcome[c] # "conflict"

(***************************************************************************)
(* The inductive invariant behind OneServicePerEndpoint and                *)
(* ReviewFollowsEndpoint.                                                  *)
(***************************************************************************)

\* The identifier of an endpoint names the service of that endpoint.
RowsInv ==
    /\ \A s \in Registered : services[s].endpoint = s.endpoint /\ owner[s.endpoint] = s
    /\ \A e \in Endpoint : owner[e] # NoService => owner[e] \in Registered /\ owner[e].endpoint = e

\* What a call holds on to between its steps.
CallInv(c) ==
    /\ pc[c] # "idle" => ident[c] \in Identity
    /\ pc[c] \in {"probing", "answered"} => target[c] \in Registered
    /\ pc[c] \in {"idle", "asked", "ready"} => target[c] = NoService
    /\ pc[c] = "ensured" => target[c] # NoService
    /\ c \in created => pc[c] \in {"ensured", "done"}
    /\ pc[c] \in {"verified", "locked", "ensured"} /\ ident[c].kind = "paid" =>
         ident[c].payee # NoPayee

\* A call that has resolved names the endpoint of its service, and a call that
\* creates one still finds the endpoint free.
TargetInv(c) ==
    /\ pc[c] \in {"resolved", "verified", "locked", "ensured"} /\ target[c] # NoService =>
         /\ target[c].endpoint = ident[c].endpoint
         /\ c \notin created => target[c] \in Registered
    /\ c \in created /\ pc[c] = "ensured" => owner[target[c].endpoint] = NoService
    /\ outcome[c] = "stored" =>
         /\ pc[c] = "done" /\ target[c] \in Registered
         /\ target[c].endpoint = ident[c].endpoint

\* All of these together are inductive.
IdentityInv == TypeOK /\ RowsInv /\ \A c \in Call : CallInv(c) /\ TargetInv(c)

=============================================================================
