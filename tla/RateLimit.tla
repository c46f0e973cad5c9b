------------------------------ MODULE RateLimit ------------------------------
(***************************************************************************)
(* The daily limit on service requests: request_service (server.py) and    *)
(* check_request_limit (rate_limit.py), for the calls of one wallet.       *)
(*                                                                         *)
(* A call counts the wallet's requests of the last 24 hours, inserts its   *)
(* own and commits.  Nothing locks the rows it counted, so that calls that *)
(* overlap do not count each other.  A call refused for its fields, its    *)
(* wallet or by the redactor never gets here.                              *)
(***************************************************************************)
EXTENDS Integers, Sequences, FiniteSets

CONSTANTS
    Caller,         \* sessions of the wallet, each with one call in flight
    Max,            \* request_rate_limit_per_day
    WindowSeconds,  \* the length of the window
    Tick,           \* moments in a second
    MaxTime         \* bound on the clock

ASSUME LimitAssumption ==
    Max \in Nat /\ WindowSeconds \in Nat \ {0} /\ Tick \in Nat \ {0} /\ IsFiniteSet(Caller)

Window == WindowSeconds * Tick

VARIABLES
    clock,
    stored,    \* service_requests.created_at, in the order of commits
    began,     \* began[c]: when the transaction of c began, or None
    retryAt,   \* retryAt[c]: when c was told to retry, or None
    storedAt,  \* history: how many requests were stored when c was told
    raced      \* history: two calls have been in flight together

vars == <<clock, stored, began, retryAt, storedAt, raced>>

None == -1

Init ==
    /\ clock = 1
    /\ stored = <<>>
    /\ began = [c \in Caller |-> None]
    /\ retryAt = [c \in Caller |-> None]
    /\ storedAt = [c \in Caller |-> 0]
    /\ raced = FALSE

Pass ==
    /\ clock < MaxTime
    /\ clock' = clock + 1
    /\ UNCHANGED <<stored, began, retryAt, storedAt, raced>>

\* The requests _check_window counts at time t.
Counted(t) == {i \in DOMAIN stored : stored[i] > t - Window /\ stored[i] <= t}

\* Faulty: one request too many.
AllowedInclusive(t) == Max = 0 \/ Cardinality(Counted(t)) <= Max

Allowed(t) == Max = 0 \/ Cardinality(Counted(t)) < Max

Oldest(t) ==
    CHOOSE m \in {stored[i] : i \in Counted(t)} : \A i \in Counted(t) : m <= stored[i]

\* Faulty: the wait is rounded down.
RetryAfterFloor(t) ==
    LET wait == (Oldest(t) + Window - t) \div Tick
    IN IF wait < 1 THEN 1 ELSE wait

\* math.ceil of the seconds until the oldest counted request leaves the window.
RetryAfter(t) ==
    LET wait == (Oldest(t) + Window - t + Tick - 1) \div Tick
    IN IF wait < 1 THEN 1 ELSE wait

Check(c) ==
    /\ began[c] = None
    /\ Allowed(clock)
    /\ began' = [began EXCEPT ![c] = clock]
    /\ raced' = (raced \/ \E d \in Caller : began[d] # None)
    /\ retryAt' = [retryAt EXCEPT ![c] = None]
    /\ storedAt' = [storedAt EXCEPT ![c] = 0]
    /\ UNCHANGED <<clock, stored>>

Refuse(c) ==
    /\ began[c] = None
    /\ ~ Allowed(clock)
    /\ retryAt' = [retryAt EXCEPT ![c] = clock + RetryAfter(clock) * Tick]
    /\ storedAt' = [storedAt EXCEPT ![c] = Len(stored)]
    /\ UNCHANGED <<clock, stored, began, raced>>

\* created_at defaults to the start of the transaction.
Insert(c) ==
    /\ began[c] # None
    /\ stored' = Append(stored, began[c])
    /\ began' = [began EXCEPT ![c] = None]
    /\ UNCHANGED <<clock, retryAt, storedAt, raced>>

\* The transaction fails and is rolled back.
Abort(c) ==
    /\ began[c] # None
    /\ began' = [began EXCEPT ![c] = None]
    /\ UNCHANGED <<clock, stored, retryAt, storedAt, raced>>

Next == Pass \/ \E c \in Caller : Check(c) \/ Refuse(c) \/ Insert(c) \/ Abort(c)

Spec == Init /\ [][Next]_vars

(***************************************************************************)
(* Properties.                                                             *)
(***************************************************************************)

\* README.md:131: "limited to 5 per wallet per rolling 24 hours".  Calls that
\* overlap do not see each other's rows and pass the limit, by at most one request
\* each but the last, and the overshoot does not accumulate from one window to
\* the next.
OvershootIsBounded ==
    Max > 0 => \A t \in 1..clock : Cardinality(Counted(t)) < Max + Cardinality(Caller)

\* retry_after_seconds is long enough: a caller that waits it out, with no
\* request stored meanwhile, is not refused again, unless calls have raced.
RetryAfterSuffices ==
    [][\A c \in Caller :
         /\ Refuse(c)
         /\ retryAt[c] # None /\ clock >= retryAt[c] /\ storedAt[c] = Len(stored)
         => raced]_vars

(***************************************************************************)
(* The inductive invariant behind OvershootIsBounded: requests in flight   *)
(* count as if they were stored.                                           *)
(***************************************************************************)
InFlight(t) == {c \in Caller : began[c] # None /\ began[c] > t - Window /\ began[c] <= t}

StampsInv ==
    /\ clock \in Nat \ {0}
    /\ stored \in Seq(Nat) /\ \A i \in DOMAIN stored : stored[i] <= clock
    /\ began \in [Caller -> Nat \cup {None}] /\ \A c \in Caller : began[c] <= clock

LimitInv ==
    /\ StampsInv
    /\ Max > 0 => \A t \in 1..clock :
         Cardinality(Counted(t)) + Cardinality(InFlight(t)) < Max + Cardinality(Caller)
=============================================================================
