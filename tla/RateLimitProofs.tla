--------------------------- MODULE RateLimitProofs ---------------------------
(* How far overlapping requests pass the daily limit, for every limit. *)
EXTENDS RateLimit, FiniteSetTheorems, WellFoundedInduction, TLAPS

\* What is counted, and what is in flight, is finite.
LEMMA FiniteCounts ==
    ASSUME StampsInv, NEW t \in Nat
    PROVE  /\ IsFiniteSet(Counted(t)) /\ Cardinality(Counted(t)) \in Nat
           /\ IsFiniteSet(InFlight(t)) /\ Cardinality(InFlight(t)) \in Nat
           /\ Cardinality(InFlight(t)) <= Cardinality(Caller)
           /\ Cardinality(Caller) \in Nat
           /\ Window \in Nat \ {0}
<1>1. Len(stored) \in Nat /\ DOMAIN stored = 1..Len(stored)
  BY DEF StampsInv
<1>2. IsFiniteSet(1..Len(stored)) /\ IsFiniteSet(Caller)
  BY <1>1, FS_Interval, LimitAssumption
<1>3. Counted(t) \in SUBSET (1..Len(stored)) /\ InFlight(t) \in SUBSET Caller
  BY <1>1 DEF Counted, InFlight
<1>4. /\ IsFiniteSet(Counted(t)) /\ IsFiniteSet(InFlight(t))
      /\ Cardinality(InFlight(t)) <= Cardinality(Caller)
  BY <1>2, <1>3, FS_Subset
<1>5. Window \in Nat \ {0}
  BY LimitAssumption, SMT DEF Window
<1>6. QED
  BY <1>2, <1>4, <1>5, FS_CardinalityType

\* Time passes: what is counted can only leave the window.
LEMMA PassInv ==
    ASSUME LimitInv, Pass
    PROVE  LimitInv'
<1>0. StampsInv /\ clock' = clock + 1 /\ UNCHANGED <<stored, began>>
  BY DEF LimitInv, Pass
<1>1. StampsInv'
  <2>1. /\ \A i \in DOMAIN stored : stored[i] \in Nat /\ stored[i] <= clock
        /\ \A c \in Caller : began[c] \in Nat \cup {None} /\ began[c] <= clock
        /\ clock \in Nat \ {0}
    BY <1>0 DEF StampsInv
  <2>2. /\ \A i \in DOMAIN stored : stored[i] <= clock + 1
        /\ \A c \in Caller : began[c] <= clock + 1
    BY <2>1 DEF None
  <2>3. QED
    BY <1>0, <2>1, <2>2 DEF StampsInv
<1>2. ASSUME Max > 0, NEW t \in 1..clock'
      PROVE Cardinality(Counted(t)) + Cardinality(InFlight(t)) < Max + Cardinality(Caller)
  <2>0. clock \in 1..clock /\ clock \in Nat
    BY <1>0 DEF StampsInv
  <2>1. CASE t \in 1..clock
    BY <1>2, <2>1 DEF LimitInv
  <2>2. CASE t = clock + 1
    <3>1. Window \in Nat \ {0} /\ t \in Nat
      BY <1>0, <2>0, <2>2, FiniteCounts
    <3>2. Counted(t) \in SUBSET Counted(clock)
      <4>1. \A i \in DOMAIN stored : stored[i] \in Nat /\ stored[i] <= clock
        BY <1>0 DEF StampsInv
      <4>2. QED
        BY <2>0, <2>2, <3>1, <4>1 DEF Counted
    <3>3. InFlight(t) \in SUBSET InFlight(clock)
      <4>1. \A c \in Caller : began[c] \in Nat \cup {None} /\ began[c] <= clock
        BY <1>0 DEF StampsInv
      <4>2. QED
        BY <2>0, <2>2, <3>1, <4>1 DEF InFlight, None
    <3>4. /\ IsFiniteSet(Counted(clock)) /\ Cardinality(Counted(clock)) \in Nat
          /\ IsFiniteSet(InFlight(clock)) /\ Cardinality(InFlight(clock)) \in Nat
      BY <1>0, <2>0, FiniteCounts
    <3>5. /\ Cardinality(Counted(t)) <= Cardinality(Counted(clock))
          /\ Cardinality(InFlight(t)) <= Cardinality(InFlight(clock))
      BY <3>2, <3>3, <3>4, FS_Subset
    <3>6. Cardinality(Counted(clock)) + Cardinality(InFlight(clock)) < Max + Cardinality(Caller)
      BY <1>2, <2>0 DEF LimitInv
    <3>7. /\ Cardinality(Counted(t)) \in Nat /\ Cardinality(InFlight(t)) \in Nat
          /\ Cardinality(Caller) \in Nat /\ Max \in Nat
      BY <1>0, <3>1, FiniteCounts, LimitAssumption
    <3>8. QED
      BY <3>4, <3>5, <3>6, <3>7
  <2>3. QED
    BY <1>0, <2>0, <2>1, <2>2
<1>3. Counted(0)' = Counted(0) /\ \A t : Counted(t)' = Counted(t) /\ InFlight(t)' = InFlight(t)
  BY <1>0 DEF Counted, InFlight
<1>4. QED
  BY <1>1, <1>2, <1>3 DEF LimitInv

\* A call that passes the check is the only one the check did not see but for
\* those in flight.
LEMMA CheckInv ==
    ASSUME LimitInv, NEW c \in Caller, Check(c)
    PROVE  LimitInv'
<1>0. /\ StampsInv /\ began[c] = None /\ Allowed(clock)
      /\ clock \in Nat \ {0} /\ began' = [began EXCEPT ![c] = clock]
      /\ UNCHANGED <<clock, stored>>
  BY DEF LimitInv, Check, StampsInv
<1>1. StampsInv'
  BY <1>0 DEF StampsInv
<1>2. \A t : Counted(t)' = Counted(t)
  BY <1>0 DEF Counted
<1>3. ASSUME Max > 0, NEW t \in 1..clock
      PROVE (Cardinality(Counted(t)) + Cardinality(InFlight(t)))' < Max + Cardinality(Caller)
  <2>0. t \in Nat /\ Max \in Nat
    BY <1>0, LimitAssumption
  <2>1. CASE t < clock
    <3>1. InFlight(t)' = InFlight(t)
      <4>1. \A d \in Caller : began'[d] = IF d = c THEN clock ELSE began[d]
        BY <1>0 DEF StampsInv
      <4>2. QED
        BY <1>0, <2>0, <2>1, <4>1 DEF InFlight
    <3>2. QED
      BY <1>2, <1>3, <3>1 DEF LimitInv
  <2>2. CASE t = clock
    <3>1. Cardinality(Counted(t)) < Max
      BY <1>0, <1>3, <2>2 DEF Allowed
    <3>2. Cardinality(Counted(t)) \in Nat /\ Cardinality(Caller) \in Nat
      BY <1>0, <2>0, FiniteCounts
    <3>3. /\ Cardinality(InFlight(t))' <= Cardinality(Caller)
          /\ Cardinality(InFlight(t))' \in Nat
      <4>1. InFlight(t)' \in SUBSET Caller
        BY DEF InFlight
      <4>2. IsFiniteSet(InFlight(t)')
        BY <4>1, FS_Subset, LimitAssumption
      <4>3. QED
        BY <4>1, <4>2, FS_Subset, FS_CardinalityType, LimitAssumption
    <3>4. QED
      BY <1>2, <2>0, <3>1, <3>2, <3>3
  <2>3. QED
    BY <1>0, <2>0, <2>1, <2>2
<1>4. QED
  BY <1>0, <1>1, <1>3 DEF LimitInv

\* A commit moves a request from the ones in flight to the stored ones.
LEMMA InsertInv ==
    ASSUME LimitInv, NEW c \in Caller, Insert(c)
    PROVE  LimitInv'
<1>0. /\ StampsInv /\ began[c] # None /\ began[c] \in Nat /\ began[c] <= clock
      /\ stored' = Append(stored, began[c]) /\ began' = [began EXCEPT ![c] = None]
      /\ clock' = clock /\ clock \in Nat \ {0} /\ stored \in Seq(Nat)
  BY DEF LimitInv, Insert, StampsInv
<1>1. /\ Len(stored) \in Nat /\ DOMAIN stored = 1..Len(stored)
      /\ DOMAIN stored' = 1..(Len(stored) + 1)
      /\ \A i \in DOMAIN stored : stored'[i] = stored[i]
      /\ stored'[Len(stored) + 1] = began[c]
  BY <1>0
<1>2. \A d \in Caller : began'[d] = IF d = c THEN None ELSE began[d]
  BY <1>0 DEF StampsInv
<1>3. StampsInv'
  <2>1. stored' \in Seq(Nat)
    BY <1>0
  <2>2. \A i \in DOMAIN stored' : stored'[i] <= clock
    BY <1>0, <1>1 DEF StampsInv
  <2>3. QED
    BY <1>0, <1>2, <2>1, <2>2 DEF StampsInv, None
<1>4. ASSUME Max > 0, NEW t \in 1..clock
      PROVE (Cardinality(Counted(t)) + Cardinality(InFlight(t)))' < Max + Cardinality(Caller)
  <2>0. /\ t \in Nat /\ IsFiniteSet(Counted(t)) /\ IsFiniteSet(InFlight(t))
        /\ Cardinality(Counted(t)) \in Nat /\ Cardinality(InFlight(t)) \in Nat
        /\ Window \in Nat
    <3>1. t \in Nat
      BY <1>0
    <3>2. QED
      BY <1>0, <3>1, FiniteCounts
  <2>1. Cardinality(Counted(t)) + Cardinality(InFlight(t)) < Max + Cardinality(Caller)
    BY <1>4 DEF LimitInv
  <2>2. CASE began[c] > t - Window /\ began[c] <= t
    <3>1. Counted(t)' = Counted(t) \cup {Len(stored) + 1}
      BY <1>0, <1>1, <2>0, <2>2 DEF Counted
    <3>2. Len(stored) + 1 \notin Counted(t)
      BY <1>1 DEF Counted
    <3>3. InFlight(t)' = InFlight(t) \ {c} /\ c \in InFlight(t)
      BY <1>0, <1>2, <2>2 DEF InFlight
    <3>4. Cardinality(Counted(t))' = Cardinality(Counted(t)) + 1
      BY <2>0, <3>1, <3>2, FS_AddElement
    <3>5. Cardinality(InFlight(t))' = Cardinality(InFlight(t)) - 1
      BY <2>0, <3>3, FS_RemoveElement
    <3>6. QED
      BY <2>0, <2>1, <3>4, <3>5
  <2>3. CASE ~ (began[c] > t - Window /\ began[c] <= t)
    <3>1. Counted(t)' = Counted(t)
      BY <1>0, <1>1, <2>0, <2>3 DEF Counted
    <3>2. InFlight(t)' = InFlight(t)
      BY <1>0, <1>2, <2>3 DEF InFlight
    <3>3. QED
      BY <2>1, <3>1, <3>2
  <2>4. QED
    BY <2>2, <2>3
<1>5. QED
  BY <1>0, <1>3, <1>4 DEF LimitInv

\* A rollback takes a request out of flight.
LEMMA AbortInv ==
    ASSUME LimitInv, NEW c \in Caller, Abort(c)
    PROVE  LimitInv'
<1>0. /\ StampsInv /\ began' = [began EXCEPT ![c] = None] /\ UNCHANGED <<clock, stored>>
      /\ clock \in Nat \ {0}
  BY DEF LimitInv, Abort, StampsInv
<1>1. StampsInv'
  BY <1>0 DEF StampsInv, None
<1>2. ASSUME Max > 0, NEW t \in 1..clock
      PROVE (Cardinality(Counted(t)) + Cardinality(InFlight(t)))' < Max + Cardinality(Caller)
  <2>0. t \in Nat
    BY <1>0
  <2>1. Counted(t)' = Counted(t) /\ InFlight(t)' \in SUBSET InFlight(t)
    BY <1>0 DEF Counted, InFlight, StampsInv
  <2>2. /\ IsFiniteSet(InFlight(t)) /\ Cardinality(Counted(t)) \in Nat
        /\ Cardinality(InFlight(t)) \in Nat /\ Cardinality(Caller) \in Nat
    BY <1>0, <2>0, FiniteCounts
  <2>3. Cardinality(InFlight(t)') <= Cardinality(InFlight(t)) /\ Cardinality(InFlight(t)') \in Nat
    BY <2>1, <2>2, FS_Subset, FS_CardinalityType
  <2>4. QED
    BY <1>2, <2>1, <2>2, <2>3, LimitAssumption DEF LimitInv
<1>3. QED
  BY <1>0, <1>1, <1>2 DEF LimitInv

\* The stamps are in the past, and the sum of stored and open requests is bounded.
THEOREM LimitInvariance == Spec => []LimitInv
<1>1. Init => LimitInv
  <2> SUFFICES ASSUME Init PROVE LimitInv
    OBVIOUS
  <2>1. StampsInv
    BY DEF Init, StampsInv, None
  <2>2. ASSUME NEW t \in 1..clock PROVE Counted(t) = {} /\ InFlight(t) = {}
    BY DEF Init, Counted, InFlight
  <2>3. Cardinality(Caller) \in Nat
    BY LimitAssumption, FS_CardinalityType
  <2>4. ASSUME NEW t \in 1..clock
        PROVE  Cardinality(Counted(t)) = 0 /\ Cardinality(InFlight(t)) = 0
    BY <2>2, FS_EmptySet, Zenon
  <2>5. \A n \in Nat : n > 0 => 0 + 0 < n + Cardinality(Caller)
    BY <2>3
  <2>6. QED
    BY <2>1, <2>4, <2>5, LimitAssumption DEF LimitInv
<1>2. LimitInv /\ [Next]_vars => LimitInv'
  <2> SUFFICES ASSUME LimitInv, [Next]_vars PROVE LimitInv'
    OBVIOUS
  <2>1. CASE UNCHANGED <<clock, stored, began>>
    <3>1. \A t : Counted(t)' = Counted(t) /\ InFlight(t)' = InFlight(t)
      BY <2>1 DEF Counted, InFlight
    <3>2. StampsInv'
      BY <2>1 DEF LimitInv, StampsInv
    <3>3. QED
      BY <2>1, <3>1, <3>2 DEF LimitInv
  <2>2. ASSUME NEW c \in Caller, Refuse(c) PROVE LimitInv'
    BY <2>1, <2>2 DEF Refuse
  <2>3. CASE UNCHANGED vars
    BY <2>1, <2>3 DEF vars
  <2>4. QED
    BY <2>2, <2>3, PassInv, CheckInv, InsertInv, AbortInv DEF Next
<1>3. QED
  BY <1>1, <1>2, PTL DEF Spec

\* However many sessions race, a wallet's requests of one window stay below the
\* limit and one more for each session.
THEOREM OvershootIsBoundedAlways == Spec => []OvershootIsBounded
<1>1. LimitInv => OvershootIsBounded
  <2> SUFFICES ASSUME LimitInv, Max > 0, NEW t \in 1..clock
               PROVE  Cardinality(Counted(t)) < Max + Cardinality(Caller)
    BY DEF OvershootIsBounded
  <2>1. StampsInv /\ t \in Nat
    BY DEF LimitInv, StampsInv
  <2>2. QED
    BY <2>1, FiniteCounts, LimitAssumption DEF LimitInv
<1>2. QED
  BY <1>1, LimitInvariance, PTL

(***************************************************************************)
(* Calls of a wallet that have not raced stay within the limit, and one    *)
(* that was refused finds room when it has waited.                         *)
(***************************************************************************)

\* Alone, a call in flight still has its place.
AloneInv ==
    ~ raced =>
      /\ \A c, d \in Caller : began[c] # None /\ began[d] # None => c = d
      /\ Max > 0 => \A t \in 1..clock :
           /\ Cardinality(Counted(t)) <= Max
           /\ InFlight(t) # {} => Cardinality(Counted(t)) < Max

\* The requests that are still counted at time t.
CountedFrom(t) == {i \in DOMAIN stored : stored[i] > t - Window}

\* Without another request, there is room at the time a refused caller was told.
RoomInv ==
    \A c \in Caller :
      retryAt[c] # None =>
        /\ retryAt[c] \in Nat /\ storedAt[c] \in Nat /\ storedAt[c] <= Len(stored)
        /\ ~ raced /\ storedAt[c] = Len(stored) => Cardinality(CountedFrom(retryAt[c])) < Max

TimesInv == DOMAIN retryAt = Caller /\ DOMAIN storedAt = Caller

WaitInv == AloneInv /\ RoomInv /\ TimesInv

\* Time passes: what was in the window before is all that can still be in it.
LEMMA PassWait ==
    ASSUME LimitInv, WaitInv, Pass
    PROVE  WaitInv'
<1>0. StampsInv /\ clock' = clock + 1 /\ UNCHANGED <<stored, began, raced, retryAt, storedAt>>
  BY DEF LimitInv, Pass
<1>1. RoomInv'
  BY <1>0 DEF WaitInv, RoomInv, CountedFrom
<1>2. AloneInv'
  <2> SUFFICES ASSUME ~ raced
               PROVE  /\ \A c, d \in Caller : began[c] # None /\ began[d] # None => c = d
                      /\ Max > 0 => \A t \in 1..(clock + 1) :
                           /\ Cardinality(Counted(t)) <= Max
                           /\ InFlight(t) # {} => Cardinality(Counted(t)) < Max
    <3>1. \A t : Counted(t)' = Counted(t) /\ InFlight(t)' = InFlight(t)
      BY <1>0 DEF Counted, InFlight
    <3>2. QED
      BY <1>0, <3>1 DEF AloneInv
  <2>1. \A c, d \in Caller : began[c] # None /\ began[d] # None => c = d
    BY DEF WaitInv, AloneInv
  <2>2. ASSUME Max > 0, NEW t \in 1..(clock + 1)
        PROVE  /\ Cardinality(Counted(t)) <= Max
               /\ InFlight(t) # {} => Cardinality(Counted(t)) < Max
    <3>0. clock \in 1..clock /\ clock \in Nat
      BY <1>0 DEF StampsInv
    <3>1. \A u \in 1..clock : /\ Cardinality(Counted(u)) <= Max
                              /\ InFlight(u) # {} => Cardinality(Counted(u)) < Max
      BY <2>2 DEF WaitInv, AloneInv
    <3>2. CASE t \in 1..clock
      BY <3>1, <3>2
    <3>3. CASE t = clock + 1
      <4>1. Window \in Nat \ {0} /\ t \in Nat /\ Max \in Nat
        BY <1>0, <3>0, <3>3, FiniteCounts, LimitAssumption
      <4>2. /\ \A i \in DOMAIN stored : stored[i] \in Nat /\ stored[i] <= clock
            /\ \A c \in Caller : began[c] \in Nat \cup {None} /\ began[c] <= clock
        BY <1>0 DEF StampsInv
      <4>3. Counted(t) \in SUBSET Counted(clock)
        BY <3>0, <3>3, <4>1, <4>2 DEF Counted
      <4>4. InFlight(t) \in SUBSET InFlight(clock)
        BY <3>0, <3>3, <4>1, <4>2 DEF InFlight, None
      <4>5. /\ IsFiniteSet(Counted(clock)) /\ Cardinality(Counted(clock)) \in Nat
            /\ Cardinality(Counted(t)) \in Nat
        BY <1>0, <3>0, <4>1, FiniteCounts
      <4>6. Cardinality(Counted(t)) <= Cardinality(Counted(clock))
        BY <4>3, <4>5, FS_Subset
      <4>7. /\ Cardinality(Counted(clock)) <= Max
            /\ InFlight(clock) # {} => Cardinality(Counted(clock)) < Max
        BY <3>0, <3>1
      <4>8. QED
        BY <4>1, <4>4, <4>5, <4>6, <4>7
    <3>4. QED
      BY <3>0, <3>2, <3>3
  <2>3. QED
    BY <2>1, <2>2
<1>3. TimesInv'
  BY <1>0 DEF WaitInv, TimesInv
<1>4. QED
  BY <1>1, <1>2, <1>3 DEF WaitInv

\* A call that passes without another in flight has seen all there is.
LEMMA CheckWait ==
    ASSUME LimitInv, WaitInv, NEW c \in Caller, Check(c)
    PROVE  WaitInv'
<1>0. /\ StampsInv /\ began[c] = None /\ Allowed(clock) /\ clock \in Nat \ {0}
      /\ began' = [began EXCEPT ![c] = clock]
      /\ raced' = (raced \/ \E d \in Caller : began[d] # None)
      /\ retryAt' = [retryAt EXCEPT ![c] = None] /\ storedAt' = [storedAt EXCEPT ![c] = 0]
      /\ UNCHANGED <<clock, stored>>
  BY DEF LimitInv, Check, StampsInv
<1>1. RoomInv'
  <2>1. \A t : CountedFrom(t)' = CountedFrom(t)
    BY <1>0 DEF CountedFrom
  <2>2. ASSUME NEW d \in Caller, retryAt'[d] # None
        PROVE  d # c /\ retryAt'[d] = retryAt[d] /\ storedAt'[d] = storedAt[d]
    BY <1>0, <2>2 DEF WaitInv, RoomInv, TimesInv
  <2>3. QED
    BY <1>0, <2>1, <2>2 DEF WaitInv, RoomInv
<1>2. AloneInv'
  <2> SUFFICES ASSUME ~ raced'
               PROVE  AloneInv'
    BY DEF AloneInv
  <2>1. \A d \in Caller : began[d] = None
    BY <1>0
  <2>2. \A d \in Caller : began'[d] = IF d = c THEN clock ELSE None
    BY <1>0, <2>1 DEF StampsInv
  <2>3. \A d, e \in Caller : began'[d] # None /\ began'[e] # None => d = e
    BY <2>2
  <2>4. \A t : Counted(t)' = Counted(t)
    BY <1>0 DEF Counted
  <2>5. ~ raced
    BY <1>0
  <2>6. ASSUME Max > 0, NEW t \in 1..clock
        PROVE  /\ Cardinality(Counted(t)) <= Max
               /\ InFlight(t)' # {} => Cardinality(Counted(t)) < Max
    <3>1. Cardinality(Counted(t)) <= Max
      BY <2>5, <2>6 DEF WaitInv, AloneInv
    <3>2. CASE t < clock
      <4>1. t \in Nat
        BY <1>0
      <4>2. InFlight(t)' = {}
        BY <1>0, <2>2, <3>2, <4>1 DEF InFlight, None
      <4>3. QED
        BY <3>1, <4>2
    <3>3. CASE t = clock
      BY <1>0, <2>6, <3>1, <3>3 DEF Allowed
    <3>4. QED
      BY <1>0, <3>2, <3>3
  <2>7. clock' = clock
    BY <1>0
  <2>8. QED
    BY <2>3, <2>4, <2>6, <2>7 DEF AloneInv
<1>3. TimesInv'
  BY <1>0 DEF WaitInv, TimesInv
<1>4. QED
  BY <1>1, <1>2, <1>3 DEF WaitInv

\* A commit takes the place that the call alone still had.
LEMMA InsertWait ==
    ASSUME LimitInv, WaitInv, NEW c \in Caller, Insert(c)
    PROVE  WaitInv'
<1>0. /\ StampsInv /\ began[c] # None /\ began[c] \in Nat /\ began[c] <= clock
      /\ stored' = Append(stored, began[c]) /\ began' = [began EXCEPT ![c] = None]
      /\ UNCHANGED <<clock, retryAt, storedAt, raced>>
      /\ clock \in Nat \ {0} /\ stored \in Seq(Nat)
  BY DEF LimitInv, Insert, StampsInv
<1>1. /\ Len(stored) \in Nat /\ DOMAIN stored = 1..Len(stored)
      /\ Len(stored') = Len(stored) + 1
      /\ DOMAIN stored' = 1..(Len(stored) + 1)
      /\ \A i \in DOMAIN stored : stored'[i] = stored[i]
      /\ stored'[Len(stored) + 1] = began[c]
  BY <1>0
<1>2. RoomInv'
  <2>1. \A d \in Caller : retryAt[d] # None => storedAt[d] \in Nat /\ storedAt[d] <= Len(stored)
    BY DEF WaitInv, RoomInv
  <2>2. \A d \in Caller : retryAt[d] # None =>
          storedAt[d] <= Len(stored') /\ storedAt[d] # Len(stored')
    BY <1>1, <2>1
  <2>3. QED
    BY <1>0, <2>2 DEF WaitInv, RoomInv
<1>3. AloneInv'
  <2> SUFFICES ASSUME ~ raced
               PROVE  AloneInv'
    BY <1>0 DEF AloneInv
  <2>1. \A d, e \in Caller : began[d] # None /\ began[e] # None => d = e
    BY DEF WaitInv, AloneInv
  <2>2. \A d \in Caller : began'[d] = None
    BY <1>0, <2>1 DEF StampsInv
  <2>3. \A t : InFlight(t)' = {}
    BY <2>2 DEF InFlight
  <2>4. ASSUME Max > 0, NEW t \in 1..clock
        PROVE  Cardinality(Counted(t))' <= Max
    <3>0. /\ t \in Nat /\ IsFiniteSet(Counted(t)) /\ Cardinality(Counted(t)) \in Nat
          /\ Window \in Nat /\ Max \in Nat
      <4>1. t \in Nat
        BY <1>0
      <4>2. QED
        BY <1>0, <4>1, FiniteCounts, LimitAssumption
    <3>1. /\ Cardinality(Counted(t)) <= Max
          /\ InFlight(t) # {} => Cardinality(Counted(t)) < Max
      BY <2>4 DEF WaitInv, AloneInv
    <3>2. CASE began[c] > t - Window /\ began[c] <= t
      <4>1. Counted(t)' = Counted(t) \cup {Len(stored) + 1}
        BY <1>0, <1>1, <3>0, <3>2 DEF Counted
      <4>2. Len(stored) + 1 \notin Counted(t)
        BY <1>1 DEF Counted
      <4>3. Cardinality(Counted(t))' = Cardinality(Counted(t)) + 1
        BY <3>0, <4>1, <4>2, FS_AddElement
      <4>4. c \in InFlight(t)
        BY <1>0, <3>2 DEF InFlight
      <4>5. QED
        BY <3>0, <3>1, <4>3, <4>4
    <3>3. CASE ~ (began[c] > t - Window /\ began[c] <= t)
      <4>1. Counted(t)' = Counted(t)
        BY <1>0, <1>1, <3>0, <3>3 DEF Counted
      <4>2. QED
        BY <3>1, <4>1
    <3>4. QED
      BY <3>2, <3>3
  <2>5. clock' = clock
    BY <1>0
  <2>6. QED
    BY <2>2, <2>3, <2>4, <2>5 DEF AloneInv
<1>4. TimesInv'
  BY <1>0 DEF WaitInv, TimesInv
<1>5. QED
  BY <1>2, <1>3, <1>4 DEF WaitInv

\* A rollback only takes a call out of flight.
LEMMA AbortWait ==
    ASSUME LimitInv, WaitInv, NEW c \in Caller, Abort(c)
    PROVE  WaitInv'
<1>0. /\ StampsInv /\ began' = [began EXCEPT ![c] = None]
      /\ UNCHANGED <<clock, stored, retryAt, storedAt, raced>>
  BY DEF LimitInv, Abort
<1>1. \A d \in Caller : began'[d] # None => began'[d] = began[d]
  BY <1>0 DEF StampsInv
<1>2. \A t : Counted(t)' = Counted(t) /\ InFlight(t)' \in SUBSET InFlight(t)
  BY <1>0, <1>1 DEF Counted, InFlight
<1>3. AloneInv'
  BY <1>0, <1>1, <1>2 DEF WaitInv, AloneInv
<1>4. RoomInv'
  BY <1>0 DEF WaitInv, RoomInv, CountedFrom
<1>5. TimesInv'
  BY <1>0 DEF WaitInv, TimesInv
<1>6. QED
  BY <1>3, <1>4, <1>5 DEF WaitInv

\* Seconds rounded up are long enough.
LEMMA CeilingCovers ==
    ASSUME NEW x \in Int, NEW k \in Nat \ {0}
    PROVE  /\ ((x + k - 1) \div k) * k >= x
           /\ (x + k - 1) \div k \in Int
  OBVIOUS

\* A nonempty set of natural numbers has a least one.
LEMMA LeastNumber ==
    ASSUME NEW S \in SUBSET Nat, S # {}
    PROVE  \E m \in S : \A x \in S : m <= x
<1> DEFINE Less == {p \in Nat \X Nat : p[1] < p[2]}
<1>1. IsWellFoundedOn(Less, Nat)
  BY NatLessThanWellFounded DEF OpToRel
<1> HIDE DEF Less
<1>2. PICK m \in S : \A x \in S : <<x, m>> \notin Less
  BY <1>1, WFMin
<1>3. ASSUME NEW x \in S PROVE m <= x
  <2>1. m \in Nat /\ x \in Nat /\ <<x, m>> \notin Less
    BY <1>2
  <2>2. ~ (x < m)
    BY <2>1 DEF Less
  <2>3. QED
    BY <2>1, <2>2
<1>4. QED
  BY <1>3

\* The oldest counted request is one of them, and none is older.
LEMMA OldestIsCounted ==
    ASSUME StampsInv, NEW t, Counted(t) # {}
    PROVE  \E i \in Counted(t) : Oldest(t) = stored[i] /\ \A j \in Counted(t) : stored[i] <= stored[j]
<1> DEFINE S == {stored[i] : i \in Counted(t)}
<1>1. S \in SUBSET Nat /\ S # {}
  BY DEF StampsInv, Counted
<1>2. PICK m \in S : \A x \in S : m <= x
  BY <1>1, LeastNumber
<1>3. \A i \in Counted(t) : m <= stored[i]
  BY <1>2
<1>4. Oldest(t) \in S /\ \A i \in Counted(t) : Oldest(t) <= stored[i]
  BY <1>2, <1>3 DEF Oldest
<1>5. QED
  BY <1>4

\* When the wait is over, the oldest counted request has left the window.
LEMMA RetryAfterCovers ==
    ASSUME NEW t \in Nat, Oldest(t) \in Nat, NEW r, r = t + RetryAfter(t) * Tick
    PROVE  r \in Nat /\ r - Window >= Oldest(t)
<1> DEFINE x == Oldest(t) + Window - t
           wait == (x + Tick - 1) \div Tick
<1>1. Tick \in Nat \ {0} /\ Window \in Nat
  BY LimitAssumption, SMT DEF Window
<1>2. x \in Int
  BY <1>1
<1>3. wait * Tick >= x /\ wait \in Int
  BY <1>1, <1>2, CeilingCovers
<1>4. RetryAfter(t) = IF wait < 1 THEN 1 ELSE wait
  BY DEF RetryAfter
<1> HIDE DEF wait
<1>5. RetryAfter(t) \in Nat /\ RetryAfter(t) >= 1 /\ RetryAfter(t) >= wait
  BY <1>3, <1>4
<1>6. RetryAfter(t) * Tick >= x
  <2>1. CASE wait < 1
    <3>1. wait * Tick <= 0
      BY <1>1, <1>3, <2>1
    <3>2. QED
      BY <1>1, <1>2, <1>3, <1>4, <2>1, <3>1
  <2>2. CASE ~ (wait < 1)
    BY <1>3, <1>4, <2>2
  <2>3. QED
    BY <2>1, <2>2
<1>7. RetryAfter(t) * Tick \in Nat
  BY <1>1, <1>5
<1>8. QED
  BY <1>1, <1>2, <1>6, <1>7

\* A refused caller is told a time at which the oldest request no longer counts.
LEMMA RefuseWait ==
    ASSUME LimitInv, WaitInv, NEW c \in Caller, Refuse(c)
    PROVE  WaitInv'
<1>0. /\ StampsInv /\ ~ Allowed(clock) /\ clock \in Nat \ {0}
      /\ retryAt' = [retryAt EXCEPT ![c] = clock + RetryAfter(clock) * Tick]
      /\ storedAt' = [storedAt EXCEPT ![c] = Len(stored)]
      /\ UNCHANGED <<clock, stored, began, raced>>
  BY DEF LimitInv, Refuse, StampsInv
<1>1. AloneInv'
  <2>1. \A t : Counted(t)' = Counted(t) /\ InFlight(t)' = InFlight(t)
    BY <1>0 DEF Counted, InFlight
  <2>2. QED
    BY <1>0, <2>1 DEF WaitInv, AloneInv
<1>2. RoomInv'
  <2>1. \A t : CountedFrom(t)' = CountedFrom(t)
    BY <1>0 DEF CountedFrom
  <2>2. ASSUME NEW d \in Caller, retryAt'[d] # None, d # c
        PROVE  /\ retryAt'[d] \in Nat /\ storedAt'[d] \in Nat /\ storedAt'[d] <= Len(stored)
               /\ ~ raced /\ storedAt'[d] = Len(stored) => Cardinality(CountedFrom(retryAt'[d])) < Max
    <3>1. retryAt'[d] = retryAt[d] /\ storedAt'[d] = storedAt[d]
      BY <1>0, <2>2 DEF WaitInv, TimesInv
    <3>2. QED
      BY <2>2, <3>1 DEF WaitInv, RoomInv
  <2>3. /\ retryAt'[c] \in Nat /\ storedAt'[c] \in Nat /\ storedAt'[c] <= Len(stored)
        /\ ~ raced => Cardinality(CountedFrom(retryAt'[c])) < Max
    <3>1. /\ retryAt'[c] = clock + RetryAfter(clock) * Tick
          /\ storedAt'[c] = Len(stored) /\ Len(stored) \in Nat
      BY <1>0 DEF WaitInv, TimesInv, StampsInv
    <3>2. /\ IsFiniteSet(Counted(clock)) /\ Cardinality(Counted(clock)) \in Nat
          /\ Window \in Nat \ {0} /\ Max \in Nat
      BY <1>0, FiniteCounts, LimitAssumption
    <3>3. Max > 0 /\ Cardinality(Counted(clock)) >= Max
      BY <1>0, <3>2 DEF Allowed
    <3>4. Counted(clock) # {}
      BY <3>2, <3>3, FS_EmptySet
    <3>5. PICK i \in Counted(clock) :
            Oldest(clock) = stored[i] /\ \A j \in Counted(clock) : stored[i] <= stored[j]
      BY <1>0, <3>4, OldestIsCounted
    <3>6. \A j \in DOMAIN stored : stored[j] \in Nat /\ stored[j] <= clock
      BY <1>0 DEF StampsInv
    <3>7. stored[i] \in Nat /\ i \in DOMAIN stored /\ stored[i] > clock - Window
      BY <3>5, <3>6 DEF Counted
    <3>8. retryAt'[c] \in Nat /\ retryAt'[c] - Window >= stored[i]
      <4>1. clock \in Nat /\ Oldest(clock) \in Nat
        BY <1>0, <3>5, <3>7
      <4>2. PICK r : r = retryAt'[c]
        OBVIOUS
      <4>3. r = clock + RetryAfter(clock) * Tick
        BY <3>1, <4>2, Zenon
      <4>4. r \in Nat /\ r - Window >= Oldest(clock)
        BY <4>1, <4>3, RetryAfterCovers
      <4>5. QED
        BY <3>5, <4>2, <4>4
    <3>9. CountedFrom(retryAt'[c]) \in SUBSET (Counted(clock) \ {i})
      BY <1>0, <3>2, <3>6, <3>7, <3>8 DEF CountedFrom, Counted
    <3>10. /\ IsFiniteSet(Counted(clock) \ {i})
           /\ Cardinality(Counted(clock) \ {i}) = Cardinality(Counted(clock)) - 1
      BY <3>2, <3>5, FS_RemoveElement
    <3>11. /\ Cardinality(CountedFrom(retryAt'[c])) <= Cardinality(Counted(clock)) - 1
           /\ Cardinality(CountedFrom(retryAt'[c])) \in Nat
      BY <3>9, <3>10, FS_Subset, FS_CardinalityType
    <3>12. ~ raced => Cardinality(Counted(clock)) <= Max
      BY <1>0, <3>3 DEF WaitInv, AloneInv
    <3>13. QED
      BY <3>1, <3>2, <3>8, <3>11, <3>12
  <2>4. Len(stored)' = Len(stored) /\ raced' = raced
    BY <1>0
  <2>5. QED
    BY <2>1, <2>2, <2>3, <2>4 DEF RoomInv
<1>3. TimesInv'
  BY <1>0 DEF WaitInv, TimesInv
<1>4. QED
  BY <1>1, <1>2, <1>3 DEF WaitInv

\* Calls that have not raced stay within the limit, and who waited finds room.
THEOREM WaitInvariance == Spec => []WaitInv
<1>1. Init => WaitInv
  <2> SUFFICES ASSUME Init PROVE WaitInv
    OBVIOUS
  <2>1. ASSUME NEW t \in 1..clock
        PROVE  Cardinality(Counted(t)) = 0 /\ InFlight(t) = {}
    <3>1. Counted(t) = {} /\ InFlight(t) = {}
      BY DEF Init, Counted, InFlight
    <3>2. QED
      BY <3>1, FS_EmptySet
  <2>2. Max \in Nat
    BY LimitAssumption
  <2>3. AloneInv
    BY <2>1, <2>2 DEF Init, AloneInv
  <2>4. RoomInv /\ TimesInv
    BY DEF Init, RoomInv, TimesInv
  <2>5. QED
    BY <2>3, <2>4 DEF WaitInv
<1>2. LimitInv /\ WaitInv /\ [Next]_vars => WaitInv'
  <2> SUFFICES ASSUME LimitInv, WaitInv, [Next]_vars PROVE WaitInv'
    OBVIOUS
  <2>1. CASE UNCHANGED vars
    <3>1. \A t : /\ Counted(t)' = Counted(t) /\ InFlight(t)' = InFlight(t)
                 /\ CountedFrom(t)' = CountedFrom(t)
      BY <2>1 DEF vars, Counted, InFlight, CountedFrom
    <3>2. QED
      BY <2>1, <3>1 DEF vars, WaitInv, AloneInv, RoomInv, TimesInv
  <2>2. QED
    BY <2>1, PassWait, CheckWait, RefuseWait, InsertWait, AbortWait DEF Next
<1>3. QED
  BY <1>1, <1>2, LimitInvariance, PTL DEF Spec

\* retry_after_seconds suffices, for every limit and window: a caller who waited
\* it out with nothing stored meanwhile is not refused, unless calls have raced.
THEOREM RetryAfterSufficesAlways == Spec => RetryAfterSuffices
<1> DEFINE Waited == \A c \in Caller :
              /\ Refuse(c)
              /\ retryAt[c] # None /\ clock >= retryAt[c] /\ storedAt[c] = Len(stored)
              => raced
<1>1. LimitInv /\ WaitInv /\ [Next]_vars => [Waited]_vars
  <2> SUFFICES ASSUME LimitInv, WaitInv, NEW c \in Caller, Refuse(c),
                      retryAt[c] # None, clock >= retryAt[c], storedAt[c] = Len(stored),
                      ~ raced
               PROVE  FALSE
    OBVIOUS
  <2>1. /\ StampsInv /\ clock \in Nat /\ ~ Allowed(clock)
        /\ retryAt[c] \in Nat /\ Cardinality(CountedFrom(retryAt[c])) < Max
    BY DEF LimitInv, StampsInv, Refuse, WaitInv, RoomInv
  <2>2. /\ Window \in Nat /\ Cardinality(Counted(clock)) \in Nat /\ Max \in Nat
    BY <2>1, FiniteCounts, LimitAssumption
  <2>3. Counted(clock) \in SUBSET CountedFrom(retryAt[c])
    <3>1. \A i \in DOMAIN stored : stored[i] \in Nat
      BY <2>1 DEF StampsInv
    <3>2. QED
      BY <2>1, <2>2, <3>1 DEF Counted, CountedFrom
  <2>4. IsFiniteSet(CountedFrom(retryAt[c]))
    <3>1. DOMAIN stored = 1..Len(stored) /\ Len(stored) \in Nat
      BY <2>1 DEF StampsInv
    <3>2. IsFiniteSet(DOMAIN stored)
      BY <3>1, FS_Interval
    <3>3. CountedFrom(retryAt[c]) \in SUBSET DOMAIN stored
      BY DEF CountedFrom
    <3>4. QED
      BY <3>2, <3>3, FS_Subset
  <2>5. /\ Cardinality(Counted(clock)) <= Cardinality(CountedFrom(retryAt[c]))
        /\ Cardinality(CountedFrom(retryAt[c])) \in Nat
    BY <2>3, <2>4, FS_Subset, FS_CardinalityType
  <2>6. QED
    BY <2>1, <2>2, <2>5 DEF Allowed
<1>2. QED
  BY <1>1, LimitInvariance, WaitInvariance, PTL DEF Spec, RetryAfterSuffices
=============================================================================
