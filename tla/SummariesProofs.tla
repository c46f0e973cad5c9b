--------------------------- MODULE SummariesProofs ---------------------------
(* Theorems about Summaries, for every set of services and reviews. *)
EXTENDS Summaries, FiniteSetTheorems, TLAPS

\* Nothing is published, read or deleted at first.
LEMMA SummaryInit == Init => SummaryInv
<1> SUFFICES ASSUME Init PROVE SummaryInv
  OBVIOUS
<1>1. TypeOK
  <2>1. phase \in {"off", "started", "reading", "writing"} /\ clean \in BOOLEAN
    BY DEF Init
  <2>2. /\ summary \in [Service -> SUBSET Review] /\ rowsRead \in [Service -> SUBSET Review]
        /\ fetched \in [Service -> SUBSET Review] /\ fetchedRead \in [Service -> SUBSET Review]
    BY DEF Init, NoRows
  <2>3. status \in [Review -> {"none", "open", "stored", "excluded", "deleted"}]
    BY DEF Init
  <2>4. /\ stamp \in [Review -> Nat] /\ watermark \in [Service -> Nat]
        /\ revision \in [Service -> Nat] /\ revisionRead \in [Service -> Nat]
        /\ clock \in Nat /\ now \in Nat
    BY DEF Init, NoRevision, Never
  <2>5. QED
    BY <2>1, <2>2, <2>3, <2>4 DEF Init, TypeOK
<1>2. NoDeletedInSummary /\ ReadSinceRevision
  BY DEF Init, NoRows, NoDeletedInSummary, ReadSinceRevision
<1>3. QED
  BY <1>1, <1>2 DEF SummaryInv

\* Steps that neither delete a review nor belong to the run's queries.
LEMMA ReviewSteps ==
    ASSUME SummaryInv, NEW r \in Review, Submit(r) \/ Store(r) \/ Exclude(r)
    PROVE  SummaryInv'
<1> USE DEF Submit, Store, Exclude, serviceVars, runVars, Never
<1>1. TypeOK'
  BY ServiceOfAssumption DEF SummaryInv, TypeOK
<1>2. \A q \in Review : status'[q] = "deleted" => status[q] = "deleted"
  BY DEF SummaryInv, TypeOK
<1>3. NoDeletedInSummary'
  BY <1>2 DEF SummaryInv, TypeOK, NoDeletedInSummary
<1>4. ReadSinceRevision'
  BY <1>2 DEF SummaryInv, TypeOK, ReadSinceRevision
<1>5. QED
  BY <1>1, <1>3, <1>4 DEF SummaryInv

\* A deletion moves every revision past the one an open run has read.
LEMMA DeleteStep ==
    ASSUME SummaryInv, NEW r \in Review, Delete(r)
    PROVE  SummaryInv'
<1> USE DEF Delete, runVars, Never, NoRows
<1>1. TypeOK'
  BY DEF SummaryInv, TypeOK
<1>2. NoDeletedInSummary'
  BY DEF SummaryInv, TypeOK, NoDeletedInSummary
<1>3. ASSUME NEW s \in Service, revisionRead[s] <= revision[s]
      PROVE  revisionRead'[s] <= revision'[s] /\ revisionRead'[s] # revision'[s]
  BY <1>3 DEF SummaryInv, TypeOK
<1>4. ReadSinceRevision'
  BY <1>3 DEF SummaryInv, TypeOK, ReadSinceRevision
<1>5. QED
  BY <1>1, <1>2, <1>4 DEF SummaryInv

\* A query returns some of the reviews it is asked of, ...
LEMMA FetchedOfGiven == ASSUME NEW R, NEW T \in Fetch(R) PROVE T \subseteq R
BY DEF Fetch

\* ... and considers them all.
LEMMA FetchConsiders ==
    ASSUME NEW R, NEW T \in Fetch(R), NEW r \in R PROVE Considers(T, r)
BY DEF Fetch, Considers

\* Rows that stand for some review are not none.
LEMMA ConsidersNotEmpty == ASSUME NEW T, NEW r, Considers(T, r) PROVE T # {}
BY FS_EmptySet, MaxReviewsAssumption DEF Considers

\* The queries of the run: what it reads is stored when it reads it.
LEMMA ReadSteps ==
    ASSUME SummaryInv,
           StartRun \/ SelectPending \/ CloseConnection \/ \E s \in Service : ReadInput(s)
    PROVE  SummaryInv'
<1> USE DEF serviceVars, reviewVars
<1>1. CASE StartRun
  BY <1>1 DEF StartRun, SummaryInv, TypeOK, NoDeletedInSummary, ReadSinceRevision
<1>2. CASE SelectPending
  BY <1>2 DEF SelectPending, SummaryInv, TypeOK, NoDeletedInSummary, ReadSinceRevision, Stale
<1>3. CASE CloseConnection
  BY <1>3 DEF CloseConnection, SummaryInv, TypeOK, NoDeletedInSummary, ReadSinceRevision
<1>4. ASSUME NEW s \in Service, ReadInput(s) PROVE SummaryInv'
  <2> USE <1>4
  <2>1. \A r \in Public(s) : r \in Review /\ status[r] # "deleted"
    BY DEF Public
  <2>2. PICK T, rows : /\ T \in Fetch(Public(s)) /\ rows \subseteq T
                       /\ fetchedRead' = [fetchedRead EXCEPT ![s] = T]
                       /\ rowsRead' = [rowsRead EXCEPT ![s] = rows]
    BY DEF ReadInput
  <2>3. T \subseteq Public(s)
    BY <2>2, FetchedOfGiven
  <2>4. TypeOK'
    BY <2>1, <2>2, <2>3 DEF ReadInput, SummaryInv, TypeOK
  <2>5. NoDeletedInSummary'
    BY DEF ReadInput, SummaryInv, NoDeletedInSummary
  <2>6. ReadSinceRevision'
    BY <2>1, <2>2, <2>3 DEF ReadInput, SummaryInv, TypeOK, ReadSinceRevision
  <2>7. QED
    BY <2>4, <2>5, <2>6 DEF SummaryInv
<1>5. QED
  BY <1>1, <1>2, <1>3, <1>4

\* The end of the run, and services it passes over.
LEMMA LeaveSteps ==
    ASSUME SummaryInv, EndRun \/ StopRun \/ \E s \in Service : Skip(s)
    PROVE  SummaryInv'
<1> USE DEF serviceVars, reviewVars
<1>1. CASE EndRun \/ StopRun
  <2>0. clean' \in BOOLEAN
    BY <1>1, Zenon DEF EndRun, StopRun, SummaryInv, TypeOK
  <2>1. /\ phase' = "off" /\ now' \in Nat /\ toRead' = {} /\ toWrite' = {}
        /\ UNCHANGED <<clock, reviewVars, serviceVars, atStart, late>>
    BY <1>1 DEF EndRun, StopRun, ForgetRun, Never
  <2>2. /\ revisionRead' \in [Service -> Nat]
        /\ rowsRead' \in [Service -> SUBSET Review] /\ fetchedRead' \in [Service -> SUBSET Review]
    BY <1>1 DEF EndRun, StopRun, ForgetRun, NoRevision, NoRows
  <2>3. TypeOK'
    BY <2>0, <2>1, <2>2 DEF SummaryInv, TypeOK
  <2>4. NoDeletedInSummary' /\ ReadSinceRevision'
    BY <2>1 DEF SummaryInv, NoDeletedInSummary, ReadSinceRevision
  <2>5. QED
    BY <2>3, <2>4 DEF SummaryInv
<1>2. ASSUME NEW s \in Service, Skip(s) PROVE SummaryInv'
  <2>1. TypeOK'
    BY <1>2 DEF Skip, SummaryInv, TypeOK
  <2>2. NoDeletedInSummary' /\ ReadSinceRevision'
    BY <1>2 DEF Skip, SummaryInv, NoDeletedInSummary, ReadSinceRevision
  <2>3. QED
    BY <2>1, <2>2 DEF SummaryInv
<1>3. QED
  BY <1>1, <1>2

\* A summary is published from rows none of which has been deleted since.
LEMMA PublishStep ==
    ASSUME SummaryInv, NEW s \in Service, Publish(s)
    PROVE  SummaryInv'
<1> USE DEF Publish, reviewVars
<1>1. TypeOK'
  BY DEF SummaryInv, TypeOK
<1>2. NoDeletedInSummary'
  BY DEF SummaryInv, TypeOK, NoDeletedInSummary, ReadSinceRevision
<1>3. ReadSinceRevision'
  BY DEF SummaryInv, ReadSinceRevision
<1>4. QED
  BY <1>1, <1>2, <1>3 DEF SummaryInv

\* Every step keeps SummaryInv.
LEMMA SummaryNext == SummaryInv /\ [Next]_vars => SummaryInv'
<1> SUFFICES ASSUME SummaryInv, [Next]_vars PROVE SummaryInv'
  OBVIOUS
<1>1. CASE Tick \/ UNCHANGED vars
  <2>1. clock' \in Nat /\ UNCHANGED <<reviewVars, serviceVars, runVars, atStart, late, clean>>
    BY <1>1 DEF Tick, vars, SummaryInv, TypeOK
  <2>2. QED
    BY <2>1 DEF SummaryInv, TypeOK, NoDeletedInSummary, ReadSinceRevision,
                reviewVars, serviceVars, runVars
<1>2. CASE Next /\ ~ Tick
  BY <1>2, ReviewSteps, DeleteStep, ReadSteps, LeaveSteps, PublishStep DEF Next
<1>3. QED
  BY <1>1, <1>2

\* Under an unchanged review_revision nothing the run read has been deleted.
THEOREM SummaryInvariance == Spec => []SummaryInv
BY SummaryInit, SummaryNext, PTL DEF Spec

\* No published summary is written from a deleted review, whenever it is deleted.
THEOREM NoDeletedInSummaryAlways == Spec => []NoDeletedInSummary
<1>1. SummaryInv => NoDeletedInSummary
  BY DEF SummaryInv
<1>2. QED
  BY <1>1, SummaryInvariance, PTL

(***************************************************************************)
(* That a clean run covers what was stored when it started.  A review that *)
(* no summary covers is newer than the watermark of its service, unless it *)
(* was in flight when an earlier run read the service.                     *)
(***************************************************************************)
Covered(r) ==
    \/ r \in late
    \/ summary[ServiceOf[r]] # {} /\ Considers(fetched[ServiceOf[r]], r)

Dated ==
    /\ clock >= 1 /\ (phase # "off" => now < clock)
    /\ \A s \in Service : watermark[s] < clock
    /\ phase = "writing" => toRead = {}
    /\ \A r \in Review :
         /\ status[r] \in {"open", "stored"} => 1 <= stamp[r] /\ stamp[r] <= clock
         /\ atStart[r] = "stored" => status[r] \notin {"none", "open"}
         /\ atStart[r] = "stored" /\ status[r] = "stored" /\ phase # "off" => stamp[r] <= now

UnreadIsFresh ==
    \A r \in Review :
      /\ status[r] = "open" => r \in late \/ stamp[r] > watermark[ServiceOf[r]]
      /\ status[r] = "stored" => Covered(r) \/ stamp[r] > watermark[ServiceOf[r]]

\* What a run has fetched of a service considers all that is not newer than the
\* run; something is taken of what is fetched, and nothing else is.
InputIsWhole ==
    /\ \A r \in Review : ServiceOf[r] \in toWrite =>
         /\ status[r] = "open" => r \in late \/ stamp[r] > now
         /\ status[r] = "stored" =>
              Considers(fetchedRead[ServiceOf[r]], r) \/ r \in late \/ stamp[r] > now
    /\ \A s \in toWrite : /\ rowsRead[s] = {} => fetchedRead[s] = {}
                          /\ \A q \in fetchedRead[s] : status[q] \notin {"none", "open"}
    /\ \A s \in Service : \A q \in fetched[s] : status[q] \notin {"none", "open"}

\* What no summary covers is on the lists of an undisturbed run.
Remembered ==
    \A r \in Review : atStart[r] = "stored" /\ status[r] = "stored" =>
      Covered(r) \/ ServiceOf[r] \in toRead \cup toWrite
NothingForgotten == clean /\ phase \in {"reading", "writing", "off"} => Remembered

CoverInv == Dated /\ UnreadIsFresh /\ InputIsWhole /\ NothingForgotten
    /\ (phase = "off" => toRead = {} /\ toWrite = {})

\* What rows consider stays considered while the stamps of the reviews stand.
LEMMA StillConsidered ==
    ASSUME NEW T, NEW r, Considers(T, r), stamp'[r] = stamp[r],
           \A q \in T : stamp'[q] = stamp[q]
    PROVE  Considers(T, r)'
BY DEF Considers, Ahead

\* So it is of the rows fetched for a stored summary, and by the running run.
LEMMA StillCovered ==
    ASSUME SummaryInv, CoverInv, UNCHANGED <<summary, fetched, fetchedRead>>,
           late \subseteq late',
           \A q \in Review : status[q] # "none" => stamp'[q] = stamp[q],
           NEW r \in Review, status[r] # "none"
    PROVE  /\ Covered(r) => Covered(r)'
           /\ ServiceOf[r] \in toWrite /\ Considers(fetchedRead[ServiceOf[r]], r)
                => Considers(fetchedRead[ServiceOf[r]], r)'
<1>1. PICK s \in Service : s = ServiceOf[r]
  BY ServiceOfAssumption
<1>2. ASSUME NEW T, T \subseteq Review, \A q \in T : status[q] # "none", Considers(T, r)
      PROVE  Considers(T, r)'
  <2>1. stamp'[r] = stamp[r] /\ \A q \in T : stamp'[q] = stamp[q]
    BY <1>2
  <2>2. QED
    BY <1>2, <2>1, StillConsidered
<1>3. PICK F : F = fetched[s]
  OBVIOUS
<1>4. PICK G : G = fetchedRead[s]
  OBVIOUS
<1>5. /\ F \subseteq Review /\ \A q \in F : status[q] # "none"
      /\ G \subseteq Review /\ (s \in toWrite => \A q \in G : status[q] # "none")
  BY <1>3, <1>4 DEF SummaryInv, TypeOK, CoverInv, InputIsWhole
<1>6. Considers(F, r) => Considers(F, r)'
  BY <1>2, <1>5
<1>7. s \in toWrite /\ Considers(G, r) => Considers(G, r)'
  BY <1>2, <1>5
<1>8. Covered(r) => Covered(r)'
  <2>1. (r \in late \/ (summary[s] # {} /\ Considers(F, r)))
          => (r \in late' \/ (summary'[s] # {} /\ Considers(F, r)'))
    BY <1>6
  <2>2. F = fetched'[s]
    BY <1>3
  <2>3. (ServiceOf[r])' = s
    BY <1>1
  <2>4. QED
    BY <1>1, <1>3, <2>1, <2>2, <2>3 DEF Covered
<1>9. QED
  BY <1>1, <1>4, <1>7, <1>8

LEMMA CoverInit == Init => CoverInv
<1> SUFFICES ASSUME Init PROVE CoverInv
  OBVIOUS
<1>1. Dated /\ UnreadIsFresh /\ InputIsWhole
  BY DEF Init, Never, NoRows, Dated, UnreadIsFresh, InputIsWhole
<1>2. Remembered
  BY DEF Init, Remembered
<1>3. QED
  BY <1>1, <1>2 DEF CoverInv, NothingForgotten, Init

\* Reviews come and go, and the clock ticks.
LEMMA CoverReviewSteps ==
    ASSUME SummaryInv, CoverInv,
           Tick \/ \E r \in Review : Submit(r) \/ Store(r) \/ Exclude(r)
    PROVE  CoverInv'
<1> USE DEF serviceVars, runVars, reviewVars
<1>1. /\ clean' = clean
      /\ UNCHANGED <<phase, now, toRead, toWrite, rowsRead, fetchedRead, atStart, late,
                     summary, fetched>>
  BY DEF Tick, Submit, Store, Exclude
<1>2. /\ clock' \in Nat /\ clock <= clock'
      /\ \A q \in Review :
           \/ status'[q] = status[q] /\ stamp'[q] = stamp[q]
           \/ status[q] = "none" /\ status'[q] = "open" /\ stamp'[q] = clock
           \/ status[q] = "open" /\ status'[q] = "stored" /\ stamp'[q] = stamp[q]
           \/ status[q] = "stored" /\ status'[q] = "excluded" /\ stamp'[q] = stamp[q]
  BY DEF Tick, Submit, Store, Exclude, SummaryInv, TypeOK
<1>3. \A s \in Service : watermark'[s] = watermark[s] \/ watermark'[s] = 0
  BY DEF Tick, Submit, Store, Exclude, SummaryInv, TypeOK, Never
<1>4. Dated'
  BY <1>1, <1>2, <1>3 DEF SummaryInv, TypeOK, CoverInv, Dated
<1>5. \A q \in Review : status[q] # "none" => stamp'[q] = stamp[q]
  BY <1>2
<1>6. \A r \in Review : status[r] # "none" =>
        /\ Covered(r) => Covered(r)'
        /\ ServiceOf[r] \in toWrite /\ Considers(fetchedRead[ServiceOf[r]], r)
             => Considers(fetchedRead[ServiceOf[r]], r)'
  BY <1>1, <1>5, StillCovered
<1>7. UnreadIsFresh'
  <2>1. ASSUME NEW r \in Review
        PROVE  /\ status'[r] = "open" => r \in late \/ stamp'[r] > watermark'[ServiceOf[r]]
               /\ status'[r] = "stored" => Covered(r)' \/ stamp'[r] > watermark'[ServiceOf[r]]
    <3>1. PICK s \in Service : s = ServiceOf[r]
      BY ServiceOfAssumption
    <3>2. /\ clock \in Nat /\ watermark[s] \in Nat /\ watermark[s] < clock /\ stamp[r] \in Nat
          /\ status[r] \in {"open", "stored"} => 1 <= stamp[r]
      BY DEF CoverInv, Dated, SummaryInv, TypeOK
    <3>3. /\ status[r] = "open" => r \in late \/ stamp[r] > watermark[s]
          /\ status[r] = "stored" => Covered(r) \/ stamp[r] > watermark[s]
      BY <3>1 DEF CoverInv, UnreadIsFresh
    <3>4. r \in late => Covered(r)'
      BY <1>1 DEF Covered
    <3>5. watermark'[s] = watermark[s] \/ watermark'[s] = 0
      BY <1>3
    <3>6. status[r] = "stored" => (Covered(r) => Covered(r)')
      BY <1>6
    <3>7. CASE status[r] = "none"
      <4>1. status'[r] = "none" \/ (status'[r] = "open" /\ stamp'[r] = clock)
        BY <1>2, <3>7
      <4>2. clock > watermark'[s]
        BY <3>2, <3>5, <2>1 DEF CoverInv, Dated, SummaryInv, TypeOK
      <4>3. QED
        BY <3>1, <4>1, <4>2
    <3>8. CASE status[r] # "none"
      <4>1. stamp'[r] = stamp[r]
        BY <1>5, <3>8
      <4>2. \/ status'[r] = status[r]
            \/ status[r] = "open" /\ status'[r] = "stored"
            \/ status'[r] = "excluded"
        BY <1>2, <3>8
      <4>3. status[r] \in {"open", "stored"} /\ stamp[r] > watermark[s] => stamp[r] > watermark'[s]
        BY <3>2, <3>5
      <4>4. QED
        BY <3>1, <3>3, <3>4, <3>6, <4>1, <4>2, <4>3
    <3>9. QED
      BY <3>7, <3>8
  <2>2. QED
    BY <1>1, <2>1 DEF UnreadIsFresh
<1>8. InputIsWhole'
  <2>1. ASSUME NEW r \in Review, ServiceOf[r] \in toWrite
        PROVE  /\ status'[r] = "open" => r \in late \/ stamp'[r] > now
               /\ status'[r] = "stored" =>
                    Considers(fetchedRead[ServiceOf[r]], r)' \/ r \in late \/ stamp'[r] > now
    <3>1. now < clock /\ now \in Nat
      BY <2>1 DEF CoverInv, Dated, SummaryInv, TypeOK
    <3>2. QED
      BY <1>2, <1>6, <2>1, <3>1 DEF CoverInv, InputIsWhole, SummaryInv, TypeOK
  <2>2. \A s \in toWrite : \A q \in fetchedRead[s] : status'[q] \notin {"none", "open"}
    BY <1>2 DEF CoverInv, InputIsWhole, SummaryInv, TypeOK
  <2>3. \A s \in Service : \A q \in fetched[s] : status'[q] \notin {"none", "open"}
    BY <1>2 DEF CoverInv, InputIsWhole, SummaryInv, TypeOK
  <2>4. QED
    BY <1>1, <2>1, <2>2, <2>3 DEF CoverInv, InputIsWhole
<1>9. NothingForgotten'
  BY <1>1, <1>2, <1>6 DEF CoverInv, Dated, NothingForgotten, Remembered
<1>10. QED
  BY <1>1, <1>4, <1>7, <1>8, <1>9 DEF CoverInv

LEMMA CoverDelete ==
    ASSUME SummaryInv, CoverInv, NEW r \in Review, Delete(r)
    PROVE  CoverInv'
<1> USE DEF runVars
<1>1. /\ clean' => clean /\ phase = "started"
      /\ UNCHANGED <<clock, phase, now, toRead, toWrite, rowsRead, fetchedRead, atStart, late, stamp>>
  BY Zenon DEF Delete
<1>2. \A q \in Review : \/ status'[q] = status[q]
                        \/ status[q] \notin {"none", "open"} /\ status'[q] = "deleted"
  BY DEF Delete, SummaryInv, TypeOK
<1>3. \A s \in Service : watermark'[s] = 0 /\ fetched'[s] = {}
  BY DEF Delete, Never, NoRows
<1>4. Dated'
  BY <1>1, <1>2, <1>3 DEF CoverInv, Dated, SummaryInv, TypeOK
<1>5. UnreadIsFresh'
  BY <1>1, <1>2, <1>3, ServiceOfAssumption DEF CoverInv, Dated, UnreadIsFresh, SummaryInv, TypeOK
<1>6. InputIsWhole'
  <2>1. ASSUME NEW q \in Review, ServiceOf[q] \in toWrite
        PROVE  /\ status'[q] = "open" => q \in late \/ stamp[q] > now
               /\ status'[q] = "stored" =>
                    Considers(fetchedRead[ServiceOf[q]], q) \/ q \in late \/ stamp[q] > now
    BY <1>2, <2>1 DEF CoverInv, InputIsWhole
  <2>3. \A q \in Review : Considers(fetchedRead[ServiceOf[q]], q)' = Considers(fetchedRead[ServiceOf[q]], q)
    BY <1>1 DEF Considers, Ahead
  <2>4. \A s \in toWrite : \A q \in fetchedRead[s] : status'[q] \notin {"none", "open"}
    BY <1>2 DEF CoverInv, InputIsWhole, SummaryInv, TypeOK
  <2>5. QED
    BY <1>1, <1>3, <2>1, <2>3, <2>4 DEF CoverInv, InputIsWhole
<1>7. NothingForgotten'
  BY <1>1 DEF NothingForgotten
<1>8. QED
  BY <1>1, <1>4, <1>5, <1>6, <1>7 DEF CoverInv

\* A run starts, selects the stale services and reads their reviews.
LEMMA CoverReadSteps ==
    ASSUME SummaryInv, CoverInv,
           StartRun \/ SelectPending \/ CloseConnection \/ \E s \in Service : ReadInput(s)
    PROVE  CoverInv'
<1> USE DEF serviceVars, reviewVars
<1>0. /\ UNCHANGED <<reviewVars, serviceVars>> /\ late \subseteq late'
      /\ \A T : \A r \in Review : Considers(T, r)' = Considers(T, r)
  <2>1. UNCHANGED <<reviewVars, serviceVars>> /\ late \subseteq late'
    BY DEF StartRun, SelectPending, CloseConnection, ReadInput
  <2>2. QED
    BY <2>1 DEF Considers, Ahead
<1>a. \A r \in Review : Covered(r) => Covered(r)'
  BY <1>0 DEF Covered, Considers, Ahead
<1>1. CASE StartRun
  <2>1. Dated'
    BY <1>1 DEF StartRun, CoverInv, Dated, SummaryInv, TypeOK
  <2>2. UnreadIsFresh' /\ InputIsWhole'
    BY <1>1, <1>a DEF StartRun, CoverInv, UnreadIsFresh, InputIsWhole, SummaryInv, ReadSinceRevision
  <2>3. QED
    BY <1>1, <2>1, <2>2 DEF StartRun, CoverInv, NothingForgotten
<1>2. CASE SelectPending
  <2>1. Dated'
    BY <1>2 DEF SelectPending, CoverInv, Dated
  <2>2. UnreadIsFresh' /\ InputIsWhole'
    BY <1>2, <1>a DEF SelectPending, CoverInv, UnreadIsFresh, InputIsWhole, SummaryInv, ReadSinceRevision
  <2>3. Remembered'
    <3>1. \A r \in Review : status[r] = "stored" /\ stamp[r] > watermark[ServiceOf[r]]
             => ServiceOf[r] \in toRead'
      BY <1>2, ServiceOfAssumption DEF SelectPending, Stale, Public
    <3>2. QED
      BY <1>2, <1>a, <3>1 DEF SelectPending, CoverInv, UnreadIsFresh, Remembered
  <2>4. QED
    BY <1>2, <2>1, <2>2, <2>3 DEF SelectPending, CoverInv, NothingForgotten
<1>3. CASE CloseConnection
  <2>1. Dated' /\ UnreadIsFresh'
    BY <1>3, <1>a DEF CloseConnection, CoverInv, Dated, UnreadIsFresh
  <2>2. InputIsWhole'
    BY <1>3 DEF CloseConnection, CoverInv, InputIsWhole, Considers, Ahead
  <2>3. NothingForgotten'
    BY <1>3, <1>a DEF CloseConnection, CoverInv, NothingForgotten, Remembered
  <2>4. QED
    BY <1>3, <2>1, <2>2, <2>3 DEF CloseConnection, CoverInv
<1>4. ASSUME NEW s \in Service, ReadInput(s) PROVE CoverInv'
  <2>1. /\ phase = "reading" /\ phase' = "reading" /\ s \in toRead
        /\ toRead' = toRead \ {s} /\ toWrite' = toWrite \cup {s}
        /\ late' = late \cup {r \in Review : /\ ServiceOf[r] = s
                                            /\ status[r] = "open" /\ stamp[r] <= now}
        /\ UNCHANGED <<clock, now, atStart, clean>>
    BY <1>4 DEF ReadInput
  <2>2. PICK T, rows : /\ T \in Fetch(Public(s))
                       /\ fetchedRead' = [fetchedRead EXCEPT ![s] = T]
                       /\ rowsRead' = [rowsRead EXCEPT ![s] = rows]
                       /\ rows = {} => T = {}
    <3>1. PICK T, weighted : /\ T \in Fetch(Public(s))
            /\ fetchedRead' = [fetchedRead EXCEPT ![s] = T]
            /\ rowsRead' = [rowsRead EXCEPT ![s] = IF weighted = {} THEN T ELSE weighted]
      BY <1>4 DEF ReadInput
    <3>2. PICK rows : rows = IF weighted = {} THEN T ELSE weighted
      OBVIOUS
    <3>3. rows = {} => T = {}
      BY <3>2
    <3>4. QED
      BY <3>1, <3>2, <3>3
  <2>3. /\ fetchedRead'[s] = T /\ rowsRead'[s] = rows
        /\ \A t \in Service : t # s => fetchedRead'[t] = fetchedRead[t] /\ rowsRead'[t] = rowsRead[t]
    BY <2>2 DEF SummaryInv, TypeOK
  <2>4. Dated'
    BY <1>0, <2>1 DEF CoverInv, Dated
  <2>5. UnreadIsFresh'
    BY <1>0, <1>a, <2>1 DEF CoverInv, UnreadIsFresh
  <2>6. InputIsWhole'
    <3>1. ASSUME NEW r \in Review, ServiceOf[r] \in toWrite'
          PROVE  /\ status[r] = "open" => r \in late' \/ stamp[r] > now
                 /\ status[r] = "stored" =>
                      Considers(fetchedRead'[ServiceOf[r]], r) \/ r \in late' \/ stamp[r] > now
      <4>1. CASE ServiceOf[r] = s
        <5>1. status[r] = "stored" => Considers(T, r)
          BY <2>2, <4>1, FetchConsiders DEF Public
        <5>2. status[r] = "open" => r \in late' \/ stamp[r] > now
          BY <2>1, <4>1 DEF SummaryInv, TypeOK
        <5>3. QED
          BY <2>3, <4>1, <5>1, <5>2
      <4>2. CASE ServiceOf[r] # s
        BY <1>0, <2>1, <2>3, <3>1, <4>2, ServiceOfAssumption DEF CoverInv, InputIsWhole
      <4>3. QED
        BY <4>1, <4>2
    <3>2. \A r \in Review : Considers(fetchedRead[ServiceOf[r]], r)' = Considers(fetchedRead'[ServiceOf[r]], r)
      BY <1>0 DEF Considers, Ahead
    <3>3. \A t \in toWrite' : /\ rowsRead'[t] = {} => fetchedRead'[t] = {}
                              /\ \A q \in fetchedRead'[t] : status[q] \notin {"none", "open"}
      <4>1. T \subseteq Public(s)
        BY <2>2, FetchedOfGiven
      <4>2. \A q \in T : status[q] \notin {"none", "open"}
        BY <4>1 DEF Public
      <4>3. toWrite \subseteq Service
        BY DEF SummaryInv, TypeOK
      <4>4. QED
        BY <2>1, <2>2, <2>3, <4>2, <4>3 DEF CoverInv, InputIsWhole
    <3>4. QED
      BY <1>0, <2>1, <3>1, <3>2, <3>3 DEF CoverInv, InputIsWhole
  <2>7. NothingForgotten'
    BY <1>0, <1>a, <2>1 DEF CoverInv, NothingForgotten, Remembered
  <2>8. QED
    BY <2>1, <2>4, <2>5, <2>6, <2>7 DEF CoverInv
<1>5. QED
  BY <1>1, <1>2, <1>3, <1>4

\* A service is skipped or summarized, or the run ends.
LEMMA CoverWriteSteps ==
    ASSUME SummaryInv, CoverInv,
           EndRun \/ StopRun \/ \E s \in Service : Skip(s) \/ Publish(s)
    PROVE  CoverInv'
<1> USE DEF serviceVars, reviewVars
<1>1. CASE EndRun \/ StopRun
  <2>1. /\ phase' = "off" /\ toRead' = {} /\ toWrite' = {}
        /\ UNCHANGED <<clock, reviewVars, serviceVars, atStart, late>>
    BY <1>1 DEF EndRun, StopRun, ForgetRun
  <2>2. clean' => clean /\ EndRun
    BY <1>1, Zenon DEF EndRun, StopRun
  <2>3. \A r \in Review : Covered(r)' = Covered(r)
    BY <2>1 DEF Covered, Considers, Ahead
  <2>4. Dated' /\ UnreadIsFresh' /\ InputIsWhole'
    BY <2>1, <2>3 DEF CoverInv, Dated, UnreadIsFresh, InputIsWhole
  <2>5. NothingForgotten'
    <3> SUFFICES ASSUME clean' PROVE Remembered'
      BY DEF NothingForgotten
    <3>1. clean /\ phase = "writing" /\ toWrite = {} /\ toRead = {}
      BY <2>2 DEF EndRun, CoverInv, Dated
    <3>2. QED
      BY <2>1, <2>3, <3>1 DEF CoverInv, NothingForgotten, Remembered
  <2>6. QED
    BY <2>1, <2>4, <2>5 DEF CoverInv
<1>2. ASSUME NEW s \in Service, Skip(s) PROVE CoverInv'
  <2>1. /\ phase = "writing" /\ phase' = "writing" /\ toWrite' = toWrite \ {s} /\ s \in toWrite
        /\ UNCHANGED <<clock, reviewVars, serviceVars, now, toRead, rowsRead, fetchedRead, atStart, late>>
    BY <1>2 DEF Skip
  <2>2. clean' => clean /\ rowsRead[s] = {}
    BY <1>2, Zenon DEF Skip
  <2>3. \A r \in Review : /\ Covered(r)' = Covered(r)
          /\ Considers(fetchedRead[ServiceOf[r]], r)' = Considers(fetchedRead[ServiceOf[r]], r)
    BY <2>1 DEF Covered, Considers, Ahead
  <2>4. Dated' /\ UnreadIsFresh' /\ InputIsWhole'
    BY <2>1, <2>3 DEF CoverInv, Dated, UnreadIsFresh, InputIsWhole
  <2>5. NothingForgotten'
    <3> SUFFICES ASSUME clean' PROVE Remembered'
      BY DEF NothingForgotten
    <3>1. ASSUME NEW r \in Review, atStart[r] = "stored", status[r] = "stored", ServiceOf[r] = s
          PROVE  r \in late
      <4>1. fetchedRead[s] = {}
        BY <2>1, <2>2 DEF CoverInv, InputIsWhole
      <4>2. ~ Considers(fetchedRead[s], r)
        BY <4>1, ConsidersNotEmpty
      <4>3. stamp[r] <= now /\ stamp[r] \in Nat /\ now \in Nat
        BY <2>1, <3>1 DEF CoverInv, Dated, SummaryInv, TypeOK
      <4>4. QED
        BY <2>1, <3>1, <4>2, <4>3 DEF CoverInv, InputIsWhole
    <3>2. ASSUME NEW r \in Review, atStart[r] = "stored", status[r] = "stored"
          PROVE  Covered(r) \/ ServiceOf[r] \in toRead \cup (toWrite \ {s})
      BY <2>1, <2>2, <3>1, <3>2 DEF CoverInv, NothingForgotten, Remembered, Covered
    <3>3. QED
      BY <2>1, <2>3, <3>2 DEF Remembered
  <2>6. QED
    BY <2>1, <2>4, <2>5 DEF CoverInv
<1>3. ASSUME NEW s \in Service, Publish(s) PROVE CoverInv'
  <2>1. /\ phase = "writing" /\ phase' = "writing" /\ toWrite' = toWrite \ {s} /\ s \in toWrite
        /\ UNCHANGED <<clock, reviewVars, revision, now, toRead, rowsRead, fetchedRead, atStart, late>>
        /\ rowsRead[s] # {}
    BY <1>3 DEF Publish
  <2>2. \A T : \A r \in Review : Considers(T, r)' = Considers(T, r)
    BY <2>1 DEF Considers, Ahead
  <2>3. \A r \in Review : Considers(fetchedRead[ServiceOf[r]], r)' = Considers(fetchedRead[ServiceOf[r]], r)
    BY <2>1 DEF Considers, Ahead
  <2>4. CASE UNCHANGED <<summary, fetched, watermark>> /\ ~clean'
    <3>1. \A r \in Review : Covered(r)' = Covered(r)
      BY <2>1, <2>4 DEF Covered, Considers, Ahead
    <3>2. Dated' /\ UnreadIsFresh' /\ InputIsWhole'
      BY <2>1, <2>3, <2>4, <3>1 DEF CoverInv, Dated, UnreadIsFresh, InputIsWhole
    <3>3. QED
      BY <2>1, <2>4, <3>2 DEF CoverInv, NothingForgotten, Remembered
  <2>5. CASE /\ summary' = [summary EXCEPT ![s] = rowsRead[s]]
             /\ fetched' = [fetched EXCEPT ![s] = fetchedRead[s]]
             /\ watermark' = [watermark EXCEPT ![s] = now] /\ clean' = clean
    <3>1. /\ summary'[s] = rowsRead[s] /\ fetched'[s] = fetchedRead[s] /\ watermark'[s] = now
          /\ \A t \in Service : t # s => /\ summary'[t] = summary[t] /\ fetched'[t] = fetched[t]
                                         /\ watermark'[t] = watermark[t]
      BY <2>5 DEF SummaryInv, TypeOK
    <3>2. Dated'
      BY <2>1, <3>1 DEF CoverInv, Dated
    <3>3. InputIsWhole'
      BY <2>1, <2>3, <3>1 DEF CoverInv, InputIsWhole
    <3>4. \A r \in Review : ServiceOf[r] = s /\ Considers(fetchedRead[s], r) => Covered(r)'
      BY <2>1, <3>1 DEF Covered, Considers, Ahead
    <3>5. \A r \in Review : ServiceOf[r] # s => (Covered(r)' <=> Covered(r))
      BY <2>1, <3>1, ServiceOfAssumption DEF Covered, Considers, Ahead
    <3>6. \A r \in Review : r \in late => Covered(r)'
      BY <2>1 DEF Covered
    <3>7. UnreadIsFresh'
      <4>1. ASSUME NEW r \in Review
            PROVE  /\ status[r] = "open" => r \in late \/ stamp[r] > watermark'[ServiceOf[r]]
                   /\ status[r] = "stored" => Covered(r)' \/ stamp[r] > watermark'[ServiceOf[r]]
        <5>1. CASE ServiceOf[r] = s
          BY <2>1, <3>1, <3>4, <3>6, <5>1 DEF CoverInv, InputIsWhole
        <5>2. CASE ServiceOf[r] # s
          BY <3>1, <3>5, <5>2, ServiceOfAssumption DEF CoverInv, UnreadIsFresh
        <5>3. QED
          BY <5>1, <5>2
      <4>2. QED
        BY <2>1, <4>1 DEF UnreadIsFresh
    <3>8. NothingForgotten'
      <4> SUFFICES ASSUME clean PROVE Remembered'
        BY <2>5 DEF NothingForgotten
      <4>1. ASSUME NEW r \in Review, atStart[r] = "stored", status[r] = "stored"
            PROVE  Covered(r)' \/ ServiceOf[r] \in toRead \cup (toWrite \ {s})
        <5>1. CASE ServiceOf[r] = s
          <6>1. stamp[r] <= now /\ stamp[r] \in Nat /\ now \in Nat
            BY <2>1, <4>1 DEF CoverInv, Dated, SummaryInv, TypeOK
          <6>2. QED
            BY <2>1, <3>4, <3>6, <4>1, <5>1, <6>1 DEF CoverInv, InputIsWhole
        <5>2. CASE ServiceOf[r] # s
          BY <2>1, <3>5, <4>1, <5>2 DEF CoverInv, NothingForgotten, Remembered
        <5>3. QED
          BY <5>1, <5>2
      <4>2. QED
        BY <2>1, <4>1 DEF Remembered
    <3>9. QED
      BY <2>1, <3>2, <3>3, <3>7, <3>8 DEF CoverInv
  <2>6. QED
    BY <1>3, <2>4, <2>5 DEF Publish
<1>4. QED
  BY <1>1, <1>2, <1>3

LEMMA CoverNext == SummaryInv /\ CoverInv /\ [Next]_vars => CoverInv'
<1> SUFFICES ASSUME SummaryInv, CoverInv, [Next]_vars PROVE CoverInv'
  OBVIOUS
<1>1. CASE UNCHANGED vars
  BY <1>1 DEF vars, reviewVars, serviceVars, runVars, CoverInv, Dated, UnreadIsFresh, Covered,
              Considers, Ahead, InputIsWhole, NothingForgotten, Remembered
<1>2. CASE Next
  BY <1>2, CoverReviewSteps, CoverDelete, CoverReadSteps, CoverWriteSteps DEF Next
<1>3. QED
  BY <1>1, <1>2

\* After a run that did all its work every review stored since before it was
\* considered for the summary of its service, and nothing but the limit of the
\* query and the weight of others has kept it out, unless an earlier run met
\* the review in flight.
THEOREM CleanRunCoversAlways == Spec => []CleanRunCovers
<1>1. CoverInv => CleanRunCovers
  BY DEF CoverInv, NothingForgotten, Remembered, Covered, CleanRunCovers
<1>2. QED
  BY <1>1, CoverInit, CoverNext, SummaryInvariance, PTL DEF Spec
=============================================================================
