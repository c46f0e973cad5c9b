------------------------ MODULE ListingMetadataProofs ------------------------
(* Theorems about ListingMetadata, for every number of overlapping runs. *)
EXTENDS ListingMetadata, TLAPS

\* What a refresh writes of its copy is a row.
LEMMA WrittenRows ==
    ASSUME TypeOK, NEW w \in Worker, copy[w] # NoRow
    PROVE  /\ copy[w] \in Row /\ Replaced(copy[w]) \in Row
           /\ \A m \in Manifest :
                [copy[w] EXCEPT !.name = m.name, !.description = m.description, !.listed = TRUE]
                  \in Row
<1>1. copy[w] \in Row /\ row \in Row
  BY DEF TypeOK
<1>2. QED
  BY <1>1 DEF Row, Replaced, Manifest

\* The list of the evidence after another entry.
LEMMA LearnedEntry ==
    ASSUME NEW list \in Evidence, NEW P \in SUBSET Payee
    PROVE  LET s == Append(LastOf(list, MaxEvidence - 1), P) IN
           /\ s \in Evidence
           /\ \/ Len(list) < MaxEvidence /\ s = Append(list, P)
              \/ Len(list) = MaxEvidence /\ s = Append(Tail(list), P)
<1>1. /\ list \in Seq(SUBSET Payee) /\ Len(list) <= MaxEvidence /\ Len(list) \in Nat
      /\ MaxEvidence \in Nat \ {0}
  BY ListingAssumption DEF Evidence
<1>2. CASE Len(list) < MaxEvidence
  <2>1. LastOf(list, MaxEvidence - 1) = list
    BY <1>1, <1>2 DEF LastOf
  <2>2. Append(list, P) \in Seq(SUBSET Payee) /\ Len(Append(list, P)) = Len(list) + 1
    BY <1>1
  <2>3. QED
    BY <1>1, <1>2, <2>1, <2>2 DEF Evidence
<1>3. CASE Len(list) = MaxEvidence
  <2>1. LastOf(list, MaxEvidence - 1) = SubSeq(list, 2, Len(list))
    BY <1>1, <1>3 DEF LastOf
  <2>2. SubSeq(list, 2, Len(list)) = Tail(list)
    BY <1>1, <1>3
  <2>3. Tail(list) \in Seq(SUBSET Payee) /\ Len(Tail(list)) = Len(list) - 1
    BY <1>1, <1>3
  <2>4. /\ Append(Tail(list), P) \in Seq(SUBSET Payee)
        /\ Len(Append(Tail(list), P)) = Len(list)
    BY <1>1, <2>3
  <2>5. QED
    BY <1>1, <1>3, <2>1, <2>2, <2>4 DEF Evidence
<1>4. QED
  BY <1>1, <1>2, <1>3

\* The end of a run keeps what is true of the runs.
LEMMA DoneInv ==
    ASSUME ListingInv, NEW w \in Worker, pc[w] \in {"read", "fetched"}, Done(w),
           row' \in Row, Labelled(row)', payees' = payees
    PROVE  ListingInv'
<1>0. TypeOK
  BY DEF ListingInv
<1>1. \A v \in Worker : /\ pc'[v] = IF v # w THEN pc[v] ELSE IF w \in Corrector THEN "done" ELSE "idle"
                        /\ copy'[v] = IF v # w THEN copy[v] ELSE NoRow
                        /\ heard'[v] = IF v # w THEN heard[v] ELSE heard'[v]
  BY <1>0 DEF Done, Goto, TypeOK
<1>2. TypeOK'
  BY <1>0, <1>1 DEF TypeOK, Done, Goto
<1>3. curated' = curated
  BY DEF Done
<1>4. QED
  BY <1>1, <1>2, <1>3 DEF ListingInv, Labelled

\* Every step keeps the invariant.
LEMMA ListingNext == ListingInv /\ [Next]_vars => ListingInv'
<1> SUFFICES ASSUME ListingInv, [Next]_vars PROVE ListingInv'
  OBVIOUS
<1>0. TypeOK /\ Labelled(row) /\ \A w \in Worker : copy[w] # NoRow => Labelled(copy[w])
  BY DEF ListingInv
<1>1. ASSUME NEW m \in Manifest \cup {Stopped}, Declare(m) PROVE ListingInv'
  BY <1>0, <1>1 DEF Declare, ListingInv, TypeOK, Labelled
<1>2. ASSUME NEW P \in SUBSET Payee, Learn(P) PROVE ListingInv'
  <2>1. PICK s : s = Append(LastOf(row.learned, MaxEvidence - 1), P)
    OBVIOUS
  <2>2. s \in Evidence
    BY <1>0, <2>1, LearnedEntry DEF TypeOK, Row
  <2>3. row' = [row EXCEPT !.learned = s] /\ curated' = curated
    BY <1>2, <2>1 DEF Learn
  <2>4. row' \in Row /\ Labelled(row)'
    BY <1>0, <2>2, <2>3 DEF TypeOK, Row, Labelled
  <2>5. QED
    BY <1>0, <1>2, <2>4 DEF Learn, ListingInv, TypeOK, Labelled
<1>3. ASSUME NEW w \in Worker, Read(w) PROVE ListingInv'
  <2>1. \A v \in Worker : /\ pc'[v] = IF v = w THEN "read" ELSE pc[v]
                          /\ copy'[v] = IF v = w THEN row ELSE copy[v]
    BY <1>0, <1>3 DEF Read, Goto, TypeOK
  <2>2. row # NoRow
    BY <1>0, ListingAssumption DEF TypeOK
  <2>3. TypeOK'
    BY <1>0, <1>3, <2>1, <2>2 DEF Read, Goto, TypeOK
  <2>4. QED
    BY <1>0, <1>3, <2>1, <2>3 DEF Read, ListingInv, Labelled
<1>4. ASSUME NEW w \in Worker, Fetch(w) \/ FetchFails(w) PROVE ListingInv'
  <2>1. PICK answer \in Manifest \cup {Stopped} : Hears(w, answer)
    BY <1>0, <1>4 DEF Fetch, FetchFails, TypeOK
  <2>2. \A v \in Worker : /\ pc'[v] = IF v = w THEN "fetched" ELSE pc[v]
                          /\ heard'[v] = IF v = w THEN answer ELSE heard[v]
    BY <1>0, <2>1 DEF Hears, Goto, TypeOK
  <2>3. TypeOK'
    BY <1>0, <2>1, <2>2 DEF Hears, Goto, TypeOK
  <2>4. QED
    BY <1>0, <2>1, <2>3 DEF Hears, ListingInv, Labelled
<1>5. ASSUME NEW w \in Worker, Refresh(w) PROVE ListingInv'
  <2>1. /\ pc[w] = "fetched" /\ w \in Refresher /\ copy[w] # NoRow /\ row \in Row
        /\ heard[w] \in Manifest \cup {Stopped} /\ payees' = payees /\ Done(w)
    BY <1>0, <1>5 DEF Refresh, TypeOK
  <2>2. CASE row' = row \/ row' = [row EXCEPT !.name = Slug]
    <3>1. row' \in Row /\ Labelled(row)'
      BY <1>0, <2>1, <2>2 DEF Row, Labelled, Done
    <3>2. QED
      BY <2>1, <3>1, DoneInv
  <2>3. CASE heard[w] \in Manifest
             /\ row' = [copy[w] EXCEPT !.name = heard[w].name,
                                       !.description = heard[w].description, !.listed = TRUE]
    <3>1. row' \in Row /\ copy[w] \in Row
      BY <1>0, <2>1, <2>3, WrittenRows
    <3>2. /\ row'.description \notin FoundText /\ row'.listed
          /\ row'.sourced = copy[w].sourced
      BY <1>0, <2>1, <2>3, <3>1, ListingAssumption DEF Manifest, Row
    <3>3. curated' = curated /\ Labelled(copy[w])
      BY <1>0, <2>1 DEF Done
    <3>4. Labelled(row)'
      BY <3>2, <3>3 DEF Labelled
    <3>5. QED
      BY <2>1, <3>1, <3>4, DoneInv
  <2>4. [row EXCEPT !.name = @] = row
    BY <2>1 DEF Row
  <2>5. QED
    BY <1>5, <2>1, <2>2, <2>3, <2>4 DEF Refresh
<1>6. ASSUME NEW text \in FoundText, Fill(text) PROVE ListingInv'
  <2>1. row \in Row /\ text \notin {NoText} /\ curated' = curated
    BY <1>0, <1>6, ListingAssumption DEF Fill, TypeOK
  <2>2. /\ ~ curated /\ ~ row.listed
        /\ row' = [row EXCEPT !.description = text, !.sourced = TRUE]
    BY <1>0, <1>6 DEF Fill, Labelled
  <2>3. row' \in Row
    BY <2>1, <2>2 DEF Row
  <2>4. row'.sourced /\ row'.listed = row.listed
    BY <2>1, <2>2 DEF Row
  <2>5. Labelled(row)'
    BY <2>1, <2>2, <2>4 DEF Labelled
  <2>6. QED
    BY <1>0, <1>6, <2>3, <2>5 DEF Fill, ListingInv, TypeOK, Labelled
<1>7. ASSUME NEW w \in Worker, Correct(w) PROVE ListingInv'
  <2>1. /\ pc[w] = "read" /\ w \in Corrector /\ copy[w] # NoRow /\ Labelled(copy[w])
        /\ payees' = payees /\ Done(w) /\ curated' = curated
    BY <1>0, <1>7 DEF Correct, Done, TypeOK
  <2>2. row' \in Row /\ copy[w] \in Row
    BY <1>0, <1>7, <2>1, WrittenRows DEF Correct
  <2>3. /\ row'.description = copy[w].description
        /\ row'.sourced = copy[w].sourced /\ row'.listed = copy[w].listed
    BY <1>7, <2>2 DEF Correct, Replaced, Row
  <2>4. Labelled(row)'
    BY <2>1, <2>3 DEF Labelled
  <2>5. QED
    BY <2>1, <2>2, <2>4, DoneInv
<1>8. ASSUME NEW w \in Worker, Abort(w) PROVE ListingInv'
  <2>1. row' \in Row /\ Labelled(row)' /\ payees' = payees /\ Done(w)
    BY <1>0, <1>8 DEF Abort, Done, TypeOK, Labelled
  <2>2. QED
    BY <1>8, <2>1, DoneInv DEF Abort
<1>9. CASE UNCHANGED vars
  BY <1>0, <1>9 DEF vars, ListingInv, TypeOK, Labelled
<1>10. QED
  BY <1>1, <1>2, <1>3, <1>4, <1>5, <1>6, <1>7, <1>8, <1>9 DEF Next

\* The types, and the labels of row and copies, hold in every reachable state.
THEOREM ListingInvariance == Spec => []ListingInv
<1>1. Init => ListingInv
  <2> SUFFICES ASSUME Init PROVE ListingInv
    OBVIOUS
  <2>1. PICK list : list = IF Known = {} THEN <<>> ELSE <<Known>>
    OBVIOUS
  <2>2. list \in Evidence
    <3>1. /\ <<>> \in Seq(SUBSET Payee) /\ Len(<<>>) = 0
          /\ <<Known>> \in Seq(SUBSET Payee) /\ Len(<<Known>>) = 1
      BY ListingAssumption
    <3>2. QED
      BY <2>1, <3>1, ListingAssumption DEF Evidence
  <2>3. PICK name \in {Host, Slug} :
          row = [name |-> name, description |-> IF curated THEN CuratedText ELSE NoText,
                 sourced |-> FALSE, listed |-> FALSE, learned |-> list]
    BY <2>1 DEF Init
  <2>4. row \in Row /\ Labelled(row)
    BY <2>2, <2>3, ListingAssumption DEF Init, Row, Labelled
  <2>5. TypeOK
    <3>1. /\ pc = [w \in Worker |-> "idle"] /\ copy = [w \in Worker |-> NoRow]
          /\ heard = [w \in Worker |-> NoText]
          /\ curated \in BOOLEAN /\ payees = Known /\ manifest \in Manifest
      BY DEF Init
    <3>2. QED
      BY <2>4, <3>1, ListingAssumption DEF TypeOK, Worker
  <2>6. QED
    BY <2>4, <2>5 DEF Init, ListingInv
<1>2. QED
  BY <1>1, ListingNext, PTL DEF Spec

\* Text a fill found never passes for text the agent declared, and never takes
\* the place of a curator's.
THEOREM FoundIsLabelledAlways == Spec => []FoundIsLabelled
<1>1. ListingInv => FoundIsLabelled
  BY DEF ListingInv, Labelled, FoundIsLabelled
<1>2. QED
  BY <1>1, ListingInvariance, PTL

\* The evidence of a payee is lost to nothing but newer evidence, when the list
\* is full and it is the oldest, and a run that replaces the metadata by a copy
\* older than the evidence.
THEOREM LostOnlyToNewerOrStaleCopyAlways == Spec => LostOnlyToNewerOrStaleCopy
<1> DEFINE Stale(p) ==
             \E w \in Refresher \cup Corrector : copy[w] # NoRow /\ p \notin Learned(copy[w])
           A == \A p \in Learned(row) \ Learned(row') : MayBeLost(p)
<1>1. ListingInv /\ [Next]_vars => [A]_vars
  <2> SUFFICES ASSUME ListingInv, [Next]_vars, NEW p \in Learned(row), p \notin Learned(row')
               PROVE  GivesWay(p) \/ Stale(p)
    BY DEF MayBeLost
  <2>0. TypeOK /\ row \in Row
    BY DEF ListingInv, TypeOK
  <2>1. ASSUME NEW w \in Worker, Refresh(w) PROVE Stale(p)
    <3>1. w \in Refresher /\ copy[w] # NoRow /\ copy[w] \in Row
      BY <2>0, <2>1 DEF Refresh, TypeOK
    <3>2. row'.learned = row.learned \/ row'.learned = copy[w].learned
      BY <2>0, <2>1, <3>1 DEF Refresh, Row
    <3>3. p \notin Learned(copy[w])
      BY <3>2 DEF Learned
    <3>4. QED
      BY <3>1, <3>3
  <2>2. ASSUME NEW w \in Worker, Correct(w) PROVE Stale(p)
    <3>1. w \in Corrector /\ copy[w] # NoRow /\ copy[w] \in Row
      BY <2>0, <2>2 DEF Correct, TypeOK
    <3>2. row'.learned = copy[w].learned
      BY <2>0, <2>2, <3>1 DEF Correct, Replaced, Row
    <3>3. QED
      BY <3>1, <3>2 DEF Learned
  <2>3. ASSUME NEW text \in FoundText, Fill(text) PROVE FALSE
    <3>1. row'.learned = row.learned
      BY <2>0, <2>3 DEF Fill, Row
    <3>2. QED
      BY <3>1 DEF Learned
  <2>4. ASSUME NEW P \in SUBSET Payee, Learn(P) PROVE GivesWay(p)
    <3>1. PICK list : list = row.learned
      OBVIOUS
    <3>2. PICK s : s = Append(LastOf(list, MaxEvidence - 1), P)
      OBVIOUS
    <3>3. row'.learned = s
      BY <2>0, <2>4, <3>1, <3>2 DEF Learn, Row
    <3>4. list \in Evidence /\ list \in Seq(SUBSET Payee) /\ Len(list) \in Nat
      BY <2>0, <3>1 DEF Row, Evidence
    <3>5. \/ Len(list) < MaxEvidence /\ s = Append(list, P)
          \/ Len(list) = MaxEvidence /\ s = Append(Tail(list), P)
      BY <3>2, <3>4, LearnedEntry
    <3>6. PICK i \in 1..Len(list) : p \in list[i]
      BY <3>1, <3>4 DEF Learned
    <3>7. p \in Payee /\ \A j \in DOMAIN s : p \notin s[j]
      BY <3>3 DEF Learned
    <3>8. CASE s = Append(list, P)
      <4>1. i \in DOMAIN s /\ s[i] = list[i]
        BY <3>4, <3>6, <3>8
      <4>2. QED
        BY <3>6, <3>7, <4>1
    <3>9. CASE Len(list) = MaxEvidence /\ s = Append(Tail(list), P)
      <4>1. CASE i = 1
        <5>1. Head(list) = list[1]
          BY <3>4, <3>6
        <5>2. QED
          BY <3>1, <3>3, <3>6, <3>9, <4>1, <5>1 DEF GivesWay
      <4>2. CASE i # 1
        <5>1. /\ Tail(list) \in Seq(SUBSET Payee) /\ Len(Tail(list)) = Len(list) - 1
              /\ i - 1 \in 1..Len(Tail(list)) /\ Tail(list)[i - 1] = list[i]
          BY <3>4, <3>6, <4>2
        <5>2. i - 1 \in DOMAIN s /\ s[i - 1] = list[i]
          BY <3>9, <5>1
        <5>3. QED
          BY <3>6, <3>7, <5>2
      <4>3. QED
        BY <4>1, <4>2
    <3>10. QED
      BY <3>5, <3>8, <3>9
  <2>5. ASSUME row' = row PROVE FALSE
    BY <2>5
  <2>6. \A w \in Worker : Read(w) \/ Fetch(w) \/ FetchFails(w) \/ Abort(w) => row' = row
    BY DEF Read, Fetch, FetchFails, Hears, Abort
  <2>7. \A m \in Manifest \cup {Stopped} : Declare(m) => row' = row
    BY DEF Declare
  <2>8. UNCHANGED vars => row' = row
    BY DEF vars
  <2>9. \/ row' = row
        \/ \E P \in SUBSET Payee : Learn(P)
        \/ \E text \in FoundText : Fill(text)
        \/ \E w \in Worker : Refresh(w) \/ Correct(w)
    BY <2>6, <2>7, <2>8, Zenon DEF Next
  <2>10. CASE row' = row
    BY <2>5, <2>10
  <2>11. CASE \E P \in SUBSET Payee : Learn(P)
    BY <2>4, <2>11
  <2>12. CASE \E text \in FoundText : Fill(text)
    BY <2>3, <2>12
  <2>13. CASE \E w \in Worker : Refresh(w) \/ Correct(w)
    BY <2>1, <2>2, <2>13
  <2>14. QED
    BY <2>9, <2>10, <2>11, <2>12, <2>13
<1>2. QED
  BY <1>1, ListingInvariance, PTL DEF Spec, LostOnlyToNewerOrStaleCopy
=============================================================================
