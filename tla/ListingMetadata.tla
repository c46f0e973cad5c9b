--------------------------- MODULE ListingMetadata ---------------------------
(***************************************************************************)
(* The row of one agent service and everything that writes its name and    *)
(* metadata: refresh_agent_listings (agent_listings.py), nightly and after *)
(* a registration, fill_descriptions (listing_metadata.py), the payees     *)
(* that register_advertised_payees learns (identity.py) and the correction *)
(* of fix_machine_payees.py.                                               *)
(*                                                                         *)
(* A refresh and a correction read the row, ask other hosts with no lock   *)
(* held, and replace the metadata by the copy they read, with their keys   *)
(* set.  A fill asks other hosts, too, but merges its keys into the        *)
(* metadata and uses nothing it has read of the row, so it is one step.    *)
(* Learning locks the row.                                                 *)
(*                                                                         *)
(* A fill is run with force, which admits any row; times, urls, the        *)
(* search text and a fill that finds nothing are left out.                 *)
(***************************************************************************)
EXTENDS Naturals, Sequences

CONSTANTS
    Refresher, Corrector,            \* the runs of the two writers that keep a copy
    Nightly,                         \* the refreshes of the nightly job; the others follow
                                     \* a registration, in the background
    Payee,                           \* payees the service's 402 advertises
    Known,                           \* those that are learned already
    DeclaredName, DeclaredText,      \* what the agent's manifest may say
    FoundText,                       \* what a fill may find
    CuratedText,                     \* a description set by hand
    Host, Slug,                      \* the shared host and the service's slug, as names;
                                     \* Slug stands for a name a reviewer gave, too
    NoText, Stopped, NoRow,
    MaxEvidence                      \* the entries kept in advertised_payees, 20

Worker   == Refresher \cup Corrector
Manifest == [name : DeclaredName, description : DeclaredText \cup {NoText}]

Evidence == {list \in Seq(SUBSET Payee) : Len(list) <= MaxEvidence}

\* sourced: the key description_source is set; listed: listing_source is the
\* agent's; learned: advertised_payees, each entry as the payees it registered.
Row ==
    [name : DeclaredName \cup {Host, Slug},
     description : DeclaredText \cup FoundText \cup {CuratedText, NoText},
     sourced : BOOLEAN, listed : BOOLEAN, learned : Evidence]

Learned(r) == {p \in Payee : \E i \in DOMAIN r.learned : p \in r.learned[i]}

ASSUME ListingAssumption ==
    /\ Refresher \cap Corrector = {}
    /\ DeclaredText \cap FoundText = {}
    /\ CuratedText \notin DeclaredText \cup FoundText
    /\ NoText \notin DeclaredText \cup FoundText \cup {CuratedText}
    /\ {Host, Slug} \cap DeclaredName = {} /\ Host # Slug
    /\ Stopped \notin Manifest /\ NoRow \notin Row
    /\ Nightly \subseteq Refresher /\ Known \subseteq Payee
    /\ MaxEvidence \in Nat \ {0}

VARIABLES
    row,
    curated,    \* history: the row began with a description set by hand
    payees,     \* the payees registered because the 402 advertised them
    manifest,   \* what the agent declares, or Stopped
    pc,
    copy,       \* copy[w]: the row w works on, or NoRow
    heard       \* heard[w]: what the service answered w

vars == <<row, curated, payees, manifest, pc, copy, heard>>

Init ==
    /\ curated \in BOOLEAN
    /\ \E name \in {Host, Slug} :
         row = [name |-> name, description |-> IF curated THEN CuratedText ELSE NoText,
                sourced |-> FALSE, listed |-> FALSE,
                learned |-> IF Known = {} THEN <<>> ELSE <<Known>>]
    /\ payees = Known
    /\ manifest \in Manifest
    /\ pc = [w \in Worker |-> "idle"]
    /\ copy = [w \in Worker |-> NoRow]
    /\ heard = [w \in Worker |-> NoText]

Goto(w, step) == pc' = [pc EXCEPT ![w] = step]

\* The agent deploys, stops or deletes its service.
Declare(m) ==
    /\ m # manifest
    /\ manifest' = m
    /\ UNCHANGED <<row, curated, payees, pc, copy, heard>>

\* The row is read, and the transaction is closed.
Read(w) ==
    /\ pc[w] = "idle"
    /\ copy' = [copy EXCEPT ![w] = row]
    /\ Goto(w, "read")
    /\ UNCHANGED <<row, curated, payees, manifest, heard>>

Hears(w, answer) ==
    /\ pc[w] = "read" /\ w \in Refresher
    /\ heard' = [heard EXCEPT ![w] = answer]
    /\ Goto(w, "fetched")
    /\ UNCHANGED <<row, curated, payees, manifest, copy>>

Fetch(w) == Hears(w, manifest)

\* fetch_listing answers None of a live service, too: on an HTTP error, another
\* status than 200, or a manifest that is not the service's.
FetchFails(w) == Hears(w, Stopped)

\* The run ends; a refresh runs again another night, a correction is made once.
Done(w) ==
    /\ copy' = [copy EXCEPT ![w] = NoRow]
    /\ heard' = [heard EXCEPT ![w] = NoText]
    /\ Goto(w, IF w \in Corrector THEN "done" ELSE "idle")
    /\ UNCHANGED <<curated, manifest>>

\* The metadata of the row is replaced by that of r; the name is kept.
Replaced(r) == [r EXCEPT !.name = row.name]

\* Faulty: a service whose agent says nothing keeps its other description.
RefreshKeepingText(w) ==
    LET m == heard[w]  old == copy[w] IN
    /\ pc[w] = "fetched" /\ w \in Refresher
    /\ row' = IF m = Stopped
              THEN [row EXCEPT !.name = IF old.name = Host THEN Slug ELSE @]
              ELSE IF old.name = m.name /\ old.description = m.description THEN row
              ELSE [old EXCEPT !.name = m.name, !.listed = TRUE,
                               !.description = IF m.description = NoText THEN @ ELSE m.description]
    /\ UNCHANGED payees
    /\ Done(w)

\* refresh_agent_listings decides and writes by the row it read.
Refresh(w) ==
    LET m == heard[w]  old == copy[w] IN
    /\ pc[w] = "fetched" /\ w \in Refresher
    /\ \/ /\ m = Stopped
          /\ row' = [row EXCEPT !.name = IF old.name = Host THEN Slug ELSE @]
       \/ /\ m # Stopped
          /\ row' = IF old.name = m.name /\ old.description = m.description THEN row
                    ELSE [old EXCEPT !.name = m.name, !.description = m.description,
                                     !.listed = TRUE]
    /\ UNCHANGED payees
    /\ Done(w)

\* Faulty: the metadata is replaced by what the fill found.
FillReplacing(text) ==
    /\ row.description = NoText \/ row.sourced
    /\ ~ row.listed
    /\ row' = [row EXCEPT !.description = text, !.sourced = TRUE, !.learned = <<>>]
    /\ UNCHANGED <<curated, payees, manifest, pc, copy, heard>>

\* Faulty: what was declared meanwhile is replaced.
FillUnchecked(text) ==
    /\ row' = [row EXCEPT !.description = text, !.sourced = TRUE]
    /\ UNCHANGED <<curated, payees, manifest, pc, copy, heard>>

\* fill_descriptions has found a text and merges it, unless the row is declared
\* by then.
Fill(text) ==
    /\ row.description = NoText \/ row.sourced
    /\ ~ row.listed
    /\ row' = [row EXCEPT !.description = text, !.sourced = TRUE]
    /\ UNCHANGED <<curated, payees, manifest, pc, copy, heard>>

\* fix_machine_payees.py: of the metadata only payee_corrections, which is left
\* out, is its own; what its probes say and what it writes to the payees is in
\* ServiceIdentity.
Correct(w) ==
    /\ pc[w] = "read" /\ w \in Corrector
    /\ row' = Replaced(copy[w])
    /\ UNCHANGED payees
    /\ Done(w)

\* The last n entries of a list.
LastOf(s, n) == IF Len(s) <= n THEN s ELSE SubSeq(s, Len(s) - n + 1, Len(s))

\* register_advertised_payees, under the lock of the row: the payees P of the
\* 402 that were not registered make one entry, and the oldest ones give way.
Learn(P) ==
    /\ P # {} /\ P \cap payees = {}
    /\ payees' = payees \cup P
    /\ row' = [row EXCEPT !.learned = Append(LastOf(@, MaxEvidence - 1), P)]
    /\ UNCHANGED <<curated, manifest, pc, copy, heard>>

\* Faulty: a run that fails leaves its copy to the next.
AbortKeeping(w) ==
    /\ pc[w] \in {"read", "fetched"}
    /\ Goto(w, "idle")
    /\ UNCHANGED <<row, curated, payees, manifest, copy, heard>>

\* The run fails before its transaction commits.
Abort(w) ==
    /\ pc[w] \in {"read", "fetched"}
    /\ UNCHANGED <<row, payees>>
    /\ Done(w)

Next ==
    \/ \E m \in Manifest \cup {Stopped} : Declare(m)
    \/ \E P \in SUBSET Payee : Learn(P)
    \/ \E text \in FoundText : Fill(text)
    \/ \E w \in Worker :
         \/ Read(w) \/ Fetch(w) \/ FetchFails(w)
         \/ Refresh(w) \/ Correct(w) \/ Abort(w)

\* The job refreshes every night, its requests time out, and again and again
\* there is a night on which a service that is up answers and the transaction
\* commits.  Of a refresh after a registration nothing is assumed.
Fairness ==
    \A w \in Nightly :
        /\ WF_vars(Read(w)) /\ WF_vars(Refresh(w) \/ Abort(w))
        /\ SF_vars(Fetch(w)) /\ SF_vars(Refresh(w) /\ heard[w] # Stopped)

Spec == Init /\ [][Next]_vars
FairSpec == Spec /\ Fairness

(***************************************************************************)
(* Properties.                                                             *)
(***************************************************************************)

\* Types of the row and of what the runs hold.
TypeOK ==
    /\ row \in Row
    /\ payees \subseteq Payee
    /\ manifest \in Manifest \cup {Stopped}
    /\ curated \in BOOLEAN
    /\ pc \in [Worker -> {"idle", "read", "fetched", "done"}]
    /\ copy \in [Worker -> Row \cup {NoRow}]
    /\ heard \in [Worker -> Manifest \cup {Stopped, NoText}]
    /\ \A w \in Worker : pc[w] \in {"read", "fetched"} <=> copy[w] # NoRow
    /\ \A w \in Refresher : pc[w] = "fetched" => heard[w] \in Manifest \cup {Stopped}

\* "a description someone declared meanwhile is never replaced"
\* (listing_metadata.py:536): no found text passes for the agent's, and none
\* takes the place of a curator's, whichever copies are written back.
FoundIsLabelled ==
    row.description \in FoundText => row.sourced /\ ~ row.listed /\ ~ curated

\* The list is full, p is in its oldest entry, and no other entry is lost.
GivesWay(p) ==
    /\ Len(row.learned) = MaxEvidence /\ p \in Head(row.learned)
    /\ \E P \in SUBSET Payee : row'.learned = Append(Tail(row.learned), P)

\* Or a copy that lacks it may yet be written back.
MayBeLost(p) ==
    \/ GivesWay(p)
    \/ \E w \in Refresher \cup Corrector : copy[w] # NoRow /\ p \notin Learned(copy[w])

\* The evidence of a payee is lost to nothing but newer evidence that fills the
\* list, and a run that replaces the metadata and began before the payee was
\* learned: no fill, refresh or correction that began later drops it.
LostOnlyToNewerOrStaleCopy == [][\A p \in Learned(row) \ Learned(row') : MayBeLost(p)]_vars

\* docs/shared-payment-wallets.md:70: "what was registered is recorded in
\* services.metadata.advertised_payees".
EvidenceIsKept == payees \subseteq Learned(row)

\* Whatever runs overlap, a service that stays up is listed in the end as its
\* agent declares it, and stays so.
ListingConverges ==
    \A m \in Manifest :
        <>[](manifest = m) => <>[](row.name = m.name /\ row.description = m.description)

\* What makes FoundIsLabelled inductive: it holds of the copies too, and a row
\* that a curator described is open to no fill.
Labelled(r) ==
    /\ r.description \in FoundText => r.sourced /\ ~ r.listed /\ ~ curated
    /\ curated => ~ r.sourced /\ (r.description = NoText => r.listed)
ListingInv ==
    /\ TypeOK /\ Labelled(row)
    /\ \A w \in Worker : copy[w] # NoRow => Labelled(copy[w])
=============================================================================
