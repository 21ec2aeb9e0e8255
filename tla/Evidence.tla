------------------------------ MODULE Evidence ------------------------------
(***************************************************************************)
(* The evidence vault of opstrax-supplyops-v1 (services.js): a document is *)
(* a binary in the object store or on disk (evidence-storage.js), a row, a *)
(* trail of custody events, and links to what it is evidence of.           *)
(***************************************************************************)
EXTENDS Integers, FiniteSets

CONSTANTS
  Papers,      \* bound: documents ever uploaded
  Subjects     \* what a document can be evidence of

ASSUME EvidenceAssumption == IsFiniteSet(Papers) /\ IsFiniteSet(Subjects)

VARIABLES
  binaries,    \* the documents whose binary is stored
  paper,       \* rows of documents
  links,       \* rows of evidence_links: document and subject
  trail        \* rows of chain_of_custody_events of each document

EvidenceVars == <<binaries, paper, links, trail>>

\* The timestamps that a row may have.
Stamps == {"LINKED", "VERIFIED", "REJECTED", "ARCHIVED"}
NoPaper == [state |-> "NONE"]
PaperRow == [state : {"PENDING"} \cup Stamps, stamps : SUBSET Stamps]
\* Of a trail: what it says last, and all it says.
Trail == [last : {"NONE", "CREATED"} \cup Stamps, all : SUBSET ({"CREATED"} \cup Stamps)]

EvidenceInit ==
  /\ binaries = {} /\ links = {}
  /\ paper = [d \in Papers |-> NoPaper]
  /\ trail = [d \in Papers |-> [last |-> "NONE", all |-> {}]]

Recorded(d, action) ==
  [trail EXCEPT ![d] = [last |-> action, all |-> @.all \cup {action}]]

-----------------------------------------------------------------------------
(* The binary is written before the transaction, which may not come about: *)
(* the subject is looked for only there, an answer of the object store may *)
(* be late, the process may die. No handler deletes a binary.              *)

\* Fault for UploadDocument: the row is written first.
UploadDocumentRow(d, whole) ==
  /\ paper[d] = NoPaper /\ d \notin binaries
  /\ paper' = [paper EXCEPT ![d] = [state |-> "PENDING", stamps |-> {}]]
  /\ trail' = Recorded(d, "CREATED")
  /\ binaries' = IF whole THEN binaries \cup {d} ELSE binaries
  /\ UNCHANGED links
UploadDocument(d, whole) ==
  /\ paper[d] = NoPaper /\ d \notin binaries
  /\ binaries' = binaries \cup {d}
  /\ paper' = IF whole THEN [paper EXCEPT ![d] = [state |-> "PENDING", stamps |-> {}]]
                       ELSE paper
  /\ trail' = IF whole THEN Recorded(d, "CREATED") ELSE trail
  /\ UNCHANGED links

\* A document becomes LINKED, VERIFIED, REJECTED or ARCHIVED, whatever it was.
Stamp(d, state) ==
  /\ paper[d] # NoPaper
  /\ paper' = [paper EXCEPT ![d] = [state |-> state, stamps |-> @.stamps \cup {state}]]
  /\ trail' = Recorded(d, state)
  /\ UNCHANGED binaries

LinkEvidence(d, e) == Stamp(d, "LINKED") /\ links' = links \cup {<<d, e>>}
VerifyEvidence(d, decision) == Stamp(d, decision) /\ UNCHANGED links
ArchiveEvidence(d) == Stamp(d, "ARCHIVED") /\ UNCHANGED links

\* issueWarehouseTaskLine links its evidence and leaves the document alone.
IssueWithEvidence(d, e) ==
  /\ paper[d] # NoPaper
  /\ links' = links \cup {<<d, e>>}
  /\ UNCHANGED <<binaries, paper, trail>>

EvidenceNext ==
  \E d \in Papers :
    \/ \E whole \in BOOLEAN : UploadDocument(d, whole)
    \/ \E e \in Subjects : LinkEvidence(d, e) \/ IssueWithEvidence(d, e)
    \/ \E decision \in {"VERIFIED", "REJECTED"} : VerifyEvidence(d, decision)
    \/ ArchiveEvidence(d)

EvidenceSpec == EvidenceInit /\ [][EvidenceNext]_EvidenceVars

-----------------------------------------------------------------------------
EvidenceTypes ==
  /\ binaries \subseteq Papers /\ links \subseteq Papers \X Subjects
  /\ paper \in [Papers -> PaperRow \cup {NoPaper}]
  /\ trail \in [Papers -> Trail]

(* Uploads cut short included, and in whatever order documents are linked,  *)
(* verified, rejected and archived: a document that is on record can be    *)
(* downloaded; its state is what its custody events say last and it bears  *)
(* the stamps that they say at all; and it is stamped as linked only when  *)
(* there is a link.                                                        *)
EvidenceIsKept ==
  /\ \A d \in Papers : paper[d] # NoPaper =>
       /\ d \in binaries
       /\ trail[d].last = IF paper[d].state = "PENDING" THEN "CREATED" ELSE paper[d].state
       /\ trail[d].all = {"CREATED"} \cup paper[d].stamps
       /\ "LINKED" \in paper[d].stamps => \E e \in Subjects : <<d, e>> \in links
  /\ \A l \in links : paper[l[1]] # NoPaper
=============================================================================
