-------------------------- MODULE CashbackEvidence --------------------------
(***************************************************************************)
(* Cashback with a history variable: the screenshots that some record has  *)
(* named so far.  An upload no record names yet is a form still open; one  *)
(* that was named and no longer is has lost the record it belonged to.     *)
(***************************************************************************)
EXTENDS Cashback

VARIABLE wasLinked

evidenceVars == <<vars, wasLinked>>

EvidenceInit == Init /\ wasLinked = {}

EvidenceNext == Next /\ wasLinked' = wasLinked \cup {l.attachment : l \in links'}

EvidenceSpec == EvidenceInit /\ [][EvidenceNext]_evidenceVars

Quiet == \A r \in Reqs : req[r] = Blank

\* reclaimAttachments (service.go): uploaded files go with the record they were
\* attached to. With no request running, the row of a screenshot that lost its
\* last link is gone: nothing would delete it later.
UnlinkedReclaimed ==
  Quiet => \A a \in attachments :
             a.id \in wasLinked => \E l \in links : l.attachment = a.id

\* A screenshot lives as long as its last record: neither its row outlives that,
\* nor its file goes while there is a row.
EvidenceKept == UnlinkedReclaimed /\ RowHasFile
=============================================================================
