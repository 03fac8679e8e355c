--------------------------- MODULE CashbackProofs ---------------------------
(***************************************************************************)
(* Proofs about the cashback module.  The tables come first: what the      *)
(* constraints of the schema guarantee is an invariant of StoreSpec, any   *)
(* sequence of statements.  The service then inherits it, because each of  *)
(* its steps issues one statement or none (StepsAreStatements).  Then      *)
(* whose rows those are, and last what a request relies on while others    *)
(* run.                                                                    *)
(***************************************************************************)
EXTENDS CashbackEvidence, CashbackSlots, FiniteSetTheorems, TLAPS

(*************************** the tables' types *****************************)

\* The rows a statement writes are rows of their tables.
LEMMA StoreTypes == ASSUME StoreTypeOK, [Statement]_tables PROVE StoreTypeOK'
<1> USE StoreAssumption DEF StoreTypeOK, KeepMenu, KeepEvidence, KeepRecords, ClientRow,
      PeriodRow, OfferRow, SelectionRow, AliasRow, PartnerRow, AttachmentRow, LinkRow
<1>1. CASE ClientStatement
  BY <1>1 DEF ClientStatement, InsertBankClient, UpdateBankClientForUser,
       DeleteBankClientForUser
<1>2. CASE PeriodStatement
  <2> PICK p \in PeriodIds :
        \/ \E c \in ClientIds, r \in Spans : InsertOfferPeriod(p, c, r)
        \/ \E u \in Users, n \in Overrides : SetOfferPeriodMaxOverride(p, u, n)
        \/ DeletePeriodRow(p)
    BY <1>2 DEF PeriodStatement
  <2>1. CASE \E c \in ClientIds, r \in Spans : InsertOfferPeriod(p, c, r)
    BY <2>1 DEF InsertOfferPeriod, Limits
  <2>2. CASE \E u \in Users, n \in Overrides : SetOfferPeriodMaxOverride(p, u, n)
    BY <2>2 DEF SetOfferPeriodMaxOverride
  <2>3. CASE DeletePeriodRow(p)
    BY <2>3 DEF DeletePeriodRow
  <2> QED BY <2>1, <2>2, <2>3
<1>3. CASE MenuStatement
  BY <1>3 DEF MenuStatement, InsertCategoryOffer, UpdateCategoryOfferForUser,
       DeleteSelectionByOffer, DeleteOfferRow, InsertSelection
<1>4. CASE OtherStatement
  BY <1>4 DEF OtherStatement, DeleteSelectionForUser, UpsertAlias
<1>5. CASE PartnerStatement
  <2> PICK p \in PartnerIds, u \in Users :
        \/ \E c \in ClientIds \cup {None}, act \in Moments \cup {None} :
             InsertPartnerOffer(p, u, c, act) \/ UpdatePartnerOfferForUser(p, u, c, act)
        \/ \E ended \in BOOLEAN : SetPartnerEnded(p, u, ended)
        \/ DeletePartnerRow(p, u)
    BY <1>5 DEF PartnerStatement
  <2>1. ASSUME NEW c \in ClientIds \cup {None}, NEW act \in Moments \cup {None},
               InsertPartnerOffer(p, u, c, act)
        PROVE  StoreTypeOK'
    <3> DEFINE row == [id |-> p, user |-> u, client |-> c, activated |-> act, ended |-> FALSE]
    <3>0. row \in PartnerRow
      BY Zenon DEF PartnerRow
    <3> HIDE DEF row, PartnerRow
    <3>1. partners' \subseteq PartnerRow
      BY <2>1, <3>0 DEF InsertPartnerOffer, row
    <3>2. spent' \subseteq UNION {ClientIds, PeriodIds, OfferIds, SelectionIds, PartnerIds,
                                  AttachmentIds, Moments}
      BY <2>1 DEF InsertPartnerOffer
    <3> QED BY <2>1, <3>1, <3>2 DEF InsertPartnerOffer
  <2>2. ASSUME NEW c \in ClientIds \cup {None}, NEW act \in Moments \cup {None},
               UpdatePartnerOfferForUser(p, u, c, act)
        PROVE  StoreTypeOK'
    <3>1. partners' \subseteq PartnerRow
      BY <2>2 DEF UpdatePartnerOfferForUser
    <3>2. spent' \subseteq UNION {ClientIds, PeriodIds, OfferIds, SelectionIds, PartnerIds,
                                  AttachmentIds, Moments}
      BY <2>2 DEF UpdatePartnerOfferForUser
    <3> QED BY <2>2, <3>1, <3>2 DEF UpdatePartnerOfferForUser
  <2>3. CASE \E ended \in BOOLEAN : SetPartnerEnded(p, u, ended)
    BY <2>3 DEF SetPartnerEnded
  <2>4. CASE DeletePartnerRow(p, u)
    BY <2>4 DEF DeletePartnerRow
  <2> QED BY <2>1, <2>2, <2>3, <2>4
<1>6. CASE EvidenceStatement
  BY <1>6 DEF EvidenceStatement, WriteFile, RemoveFile, InsertAttachment,
       DeleteAttachmentRow, InsertLink, DeleteLinks, Linkable
<1>7. CASE UNCHANGED tables
  BY <1>7 DEF tables
<1> QED BY <1>1, <1>2, <1>3, <1>4, <1>5, <1>6, <1>7 DEF Statement

(************************ what the constraints keep ************************)

\* Invariant 4 at the tables: a new period meets none of its client's, and
\* nothing moves a period or hands it to another client.
LEMMA StorePeriodsDisjoint ==
  ASSUME StoreTypeOK, [Statement]_tables, PeriodsDisjoint PROVE PeriodsDisjoint'
<1> USE DEF PeriodsDisjoint
<1>1. CASE UNCHANGED periods
  BY <1>1 DEF Overlaps
<1>2. ASSUME NEW p \in PeriodIds, NEW c \in ClientIds, NEW r \in Spans,
             InsertOfferPeriod(p, c, r)
      PROVE  PeriodsDisjoint'
  BY <1>2, StoreAssumption DEF InsertOfferPeriod, PeriodFits, Overlaps, StoreTypeOK, PeriodRow
<1>3. ASSUME NEW p \in PeriodIds, NEW u \in Users, NEW n \in Overrides,
             SetOfferPeriodMaxOverride(p, u, n)
      PROVE  PeriodsDisjoint'
  BY <1>3 DEF SetOfferPeriodMaxOverride, Overlaps, StoreTypeOK, PeriodRow
<1>4. ASSUME NEW p \in PeriodIds, DeletePeriodRow(p) PROVE PeriodsDisjoint'
  BY <1>4 DEF DeletePeriodRow, Overlaps
<1>5. UNCHANGED periods \/ PeriodStatement
  BY DEF Statement, tables, ClientStatement, MenuStatement, OtherStatement, PartnerStatement,
    EvidenceStatement, InsertBankClient, UpdateBankClientForUser, DeleteBankClientForUser,
    InsertCategoryOffer, UpdateCategoryOfferForUser, DeleteSelectionByOffer, DeleteOfferRow,
    InsertSelection, DeleteSelectionForUser, UpsertAlias, InsertPartnerOffer,
    UpdatePartnerOfferForUser, SetPartnerEnded, DeletePartnerRow, WriteFile, RemoveFile,
    InsertAttachment, DeleteAttachmentRow, InsertLink, DeleteLinks, KeepMenu, KeepRecords
<1> QED BY <1>1, <1>2, <1>3, <1>4, <1>5 DEF PeriodStatement

\* The unique key of selection: a second selection of an offer is refused.
LEMMA StoreOneSelection ==
  ASSUME [Statement]_tables, OneSelectionPerOffer PROVE OneSelectionPerOffer'
<1> USE DEF OneSelectionPerOffer
<1>1. CASE selections' \subseteq selections
  BY <1>1
<1>2. ASSUME NEW s, NEW o, NEW d, InsertSelection(s, o, d) PROVE OneSelectionPerOffer'
  BY <1>2 DEF InsertSelection, Selectable, OfferIsUnselected
<1>3. selections' \subseteq selections \/ \E s, o, d : InsertSelection(s, o, d)
  BY DEF Statement, tables, ClientStatement, PeriodStatement, MenuStatement, OtherStatement,
    PartnerStatement, EvidenceStatement, InsertBankClient, UpdateBankClientForUser,
    DeleteBankClientForUser, InsertOfferPeriod, SetOfferPeriodMaxOverride, DeletePeriodRow,
    InsertCategoryOffer, UpdateCategoryOfferForUser, DeleteSelectionByOffer, DeleteOfferRow,
    DeleteSelectionForUser, UpsertAlias, InsertPartnerOffer, UpdatePartnerOfferForUser,
    SetPartnerEnded, DeletePartnerRow, WriteFile, RemoveFile, InsertAttachment,
    DeleteAttachmentRow, InsertLink, DeleteLinks, KeepMenu, KeepRecords
<1> QED BY <1>1, <1>2, <1>3

\* The foreign keys: a statement that would leave a reference dangling is
\* refused, and no update changes an id.
LEMMA StoreRowsReferenced ==
  ASSUME StoreTypeOK, [Statement]_tables, RowsReferenced PROVE RowsReferenced'
<1> USE DEF RowsReferenced, ClientRefExists, Linkable, KeepMenu, KeepEvidence, KeepRecords
<1>1. CASE ClientStatement
  <2>1. ASSUME NEW c, NEW u, NEW b, NEW t, InsertBankClient(c, u, b, t) PROVE RowsReferenced'
    BY <2>1 DEF InsertBankClient
  <2>2. ASSUME NEW c, NEW u, NEW t, UpdateBankClientForUser(c, u, t)
        PROVE  RowsReferenced'
    <3>1. ASSUME NEW x \in clients PROVE \E y \in clients' : y.id = x.id
      <4> DEFINE y == IF x.id = c THEN [x EXCEPT !.tier = t] ELSE x
      <4>1. y \in clients'
        BY <2>2 DEF UpdateBankClientForUser
      <4>2. y.id = x.id
        BY DEF StoreTypeOK, ClientRow
      <4> QED BY <4>1, <4>2
    <3>3. UNCHANGED <<periods, offers, selections, partners, links, attachments>>
      BY <2>2 DEF UpdateBankClientForUser
    <3> QED BY <3>1, <3>3
  <2>3. ASSUME NEW c, NEW u, DeleteBankClientForUser(c, u) PROVE RowsReferenced'
    BY <2>3 DEF DeleteBankClientForUser
  <2> QED BY <1>1, <2>1, <2>2, <2>3 DEF ClientStatement
<1>2. CASE PeriodStatement
  <2>1. ASSUME NEW p, NEW c, NEW r, InsertOfferPeriod(p, c, r) PROVE RowsReferenced'
    BY <2>1 DEF InsertOfferPeriod, PeriodFits
  <2>2. ASSUME NEW p, NEW u, NEW n, SetOfferPeriodMaxOverride(p, u, n)
        PROVE  RowsReferenced'
    <3>1. ASSUME NEW x \in periods PROVE \E y \in periods' : y.id = x.id /\ y.client = x.client
      <4> DEFINE y == IF x.id = p THEN [x EXCEPT !.override = n] ELSE x
      <4>1. y \in periods'
        BY <2>2 DEF SetOfferPeriodMaxOverride
      <4>2. y.id = x.id /\ y.client = x.client
        BY DEF StoreTypeOK, PeriodRow
      <4> QED BY <4>1, <4>2
    <3>2. \A y \in periods' : \E x \in periods : y.id = x.id /\ y.client = x.client
      BY <2>2 DEF SetOfferPeriodMaxOverride, StoreTypeOK, PeriodRow
    <3>3. UNCHANGED <<clients, offers, selections, partners, links, attachments>>
      BY <2>2 DEF SetOfferPeriodMaxOverride
    <3> QED BY <3>1, <3>2, <3>3
  <2>3. ASSUME NEW p, DeletePeriodRow(p) PROVE RowsReferenced'
    BY <2>3 DEF DeletePeriodRow, PeriodIsBare, OffersOf, LinksOf
  <2> QED BY <1>2, <2>1, <2>2, <2>3 DEF PeriodStatement
<1>3. CASE MenuStatement
  <2>1. ASSUME NEW o, NEW p, NEW k, InsertCategoryOffer(o, p, k) PROVE RowsReferenced'
    BY <2>1 DEF InsertCategoryOffer
  <2>2. ASSUME NEW o, NEW u, NEW k, UpdateCategoryOfferForUser(o, u, k)
        PROVE  RowsReferenced'
    <3>1. ASSUME NEW x \in offers PROVE \E y \in offers' : y.id = x.id /\ y.period = x.period
      <4> DEFINE y == IF x.id = o THEN [x EXCEPT !.kind = k] ELSE x
      <4>1. y \in offers'
        BY <2>2 DEF UpdateCategoryOfferForUser
      <4>2. y.id = x.id /\ y.period = x.period
        BY DEF StoreTypeOK, OfferRow
      <4> QED BY <4>1, <4>2
    <3>2. \A y \in offers' : \E x \in offers : y.id = x.id /\ y.period = x.period
      BY <2>2 DEF UpdateCategoryOfferForUser, StoreTypeOK, OfferRow
    <3>3. UNCHANGED <<clients, periods, selections, partners, links, attachments>>
      BY <2>2 DEF UpdateCategoryOfferForUser
    <3> QED BY <3>1, <3>2, <3>3
  <2>3. ASSUME NEW o, DeleteSelectionByOffer(o) PROVE RowsReferenced'
    BY <2>3 DEF DeleteSelectionByOffer
  <2>4. ASSUME NEW o, DeleteOfferRow(o) PROVE RowsReferenced'
    BY <2>4 DEF DeleteOfferRow, OfferIsUnselected
  <2>5. ASSUME NEW s, NEW o, NEW d, InsertSelection(s, o, d) PROVE RowsReferenced'
    BY <2>5 DEF InsertSelection, Selectable
  <2> QED BY <1>3, <2>1, <2>2, <2>3, <2>4, <2>5 DEF MenuStatement
<1>4. CASE OtherStatement
  BY <1>4 DEF OtherStatement, DeleteSelectionForUser, UpsertAlias
<1>5. CASE PartnerStatement
  <2>1. ASSUME NEW p, NEW u, NEW c, NEW act, InsertPartnerOffer(p, u, c, act) PROVE RowsReferenced'
    BY <2>1 DEF InsertPartnerOffer
  <2>2. ASSUME NEW p, NEW u, NEW c, NEW act, UpdatePartnerOfferForUser(p, u, c, act)
        PROVE  RowsReferenced'
    <3>1. ASSUME NEW x \in partners PROVE \E y \in partners' : y.id = x.id
      <4> DEFINE y == IF x.id = p THEN [x EXCEPT !.client = c, !.activated = act] ELSE x
      <4>1. y \in partners'
        BY <2>2 DEF UpdatePartnerOfferForUser
      <4>2. y.id = x.id
        BY DEF StoreTypeOK, PartnerRow
      <4> QED BY <4>1, <4>2
    <3>2. \A y \in partners' : ClientRefExists(y.client)
      BY <2>2 DEF UpdatePartnerOfferForUser, StoreTypeOK, PartnerRow
    <3>3. UNCHANGED <<clients, periods, offers, selections, links, attachments>>
      BY <2>2 DEF UpdatePartnerOfferForUser
    <3> QED BY <3>1, <3>2, <3>3
  <2>3. ASSUME NEW p, NEW u, NEW e, SetPartnerEnded(p, u, e)
        PROVE  RowsReferenced'
    <3>1. ASSUME NEW x \in partners PROVE \E y \in partners' : y.id = x.id /\ y.client = x.client
      <4> DEFINE y == IF x.id = p THEN [x EXCEPT !.ended = e] ELSE x
      <4>1. y \in partners'
        BY <2>3 DEF SetPartnerEnded
      <4>2. y.id = x.id /\ y.client = x.client
        BY DEF StoreTypeOK, PartnerRow
      <4> QED BY <4>1, <4>2
    <3>2. \A y \in partners' : \E x \in partners : y.id = x.id /\ y.client = x.client
      BY <2>3 DEF SetPartnerEnded, StoreTypeOK, PartnerRow
    <3>3. UNCHANGED <<clients, periods, offers, selections, links, attachments>>
      BY <2>3 DEF SetPartnerEnded
    <3> QED BY <3>1, <3>2, <3>3
  <2>4. ASSUME NEW p, NEW u, DeletePartnerRow(p, u) PROVE RowsReferenced'
    BY <2>4 DEF DeletePartnerRow, LinksOf
  <2> QED BY <1>5, <2>1, <2>2, <2>3, <2>4 DEF PartnerStatement
<1>6. CASE EvidenceStatement
  BY <1>6 DEF EvidenceStatement, WriteFile, RemoveFile, InsertAttachment,
       DeleteAttachmentRow, IsOrphan, InsertLink, DeleteLinks
<1>7. CASE UNCHANGED tables
  BY <1>7 DEF tables
<1> QED BY <1>1, <1>2, <1>3, <1>4, <1>5, <1>6, <1>7 DEF Statement

(*********************** the service issues statements *********************)

\* What a note holds once its operation has begun, beyond the types.
Complete(q) ==
  /\ q.at # "idle" => q.user \in Users
  /\ q.at = "alias" => q.map # None
  /\ q.at = "row" => q.offer \in OfferIds
  /\ q.op = "CreateOfferPeriod" => q.span \in Spans
  /\ q.op = "DeleteOfferPeriod" => q.target \in PeriodIds
  /\ q.op \in {"CreateCategoryOffer", "UpdateCategoryOffer"} => q.bank \in Banks /\ q.kind \in Kinds
  /\ q.op = "CreateSelection" => q.day \in Days
  /\ q.op = "UpdatePartnerOffer" => q.seen \in Maybe(Moments)
  /\ q.at = "alias" => q.op \in {"CreateCategoryOffer", "UpdateCategoryOffer"}

NotesOK == TypeOK /\ RowsReferenced /\ \A r \in Reqs : Complete(req[r])

LEMMA BlankIsANote == Blank \in RequestNote /\ Complete(Blank)
BY ServiceAssumption DEF Blank, RequestNote, Complete, Maybe, Multi, Steps

\* Goroutine r moves to another complete note, with one statement or none.
StepOf(r) ==
  /\ Statement \/ UNCHANGED tables
  /\ \E q \in RequestNote : Complete(q) /\ req' = [req EXCEPT ![r] = q]

LEMMA Finishing ==
  ASSUME NEW r \in Reqs, Finish(r), Statement \/ UNCHANGED tables PROVE StepOf(r)
BY BlankIsANote DEF Finish, StepOf

LEMMA Aborting == ASSUME NEW r \in Reqs, Abort(r) PROVE StepOf(r)
BY Finishing DEF Abort, Reads

\* A handler's first read begins a note and changes nothing.
LEMMA Beginning ==
  ASSUME NEW r \in Reqs, NEW q, q \in RequestNote, Complete(q), Begin(r, q) PROVE StepOf(r)
BY DEF Begin, Reads, StepOf

\* A limit is a limit: the override, else what the tier grants.
LEMMA LimitOfPeriod ==
  ASSUME StoreTypeOK, RowsReferenced, NEW p, \E row \in periods : row.id = p
  PROVE  EffectiveMax(p) \in Limits
<1> DEFINE row == CHOOSE x \in periods : x.id = p
           c == CHOOSE x \in clients : x.id = row.client
<1>1. row \in periods
  OBVIOUS
<1>2. c \in clients
  BY <1>1 DEF RowsReferenced
<1>3. row.override \in Limits /\ c.tier \in Tiers \cup {None}
  BY <1>1, <1>2 DEF StoreTypeOK, PeriodRow, ClientRow
<1>4. EffectiveMax(p) = CASE row.override # None -> row.override
                          [] row.override = None /\ c.tier # None -> TierMax[c.tier]
                          [] OTHER -> None
  BY DEF EffectiveMax
<1> HIDE DEF row, c
<1> QED BY <1>3, <1>4, StoreAssumption DEF Limits

\* The calls: what the first read of a handler notes is complete.
LEMMA Arrivals == ASSUME NotesOK, NEW r \in Reqs, Arrive(r) PROVE StepOf(r)
<1> USE ServiceAssumption
<1>1. CASE CreateOfferPeriod(r)
  <2> PICK u \in Users, c \in ClientIds, s \in Spans, as \in AttachLists :
         Begin(r, [Blank EXCEPT !.op = "CreateOfferPeriod", !.at = "ranges", !.user = u,
                   !.client = c, !.span = s, !.check = as, !.attach = as])
    BY <1>1 DEF CreateOfferPeriod
  <2> QED BY Beginning DEF Blank, RequestNote, Maybe, Multi, Steps, Complete
<1>2. CASE DeleteOfferPeriod(r)
  <2> PICK u \in Users, p \in PeriodIds :
         Begin(r, [Blank EXCEPT !.op = "DeleteOfferPeriod", !.at = "evidence",
                   !.user = u, !.target = p])
    BY <1>2 DEF DeleteOfferPeriod
  <2> QED BY Beginning DEF Blank, RequestNote, Maybe, Multi, Steps, Complete
<1>3. CASE DeleteCategoryOffer(r)
  <2> PICK u \in Users, o \in OfferIds :
         Begin(r, [Blank EXCEPT !.op = "DeleteCategoryOffer", !.at = "selections",
                   !.user = u, !.doomed = {o}])
    BY <1>3 DEF DeleteCategoryOffer
  <2> QED BY Beginning DEF Blank, RequestNote, Maybe, Multi, Steps, Complete
<1>4. CASE CreatePartnerOffer(r)
  <2> PICK u \in Users, c \in ClientIds \cup {None}, as \in AttachLists :
         Begin(r, [Blank EXCEPT !.op = "CreatePartnerOffer", !.at = When(as, "check", "insert"),
                   !.user = u, !.client = c, !.check = as, !.attach = as])
    BY <1>4 DEF CreatePartnerOffer
  <2> DEFINE w == When(as, "check", "insert")
             q == [Blank EXCEPT !.op = "CreatePartnerOffer", !.at = w, !.user = u,
                   !.client = c, !.check = as, !.attach = as]
  <2>1. w \in {"check", "insert"} /\ c \in Maybe(ClientIds) /\ as \in SUBSET AttachmentIds
    BY DEF When, Maybe
  <2> HIDE DEF w
  <2>2. q \in RequestNote
    BY <2>1 DEF Blank, RequestNote, Maybe, Multi, Steps
  <2>3. Complete(q)
    BY <2>1 DEF Blank, Complete
  <2> QED BY <2>2, <2>3, Beginning DEF w
<1>5. CASE UpdatePartnerOffer(r)
  <2> PICK u \in Users, p \in PartnerIds, c \in ClientIds \cup {None} :
         Begin(r, [Blank EXCEPT !.op = "UpdatePartnerOffer", !.at = "prev", !.user = u,
                   !.client = c, !.target = p])
    BY <1>5 DEF UpdatePartnerOffer
  <2> QED BY Beginning DEF Blank, RequestNote, Maybe, Multi, Steps, Complete
<1>6. CASE DeletePartnerOffer(r)
  <2> PICK u \in Users, p \in PartnerIds :
         Begin(r, [Blank EXCEPT !.op = "DeletePartnerOffer", !.at = "evidence",
                   !.user = u, !.target = p])
    BY <1>6 DEF DeletePartnerOffer
  <2> QED BY Beginning DEF Blank, RequestNote, Maybe, Multi, Steps, Complete
<1>7. CASE Attach(r)
  <2> PICK u \in Users, parent \in PeriodIds \cup PartnerIds, a \in AttachmentIds :
         Begin(r, [Blank EXCEPT !.op = AttachOp(parent), !.at = "recheck", !.user = u,
                   !.target = parent, !.check = {a}, !.attach = {a}])
    BY <1>7 DEF Attach
  <2>1. AttachOp(parent) \in {"AttachScreenshot", "AttachPartner"}
    BY DEF AttachOp
  <2> DEFINE q == [Blank EXCEPT !.op = AttachOp(parent), !.at = "recheck", !.user = u,
                   !.target = parent, !.check = {a}, !.attach = {a}]
  <2>2. q \in RequestNote
    BY <2>1 DEF Blank, RequestNote, Maybe, Multi, Steps
  <2>3. Complete(q)
    BY <2>1 DEF Blank, Complete
  <2> QED BY <2>2, <2>3, Beginning
<1>8. CASE Detach(r)
  <2> PICK u \in Users, parent \in PeriodIds \cup PartnerIds, a \in AttachmentIds :
         Begin(r, [Blank EXCEPT !.op = DetachOp(parent), !.at = "unlink", !.user = u,
                   !.target = parent, !.reclaim = {a}])
    BY <1>8 DEF Detach
  <2>1. DetachOp(parent) \in {"DetachScreenshot", "DetachPartner"}
    BY DEF DetachOp
  <2> DEFINE q == [Blank EXCEPT !.op = DetachOp(parent), !.at = "unlink", !.user = u,
                   !.target = parent, !.reclaim = {a}]
  <2>2. q \in RequestNote
    BY <2>1 DEF Blank, RequestNote, Maybe, Multi, Steps
  <2>3. Complete(q)
    BY <2>1 DEF Blank, Complete
  <2> QED BY <2>2, <2>3, Beginning
<1>9. CASE CreateCategoryOffer(r)
  <2> PICK u \in Users, p \in PeriodIds, k \in Kinds, m \in Mappings :
         /\ PeriodForUser(p, u)
         /\ Begin(r, [Blank EXCEPT !.op = "CreateCategoryOffer", !.at = "insert", !.user = u,
                        !.bank = BankOfPeriod(p), !.target = p, !.kind = k, !.map = m])
    BY <1>9 DEF CreateCategoryOffer
  <2>1. BankOfPeriod(p) \in Banks
    BY DEF BankOfPeriod, PeriodForUser, ClientForUser, NotesOK, TypeOK, StoreTypeOK, ClientRow
  <2> QED BY <2>1, Beginning DEF Blank, RequestNote, Maybe, Multi, Steps, Complete
<1>10. CASE UpdateCategoryOffer(r)
  <2> PICK u \in Users, o \in OfferIds, k \in Kinds, m \in Mappings :
         /\ OfferForUser(o, u)
         /\ Begin(r, [Blank EXCEPT !.op = "UpdateCategoryOffer", !.at = "update", !.user = u,
                        !.bank = BankOfPeriod(OfferRowOf(o).period), !.offer = o, !.kind = k,
                        !.map = m])
    BY <1>10 DEF UpdateCategoryOffer
  <2>1. PICK x \in offers : OfferRowOf(o).period = x.period
    BY DEF OfferForUser, OfferRowOf
  <2>2. PICK y \in periods, c \in clients : y.id = x.period /\ y.client = c.id
    BY DEF NotesOK, RowsReferenced
  <2>3. BankOfPeriod(OfferRowOf(o).period) \in Banks
    BY <2>1, <2>2 DEF BankOfPeriod, NotesOK, TypeOK, StoreTypeOK, ClientRow
  <2> QED BY <2>3, Beginning DEF Blank, RequestNote, Maybe, Multi, Steps, Complete
<1>11. CASE CreateSelection(r)
  <2>1. PICK u \in Users, o \in OfferIds, d \in Days, b \in Backfills :
          /\ OfferForUser(o, u)
          /\ Begin(r, [Blank EXCEPT !.op = "CreateSelection", !.at = "count", !.user = u,
                         !.offer = o, !.target = OfferRowOf(o).period, !.day = d,
                         !.seen = ContextOf(o, d, b)])
    BY <1>11 DEF CreateSelection
  <2>2. OfferRowOf(o) \in offers
    BY <2>1 DEF OfferForUser, OfferRowOf
  <2>3. OfferRowOf(o).kind \in Kinds /\ OfferRowOf(o).period \in PeriodIds
    BY <2>2 DEF NotesOK, TypeOK, StoreTypeOK, OfferRow
  <2>4. EffectiveMax(OfferRowOf(o).period) \in Limits
    <3>1. \E y \in periods : y.id = OfferRowOf(o).period
      BY <2>2 DEF NotesOK, RowsReferenced
    <3> QED BY <3>1, LimitOfPeriod DEF NotesOK, TypeOK
  <2>5. ContextOf(o, d, b) \in OfferContext
    <3> DEFINE p == OfferRowOf(o).period
               per == CHOOSE x \in periods : x.id = p
    <3>1. (~ OfferIsUnselected(o)) \in BOOLEAN
      BY Zenon DEF OfferIsUnselected
    <3>2. (b \/ Contains(per, d)) \in BOOLEAN
      BY Zenon DEF Contains
    <3>3. ContextOf(o, d, b) = [selected |-> ~ OfferIsUnselected(o), kind |-> OfferRowOf(o).kind,
            backfill |-> b, dated |-> b \/ Contains(per, d), limit |-> EffectiveMax(p)]
      BY Zenon DEF ContextOf
    <3>4. EffectiveMax(p) \in Limits
      BY <2>4
    <3>6. PICK s \in BOOLEAN, t \in BOOLEAN, k \in Kinds, l \in Limits :
            /\ s = (~ OfferIsUnselected(o)) /\ t = (b \/ Contains(per, d))
            /\ k = OfferRowOf(o).kind /\ l = EffectiveMax(p)
      BY Zenon, <2>3, <3>1, <3>2, <3>4
    <3>7. ContextOf(o, d, b) = [selected |-> s, kind |-> k, backfill |-> b, dated |-> t,
                                 limit |-> l]
      BY Zenon, <3>3, <3>6
    <3>8. [selected |-> s, kind |-> k, backfill |-> b, dated |-> t, limit |-> l] \in OfferContext
      BY <2>1 DEF OfferContext
    <3> QED BY Zenon, <3>7, <3>8
  <2> QED BY <2>1, <2>3, <2>5, Beginning DEF Blank, RequestNote, Maybe, Multi, Steps, Complete
<1>12. CASE Save(r)
  <2> PICK u \in Users, a \in AttachmentIds :
         /\ WriteFile(a)
         /\ req' = [req EXCEPT ![r] = [Blank EXCEPT !.op = "Save", !.at = "store",
                                         !.user = u, !.attach = {a}]]
    BY <1>12 DEF Save
  <2>1. Statement
    BY DEF Statement, EvidenceStatement
  <2> QED BY <2>1 DEF StepOf, Blank, RequestNote, Maybe, Multi, Steps, Complete
<1> QED BY <1>1, <1>2, <1>3, <1>4, <1>5, <1>6, <1>7, <1>8, <1>9, <1>10, <1>11, <1>12 DEF Arrive

\* A step that keeps the rest of the note only has to say where it goes next.
LEMMA Moving ==
  ASSUME NEW r \in Reqs, NEW q \in RequestNote, Complete(q),
         req' = [req EXCEPT ![r] = q], Statement \/ UNCHANGED tables
  PROVE  StepOf(r)
BY DEF StepOf

LEMMA Going ==
  ASSUME NotesOK, NEW r \in Reqs, NEW s \in Steps, Goto(r, s),
         Complete([req[r] EXCEPT !.at = s]), Statement \/ UNCHANGED tables
  PROVE  StepOf(r)
<1>0. req[r] \in RequestNote
  BY DEF NotesOK, TypeOK
<1>1. [req[r] EXCEPT !.at = s] \in RequestNote
  BY <1>0 DEF RequestNote
<1>2. req' = [req EXCEPT ![r] = [req[r] EXCEPT !.at = s]]
  BY DEF Goto
<1> QED BY <1>1, <1>2, Moving

\* The steps of creating and deleting a period.
LEMMA PeriodSteps ==
  ASSUME NotesOK, NEW r \in Reqs,
         ValidateNewPeriod(r) \/ InsertPeriod(r) \/ ListMenu(r) \/ DropPeriod(r)
  PROVE  StepOf(r)
<1> USE StoreAssumption, ServiceAssumption
<1>0. req[r] \in RequestNote /\ Complete(req[r]) /\ StoreTypeOK
  BY DEF NotesOK, TypeOK
<1>1. CASE ValidateNewPeriod(r)
  <2>1. CASE Abort(r)
    BY <2>1, Aborting
  <2>2. CASE Goto(r, When(req[r].check, "check", "insert")) /\ Reads
    <3>1. When(req[r].check, "check", "insert") \in {"check", "insert"}
      BY DEF When
    <3> QED
      BY <1>1, <1>0, <2>2, <3>1, Going
         DEF ValidateNewPeriod, Complete, RequestNote, Steps, In, Reads
  <2> QED BY <1>1, <2>1, <2>2 DEF ValidateNewPeriod, Abort
<1>2. CASE InsertPeriod(r)
  <2>1. CASE Abort(r)
    BY <2>1, Aborting
  <2>2. ASSUME NEW p \in PeriodIds, InsertOfferPeriod(p, req[r].client, req[r].span)
        PROVE  Statement
    <3>1. req[r].client \in ClientIds /\ req[r].span \in Spans
      BY <1>2, <1>0, <2>2
         DEF InsertPeriod, In, Complete, InsertOfferPeriod, PeriodFits, StoreTypeOK, ClientRow
    <3> QED BY <2>2, <3>1 DEF Statement, PeriodStatement
  <2>3. ASSUME NEW p \in PeriodIds, InsertOfferPeriod(p, req[r].client, req[r].span),
               req' = [req EXCEPT ![r].at = "attach", ![r].target = p]
        PROVE  StepOf(r)
    <3> DEFINE q == [req[r] EXCEPT !.at = "attach", !.target = p]
    <3>0. p \in Maybe(PeriodIds \cup PartnerIds)
      BY DEF Maybe
    <3>1. q \in RequestNote
      BY <1>0, <3>0 DEF RequestNote, Steps
    <3>2. Complete(q)
      BY <1>2, <1>0 DEF InsertPeriod, In, Complete, RequestNote
    <3>3. req' = [req EXCEPT ![r] = q]
      BY <2>3
    <3> QED BY <2>2, <2>3, <3>1, <3>2, <3>3, Moving
  <2> QED BY <1>2, <2>1, <2>2, <2>3, Finishing DEF InsertPeriod
<1>3. CASE ListMenu(r)
  <2> DEFINE ids == {o.id : o \in OffersOf(req[r].target)}
             q == [req[r] EXCEPT !.at = When(ids, "selections", "links"), !.doomed = ids]
  <2>1. ids \subseteq OfferIds /\ When(ids, "selections", "links") \in {"selections", "links"}
    BY <1>0 DEF When, OffersOf, StoreTypeOK, OfferRow
  <2> HIDE DEF ids
  <2>2. q \in RequestNote
    BY <1>0, <2>1 DEF RequestNote, Steps
  <2>3. Complete(q)
    BY <1>3, <1>0, <2>1 DEF ListMenu, In, Complete, RequestNote
  <2>4. req' = [req EXCEPT ![r] = q] /\ UNCHANGED tables
    BY <1>3 DEF ListMenu, Reads, ids
  <2> QED BY <2>2, <2>3, <2>4, Moving
<1>4. CASE DropPeriod(r)
  <2>1. CASE Abort(r)
    BY <2>1, Aborting
  <2>2. ASSUME DeletePeriodRow(req[r].target) PROVE Statement
    BY <1>4, <1>0, <2>2 DEF DropPeriod, In, Complete, Statement, PeriodStatement
  <2>3. ASSUME DeletePeriodRow(req[r].target), Goto(r, "reclaim") PROVE StepOf(r)
    BY <1>4, <1>0, <2>2, <2>3, Going DEF DropPeriod, In, Complete, RequestNote, Steps
  <2> QED BY <1>4, <2>1, <2>2, <2>3, Finishing DEF DropPeriod
<1> QED BY <1>1, <1>2, <1>3, <1>4

\* The steps on menu rows and selections.
LEMMA MenuSteps ==
  ASSUME NotesOK, NEW r \in Reqs,
         InsertOffer(r) \/ UpdateOffer(r) \/ RememberAlias(r) \/ DropSelection(r) \/
           DropOffer(r) \/ ValidateSelection(r) \/ InsertSelectionRow(r)
  PROVE  StepOf(r)
<1> USE StoreAssumption, ServiceAssumption
<1>0. req[r] \in RequestNote /\ Complete(req[r]) /\ StoreTypeOK
  BY DEF NotesOK, TypeOK
<1>1. CASE InsertOffer(r)
  <2>1. CASE Abort(r)
    BY <2>1, Aborting
  <2>2. ASSUME NEW o \in OfferIds, InsertCategoryOffer(o, req[r].target, req[r].kind), ThenAlias(r)
        PROVE  StepOf(r)
    <3>1. req[r].target \in PeriodIds /\ req[r].kind \in Kinds
      BY <1>1, <1>0, <2>2 DEF InsertOffer, In, Complete, InsertCategoryOffer, StoreTypeOK, PeriodRow
    <3>2. Statement
      BY <2>2, <3>1 DEF Statement, MenuStatement
    <3>3. CASE Goto(r, "alias") /\ req[r].map # None
      BY <1>1, <1>0, <3>2, <3>3, Going DEF InsertOffer, In, Complete, RequestNote, Steps
    <3> QED BY <2>2, <3>2, <3>3, Finishing DEF ThenAlias
  <2> QED BY <1>1, <2>1, <2>2 DEF InsertOffer
<1>2. CASE UpdateOffer(r)
  <2>1. CASE Abort(r)
    BY <2>1, Aborting
  <2>2. ASSUME UpdateCategoryOfferForUser(req[r].offer, req[r].user, req[r].kind), ThenAlias(r)
        PROVE  StepOf(r)
    <3>1. req[r].offer \in OfferIds /\ req[r].user \in Users /\ req[r].kind \in Kinds
      BY <1>2, <1>0, <2>2 DEF UpdateOffer, In, Complete, UpdateCategoryOfferForUser,
           OfferForUser, StoreTypeOK, OfferRow
    <3>2. Statement
      BY <2>2, <3>1 DEF Statement, MenuStatement
    <3>3. CASE Goto(r, "alias") /\ req[r].map # None
      BY <1>2, <1>0, <3>2, <3>3, Going DEF UpdateOffer, In, Complete, RequestNote, Steps
    <3> QED BY <2>2, <3>2, <3>3, Finishing DEF ThenAlias
  <2> QED BY <1>2, <2>1, <2>2 DEF UpdateOffer
<1>3. CASE RememberAlias(r)
  <2>1. req[r].user \in Users /\ req[r].bank \in Banks /\ req[r].map \in Mappings \ {None}
    BY <1>3, <1>0 DEF RememberAlias, Complete, RequestNote, Maybe
  <2>2. req[r].map.title \in Titles /\ req[r].map.canonical \in Canons
    BY <2>1
  <2>3. Statement
    BY <1>3, <2>1, <2>2 DEF RememberAlias, Statement, OtherStatement
  <2> QED BY <1>3, <2>3, Finishing DEF RememberAlias
<1>4. CASE DropSelection(r)
  <2> PICK o \in req[r].doomed : DeleteSelectionByOffer(o)
                              /\ req' = [req EXCEPT ![r].at = "row", ![r].offer = o]
    BY <1>4 DEF DropSelection
  <2> DEFINE q == [req[r] EXCEPT !.at = "row", !.offer = o]
  <2>1. o \in OfferIds /\ o \in Maybe(OfferIds)
    BY <1>0 DEF RequestNote, Maybe
  <2>2. q \in RequestNote
    BY <1>0, <2>1 DEF RequestNote, Steps
  <2>3. Complete(q)
    BY <1>4, <1>0, <2>1 DEF DropSelection, Complete, RequestNote
  <2>4. Statement
    BY <2>1 DEF Statement, MenuStatement
  <2>5. req' = [req EXCEPT ![r] = q]
    OBVIOUS
  <2> QED BY <2>2, <2>3, <2>4, <2>5, Moving
<1>5. CASE DropOffer(r)
  <2>1. CASE Abort(r)
    BY <2>1, Aborting
  <2>2. CASE DeleteOfferRow(req[r].offer)
    <3> DEFINE left == req[r].doomed \ {req[r].offer}
               q == [req[r] EXCEPT !.at = When(left, "selections", "links"), !.doomed = left,
                                   !.offer = None]
    <3>1. Statement
      BY <1>5, <1>0, <2>2 DEF DropOffer, Complete, Statement, MenuStatement
    <3>2. When(left, "selections", "links") \in {"selections", "links"}
      BY DEF When
    <3>3. q \in RequestNote
      <4>1. None \in Maybe(OfferIds) /\ left \in SUBSET OfferIds
        BY <1>0 DEF Maybe, RequestNote
      <4> QED BY <1>0, <3>2, <4>1 DEF RequestNote, Steps
    <3>4. Complete(q)
      BY <1>5, <1>0, <3>2 DEF DropOffer, Complete, RequestNote
    <3>5. Finish(r) \/ req' = [req EXCEPT ![r] = q]
      BY <1>5, <2>2 DEF DropOffer, DeleteOfferRow, Abort
    <3> QED BY <3>1, <3>3, <3>4, <3>5, Finishing, Moving
  <2> QED BY <1>5, <2>1, <2>2 DEF DropOffer
<1>6. CASE ValidateSelection(r)
  <2>1. CASE Abort(r)
    BY <2>1, Aborting
  <2>2. CASE Goto(r, "insert") /\ Reads
    BY <1>6, <1>0, <2>2, Going DEF ValidateSelection, In, Complete, RequestNote, Steps, Reads
  <2> QED BY <1>6, <2>1, <2>2 DEF ValidateSelection, Abort
<1>7. CASE InsertSelectionRow(r)
  <2>1. CASE Abort(r)
    BY <2>1, Aborting
  <2>2. ASSUME NEW s \in SelectionIds, InsertSelection(s, req[r].offer, req[r].day)
        PROVE  Statement
    <3>1. req[r].offer \in OfferIds /\ req[r].day \in Days
      BY <1>7, <1>0, <2>2
         DEF InsertSelectionRow, In, Complete, InsertSelection, Selectable, StoreTypeOK, OfferRow
    <3> QED BY <2>2, <3>1 DEF Statement, MenuStatement
  <2> QED BY <1>7, <2>1, <2>2, Finishing DEF InsertSelectionRow
<1> QED BY <1>1, <1>2, <1>3, <1>4, <1>5, <1>6, <1>7

\* The steps on partner offers.
LEMMA PartnerSteps ==
  ASSUME NotesOK, NEW r \in Reqs,
         InsertPartner(r) \/ ReadPreviousActivation(r) \/ UpdatePartner(r) \/
           DropPartner(r)
  PROVE  StepOf(r)
<1> USE StoreAssumption, ServiceAssumption
<1>0. req[r] \in RequestNote /\ Complete(req[r]) /\ StoreTypeOK
  BY DEF NotesOK, TypeOK
<1>1. CASE InsertPartner(r)
  <2>1. CASE Abort(r)
    BY <2>1, Aborting
  <2>2. ASSUME NEW p \in PartnerIds, NEW act \in ActivationOf(None),
               InsertPartnerOffer(p, req[r].user, req[r].client, act),
               \/ Finish(r)
               \/ req' = [req EXCEPT ![r].at = "recheck", ![r].target = p,
                                     ![r].check = req[r].attach]
        PROVE  StepOf(r)
    <3> DEFINE q == [req[r] EXCEPT !.at = "recheck", !.target = p, !.check = req[r].attach]
    <3>1. req[r].user \in Users /\ req[r].client \in ClientIds \cup {None}
      BY <1>1, <1>0 DEF InsertPartner, In, Complete, RequestNote, Maybe
    <3>2. act \in Moments \cup {None}
      BY DEF ActivationOf
    <3>3. Statement
      BY <2>2, <3>1, <3>2 DEF Statement, PartnerStatement
    <3>4. p \in Maybe(PeriodIds \cup PartnerIds)
      BY DEF Maybe
    <3>5. q \in RequestNote
      BY <1>0, <3>4 DEF RequestNote, Steps
    <3>6. Complete(q)
      BY <1>1, <1>0 DEF InsertPartner, In, Complete, RequestNote
    <3>7. Finish(r) \/ req' = [req EXCEPT ![r] = q]
      BY <2>2
    <3> QED BY <3>3, <3>5, <3>6, <3>7, Finishing, Moving
  <2> QED BY <1>1, <2>1, <2>2 DEF InsertPartner
<1>2. CASE ReadPreviousActivation(r)
  <2>1. CASE Abort(r)
    BY <2>1, Aborting
  <2>2. CASE PartnerForUser(req[r].target, req[r].user)
    <3> DEFINE row == CHOOSE x \in partners : x.id = req[r].target
               q == [req[r] EXCEPT !.at = "update", !.seen = row.activated]
    <3>1. row \in partners
      BY <2>2 DEF PartnerForUser
    <3>2. row.activated \in Maybe(Moments)
      BY <1>0, <3>1 DEF StoreTypeOK, PartnerRow, Maybe
    <3>3. req' = [req EXCEPT ![r] = q] /\ UNCHANGED tables
      BY <1>2, <2>2 DEF ReadPreviousActivation, Reads
    <3> HIDE DEF row
    <3>4. row.activated \in Maybe(OfferContext \cup Moments)
      BY <3>2 DEF Maybe
    <3>5. q \in RequestNote
      BY <1>0, <3>4 DEF RequestNote, Steps
    <3>6. Complete(q)
      BY <1>2, <1>0, <3>2 DEF ReadPreviousActivation, In, Complete, RequestNote
    <3> QED BY <3>3, <3>5, <3>6, Moving
  <2> QED BY <1>2, <2>1, <2>2 DEF ReadPreviousActivation, Abort
<1>3. CASE UpdatePartner(r)
  <2>1. CASE Abort(r)
    BY <2>1, Aborting
  <2>2. ASSUME NEW act \in ActivationOf(req[r].seen),
               UpdatePartnerOfferForUser(req[r].target, req[r].user, req[r].client, act)
        PROVE  Statement
    <3>1. req[r].user \in Users /\ req[r].client \in ClientIds \cup {None}
      BY <1>3, <1>0 DEF UpdatePartner, In, Complete, RequestNote, Maybe
    <3>2. act \in Moments \cup {None}
      BY <1>3, <1>0 DEF UpdatePartner, In, Complete, ActivationOf, Maybe
    <3>3. req[r].target \in PartnerIds
      BY <1>0, <2>2 DEF UpdatePartnerOfferForUser, PartnerForUser, StoreTypeOK, PartnerRow
    <3> QED BY <2>2, <3>1, <3>2, <3>3 DEF Statement, PartnerStatement
  <2> QED BY <1>3, <2>1, <2>2, Finishing DEF UpdatePartner
<1>4. CASE DropPartner(r)
  <2>1. CASE Abort(r)
    BY <2>1, Aborting
  <2>2. ASSUME DeletePartnerRow(req[r].target, req[r].user) PROVE Statement
    <3>1. req[r].target \in PartnerIds /\ req[r].user \in Users
      BY <1>4, <1>0, <2>2 DEF DropPartner, In, Complete, DeletePartnerRow, PartnerForUser,
           StoreTypeOK, PartnerRow
    <3> QED BY <2>2, <3>1 DEF Statement, PartnerStatement
  <2>3. ASSUME DeletePartnerRow(req[r].target, req[r].user), Goto(r, "reclaim") PROVE StepOf(r)
    BY <1>4, <1>0, <2>2, <2>3, Going DEF DropPartner, In, Complete, RequestNote, Steps
  <2> QED BY <1>4, <2>1, <2>2, <2>3, Finishing DEF DropPartner
<1> QED BY <1>1, <1>2, <1>3, <1>4

\* What follows one id of a reclaim: the next id, or the end of the call.
LEMMA Reclaiming ==
  ASSUME NotesOK, NEW r \in Reqs, NEW a, req[r].at \in {"reclaim", "file"},
         AfterReclaim(r, a), Statement \/ UNCHANGED tables
  PROVE  StepOf(r)
<1> DEFINE left == req[r].reclaim \ {a}
           q == [req[r] EXCEPT !.at = "reclaim", !.reclaim = left, !.check = {}]
<1>0. req[r] \in RequestNote /\ Complete(req[r])
  BY DEF NotesOK, TypeOK
<1>1. left \in SUBSET AttachmentIds
  BY <1>0 DEF RequestNote
<1>2. Finish(r) \/ req' = [req EXCEPT ![r] = q]
  BY DEF AfterReclaim
<1> HIDE DEF left
<1>3. q \in RequestNote
  BY <1>0, <1>1 DEF RequestNote, Steps
<1>4. Complete(q)
  BY <1>0 DEF Complete, RequestNote
<1> QED BY <1>2, <1>3, <1>4, Finishing, Moving

\* The steps on screenshots, of every operation that has them.
LEMMA EvidenceSteps ==
  ASSUME NotesOK, NEW r \in Reqs,
         StoreRow(r) \/ CheckAttachment(r) \/ AttachNext(r) \/ Unlink(r) \/
           ListEvidence(r) \/ DropLinks(r) \/ Reclaim(r) \/ RemoveAttachmentFile(r)
  PROVE  StepOf(r)
<1> USE StoreAssumption, ServiceAssumption
<1>0. req[r] \in RequestNote /\ Complete(req[r]) /\ StoreTypeOK
  BY DEF NotesOK, TypeOK
<1>1. CASE StoreRow(r)
  <2> PICK a \in req[r].attach : InsertAttachment(a, req[r].user) \/ RemoveFile(a)
    BY <1>1 DEF StoreRow
  <2>1. a \in AttachmentIds /\ req[r].user \in Users
    BY <1>1, <1>0 DEF StoreRow, In, Complete, RequestNote
  <2>2. Statement
    BY <2>1 DEF Statement, EvidenceStatement
  <2> QED BY <1>1, <2>2, Finishing DEF StoreRow
<1>2. CASE CheckAttachment(r)
  <2> PICK a \in req[r].check :
         LET left == req[r].check \ {a}
             next == IF req[r].at = "check" THEN "insert" ELSE "attach"
         IN  \/ req' = [req EXCEPT ![r].at = When(left, req[r].at, next), ![r].check = left]
             \/ Finish(r)
    BY <1>2 DEF CheckAttachment
  <2>1. UNCHANGED tables
    BY <1>2 DEF CheckAttachment, Reads
  <2> DEFINE left == req[r].check \ {a}
             at == When(left, req[r].at, IF req[r].at = "check" THEN "insert" ELSE "attach")
             q == [req[r] EXCEPT !.at = at, !.check = left]
  <2>2. at \in {"check", "recheck", "insert", "attach"}
    BY <1>2 DEF CheckAttachment, When
  <2>3. left \in SUBSET AttachmentIds
    BY <1>0 DEF RequestNote
  <2>4. Finish(r) \/ req' = [req EXCEPT ![r] = q]
    OBVIOUS
  <2> HIDE DEF at, left
  <2>5. q \in RequestNote
    BY <1>0, <2>2, <2>3 DEF RequestNote, Steps
  <2>6. Complete(q)
    BY <1>2, <1>0, <2>2 DEF CheckAttachment, Complete, RequestNote
  <2> QED BY <2>1, <2>4, <2>5, <2>6, Finishing, Moving
<1>3. CASE AttachNext(r)
  <2>1. CASE Abort(r)
    BY <2>1, Aborting
  <2>2. ASSUME NEW a \in req[r].attach, InsertLink(req[r].target, a),
               Finish(r) \/ req' = [req EXCEPT ![r].attach = req[r].attach \ {a}]
        PROVE  StepOf(r)
    <3> DEFINE left == req[r].attach \ {a}
               q == [req[r] EXCEPT !.attach = left]
    <3>1. a \in AttachmentIds /\ req[r].target \in PeriodIds \cup PartnerIds
      BY <1>0, <2>2 DEF RequestNote, InsertLink, Linkable, StoreTypeOK, PeriodRow, PartnerRow
    <3>2. Statement
      BY <2>2, <3>1 DEF Statement, EvidenceStatement
    <3>3. left \in SUBSET AttachmentIds
      BY <1>0 DEF RequestNote
    <3>4. Finish(r) \/ req' = [req EXCEPT ![r] = q]
      BY <2>2
    <3> HIDE DEF left
    <3>5. q \in RequestNote
      BY <1>0, <3>3 DEF RequestNote
    <3>6. Complete(q)
      BY <1>0 DEF Complete, RequestNote
    <3> QED BY <3>2, <3>4, <3>5, <3>6, Finishing, Moving
  <2> QED BY <1>3, <2>1, <2>2 DEF AttachNext
<1>4. CASE Unlink(r)
  <2>1. CASE Abort(r)
    BY <2>1, Aborting
  <2>2. ASSUME NEW gone \in SUBSET links, DeleteLinks(gone), Goto(r, "reclaim")
        PROVE  StepOf(r)
    <3>1. Statement
      BY <2>2 DEF Statement, EvidenceStatement
    <3> QED BY <1>4, <1>0, <2>2, <3>1, Going DEF Unlink, Complete, RequestNote, Steps
  <2> QED BY <1>4, <2>1, <2>2 DEF Unlink, LinksOf
<1>5. CASE ListEvidence(r)
  <2> DEFINE ids == {l.attachment : l \in LinksOf(req[r].target)}
             at == IF req[r].op = "DeleteOfferPeriod" THEN "menu" ELSE "links"
             q == [req[r] EXCEPT !.reclaim = ids, !.at = at]
  <2>1. ids \in SUBSET AttachmentIds /\ at \in {"menu", "links"}
    BY <1>0 DEF LinksOf, StoreTypeOK, LinkRow
  <2>2. req' = [req EXCEPT ![r] = q] /\ UNCHANGED tables
    BY <1>5 DEF ListEvidence, Reads
  <2> HIDE DEF ids, at
  <2>3. q \in RequestNote
    BY <1>0, <2>1 DEF RequestNote, Steps
  <2>4. Complete(q)
    BY <1>5, <1>0, <2>1 DEF ListEvidence, Complete, RequestNote
  <2> QED BY <2>2, <2>3, <2>4, Moving
<1>6. CASE DropLinks(r)
  <2>1. Statement
    BY <1>6 DEF DropLinks, LinksOf, Statement, EvidenceStatement
  <2> QED BY <1>6, <1>0, <2>1, Going DEF DropLinks, Complete, RequestNote, Steps
<1>7. CASE Reclaim(r)
  <2>1. ASSUME NEW a \in req[r].reclaim, AfterReclaim(r, a), Reads PROVE StepOf(r)
    BY <1>7, <2>1, Reclaiming DEF Reclaim, Reads
  <2>2. ASSUME NEW a \in req[r].reclaim, DeleteAttachmentRow(a, req[r].user),
               req' = [req EXCEPT ![r].at = "file", ![r].check = {a}]
        PROVE  StepOf(r)
    <3> DEFINE q == [req[r] EXCEPT !.at = "file", !.check = {a}]
    <3>1. a \in AttachmentIds /\ req[r].user \in Users
      BY <1>7, <1>0 DEF Reclaim, Complete, RequestNote
    <3>2. Statement
      BY <2>2, <3>1 DEF Statement, EvidenceStatement
    <3>3. q \in RequestNote
      BY <1>0, <3>1 DEF RequestNote, Steps
    <3>4. Complete(q)
      BY <1>7, <1>0 DEF Reclaim, Complete, RequestNote
    <3>5. req' = [req EXCEPT ![r] = q]
      BY <2>2
    <3> QED BY <3>2, <3>3, <3>4, <3>5, Moving
  <2> QED BY <1>7, <2>1, <2>2 DEF Reclaim
<1>8. CASE RemoveAttachmentFile(r)
  <2> PICK a \in req[r].check : AfterReclaim(r, a) /\ (RemoveFile(a) \/ Reads)
    BY <1>8 DEF RemoveAttachmentFile
  <2>1. a \in AttachmentIds
    BY <1>0 DEF RequestNote
  <2>2. Statement \/ UNCHANGED tables
    BY <2>1 DEF Reads, Statement, EvidenceStatement
  <2> QED BY <1>8, <2>1, <2>2, Reclaiming DEF RemoveAttachmentFile
<1> QED BY <1>1, <1>2, <1>3, <1>4, <1>5, <1>6, <1>7, <1>8

(******************************* theorems **********************************)

LEMMA InitNotes == Init => NotesOK /\ PeriodsDisjoint /\ OneSelectionPerOffer
<1> SUFFICES ASSUME Init PROVE NotesOK /\ PeriodsDisjoint /\ OneSelectionPerOffer
  OBVIOUS
<1>1. StoreTypeOK /\ RowsReferenced /\ PeriodsDisjoint /\ OneSelectionPerOffer
  BY DEF Init, StoreInit, StoreTypeOK, RowsReferenced, PeriodsDisjoint, OneSelectionPerOffer
<1>2. req \in [Reqs -> RequestNote] /\ \A r \in Reqs : Complete(req[r])
  BY BlankIsANote DEF Init
<1> QED BY <1>1, <1>2 DEF NotesOK, TypeOK

\* Operations of one statement are statements; a restart blanks every note.
LEMMA StepsAreStatements ==
  ASSUME NotesOK, [Next]_vars
  PROVE  [Statement]_tables /\ req' \in [Reqs -> RequestNote] /\ \A r \in Reqs : Complete(req'[r])
<1>0. req \in [Reqs -> RequestNote] /\ \A r \in Reqs : Complete(req[r])
  BY DEF NotesOK, TypeOK
<1>1. CASE OneStatement
  <2>1. UNCHANGED req
    BY <1>1 DEF OneStatement, CreateBankClient, UpdateBankClient, DeleteBankClient,
         SetPeriodMaxOverride, DeleteSelection, EndOrReopenPartnerOffer
  <2>2. Statement
    BY <1>1 DEF OneStatement, CreateBankClient, UpdateBankClient, DeleteBankClient,
         SetPeriodMaxOverride, DeleteSelection, EndOrReopenPartnerOffer, Statement,
         ClientStatement, PeriodStatement, OtherStatement, PartnerStatement
  <2> QED BY <1>0, <2>1, <2>2
<1>2. CASE Restart
  BY <1>2, BlankIsANote DEF Restart, Reads
<1>3. ASSUME NEW r \in Reqs, Arrive(r) \/ Proceed(r)
      PROVE  /\ [Statement]_tables
             /\ req' \in [Reqs -> RequestNote] /\ \A x \in Reqs : Complete(req'[x])
  <2>1. StepOf(r)
    BY <1>3, Arrivals, PeriodSteps, MenuSteps, PartnerSteps, EvidenceSteps DEF Proceed
  <2> QED BY <1>0, <2>1 DEF StepOf
<1>4. CASE UNCHANGED vars
  BY <1>0, <1>4 DEF vars, tables
<1> QED BY <1>1, <1>2, <1>3, <1>4 DEF Next

\* The schema's promises and the notes, together an inductive invariant.
THEOREM Invariance == Spec => [](NotesOK /\ PeriodsDisjoint /\ OneSelectionPerOffer)
<1>1. ASSUME NotesOK, PeriodsDisjoint, OneSelectionPerOffer, [Next]_vars
      PROVE  NotesOK' /\ PeriodsDisjoint' /\ OneSelectionPerOffer'
  <2>1. [Statement]_tables /\ req' \in [Reqs -> RequestNote] /\ \A r \in Reqs : Complete(req'[r])
    BY <1>1, StepsAreStatements
  <2>2. StoreTypeOK /\ RowsReferenced
    BY <1>1 DEF NotesOK, TypeOK
  <2>3. StoreTypeOK' /\ RowsReferenced'
    BY <2>1, <2>2, StoreTypes, StoreRowsReferenced
  <2> QED BY <1>1, <2>1, <2>2, <2>3, StorePeriodsDisjoint, StoreOneSelection DEF NotesOK, TypeOK
<1> QED BY <1>1, InitNotes, PTL DEF Spec

\* Every table and every note keeps its type (TypeOK).
THEOREM TypeCorrect == Spec => []TypeOK
BY Invariance, PTL DEF NotesOK

\* Invariant 4 holds of every interleaving of any number of requests: the
\* exclusion constraint decides, not the ranges read by ValidateNewPeriod.
THEOREM PeriodsNeverOverlap == Spec => []PeriodsDisjoint
BY Invariance, PTL

\* No offer is ever selected twice.
THEOREM SelectedOnce == Spec => []OneSelectionPerOffer
BY Invariance, PTL

\* No multi-statement delete ever leaves a dangling row.
THEOREM NothingDangles == Spec => []RowsReferenced
BY Invariance, PTL DEF NotesOK

\* What the schema backs holds under every interleaving of any number of requests,
\* whatever they have read and wherever they stop.
THEOREM TablesStayConsistent == Spec => []TablesConsistent
BY PeriodsNeverOverlap, SelectedOnce, NothingDangles, PTL DEF TablesConsistent

\* The service implements the tables: every behaviour of the handlers is a
\* sequence of statements the schema accepts.
THEOREM ServiceImplementsStore == Spec => StoreSpec
<1>1. Init => StoreInit
  BY DEF Init
<1>2. NotesOK /\ [Next]_vars => [Statement]_tables
  BY StepsAreStatements
<1>3. Spec => []NotesOK
  BY Invariance, PTL
<1> QED BY <1>1, <1>2, <1>3, PTL DEF Spec, StoreSpec

(***************************************************************************)
(*                       Whose record it is                                *)
(*                                                                         *)
(* A request looks a record up for its user once and acts on its id some   *)
(* statements later, and most statements carry no user condition.  The     *)
(* argument: an id is never given out twice and no statement hands a row   *)
(* to another account, so that what was the user's when it was read is the *)
(* user's or gone when it is used (Mine below ages well).  Every statement *)
(* of a request is then about rows of its user.                            *)
(***************************************************************************)

(********************************* the keys ********************************)

\* Primary keys, and ids that were given out.
Keys ==
  /\ \A x \in clients : x.id \in spent
  /\ \A x \in periods : x.id \in spent
  /\ \A x \in offers : x.id \in spent
  /\ \A x \in selections : x.id \in spent
  /\ \A x \in partners : x.id \in spent
  /\ \A x, y \in clients : x.id = y.id => x = y
  /\ \A x, y \in periods : x.id = y.id => x = y
  /\ \A x, y \in offers : x.id = y.id => x = y
  /\ \A x, y \in partners : x.id = y.id => x = y

\* A row whose id was given out before the step was there before the step, with
\* the same owner, parent and dates.
Descent ==
  /\ \A i \in Ids : i \in spent => i \in spent'
  /\ \A y \in clients' : y.id \in spent => \E x \in clients : x.id = y.id /\ x.user = y.user
  /\ \A y \in periods' : y.id \in spent =>
       \E x \in periods : x.id = y.id /\ x.client = y.client /\ x.from = y.from /\ x.to = y.to
  /\ \A y \in offers' : y.id \in spent => \E x \in offers : x.id = y.id /\ x.period = y.period
  /\ \A y \in selections' : y.id \in spent => y \in selections
  /\ \A y \in partners' : y.id \in spent => \E x \in partners : x.id = y.id /\ x.user = y.user

\* The ids of rows are ids.
LEMMA RowIds ==
  ASSUME StoreTypeOK
  PROVE  /\ \A x \in clients : x.id \in Ids
         /\ \A x \in periods : x.id \in Ids /\ x.client \in Ids
         /\ \A x \in offers : x.id \in Ids /\ x.period \in Ids
         /\ \A x \in selections : x.id \in Ids /\ x.offer \in Ids
         /\ \A x \in partners : x.id \in Ids
         /\ \A x \in attachments : x.id \in Ids
  BY DEF StoreTypeOK, ClientRow, PeriodRow, OfferRow, SelectionRow, PartnerRow, AttachmentRow, Ids

LEMMA ClientsDescend ==
  ASSUME StoreTypeOK, Keys, ClientStatement
  PROVE  Keys' /\ Descent
<1>1. ASSUME NEW c, NEW u, NEW b, NEW t, InsertBankClient(c, u, b, t)
      PROVE  Keys' /\ Descent
  BY <1>1 DEF InsertBankClient, Keys, Descent
<1>2. ASSUME NEW c, NEW u, NEW t, UpdateBankClientForUser(c, u, t)
      PROVE  Keys' /\ Descent
  <2>1. \A y \in clients' : \E x \in clients :
          /\ x.id = y.id /\ x.user = y.user
          /\ y = IF x.id = c THEN [x EXCEPT !.tier = t] ELSE x
    BY <1>2 DEF UpdateBankClientForUser, StoreTypeOK, ClientRow
  <2>2. UNCHANGED <<periods, offers, selections, partners, spent>>
    BY <1>2 DEF UpdateBankClientForUser
  <2>3. QED
    BY <2>1, <2>2 DEF Keys, Descent
<1>3. ASSUME NEW c, NEW u, DeleteBankClientForUser(c, u)
      PROVE  Keys' /\ Descent
  BY <1>3 DEF DeleteBankClientForUser, Keys, Descent
<1>4. QED
  BY <1>1, <1>2, <1>3 DEF ClientStatement

LEMMA PeriodsDescend ==
  ASSUME StoreTypeOK, Keys, PeriodStatement
  PROVE  Keys' /\ Descent
<1>1. ASSUME NEW p, NEW c, NEW r, InsertOfferPeriod(p, c, r)
      PROVE  Keys' /\ Descent
  BY <1>1 DEF InsertOfferPeriod, Keys, Descent
<1>2. ASSUME NEW p, NEW u, NEW n, SetOfferPeriodMaxOverride(p, u, n)
      PROVE  Keys' /\ Descent
  <2>1. \A y \in periods' : \E x \in periods :
          /\ x.id = y.id /\ x.client = y.client /\ x.from = y.from /\ x.to = y.to
          /\ y = IF x.id = p THEN [x EXCEPT !.override = n] ELSE x
    BY <1>2 DEF SetOfferPeriodMaxOverride, StoreTypeOK, PeriodRow
  <2>2. UNCHANGED <<clients, offers, selections, partners, spent>>
    BY <1>2 DEF SetOfferPeriodMaxOverride
  <2>3. QED
    BY <2>1, <2>2 DEF Keys, Descent
<1>3. ASSUME NEW p, DeletePeriodRow(p)
      PROVE  Keys' /\ Descent
  BY <1>3 DEF DeletePeriodRow, Keys, Descent
<1>4. QED
  BY <1>1, <1>2, <1>3 DEF PeriodStatement

LEMMA MenuDescends ==
  ASSUME StoreTypeOK, Keys, MenuStatement \/ OtherStatement
  PROVE  Keys' /\ Descent
<1>1. ASSUME NEW o, NEW p, NEW k, InsertCategoryOffer(o, p, k)
      PROVE  Keys' /\ Descent
  BY <1>1 DEF InsertCategoryOffer, Keys, Descent
<1>2. ASSUME NEW o, NEW u, NEW k, UpdateCategoryOfferForUser(o, u, k)
      PROVE  Keys' /\ Descent
  <2>1. \A y \in offers' : \E x \in offers :
          x.id = y.id /\ x.period = y.period /\ y = IF x.id = o THEN [x EXCEPT !.kind = k] ELSE x
    BY <1>2 DEF UpdateCategoryOfferForUser, StoreTypeOK, OfferRow
  <2>2. UNCHANGED <<clients, periods, selections, partners, spent>>
    BY <1>2 DEF UpdateCategoryOfferForUser
  <2>3. QED
    BY <2>1, <2>2 DEF Keys, Descent
<1>3. ASSUME NEW o, DeleteSelectionByOffer(o)
      PROVE  Keys' /\ Descent
  BY <1>3 DEF DeleteSelectionByOffer, Keys, Descent
<1>4. ASSUME NEW o, DeleteOfferRow(o)
      PROVE  Keys' /\ Descent
  BY <1>4 DEF DeleteOfferRow, Keys, Descent
<1>5. ASSUME NEW s, NEW o, NEW d, InsertSelection(s, o, d)
      PROVE  Keys' /\ Descent
  BY <1>5 DEF InsertSelection, Keys, Descent
<1>6. CASE OtherStatement
  BY <1>6 DEF OtherStatement, DeleteSelectionForUser, UpsertAlias, Keys, Descent
<1>7. QED
  BY <1>1, <1>2, <1>3, <1>4, <1>5, <1>6 DEF MenuStatement

LEMMA PartnersDescend ==
  ASSUME StoreTypeOK, Keys, PartnerStatement
  PROVE  Keys' /\ Descent
<1>1. ASSUME NEW p \in PartnerIds, NEW u, NEW c, NEW act, InsertPartnerOffer(p, u, c, act)
      PROVE  Keys' /\ Descent
  <2> DEFINE row == [id |-> p, user |-> u, client |-> c, activated |-> act, ended |-> FALSE]
  <2>1. /\ p \notin spent /\ partners' = partners \cup {row} /\ row.id = p
        /\ UNCHANGED <<clients, periods, offers, selections>>
    BY <1>1 DEF InsertPartnerOffer, KeepMenu
  <2> HIDE DEF row
  <2>2. p \in spent' /\ \A i \in Ids : i \in spent => i \in spent'
    BY <1>1, NullIsNoId DEF InsertPartnerOffer, Ids
  <2>3. QED
    BY <2>1, <2>2, RowIds DEF Keys, Descent
<1>2. ASSUME NEW p, NEW u, NEW c, NEW act, UpdatePartnerOfferForUser(p, u, c, act)
      PROVE  Keys' /\ Descent
  <2>1. \A y \in partners' : \E x \in partners :
          /\ x.id = y.id /\ x.user = y.user
          /\ y = IF x.id = p THEN [x EXCEPT !.client = c, !.activated = act] ELSE x
    BY <1>2 DEF UpdatePartnerOfferForUser, StoreTypeOK, PartnerRow
  <2>2. UNCHANGED <<clients, periods, offers, selections>>
    BY <1>2 DEF UpdatePartnerOfferForUser, KeepMenu
  <2>3. \A i \in Ids : i \in spent => i \in spent'
    BY <1>2, NullIsNoId DEF UpdatePartnerOfferForUser
  <2>4. ASSUME NEW y \in partners', NEW z \in partners', y.id = z.id
        PROVE  y = z
    <3>1. PICK x \in partners :
            x.id = y.id /\ y = IF x.id = p THEN [x EXCEPT !.client = c, !.activated = act] ELSE x
      BY <2>1
    <3>2. PICK w \in partners :
            w.id = z.id /\ z = IF w.id = p THEN [w EXCEPT !.client = c, !.activated = act] ELSE w
      BY <2>1
    <3>3. x = w
      BY <2>4, <3>1, <3>2 DEF Keys
    <3>4. QED
      BY <3>1, <3>2, <3>3
  <2>5. \A x \in partners' : x.id \in spent'
    BY <2>1, <2>3, RowIds DEF Keys
  <2>6. Keys'
    BY <2>2, <2>3, <2>4, <2>5, RowIds DEF Keys
  <2>7. QED
    BY <2>1, <2>2, <2>3, <2>6 DEF Descent
<1>3. ASSUME NEW p, NEW u, NEW e, SetPartnerEnded(p, u, e)
      PROVE  Keys' /\ Descent
  <2>1. \A y \in partners' : \E x \in partners :
          x.id = y.id /\ x.user = y.user /\ y = IF x.id = p THEN [x EXCEPT !.ended = e] ELSE x
    BY <1>3 DEF SetPartnerEnded, StoreTypeOK, PartnerRow
  <2>2. UNCHANGED <<clients, periods, offers, selections, spent>>
    BY <1>3 DEF SetPartnerEnded, KeepMenu
  <2>3. QED
    BY <2>1, <2>2 DEF Keys, Descent
<1>4. ASSUME NEW p, NEW u, DeletePartnerRow(p, u)
      PROVE  Keys' /\ Descent
  BY <1>4 DEF DeletePartnerRow, KeepMenu, Keys, Descent
<1>5. QED
  BY <1>1, <1>2, <1>3, <1>4 DEF PartnerStatement

\* Every statement keeps the keys, and what a row of an old id belongs to.
LEMMA RowsDescend ==
  ASSUME StoreTypeOK, Keys, [Statement]_tables
  PROVE  Keys' /\ Descent
<1>1. CASE EvidenceStatement
  <2>1. UNCHANGED <<clients, periods, offers, selections, partners>> /\ spent \subseteq spent'
    BY <1>1 DEF EvidenceStatement, WriteFile, RemoveFile, InsertAttachment, DeleteAttachmentRow,
         InsertLink, DeleteLinks, KeepRecords, KeepMenu
  <2>2. QED
    BY <2>1 DEF Keys, Descent
<1>2. CASE UNCHANGED tables
  BY <1>2 DEF tables, Keys, Descent
<1>3. QED
  BY <1>1, <1>2, ClientsDescend, PeriodsDescend, MenuDescends, PartnersDescend DEF Statement

(********************************** mine ***********************************)

\* An id was given out, and the row it names, if it is still there, is u's.
ClientMine(c, u)  == c \in spent /\ \A x \in clients : x.id = c => x.user = u
PeriodMine(p, u)  == p \in spent /\ \A x \in periods : x.id = p => ClientMine(x.client, u)
OfferMine(o, u)   == o \in spent /\ \A x \in offers : x.id = o => PeriodMine(x.period, u)
PartnerMine(p, u) == p \in spent /\ \A x \in partners : x.id = p => x.user = u

ParentMine(t, u) == (t \in PeriodIds => PeriodMine(t, u)) /\ (t \in PartnerIds => PartnerMine(t, u))

\* a screenshot: its row, or the row of it that an upload is about to store
AttachmentMine(a, u) ==
  /\ a \in spent
  /\ \A x \in attachments : x.id = a => x.user = u
  /\ \A r \in Reqs : req[r].op = "Save" /\ a \in req[r].attach => req[r].user = u

\* What a request goes by.  UpdatePartnerOffer takes the id as the client sent it
\* and leaves the judgement to its statement.
NoteMine(q) ==
  /\ q.client \in ClientIds => ClientMine(q.client, q.user)
  /\ q.op # "UpdatePartnerOffer" => ParentMine(q.target, q.user)
  /\ q.offer \in OfferIds => OfferMine(q.offer, q.user)
  /\ \A o \in q.doomed : OfferMine(o, q.user)
  /\ \A a \in q.attach \ q.check : AttachmentMine(a, q.user)

\* Which operations meet which steps.
Taking == {"evidence", "menu", "selections", "row", "links", "parent", "unlink", "reclaim", "file"}

NoteShape(q) ==
  /\ q.op = "Save" <=> q.at = "store"
  /\ q.op = "UpdatePartnerOffer" => q.at \in {"prev", "update"}
  /\ q.at \in Taking => q.attach = {}
  /\ q.at = "attach" \/ (q.op = "CreateOfferPeriod" /\ q.at = "insert") => q.check = {}
  /\ q.op = "CreateSelection" => q.at \in {"count", "insert"}

\* Screenshots come from uploads that wrote their file first.
AttachmentsDescend ==
  /\ \A y \in attachments' : y.id \in spent /\
       (y \in attachments \/
          \E r \in Reqs : req[r].op = "Save" /\ y.id \in req[r].attach /\ y.user = req[r].user)
  /\ \A r \in Reqs : req'[r].op = "Save" =>
       \A a \in req'[r].attach : a \in spent =>
         req[r].op = "Save" /\ a \in req[r].attach /\ req[r].user = req'[r].user

Aging == Descent /\ AttachmentsDescend

LEMMA ClientAges ==
  ASSUME Aging, NEW u, NEW c \in Ids, ClientMine(c, u)
  PROVE  ClientMine(c, u)'
  BY DEF Aging, Descent, ClientMine

LEMMA PeriodAges ==
  ASSUME StoreTypeOK, Aging, NEW u, NEW p \in Ids, PeriodMine(p, u)
  PROVE  PeriodMine(p, u)'
<1>1. ASSUME NEW y \in periods', y.id = p
      PROVE  ClientMine(y.client, u)'
  <2>1. PICK x \in periods : x.id = y.id /\ x.client = y.client
    BY <1>1 DEF Aging, Descent, PeriodMine
  <2>2. QED
    BY <1>1, <2>1, ClientAges, RowIds DEF PeriodMine
<1>2. QED
  BY <1>1 DEF Aging, Descent, PeriodMine

LEMMA OfferAges ==
  ASSUME StoreTypeOK, Aging, NEW u, NEW o \in Ids, OfferMine(o, u)
  PROVE  OfferMine(o, u)'
<1>1. ASSUME NEW y \in offers', y.id = o
      PROVE  PeriodMine(y.period, u)'
  <2>1. PICK x \in offers : x.id = y.id /\ x.period = y.period
    BY <1>1 DEF Aging, Descent, OfferMine
  <2>2. QED
    BY <1>1, <2>1, PeriodAges, RowIds DEF OfferMine
<1>2. QED
  BY <1>1 DEF Aging, Descent, OfferMine

LEMMA ParentAges ==
  ASSUME StoreTypeOK, Aging, NEW u, NEW t, ParentMine(t, u)
  PROVE  ParentMine(t, u)'
<1>1. ASSUME t \in PartnerIds, PartnerMine(t, u)
      PROVE  PartnerMine(t, u)'
  BY <1>1 DEF Aging, Descent, PartnerMine, Ids
<1>2. ASSUME t \in PeriodIds, PeriodMine(t, u)
      PROVE  PeriodMine(t, u)'
  BY <1>2, PeriodAges DEF Ids
<1>3. QED
  BY <1>1, <1>2 DEF ParentMine

LEMMA AttachmentAges ==
  ASSUME Aging, NEW u, NEW a \in Ids, AttachmentMine(a, u)
  PROVE  AttachmentMine(a, u)'
<1>1. ASSUME NEW y \in attachments', y.id = a
      PROVE  y.user = u
  BY <1>1 DEF Aging, AttachmentsDescend, AttachmentMine
<1>2. ASSUME NEW r \in Reqs, req'[r].op = "Save", a \in req'[r].attach
      PROVE  req'[r].user = u
  BY <1>2 DEF Aging, AttachmentsDescend, AttachmentMine
<1>3. QED
  BY <1>1, <1>2 DEF Aging, Descent, AttachmentMine

\* What a request goes by stays true while others write.
LEMMA NoteAges ==
  ASSUME StoreTypeOK, Aging, NEW q \in RequestNote, NoteMine(q)
  PROVE  NoteMine(q)'
<1>1. q.doomed \subseteq OfferIds /\ q.attach \subseteq AttachmentIds
  BY DEF RequestNote
<1>2. \A o \in q.doomed : OfferMine(o, q.user)'
  BY <1>1, OfferAges DEF NoteMine, Ids
<1>3. q.offer \in OfferIds => OfferMine(q.offer, q.user)'
  BY OfferAges DEF NoteMine, Ids
<1>4. q.client \in ClientIds => ClientMine(q.client, q.user)'
  BY ClientAges DEF NoteMine, Ids
<1>5. \A a \in q.attach \ q.check : AttachmentMine(a, q.user)'
  BY <1>1, AttachmentAges DEF NoteMine, Ids
<1>6. q.op # "UpdatePartnerOffer" => ParentMine(q.target, q.user)'
  BY ParentAges DEF NoteMine
<1>7. QED
  BY <1>2, <1>3, <1>4, <1>5, <1>6 DEF NoteMine

\* A screenshot has one row at most, and its file; an upload that stores the row
\* and a removal that took it have the file for themselves.
Tokens ==
  /\ files \subseteq spent
  /\ \A x \in attachments : x.id \in files
  /\ \A x, y \in attachments : x.id = y.id => x = y
  /\ \A r \in Reqs : req[r].op = "Save" =>
       \A a \in req[r].attach : a \in files /\ \A x \in attachments : x.id # a
  /\ \A r, s \in Reqs : req[r].op = "Save" /\ req[s].op = "Save" /\ r # s =>
       req[r].attach \cap req[s].attach = {}
  /\ \A r \in Reqs : req[r].at = "file" =>
       \A a \in req[r].check :
         /\ a \in spent /\ \A x \in attachments : x.id # a
         /\ \A s \in Reqs : req[s].op = "Save" => a \notin req[s].attach

\* Records that are tied to each other are one account's.
LinksMine ==
  \A l \in links : \E u \in Users : ParentMine(l.parent, u) /\ AttachmentMine(l.attachment, u)

PartnersMine == \A p \in partners : p.client # None => ClientMine(p.client, p.user)

NotesMine == \A r \in Reqs : NoteShape(req[r]) /\ NoteMine(req[r])

OwnInv == Keys /\ Tokens /\ LinksMine /\ PartnersMine /\ NotesMine

(******************************* the steps *********************************)

\* A request goes on as what it is, or is over; only an upload that is at its
\* insert stores a screenshot.
LEMMA GoesOn ==
  ASSUME req \in [Reqs -> RequestNote], NEW r \in Reqs, Proceed(r)
  PROVE  /\ req'[r].op \in {None, req[r].op}
         /\ req[r].op = "Save" /\ req[r].at = "store" => req'[r] = Blank
         /\ \A s \in Reqs \ {r} : req'[s] = req[s]
         /\ attachments' \subseteq attachments \/ (StoreRow(r) /\ In(r, "Save", "store"))
<1>0. req[r] \in RequestNote /\ Blank.op = None
  BY DEF Blank
<1>1. CASE ValidateNewPeriod(r) \/ InsertPeriod(r) \/ ListMenu(r) \/ DropPeriod(r)
  BY <1>0, <1>1 DEF ValidateNewPeriod, InsertPeriod, ListMenu, DropPeriod, In, Finish, Abort, Reads,
       Goto, tables, InsertOfferPeriod, DeletePeriodRow, KeepEvidence, RequestNote
<1>2. CASE InsertOffer(r) \/ UpdateOffer(r) \/ RememberAlias(r)
  BY <1>0, <1>2 DEF InsertOffer, UpdateOffer, RememberAlias, ThenAlias, In, Finish, Abort, Reads,
       Goto, tables, InsertCategoryOffer, UpdateCategoryOfferForUser, UpsertAlias, KeepEvidence,
       RequestNote
<1>3. CASE DropSelection(r) \/ DropOffer(r) \/ ValidateSelection(r) \/ InsertSelectionRow(r)
  BY <1>0, <1>3 DEF DropSelection, DropOffer, ValidateSelection, InsertSelectionRow, In, Finish,
       Abort, Reads, Goto, tables, DeleteSelectionByOffer, DeleteOfferRow, InsertSelection,
       KeepEvidence, RequestNote
<1>4. CASE InsertPartner(r)
  <2>1. attachments' = attachments /\ In(r, "CreatePartnerOffer", "insert")
    BY <1>4 DEF InsertPartner, Abort, Reads, tables, InsertPartnerOffer, KeepEvidence
  <2>2. \/ Finish(r)
        \/ \E p : req' = [req EXCEPT ![r].at = "recheck", ![r].target = p,
                            ![r].check = req[r].attach]
    BY <1>4, Zenon DEF InsertPartner, Abort
  <2>3. QED
    BY <1>0, <2>1, <2>2 DEF In, Finish, RequestNote
<1>5. CASE ReadPreviousActivation(r) \/ UpdatePartner(r) \/ DropPartner(r)
  <2>1. /\ attachments' = attachments
        /\ \E op \in {"UpdatePartnerOffer", "DeletePartnerOffer"} : req[r].op = op
    BY <1>5 DEF ReadPreviousActivation, UpdatePartner, DropPartner, In, Abort, Reads, tables,
         UpdatePartnerOfferForUser, DeletePartnerRow, KeepEvidence
  <2>2. \/ Finish(r) \/ Goto(r, "reclaim")
        \/ \E x : req' = [req EXCEPT ![r].at = "update", ![r].seen = x]
    BY <1>5, Zenon DEF ReadPreviousActivation, UpdatePartner, DropPartner, Abort
  <2>3. QED
    BY <1>0, <2>1, <2>2 DEF Finish, Goto, RequestNote
<1>6. CASE StoreRow(r)
  BY <1>0, <1>6 DEF StoreRow, In, Finish
<1>7. CASE CheckAttachment(r)
  BY <1>0, <1>7 DEF CheckAttachment, Finish, Reads, tables, RequestNote
<1>8. CASE AttachNext(r)
  BY <1>0, <1>8 DEF AttachNext, Finish, Abort, Reads, tables, InsertLink, RequestNote
<1>9. CASE Unlink(r) \/ ListEvidence(r) \/ DropLinks(r)
  BY <1>0, <1>9 DEF Unlink, ListEvidence, DropLinks, Finish, Abort, Reads, Goto, tables,
       DeleteLinks, RequestNote
<1>10. CASE Reclaim(r)
  BY <1>0, <1>10 DEF Reclaim, AfterReclaim, Finish, Reads, tables, DeleteAttachmentRow, RequestNote
<1>11. CASE RemoveAttachmentFile(r)
  BY <1>0, <1>11 DEF RemoveAttachmentFile, AfterReclaim, Finish, Reads, tables, RemoveFile,
       RequestNote
<1>12. QED
  BY <1>1, <1>2, <1>3, <1>4, <1>5, <1>6, <1>7, <1>8, <1>9, <1>10, <1>11 DEF Proceed

(******************************* first reads *******************************)

\* What a user-scoped lookup found is the user's.
LEMMA LookedUp ==
  ASSUME OwnInv, NEW u
  PROVE  /\ \A c : ClientForUser(c, u) => ClientMine(c, u)
         /\ \A p : PeriodForUser(p, u) => PeriodMine(p, u)
         /\ \A o : OfferForUser(o, u) => OfferMine(o, u)
         /\ \A p : PartnerForUser(p, u) => PartnerMine(p, u)
         /\ \A a : AttachmentForUser(a, u) => AttachmentMine(a, u)
<1>1. \A c : ClientForUser(c, u) => ClientMine(c, u)
  BY DEF OwnInv, Keys, ClientForUser, ClientMine
<1>2. \A p : PeriodForUser(p, u) => PeriodMine(p, u)
  BY <1>1 DEF OwnInv, Keys, PeriodForUser, PeriodMine
<1>3. \A o : OfferForUser(o, u) => OfferMine(o, u)
  BY <1>2 DEF OwnInv, Keys, OfferForUser, OfferMine
<1>4. \A p : PartnerForUser(p, u) => PartnerMine(p, u)
  BY DEF OwnInv, Keys, PartnerForUser, PartnerMine
<1>5. \A a : AttachmentForUser(a, u) => AttachmentMine(a, u)
  BY DEF OwnInv, Tokens, AttachmentForUser, AttachmentMine
<1>6. QED
  BY <1>1, <1>2, <1>3, <1>4, <1>5

\* A period has no partner offer's id, so that a parent's lookup says which it is.
LEMMA ParentFound ==
  ASSUME NotesOK, OwnInv, NEW u, NEW t \in PeriodIds \cup PartnerIds, ParentForUser(t, u)
  PROVE  ParentMine(t, u)
<1>1. /\ PeriodForUser(t, u) => t \in PeriodIds
      /\ PartnerForUser(t, u) => t \in PartnerIds
  BY DEF PeriodForUser, PartnerForUser, NotesOK, TypeOK, StoreTypeOK, PeriodRow, PartnerRow
<1>2. QED
  BY <1>1, LookedUp, StoreAssumption DEF ParentForUser, ParentMine

LEMMA BlankIsMine == NoteShape(Blank) /\ NoteMine(Blank)
<1>1. None # "Save" /\ None # "UpdatePartnerOffer" /\ None # "CreateSelection"
  BY ServiceAssumption DEF Multi
<1>2. None \notin ClientIds /\ None \notin PeriodIds /\ None \notin PartnerIds /\ None \notin OfferIds
  BY NullIsNoId DEF Ids
<1>3. QED
  BY <1>1, <1>2 DEF NoteShape, NoteMine, Blank, Taking, ParentMine

\* A call notes what its first read found, and writes nothing.
LEMMA Begins ==
  ASSUME NotesOK, OwnInv, NEW r \in Reqs, Arrive(r), ~ Save(r)
  PROVE  \E q : Begin(r, q) /\ q.op # "Save" /\ NoteShape(q) /\ NoteMine(q)
<1>0. None \notin ClientIds /\ None \notin PeriodIds /\ None \notin PartnerIds /\ None \notin OfferIds
  BY NullIsNoId DEF Ids
<1>1. CASE CreateOfferPeriod(r)
  <2>1. PICK u, c, s, as : ClientForUser(c, u) /\
          Begin(r, [Blank EXCEPT !.op = "CreateOfferPeriod", !.at = "ranges", !.user = u,
                      !.client = c, !.span = s, !.check = as, !.attach = as])
    BY <1>1 DEF CreateOfferPeriod
  <2> DEFINE q == [Blank EXCEPT !.op = "CreateOfferPeriod", !.at = "ranges", !.user = u,
                      !.client = c, !.span = s, !.check = as, !.attach = as]
  <2>2. /\ q.op = "CreateOfferPeriod" /\ q.at = "ranges" /\ q.user = u /\ q.client = c
        /\ q.target = None /\ q.offer = None /\ q.doomed = {} /\ q.attach \ q.check = {}
    BY DEF Blank
  <2> HIDE DEF q
  <2>3. NoteShape(q) /\ NoteMine(q)
    BY <1>0, <2>1, <2>2, LookedUp DEF NoteShape, NoteMine, ParentMine, Taking
  <2>4. QED
    BY <2>1, <2>2, <2>3 DEF q
<1>2. CASE CreatePartnerOffer(r)
  <2>1. PICK u, c, as : OwnsClient(u, c) /\
          Begin(r, [Blank EXCEPT !.op = "CreatePartnerOffer", !.at = When(as, "check", "insert"),
                      !.user = u, !.client = c, !.check = as, !.attach = as])
    BY <1>2 DEF CreatePartnerOffer
  <2> DEFINE q == [Blank EXCEPT !.op = "CreatePartnerOffer", !.at = When(as, "check", "insert"),
                      !.user = u, !.client = c, !.check = as, !.attach = as]
  <2>2. /\ q.op = "CreatePartnerOffer" /\ q.at \in {"check", "insert"} /\ q.user = u /\ q.client = c
        /\ q.target = None /\ q.offer = None /\ q.doomed = {} /\ q.attach \ q.check = {}
    BY DEF Blank, When
  <2> HIDE DEF q
  <2>3. NoteShape(q) /\ NoteMine(q)
    BY <1>0, <2>1, <2>2, LookedUp DEF NoteShape, NoteMine, ParentMine, Taking, OwnsClient
  <2>4. QED
    BY <2>1, <2>2, <2>3 DEF q
<1>3. CASE UpdatePartnerOffer(r)
  <2>1. PICK u, p, c : OwnsClient(u, c) /\
          Begin(r, [Blank EXCEPT !.op = "UpdatePartnerOffer", !.at = "prev", !.user = u,
                      !.client = c, !.target = p])
    BY <1>3 DEF UpdatePartnerOffer
  <2> DEFINE q == [Blank EXCEPT !.op = "UpdatePartnerOffer", !.at = "prev", !.user = u,
                      !.client = c, !.target = p]
  <2>2. /\ q.op = "UpdatePartnerOffer" /\ q.at = "prev" /\ q.user = u /\ q.client = c
        /\ q.offer = None /\ q.doomed = {} /\ q.attach = {}
    BY DEF Blank
  <2> HIDE DEF q
  <2>3. NoteShape(q) /\ NoteMine(q)
    BY <1>0, <2>1, <2>2, LookedUp DEF NoteShape, NoteMine, Taking, OwnsClient
  <2>4. QED
    BY <2>1, <2>2, <2>3 DEF q
<1>4. CASE DeleteOfferPeriod(r)
  <2>1. PICK u \in Users, p \in PeriodIds : PeriodForUser(p, u) /\
          Begin(r, [Blank EXCEPT !.op = "DeleteOfferPeriod", !.at = "evidence", !.user = u,
                      !.target = p])
    BY <1>4 DEF DeleteOfferPeriod
  <2> DEFINE q == [Blank EXCEPT !.op = "DeleteOfferPeriod", !.at = "evidence", !.user = u,
                      !.target = p]
  <2>2. /\ q.op = "DeleteOfferPeriod" /\ q.at = "evidence" /\ q.user = u /\ q.client = None
        /\ q.target = p /\ q.offer = None /\ q.doomed = {} /\ q.attach = {}
    BY DEF Blank
  <2> HIDE DEF q
  <2>3. NoteShape(q) /\ NoteMine(q)
    BY <1>0, <2>1, <2>2, LookedUp, StoreAssumption DEF NoteShape, NoteMine, ParentMine, Taking
  <2>4. QED
    BY <2>1, <2>2, <2>3 DEF q
<1>5. CASE DeletePartnerOffer(r)
  <2>1. PICK u \in Users, p \in PartnerIds : PartnerForUser(p, u) /\
          Begin(r, [Blank EXCEPT !.op = "DeletePartnerOffer", !.at = "evidence", !.user = u,
                      !.target = p])
    BY <1>5 DEF DeletePartnerOffer
  <2> DEFINE q == [Blank EXCEPT !.op = "DeletePartnerOffer", !.at = "evidence", !.user = u,
                      !.target = p]
  <2>2. /\ q.op = "DeletePartnerOffer" /\ q.at = "evidence" /\ q.user = u /\ q.client = None
        /\ q.target = p /\ q.offer = None /\ q.doomed = {} /\ q.attach = {}
    BY DEF Blank
  <2> HIDE DEF q
  <2>3. NoteShape(q) /\ NoteMine(q)
    BY <1>0, <2>1, <2>2, LookedUp, StoreAssumption DEF NoteShape, NoteMine, ParentMine, Taking
  <2>4. QED
    BY <2>1, <2>2, <2>3 DEF q
<1>6. CASE CreateCategoryOffer(r)
  <2>1. PICK u \in Users, p \in PeriodIds, k \in Kinds, m \in Mappings : PeriodForUser(p, u) /\
          Begin(r, [Blank EXCEPT !.op = "CreateCategoryOffer", !.at = "insert", !.user = u,
                      !.bank = BankOfPeriod(p), !.target = p, !.kind = k, !.map = m])
    BY <1>6 DEF CreateCategoryOffer
  <2> DEFINE q == [Blank EXCEPT !.op = "CreateCategoryOffer", !.at = "insert", !.user = u,
                      !.bank = BankOfPeriod(p), !.target = p, !.kind = k, !.map = m]
  <2>2. /\ q.op = "CreateCategoryOffer" /\ q.at = "insert" /\ q.user = u /\ q.client = None
        /\ q.target = p /\ q.offer = None /\ q.doomed = {} /\ q.attach = {}
    BY DEF Blank
  <2> HIDE DEF q
  <2>3. NoteShape(q) /\ NoteMine(q)
    BY <1>0, <2>1, <2>2, LookedUp, StoreAssumption DEF NoteShape, NoteMine, ParentMine, Taking
  <2>4. QED
    BY <2>1, <2>2, <2>3 DEF q
<1>7. CASE UpdateCategoryOffer(r)
  <2>1. PICK u, o, k, m : OfferForUser(o, u) /\
          Begin(r, [Blank EXCEPT !.op = "UpdateCategoryOffer", !.at = "update", !.user = u,
                      !.bank = BankOfPeriod(OfferRowOf(o).period), !.offer = o, !.kind = k,
                      !.map = m])
    BY <1>7 DEF UpdateCategoryOffer
  <2> DEFINE q == [Blank EXCEPT !.op = "UpdateCategoryOffer", !.at = "update", !.user = u,
                      !.bank = BankOfPeriod(OfferRowOf(o).period), !.offer = o, !.kind = k,
                      !.map = m]
  <2>2. /\ q.op = "UpdateCategoryOffer" /\ q.at = "update" /\ q.user = u /\ q.client = None
        /\ q.target = None /\ q.offer = o /\ q.doomed = {} /\ q.attach = {}
    BY DEF Blank
  <2> HIDE DEF q
  <2>3. NoteShape(q) /\ NoteMine(q)
    BY <1>0, <2>1, <2>2, LookedUp DEF NoteShape, NoteMine, ParentMine, Taking
  <2>4. QED
    BY <2>1, <2>2, <2>3 DEF q
<1>8. CASE DeleteCategoryOffer(r)
  <2>1. PICK u, o : OfferForUser(o, u) /\
          Begin(r, [Blank EXCEPT !.op = "DeleteCategoryOffer", !.at = "selections",
                      !.user = u, !.doomed = {o}])
    BY <1>8 DEF DeleteCategoryOffer
  <2> DEFINE q == [Blank EXCEPT !.op = "DeleteCategoryOffer", !.at = "selections",
                      !.user = u, !.doomed = {o}]
  <2>2. /\ q.op = "DeleteCategoryOffer" /\ q.at = "selections" /\ q.user = u /\ q.client = None
        /\ q.target = None /\ q.offer = None /\ q.doomed = {o} /\ q.attach = {}
    BY DEF Blank
  <2> HIDE DEF q
  <2>3. NoteShape(q) /\ NoteMine(q)
    BY <1>0, <2>1, <2>2, LookedUp DEF NoteShape, NoteMine, ParentMine, Taking
  <2>4. QED
    BY <2>1, <2>2, <2>3 DEF q
<1>9. CASE CreateSelection(r)
  <2>1. PICK u, o, d, b : OfferForUser(o, u) /\
          Begin(r, [Blank EXCEPT !.op = "CreateSelection", !.at = "count", !.user = u,
                      !.offer = o, !.target = OfferRowOf(o).period, !.day = d,
                      !.seen = ContextOf(o, d, b)])
    BY <1>9 DEF CreateSelection
  <2> DEFINE q == [Blank EXCEPT !.op = "CreateSelection", !.at = "count", !.user = u,
                      !.offer = o, !.target = OfferRowOf(o).period, !.day = d,
                      !.seen = ContextOf(o, d, b)]
  <2>2. /\ q.op = "CreateSelection" /\ q.at = "count" /\ q.user = u /\ q.client = None
        /\ q.target = OfferRowOf(o).period /\ q.offer = o /\ q.doomed = {} /\ q.attach = {}
    BY DEF Blank
  <2> HIDE DEF q
  <2>3. OfferRowOf(o) \in offers /\ OfferRowOf(o).id = o
    BY <2>1 DEF OfferForUser, OfferRowOf
  <2>4. OfferRowOf(o).period \in PeriodIds /\ PeriodMine(OfferRowOf(o).period, u)
    BY <2>1, <2>3, LookedUp DEF OfferMine, NotesOK, TypeOK, StoreTypeOK, OfferRow
  <2>5. NoteShape(q) /\ NoteMine(q)
    BY <1>0, <2>1, <2>2, <2>4, LookedUp, StoreAssumption DEF NoteShape, NoteMine, ParentMine, Taking
  <2>6. QED
    BY <2>1, <2>2, <2>5 DEF q
<1>10. CASE Attach(r)
  <2>1. PICK u \in Users, t \in PeriodIds \cup PartnerIds, a \in AttachmentIds : ParentForUser(t, u) /\
          Begin(r, [Blank EXCEPT !.op = AttachOp(t), !.at = "recheck", !.user = u,
                      !.target = t, !.check = {a}, !.attach = {a}])
    BY <1>10 DEF Attach
  <2> DEFINE q == [Blank EXCEPT !.op = AttachOp(t), !.at = "recheck", !.user = u,
                      !.target = t, !.check = {a}, !.attach = {a}]
  <2>2. /\ q.op \in {"AttachScreenshot", "AttachPartner"} /\ q.at = "recheck" /\ q.user = u
        /\ q.client = None /\ q.target = t /\ q.offer = None /\ q.doomed = {}
        /\ q.attach \ q.check = {}
    BY DEF Blank, AttachOp
  <2> HIDE DEF q
  <2>3. NoteShape(q) /\ NoteMine(q)
    BY <1>0, <2>1, <2>2, ParentFound DEF NoteShape, NoteMine, Taking
  <2>4. QED
    BY <2>1, <2>2, <2>3 DEF q
<1>11. CASE Detach(r)
  <2>1. PICK u \in Users, t \in PeriodIds \cup PartnerIds, a \in AttachmentIds : ParentForUser(t, u) /\
          Begin(r, [Blank EXCEPT !.op = DetachOp(t), !.at = "unlink", !.user = u,
                      !.target = t, !.reclaim = {a}])
    BY <1>11 DEF Detach
  <2> DEFINE q == [Blank EXCEPT !.op = DetachOp(t), !.at = "unlink", !.user = u,
                      !.target = t, !.reclaim = {a}]
  <2>2. /\ q.op \in {"DetachScreenshot", "DetachPartner"} /\ q.at = "unlink" /\ q.user = u
        /\ q.client = None /\ q.target = t /\ q.offer = None /\ q.doomed = {} /\ q.attach = {}
    BY DEF Blank, DetachOp
  <2> HIDE DEF q
  <2>3. NoteShape(q) /\ NoteMine(q)
    BY <1>0, <2>1, <2>2, ParentFound DEF NoteShape, NoteMine, Taking
  <2>4. QED
    BY <2>1, <2>2, <2>3 DEF q
<1>12. QED
  BY <1>1, <1>2, <1>3, <1>4, <1>5, <1>6, <1>7, <1>8, <1>9, <1>10, <1>11 DEF Arrive

\* So screenshots of old ids belong to whom they belonged.
LEMMA AttachmentsAge ==
  ASSUME NotesOK, OwnInv, [Next]_vars
  PROVE  AttachmentsDescend
<1>1. req \in [Reqs -> RequestNote]
  BY DEF NotesOK, TypeOK
<1>2. ASSUME attachments' \subseteq attachments,
             \A r \in Reqs : req'[r].op = "Save" =>
               \/ \A a \in req'[r].attach : a \notin spent
               \/ req'[r].op = req[r].op /\ req'[r].attach = req[r].attach /\ req'[r].user = req[r].user
      PROVE  AttachmentsDescend
  BY <1>2 DEF AttachmentsDescend, OwnInv, Tokens
<1>3. CASE OneStatement
  <2>1. attachments' = attachments /\ req' = req
    BY <1>3 DEF OneStatement, CreateBankClient, UpdateBankClient, DeleteBankClient,
         SetPeriodMaxOverride, DeleteSelection, EndOrReopenPartnerOffer, InsertBankClient,
         UpdateBankClientForUser, DeleteBankClientForUser, SetOfferPeriodMaxOverride,
         DeleteSelectionForUser, SetPartnerEnded, KeepEvidence
  <2>2. QED
    BY <1>2, <2>1
<1>4. CASE Restart
  BY <1>2, <1>4, ServiceAssumption DEF Restart, Blank, Reads, tables, Multi
<1>5. ASSUME NEW r \in Reqs, Arrive(r)
      PROVE  AttachmentsDescend
  <2>1. CASE Save(r)
    <3>1. PICK u, a : WriteFile(a) /\ req' = [req EXCEPT ![r] = [Blank EXCEPT !.op = "Save",
                         !.at = "store", !.user = u, !.attach = {a}]]
      BY <2>1 DEF Save
    <3>2. a \notin spent /\ attachments' = attachments
      BY <3>1 DEF WriteFile
    <3>3. req'[r].attach = {a} /\ \A s \in Reqs \ {r} : req'[s] = req[s]
      BY <1>1, <3>1 DEF Blank
    <3>4. QED
      BY <1>2, <3>2, <3>3
  <2>2. CASE ~ Save(r)
    <3>1. /\ UNCHANGED tables /\ req'[r].op # "Save"
          /\ \A s \in Reqs \ {r} : req'[s] = req[s]
      BY <1>1, <1>5, <2>2, Begins DEF Begin, Reads
    <3>2. QED
      BY <1>2, <3>1 DEF tables
  <2>3. QED
    BY <2>1, <2>2
<1>6. ASSUME NEW r \in Reqs, Proceed(r)
      PROVE  AttachmentsDescend
  <2>0. None # "Save" /\ Blank.op = None
    BY ServiceAssumption DEF Multi, Blank
  <2>1. /\ req'[r].op # "Save"
        /\ \A s \in Reqs \ {r} : req'[s] = req[s]
        /\ attachments' \subseteq attachments \/ (StoreRow(r) /\ In(r, "Save", "store"))
    BY <1>1, <1>6, <2>0, GoesOn DEF OwnInv, NotesMine, NoteShape
  <2>2. CASE attachments' \subseteq attachments
    BY <1>2, <2>1, <2>2
  <2>3. CASE StoreRow(r) /\ In(r, "Save", "store")
    <3>1. PICK a \in req[r].attach : InsertAttachment(a, req[r].user) \/ RemoveFile(a)
      BY <2>3 DEF StoreRow
    <3>2. CASE InsertAttachment(a, req[r].user)
      <4>1. a \in spent
        BY <2>3, <3>1 DEF OwnInv, Tokens, In
      <4>2. attachments' = attachments \cup {[id |-> a, user |-> req[r].user]}
        BY <3>2 DEF InsertAttachment
      <4>3. \A y \in attachments' : y \in attachments \/ (y.id = a /\ y.user = req[r].user)
        BY <4>2
      <4>4. QED
        BY <2>1, <2>3, <4>1, <4>3 DEF AttachmentsDescend, OwnInv, Tokens, In
    <3>3. CASE RemoveFile(a)
      BY <1>2, <2>1, <3>3 DEF RemoveFile
    <3>4. QED
      BY <3>1, <3>2, <3>3
  <2>4. QED
    BY <2>1, <2>2, <2>3
<1>7. CASE UNCHANGED vars
  BY <1>2, <1>7 DEF vars, tables
<1>8. QED
  BY <1>3, <1>4, <1>5, <1>6, <1>7 DEF Next

LEMMA StepAges ==
  ASSUME NotesOK, OwnInv, [Next]_vars
  PROVE  Aging /\ Keys'
<1>1. [Statement]_tables /\ StoreTypeOK
  BY StepsAreStatements DEF NotesOK, TypeOK
<1>2. QED
  BY <1>1, RowsDescend, AttachmentsAge DEF Aging, OwnInv

(********************************** moving *********************************)

\* The note of r after a step that goes by q.
MineNow(r) == NoteShape(req[r]) /\ NoteMine(req[r])

LEMMA Carried ==
  ASSUME StoreTypeOK, Aging, NEW r \in Reqs, req'[r] \in RequestNote, NEW q, req'[r] = q,
         NoteShape(q), NoteMine(q)
  PROVE  MineNow(r)'
<1>1. NoteMine(q)'
  BY NoteAges
<1>2. QED
  BY <1>1 DEF MineNow

\* the case of req' = [req EXCEPT ![r] = q]
LEMMA Replacing ==
  ASSUME NotesOK, Aging, req' \in [Reqs -> RequestNote], NEW r \in Reqs, NEW q,
         req' = [req EXCEPT ![r] = q], NoteShape(q), NoteMine(q)
  PROVE  MineNow(r)'
<1>1. req'[r] = q /\ req'[r] \in RequestNote
  BY DEF NotesOK, TypeOK
<1>2. QED
  BY <1>1, Carried DEF NotesOK, TypeOK

LEMMA Finished ==
  ASSUME NotesOK, Aging, req' \in [Reqs -> RequestNote], NEW r \in Reqs, Finish(r)
  PROVE  MineNow(r)'
  BY Replacing, BlankIsMine DEF Finish

\* A note that goes by no more than before.
LEMMA Forgets ==
  ASSUME NotesOK, OwnInv, Aging, req' \in [Reqs -> RequestNote], NEW r \in Reqs, NEW q,
         req' = [req EXCEPT ![r] = q], NoteShape(q),
         q.op = req[r].op, q.user = req[r].user, q.client = req[r].client,
         q.target = req[r].target, q.offer \in {req[r].offer, None}, q.doomed \subseteq req[r].doomed,
         q.attach \ q.check \subseteq req[r].attach \ req[r].check
  PROVE  MineNow(r)'
<1>1. NoteMine(req[r])
  BY DEF OwnInv, NotesMine
<1>2. None \notin OfferIds
  BY NullIsNoId DEF Ids
<1>3. NoteMine(q)
  BY <1>1, <1>2 DEF NoteMine
<1>4. QED
  BY <1>3, Replacing

LEMMA Goes ==
  ASSUME NotesOK, OwnInv, Aging, req' \in [Reqs -> RequestNote], NEW r \in Reqs, NEW s, Goto(r, s),
         s # "store", req[r].op # "Save",
         req[r].op = "UpdatePartnerOffer" => s \in {"prev", "update"},
         s \in Taking => req[r].attach = {},
         s = "attach" \/ (req[r].op = "CreateOfferPeriod" /\ s = "insert") => req[r].check = {},
         req[r].op = "CreateSelection" => s = "insert"
  PROVE  MineNow(r)'
<1> DEFINE q == [req[r] EXCEPT !.at = s]
<1>1. req[r] \in RequestNote
  BY DEF NotesOK, TypeOK
<1>2. /\ q.op = req[r].op /\ q.user = req[r].user /\ q.client = req[r].client /\ q.at = s
      /\ q.target = req[r].target /\ q.offer = req[r].offer /\ q.doomed = req[r].doomed
      /\ q.attach = req[r].attach /\ q.check = req[r].check
  BY <1>1 DEF RequestNote
<1>3. req' = [req EXCEPT ![r] = q]
  BY DEF Goto
<1> HIDE DEF q
<1>4. NoteShape(q)
  BY <1>2 DEF NoteShape
<1>5. QED
  BY <1>2, <1>3, <1>4, Forgets

\* A note that goes by a new parent.
LEMMA Retargets ==
  ASSUME NotesOK, OwnInv, Aging, req' \in [Reqs -> RequestNote], NEW r \in Reqs, NEW q,
         req' = [req EXCEPT ![r] = q], NoteShape(q),
         q.op = req[r].op, q.user = req[r].user, q.client = req[r].client,
         q.offer = req[r].offer, q.doomed = req[r].doomed,
         q.attach \ q.check \subseteq req[r].attach \ req[r].check,
         ParentMine(q.target, q.user)'
  PROVE  MineNow(r)'
<1>1. PICK n \in RequestNote : n = req[r]
  BY DEF NotesOK, TypeOK
<1>2. NoteMine(n)
  BY <1>1 DEF OwnInv, NotesMine
<1>3. NoteMine(n)'
  BY <1>2, NoteAges DEF NotesOK, TypeOK
<1>4. /\ q.user = n.user /\ q.client = n.client /\ q.offer = n.offer /\ q.doomed = n.doomed
      /\ q.attach \ q.check \subseteq n.attach \ n.check
  BY <1>1
<1>5. NoteMine(q)'
  BY <1>3, <1>4 DEF NoteMine
<1>6. req'[r] = q
  BY DEF NotesOK, TypeOK
<1>7. QED
  BY <1>5, <1>6 DEF MineNow

(***************************** what is written *****************************)

\* The statements of a request of u.
WritesPeriod(u) ==
  \/ \E p, c, s : ClientMine(c, u) /\ InsertOfferPeriod(p, c, s)
  \/ \E p : PeriodMine(p, u) /\ DeletePeriodRow(p)

WritesMenu(u) ==
  \/ \E o, p, k : PeriodMine(p, u) /\ InsertCategoryOffer(o, p, k)
  \/ \E o : /\ OfferMine(o, u)
            /\ \/ \E k : UpdateCategoryOfferForUser(o, u, k)
               \/ DeleteSelectionByOffer(o) \/ DeleteOfferRow(o)
               \/ \E s, d : InsertSelection(s, o, d)
  \/ \E b, t, c : UpsertAlias(b, t, u, c)

WritesPartner(u) ==
  \/ \E p, c, act : /\ c # None => ClientMine(c, u)
                    /\ InsertPartnerOffer(p, u, c, act) \/ UpdatePartnerOfferForUser(p, u, c, act)
  \/ \E p : DeletePartnerRow(p, u)

WritesEvidence(u) ==
  \/ \E a : WriteFile(a) \/ RemoveFile(a) \/ DeleteAttachmentRow(a, u)
  \/ \E a : AttachmentMine(a, u) /\ InsertAttachment(a, u)
  \/ \E t, a : ParentMine(t, u) /\ AttachmentMine(a, u) /\ InsertLink(t, a)
  \/ \E t : ParentMine(t, u) /\ \E gone \in SUBSET LinksOf(t) : DeleteLinks(gone)

Writes(u) ==
  UNCHANGED tables \/ WritesPeriod(u) \/ WritesMenu(u) \/ WritesPartner(u) \/ WritesEvidence(u)

\* What is known of the request that moves.
LEMMA NoteNow ==
  ASSUME NotesOK, OwnInv, NEW r \in Reqs
  PROVE  /\ req[r] \in RequestNote /\ Complete(req[r]) /\ NoteShape(req[r]) /\ NoteMine(req[r])
         /\ StoreTypeOK /\ RowsReferenced
  BY DEF NotesOK, TypeOK, OwnInv, NotesMine

LEMMA PeriodMoves ==
  ASSUME NotesOK, OwnInv, Aging, req' \in [Reqs -> RequestNote], NEW r \in Reqs,
         ValidateNewPeriod(r) \/ InsertPeriod(r) \/ ListMenu(r) \/ DropPeriod(r)
  PROVE  MineNow(r)' /\ Writes(req[r].user)
<1>0. /\ req[r] \in RequestNote /\ Complete(req[r]) /\ NoteShape(req[r]) /\ NoteMine(req[r])
      /\ StoreTypeOK /\ RowsReferenced
  BY NoteNow
<1>1. Abort(r) => MineNow(r)' /\ Writes(req[r].user)
  BY Finished DEF Abort, Reads, Writes
<1>2. CASE ValidateNewPeriod(r)
  <2>1. Goto(r, "check") \/ (Goto(r, "insert") /\ req[r].check = {}) \/ Finish(r)
    BY <1>2 DEF ValidateNewPeriod, When
  <2>2. MineNow(r)'
    BY <1>2, <2>1, Goes, Finished DEF ValidateNewPeriod, In, Taking
  <2>3. QED
    BY <1>2, <2>2 DEF ValidateNewPeriod, Reads, Writes
<1>3. CASE InsertPeriod(r) /\ ~ Abort(r)
  <2>1. PICK p \in PeriodIds :
          /\ InsertOfferPeriod(p, req[r].client, req[r].span)
          /\ Finish(r) \/ req' = [req EXCEPT ![r].at = "attach", ![r].target = p]
    BY <1>3 DEF InsertPeriod
  <2>2. req[r].client \in ClientIds
    BY <1>0, <2>1 DEF InsertOfferPeriod, PeriodFits, StoreTypeOK, ClientRow
  <2>3. ClientMine(req[r].client, req[r].user)
    BY <1>0, <2>2 DEF NoteMine
  <2>4. Writes(req[r].user)
    BY <2>1, <2>3 DEF Writes, WritesPeriod
  <2>5. CASE req' = [req EXCEPT ![r].at = "attach", ![r].target = p]
    <3> DEFINE qq == [req[r] EXCEPT !.at = "attach", !.target = p]
    <3>1. /\ qq.op = req[r].op /\ qq.user = req[r].user /\ qq.client = req[r].client
          /\ qq.target = p /\ qq.offer = req[r].offer /\ qq.doomed = req[r].doomed
          /\ qq.attach = req[r].attach /\ qq.check = req[r].check /\ qq.at = "attach"
      BY <1>0 DEF RequestNote
    <3>2. req' = [req EXCEPT ![r] = qq]
      BY <2>5
    <3> HIDE DEF qq
    <3>3. PICK q : q = qq
      OBVIOUS
    <3>4. NoteShape(q)
      BY <1>0, <1>3, <3>1, <3>3 DEF NoteShape, Taking, InsertPeriod, In
    <3>5. PICK u \in {req[r].user}, c \in Ids : u = req[r].user /\ c = req[r].client
      BY <2>2 DEF Ids
    <3>6. ClientMine(c, u)'
      BY <2>3, <3>5, ClientAges
    <3>7. \A x \in periods' : x.id = p => x.client = c
      BY <2>1, <3>5 DEF InsertOfferPeriod, OwnInv, Keys
    <3>8. p \in spent'
      BY <2>1 DEF InsertOfferPeriod
    <3>9. PeriodMine(p, u)'
      BY <3>6, <3>7, <3>8 DEF PeriodMine
    <3>10. q.target = p /\ q.user = u
      BY <3>1, <3>3, <3>5
    <3>11. ParentMine(q.target, q.user)'
      BY <3>9, <3>10, StoreAssumption DEF ParentMine
    <3>12. /\ q.op = req[r].op /\ q.user = req[r].user /\ q.client = req[r].client
           /\ q.offer = req[r].offer /\ q.doomed = req[r].doomed
           /\ q.attach \ q.check \subseteq req[r].attach \ req[r].check
           /\ req' = [req EXCEPT ![r] = q]
      BY <3>1, <3>2, <3>3
    <3>13. QED
      BY <2>4, <3>4, <3>11, <3>12, Retargets
  <2>6. QED
    BY <2>1, <2>4, <2>5, Finished
<1>4. CASE ListMenu(r)
  <2> DEFINE ids == {o.id : o \in OffersOf(req[r].target)}
             at == When(ids, "selections", "links")
             q == [req[r] EXCEPT !.at = at, !.doomed = ids]
  <2>1. /\ q.op = req[r].op /\ q.user = req[r].user /\ q.client = req[r].client /\ q.at = at
        /\ q.target = req[r].target /\ q.offer = req[r].offer /\ q.doomed = ids
        /\ q.attach = req[r].attach /\ q.check = req[r].check
    BY <1>0 DEF RequestNote
  <2>2. at \in {"selections", "links"} /\ req' = [req EXCEPT ![r] = q] /\ UNCHANGED tables
    BY <1>4 DEF When, ListMenu, Reads
  <2>3. PeriodMine(req[r].target, req[r].user)
    BY <1>0, <1>4 DEF NoteMine, ListMenu, In, Complete, ParentMine
  <2>4. \A o \in ids : OfferMine(o, req[r].user)
    BY <2>3 DEF OfferMine, OffersOf, OwnInv, Keys
  <2> HIDE DEF ids, at, q
  <2>5. NoteShape(q)
    BY <1>0, <1>4, <2>1, <2>2 DEF NoteShape, ListMenu, In, Taking
  <2>6. NoteMine(q)
    BY <1>0, <2>1, <2>4 DEF NoteMine
  <2>7. QED
    BY <2>2, <2>5, <2>6, Replacing DEF Writes
<1>5. CASE DropPeriod(r) /\ ~ Abort(r)
  <2>1. PeriodMine(req[r].target, req[r].user)
    BY <1>0, <1>5 DEF NoteMine, DropPeriod, In, Complete, ParentMine
  <2>2. Writes(req[r].user)
    BY <1>5, <2>1 DEF DropPeriod, Writes, WritesPeriod
  <2>3. MineNow(r)'
    BY <1>0, <1>5, Goes, Finished DEF DropPeriod, In, NoteShape, Taking
  <2>4. QED
    BY <2>2, <2>3
<1>6. QED
  BY <1>1, <1>2, <1>3, <1>4, <1>5

LEMMA MenuMoves ==
  ASSUME NotesOK, OwnInv, Aging, req' \in [Reqs -> RequestNote], NEW r \in Reqs,
         InsertOffer(r) \/ UpdateOffer(r) \/ RememberAlias(r) \/ DropSelection(r) \/
           DropOffer(r) \/ ValidateSelection(r) \/ InsertSelectionRow(r)
  PROVE  MineNow(r)' /\ Writes(req[r].user)
<1>0. /\ req[r] \in RequestNote /\ Complete(req[r]) /\ NoteShape(req[r]) /\ NoteMine(req[r])
      /\ StoreTypeOK /\ RowsReferenced
  BY NoteNow
<1>1. CASE Abort(r)
  BY <1>1, Finished DEF Abort, Reads, Writes
<1>2. ASSUME ThenAlias(r), req[r].op \in {"CreateCategoryOffer", "UpdateCategoryOffer"}
      PROVE  MineNow(r)'
  BY <1>2, Finished, Goes DEF ThenAlias, Taking
<1>3. CASE InsertOffer(r) /\ ~ Abort(r)
  <2>1. PICK o \in OfferIds : InsertCategoryOffer(o, req[r].target, req[r].kind) /\ ThenAlias(r)
    BY <1>3 DEF InsertOffer
  <2>2. req[r].target \in PeriodIds
    BY <1>0, <2>1 DEF InsertCategoryOffer, StoreTypeOK, PeriodRow
  <2>3. PeriodMine(req[r].target, req[r].user)
    BY <1>0, <1>3, <2>2 DEF NoteMine, InsertOffer, In, ParentMine
  <2>4. QED
    BY <1>2, <1>3, <2>1, <2>3 DEF InsertOffer, In, Writes, WritesMenu
<1>4. CASE UpdateOffer(r) /\ ~ Abort(r)
  <2>1. UpdateCategoryOfferForUser(req[r].offer, req[r].user, req[r].kind) /\ ThenAlias(r)
    BY <1>4 DEF UpdateOffer
  <2>2. OfferMine(req[r].offer, req[r].user)
    BY <2>1, LookedUp DEF UpdateCategoryOfferForUser
  <2>3. QED
    BY <1>2, <1>4, <2>1, <2>2 DEF UpdateOffer, In, Writes, WritesMenu
<1>5. CASE RememberAlias(r)
  BY <1>5, Finished DEF RememberAlias, Writes, WritesMenu
<1>6. CASE DropSelection(r)
  <2>1. PICK o \in req[r].doomed : DeleteSelectionByOffer(o)
                              /\ req' = [req EXCEPT ![r].at = "row", ![r].offer = o]
    BY <1>6 DEF DropSelection
  <2>2. OfferMine(o, req[r].user)
    BY <1>0 DEF NoteMine
  <2> DEFINE q == [req[r] EXCEPT !.at = "row", !.offer = o]
  <2>3. /\ q.op = req[r].op /\ q.user = req[r].user /\ q.client = req[r].client /\ q.at = "row"
        /\ q.target = req[r].target /\ q.offer = o /\ q.doomed = req[r].doomed
        /\ q.attach = req[r].attach /\ q.check = req[r].check
    BY <1>0 DEF RequestNote
  <2>4. req' = [req EXCEPT ![r] = q]
    BY <2>1
  <2> HIDE DEF q
  <2>5. NoteShape(q)
    BY <1>0, <1>6, <2>3 DEF NoteShape, DropSelection, Taking
  <2>6. NoteMine(q)
    BY <1>0, <2>2, <2>3 DEF NoteMine
  <2>7. MineNow(r)'
    BY <2>4, <2>5, <2>6, Replacing
  <2>8. QED
    BY <2>1, <2>2, <2>7 DEF Writes, WritesMenu
<1>7. CASE DropOffer(r) /\ ~ Abort(r)
  <2>1. OfferMine(req[r].offer, req[r].user)
    BY <1>0, <1>7 DEF DropOffer, Complete, NoteMine
  <2>2. Writes(req[r].user)
    BY <1>7, <2>1 DEF DropOffer, Writes, WritesMenu
  <2> DEFINE left == req[r].doomed \ {req[r].offer}
             at == When(left, "selections", "links")
             q == [req[r] EXCEPT !.at = at, !.doomed = left, !.offer = None]
  <2>3. /\ q.op = req[r].op /\ q.user = req[r].user /\ q.client = req[r].client /\ q.at = at
        /\ q.target = req[r].target /\ q.offer = None /\ q.doomed \subseteq req[r].doomed
        /\ q.attach = req[r].attach /\ q.check = req[r].check
    BY <1>0 DEF RequestNote
  <2>4. at \in {"selections", "links"} /\ (Finish(r) \/ req' = [req EXCEPT ![r] = q])
    BY <1>7 DEF When, DropOffer
  <2> HIDE DEF left, at, q
  <2>5. NoteShape(q)
    BY <1>0, <1>7, <2>3, <2>4 DEF NoteShape, DropOffer, Taking
  <2>6. req' = [req EXCEPT ![r] = q] => MineNow(r)'
    BY <2>3, <2>5, Forgets
  <2>7. QED
    BY <2>2, <2>4, <2>6, Finished
<1>8. CASE ValidateSelection(r) /\ ~ Abort(r)
  <2>1. Goto(r, "insert") /\ Reads
    BY <1>8 DEF ValidateSelection, Abort
  <2>2. MineNow(r)'
    BY <1>8, <2>1, Goes DEF ValidateSelection, In, Taking
  <2>3. QED
    BY <2>1, <2>2 DEF Reads, Writes
<1>9. CASE InsertSelectionRow(r) /\ ~ Abort(r)
  <2>1. PICK s \in SelectionIds : InsertSelection(s, req[r].offer, req[r].day) /\ Finish(r)
    BY <1>9 DEF InsertSelectionRow
  <2>2. req[r].offer \in OfferIds
    BY <1>0, <2>1 DEF InsertSelection, Selectable, StoreTypeOK, OfferRow
  <2>3. OfferMine(req[r].offer, req[r].user)
    BY <1>0, <2>2 DEF NoteMine
  <2>4. QED
    BY <2>1, <2>3, Finished DEF Writes, WritesMenu
<1>10. QED
  BY <1>1, <1>3, <1>4, <1>5, <1>6, <1>7, <1>8, <1>9

LEMMA PartnerMoves ==
  ASSUME NotesOK, OwnInv, Aging, req' \in [Reqs -> RequestNote], NEW r \in Reqs,
         InsertPartner(r) \/ ReadPreviousActivation(r) \/ UpdatePartner(r) \/ DropPartner(r)
  PROVE  MineNow(r)' /\ Writes(req[r].user)
<1>0. /\ req[r] \in RequestNote /\ Complete(req[r]) /\ NoteShape(req[r]) /\ NoteMine(req[r])
      /\ StoreTypeOK /\ RowsReferenced
  BY NoteNow
<1>1. CASE Abort(r)
  BY <1>1, Finished DEF Abort, Reads, Writes
<1>2. req[r].client # None => ClientMine(req[r].client, req[r].user)
  BY <1>0 DEF RequestNote, Maybe, NoteMine
<1>3. CASE InsertPartner(r) /\ ~ Abort(r)
  <2>1. PICK p \in PartnerIds, act \in ActivationOf(None) :
          /\ InsertPartnerOffer(p, req[r].user, req[r].client, act)
          /\ \/ Finish(r)
             \/ req' = [req EXCEPT ![r].at = "recheck", ![r].target = p, ![r].check = req[r].attach]
    BY <1>3 DEF InsertPartner
  <2>2. Writes(req[r].user)
    BY <1>2, <2>1 DEF Writes, WritesPartner
  <2>3. CASE req' = [req EXCEPT ![r].at = "recheck", ![r].target = p, ![r].check = req[r].attach]
    <3> DEFINE qq == [req[r] EXCEPT !.at = "recheck", !.target = p, !.check = req[r].attach]
    <3>1. /\ qq.op = req[r].op /\ qq.user = req[r].user /\ qq.client = req[r].client
          /\ qq.target = p /\ qq.offer = req[r].offer /\ qq.doomed = req[r].doomed
          /\ qq.attach \ qq.check = {} /\ qq.at = "recheck"
      BY <1>0 DEF RequestNote
    <3>2. req' = [req EXCEPT ![r] = qq]
      BY <2>3
    <3> HIDE DEF qq
    <3>3. PICK q : q = qq
      OBVIOUS
    <3>4. NoteShape(q)
      BY <1>3, <3>1, <3>3 DEF NoteShape, Taking, InsertPartner, In
    <3>5. PICK u : u = req[r].user
      OBVIOUS
    <3>6. \A x \in partners' : x.id = p => x.user = u
      BY <2>1, <3>5 DEF InsertPartnerOffer, OwnInv, Keys
    <3>7. p \in spent'
      BY <2>1, NullIsNoId DEF InsertPartnerOffer, Ids
    <3>8. PartnerMine(p, u)'
      BY <3>6, <3>7 DEF PartnerMine
    <3>9. q.target = p /\ q.user = u
      BY <3>1, <3>3, <3>5
    <3>10. ParentMine(q.target, q.user)'
      BY <3>8, <3>9, StoreAssumption DEF ParentMine
    <3>11. /\ q.op = req[r].op /\ q.user = req[r].user /\ q.client = req[r].client
           /\ q.offer = req[r].offer /\ q.doomed = req[r].doomed
           /\ q.attach \ q.check \subseteq req[r].attach \ req[r].check
           /\ req' = [req EXCEPT ![r] = q]
      BY <3>1, <3>2, <3>3
    <3>12. QED
      BY <2>2, <3>4, <3>10, <3>11, Retargets
  <2>4. QED
    BY <2>1, <2>2, <2>3, Finished
<1>4. CASE ReadPreviousActivation(r) /\ ~ Abort(r)
  <2> DEFINE row == CHOOSE x \in partners : x.id = req[r].target
             q == [req[r] EXCEPT !.at = "update", !.seen = row.activated]
  <2>1. req' = [req EXCEPT ![r] = q] /\ UNCHANGED tables
    BY <1>4 DEF ReadPreviousActivation, Abort, Reads
  <2>2. /\ q.op = req[r].op /\ q.user = req[r].user /\ q.client = req[r].client /\ q.at = "update"
        /\ q.target = req[r].target /\ q.offer = req[r].offer /\ q.doomed = req[r].doomed
        /\ q.attach = req[r].attach /\ q.check = req[r].check
    BY <1>0 DEF RequestNote
  <2> HIDE DEF row, q
  <2>3. NoteShape(q)
    BY <1>4, <2>2 DEF NoteShape, ReadPreviousActivation, In, Taking
  <2>4. MineNow(r)'
    BY <2>1, <2>2, <2>3, Forgets
  <2>5. QED
    BY <2>1, <2>4 DEF Writes
<1>5. CASE UpdatePartner(r) /\ ~ Abort(r)
  <2>1. PICK act : UpdatePartnerOfferForUser(req[r].target, req[r].user, req[r].client, act)
    BY <1>5 DEF UpdatePartner
  <2>2. Writes(req[r].user)
    BY <1>2, <2>1 DEF Writes, WritesPartner
  <2>3. Finish(r)
    BY <1>5 DEF UpdatePartner
  <2>4. QED
    BY <2>2, <2>3, Finished
<1>6. CASE DropPartner(r) /\ ~ Abort(r)
  <2>1. Writes(req[r].user)
    BY <1>6 DEF DropPartner, Writes, WritesPartner
  <2>2. MineNow(r)'
    BY <1>0, <1>6, Goes, Finished DEF DropPartner, In, NoteShape, Taking
  <2>3. QED
    BY <2>1, <2>2
<1>7. QED
  BY <1>1, <1>3, <1>4, <1>5, <1>6

\* On to the next id of a reclaim, or done.
LEMMA ReclaimGoesOn ==
  ASSUME NotesOK, OwnInv, Aging, req' \in [Reqs -> RequestNote], NEW r \in Reqs, NEW a,
         req[r].at \in {"reclaim", "file"}, AfterReclaim(r, a)
  PROVE  MineNow(r)'
<1>0. req[r] \in RequestNote /\ NoteShape(req[r])
  BY NoteNow
<1> DEFINE left == req[r].reclaim \ {a}
           q == [req[r] EXCEPT !.at = "reclaim", !.reclaim = left, !.check = {}]
<1>1. /\ q.op = req[r].op /\ q.user = req[r].user /\ q.client = req[r].client /\ q.at = "reclaim"
      /\ q.target = req[r].target /\ q.offer = req[r].offer /\ q.doomed = req[r].doomed
      /\ q.attach = req[r].attach
  BY <1>0 DEF RequestNote
<1>2. Finish(r) \/ req' = [req EXCEPT ![r] = q]
  BY DEF AfterReclaim
<1> HIDE DEF left, q
<1>3. NoteShape(q) /\ q.attach = {}
  BY <1>0, <1>1 DEF NoteShape, Taking
<1>4. QED
  BY <1>1, <1>2, <1>3, Finished, Forgets

LEMMA EvidenceMoves ==
  ASSUME NotesOK, OwnInv, Aging, req' \in [Reqs -> RequestNote], NEW r \in Reqs,
         StoreRow(r) \/ CheckAttachment(r) \/ AttachNext(r) \/ Unlink(r) \/
           ListEvidence(r) \/ DropLinks(r) \/ Reclaim(r) \/ RemoveAttachmentFile(r)
  PROVE  MineNow(r)' /\ Writes(req[r].user)
<1>0. /\ req[r] \in RequestNote /\ Complete(req[r]) /\ NoteShape(req[r]) /\ NoteMine(req[r])
      /\ StoreTypeOK /\ RowsReferenced
  BY NoteNow
<1>1. CASE Abort(r)
  BY <1>1, Finished DEF Abort, Reads, Writes
<1>2. CASE StoreRow(r)
  <2>1. PICK a \in req[r].attach : InsertAttachment(a, req[r].user) \/ RemoveFile(a)
    BY <1>2 DEF StoreRow
  <2>2. AttachmentMine(a, req[r].user)
    BY <1>2 DEF StoreRow, In, OwnInv, Tokens, AttachmentMine
  <2>3. Writes(req[r].user)
    BY <2>1, <2>2 DEF Writes, WritesEvidence
  <2>4. Finish(r)
    BY <1>2 DEF StoreRow
  <2>5. QED
    BY <2>3, <2>4, Finished
<1>3. CASE CheckAttachment(r) /\ ~ Abort(r)
  <2>1. PICK a \in req[r].check :
          /\ AttachmentForUser(a, req[r].user)
          /\ LET left == req[r].check \ {a}
                 next == IF req[r].at = "check" THEN "insert" ELSE "attach"
             IN  req' = [req EXCEPT ![r].at = When(left, req[r].at, next), ![r].check = left]
    BY <1>3 DEF CheckAttachment, Abort
  <2> DEFINE left == req[r].check \ {a}
             next == IF req[r].at = "check" THEN "insert" ELSE "attach"
             at == When(left, req[r].at, next)
             q == [req[r] EXCEPT !.at = at, !.check = left]
  <2>2. /\ q.op = req[r].op /\ q.user = req[r].user /\ q.client = req[r].client /\ q.at = at
        /\ q.target = req[r].target /\ q.offer = req[r].offer /\ q.doomed = req[r].doomed
        /\ q.attach = req[r].attach /\ q.check = left
    BY <1>0 DEF RequestNote
  <2>3. req' = [req EXCEPT ![r] = q]
    BY <2>1
  <2>4. at \in {"check", "recheck"} \/ (at \in {"insert", "attach"} /\ left = {})
    BY <1>3 DEF CheckAttachment, When
  <2>5. AttachmentMine(a, req[r].user) /\ q.attach \ q.check \subseteq (req[r].attach \ req[r].check) \cup {a}
    BY <2>1, <2>2, LookedUp
  <2> HIDE DEF left, next, at, q
  <2>6. NoteShape(q)
    BY <1>0, <1>3, <2>2, <2>4 DEF NoteShape, Taking, CheckAttachment
  <2>7. NoteMine(q)
    BY <1>0, <2>2, <2>5 DEF NoteMine
  <2>8. MineNow(r)'
    BY <2>3, <2>6, <2>7, Replacing
  <2>9. QED
    BY <1>3, <2>8 DEF CheckAttachment, Reads, Writes
<1>4. CASE AttachNext(r) /\ ~ Abort(r)
  <2>1. PICK a \in req[r].attach :
          /\ InsertLink(req[r].target, a)
          /\ Finish(r) \/ req' = [req EXCEPT ![r].attach = req[r].attach \ {a}]
    BY <1>4 DEF AttachNext
  <2>2. req[r].at = "attach" /\ req[r].check = {} /\ req[r].op # "UpdatePartnerOffer"
    BY <1>0, <1>4 DEF AttachNext, NoteShape
  <2>3. ParentMine(req[r].target, req[r].user) /\ AttachmentMine(a, req[r].user)
    BY <1>0, <2>2 DEF NoteMine
  <2>4. Writes(req[r].user)
    BY <2>1, <2>3 DEF Writes, WritesEvidence
  <2> DEFINE q == [req[r] EXCEPT !.attach = req[r].attach \ {a}]
  <2>5. /\ q.op = req[r].op /\ q.user = req[r].user /\ q.client = req[r].client /\ q.at = req[r].at
        /\ q.target = req[r].target /\ q.offer = req[r].offer /\ q.doomed = req[r].doomed
        /\ q.attach \subseteq req[r].attach /\ q.check = req[r].check
    BY <1>0 DEF RequestNote
  <2>6. Finish(r) \/ req' = [req EXCEPT ![r] = q]
    BY <2>1
  <2> HIDE DEF q
  <2>7. NoteShape(q)
    BY <1>0, <2>2, <2>5 DEF NoteShape, Taking
  <2>8. req' = [req EXCEPT ![r] = q] => MineNow(r)'
    BY <2>5, <2>7, Forgets
  <2>9. QED
    BY <2>4, <2>6, <2>8, Finished
<1>5. CASE Unlink(r) /\ ~ Abort(r)
  <2>1. PICK gone \in SUBSET LinksOf(req[r].target) : DeleteLinks(gone) /\ Goto(r, "reclaim")
    BY <1>5 DEF Unlink
  <2>2. /\ req[r].attach = {} /\ req[r].op \notin {"UpdatePartnerOffer", "Save", "CreateSelection"}
        /\ ParentMine(req[r].target, req[r].user)
    BY <1>0, <1>5 DEF Unlink, NoteShape, NoteMine, Taking
  <2>3. MineNow(r)'
    BY <2>1, <2>2, Goes DEF Taking
  <2>4. QED
    BY <2>1, <2>2, <2>3 DEF Writes, WritesEvidence
<1>6. CASE ListEvidence(r)
  <2> DEFINE ids == {l.attachment : l \in LinksOf(req[r].target)}
             at == IF req[r].op = "DeleteOfferPeriod" THEN "menu" ELSE "links"
             q == [req[r] EXCEPT !.reclaim = ids, !.at = at]
  <2>1. /\ q.op = req[r].op /\ q.user = req[r].user /\ q.client = req[r].client /\ q.at = at
        /\ q.target = req[r].target /\ q.offer = req[r].offer /\ q.doomed = req[r].doomed
        /\ q.attach = req[r].attach /\ q.check = req[r].check
    BY <1>0 DEF RequestNote
  <2>2. at \in {"menu", "links"} /\ req' = [req EXCEPT ![r] = q] /\ UNCHANGED tables
    BY <1>6 DEF ListEvidence, Reads
  <2> HIDE DEF ids, at, q
  <2>3. NoteShape(q)
    BY <1>0, <1>6, <2>1, <2>2 DEF NoteShape, ListEvidence, Taking
  <2>4. MineNow(r)'
    BY <2>1, <2>2, <2>3, Forgets
  <2>5. QED
    BY <2>2, <2>4 DEF Writes
<1>7. CASE DropLinks(r)
  <2>1. /\ req[r].attach = {} /\ req[r].op \notin {"UpdatePartnerOffer", "Save", "CreateSelection"}
        /\ ParentMine(req[r].target, req[r].user)
    BY <1>0, <1>7 DEF DropLinks, NoteShape, NoteMine, Taking
  <2>2. MineNow(r)'
    BY <1>7, <2>1, Goes DEF DropLinks, Taking
  <2>3. QED
    BY <1>7, <2>1, <2>2 DEF DropLinks, Writes, WritesEvidence
<1>8. CASE Reclaim(r)
  <2>1. ASSUME NEW a \in req[r].reclaim, AfterReclaim(r, a), Reads
        PROVE  MineNow(r)' /\ Writes(req[r].user)
    BY <1>8, <2>1, ReclaimGoesOn DEF Reclaim, Reads, Writes
  <2>2. ASSUME NEW a \in req[r].reclaim, DeleteAttachmentRow(a, req[r].user),
               req' = [req EXCEPT ![r].at = "file", ![r].check = {a}]
        PROVE  MineNow(r)' /\ Writes(req[r].user)
    <3> DEFINE q == [req[r] EXCEPT !.at = "file", !.check = {a}]
    <3>1. /\ q.op = req[r].op /\ q.user = req[r].user /\ q.client = req[r].client /\ q.at = "file"
          /\ q.target = req[r].target /\ q.offer = req[r].offer /\ q.doomed = req[r].doomed
          /\ q.attach = req[r].attach
      BY <1>0 DEF RequestNote
    <3>2. req' = [req EXCEPT ![r] = q]
      BY <2>2
    <3> HIDE DEF q
    <3>3. NoteShape(q) /\ q.attach = {}
      BY <1>0, <1>8, <3>1 DEF NoteShape, Reclaim, Taking
    <3>4. MineNow(r)'
      BY <3>1, <3>2, <3>3, Forgets
    <3>5. QED
      BY <2>2, <3>4 DEF Writes, WritesEvidence
  <2>3. QED
    BY <1>8, <2>1, <2>2 DEF Reclaim
<1>9. CASE RemoveAttachmentFile(r)
  <2>1. PICK a \in req[r].check : AfterReclaim(r, a) /\ (RemoveFile(a) \/ Reads)
    BY <1>9 DEF RemoveAttachmentFile
  <2>2. MineNow(r)'
    BY <1>9, <2>1, ReclaimGoesOn DEF RemoveAttachmentFile
  <2>3. QED
    BY <2>1, <2>2 DEF Reads, Writes, WritesEvidence
<1>10. QED
  BY <1>1, <1>2, <1>3, <1>4, <1>5, <1>6, <1>7, <1>8, <1>9

LEMMA Moves ==
  ASSUME NotesOK, OwnInv, Aging, req' \in [Reqs -> RequestNote], NEW r \in Reqs, Proceed(r)
  PROVE  MineNow(r)' /\ Writes(req[r].user)
<1>1. CASE ValidateNewPeriod(r) \/ InsertPeriod(r) \/ ListMenu(r) \/ DropPeriod(r)
  BY <1>1, PeriodMoves
<1>2. CASE InsertOffer(r) \/ UpdateOffer(r) \/ RememberAlias(r) \/ DropSelection(r) \/
             DropOffer(r) \/ ValidateSelection(r) \/ InsertSelectionRow(r)
  BY <1>2, MenuMoves
<1>3. CASE InsertPartner(r) \/ ReadPreviousActivation(r) \/ UpdatePartner(r) \/ DropPartner(r)
  BY <1>3, PartnerMoves
<1>4. CASE StoreRow(r) \/ CheckAttachment(r) \/ AttachNext(r) \/ Unlink(r) \/
             ListEvidence(r) \/ DropLinks(r) \/ Reclaim(r) \/ RemoveAttachmentFile(r)
  BY <1>4, EvidenceMoves
<1>5. QED
  BY <1>1, <1>2, <1>3, <1>4 DEF Proceed

(********************************* all notes *******************************)

\* One request moves at a time.
LEMMA OneMoves ==
  ASSUME NotesOK, NEW r \in Reqs, Arrive(r) \/ Proceed(r)
  PROVE  \A s \in Reqs \ {r} : req'[s] = req[s]
<1>1. req \in [Reqs -> RequestNote]
  BY DEF NotesOK, TypeOK
<1>2. StepOf(r)
  BY Arrivals, PeriodSteps, MenuSteps, PartnerSteps, EvidenceSteps DEF Proceed
<1>3. QED
  BY <1>1, <1>2 DEF StepOf

LEMMA SaveIsMine ==
  ASSUME NotesOK, OwnInv, NEW r \in Reqs, Save(r)
  PROVE  MineNow(r)'
<1>1. PICK u, a : WriteFile(a) /\ req' = [req EXCEPT ![r] = [Blank EXCEPT !.op = "Save",
                     !.at = "store", !.user = u, !.attach = {a}]]
  BY DEF Save
<1>2. PICK q : q = [Blank EXCEPT !.op = "Save", !.at = "store", !.user = u, !.attach = {a}]
  OBVIOUS
<1>3. /\ q.op = "Save" /\ q.at = "store" /\ q.user = u /\ q.client = None /\ q.target = None
      /\ q.offer = None /\ q.doomed = {} /\ q.attach = {a} /\ q.check = {}
  BY <1>2 DEF Blank
<1>4. req'[r] = q /\ \A s \in Reqs \ {r} : req'[s] = req[s]
  BY <1>1, <1>2 DEF NotesOK, TypeOK
<1>5. a \notin spent /\ a \in spent' /\ attachments' = attachments
  BY <1>1 DEF WriteFile
<1>6. AttachmentMine(a, u)'
  BY <1>3, <1>4, <1>5 DEF AttachmentMine, OwnInv, Tokens
<1>7. NoteShape(q)
  BY <1>3 DEF NoteShape, Taking
<1>8. None \notin ClientIds /\ None \notin PeriodIds /\ None \notin PartnerIds /\ None \notin OfferIds
  BY NullIsNoId DEF Ids
<1>9. NoteMine(q)'
  BY <1>3, <1>6, <1>8 DEF NoteMine, ParentMine
<1>10. QED
  BY <1>4, <1>7, <1>9 DEF MineNow

LEMMA NotesStayMine ==
  ASSUME NotesOK, OwnInv, [Next]_vars
  PROVE  NotesMine'
<1>1. Aging /\ req' \in [Reqs -> RequestNote] /\ req \in [Reqs -> RequestNote] /\ StoreTypeOK
  BY StepAges, StepsAreStatements DEF NotesOK, TypeOK
<1>2. ASSUME NEW s \in Reqs, req'[s] = req[s]
      PROVE  MineNow(s)'
  <2>1. PICK q \in RequestNote : q = req[s]
    BY <1>1
  <2>2. NoteShape(q) /\ NoteMine(q) /\ req'[s] = q
    BY <1>2, <2>1 DEF OwnInv, NotesMine
  <2>3. QED
    BY <1>1, <2>2, Carried
<1>3. CASE OneStatement \/ UNCHANGED vars
  <2>1. req' = req
    BY <1>3 DEF OneStatement, CreateBankClient, UpdateBankClient, DeleteBankClient,
         SetPeriodMaxOverride, DeleteSelection, EndOrReopenPartnerOffer, vars
  <2>2. QED
    BY <1>2, <2>1 DEF NotesMine, MineNow
<1>4. CASE Restart
  <2>1. \A s \in Reqs : req'[s] = Blank /\ Blank \in RequestNote
    BY <1>4, BlankIsANote DEF Restart
  <2>2. \A s \in Reqs : MineNow(s)'
    BY <1>1, <2>1, BlankIsMine, Carried
  <2>3. QED
    BY <2>2 DEF NotesMine, MineNow
<1>5. ASSUME NEW r \in Reqs, Arrive(r)
      PROVE  NotesMine'
  <2>1. CASE Save(r)
    BY <1>2, <1>5, <2>1, OneMoves, SaveIsMine DEF NotesMine, MineNow
  <2>2. CASE ~ Save(r)
    <3>1. PICK q : Begin(r, q) /\ NoteShape(q) /\ NoteMine(q)
      BY <1>5, <2>2, Begins
    <3>2. MineNow(r)'
      BY <1>1, <3>1, Replacing DEF Begin
    <3>3. QED
      BY <1>2, <1>5, <3>2, OneMoves DEF NotesMine, MineNow
  <2>3. QED
    BY <2>1, <2>2
<1>6. ASSUME NEW r \in Reqs, Proceed(r)
      PROVE  NotesMine'
  BY <1>1, <1>2, <1>6, Moves, OneMoves DEF NotesMine, MineNow
<1>7. QED
  BY <1>3, <1>4, <1>5, <1>6 DEF Next

(******************************** the ties *********************************)

\* A request ties records of its user only; ties that were there age.
LEMMA TiesStayMine ==
  ASSUME NotesOK, OwnInv, Aging, StoreTypeOK', NEW u \in Users, Writes(u)
  PROVE  LinksMine' /\ PartnersMine'
<1>0. links \subseteq LinkRow
  BY DEF NotesOK, TypeOK, StoreTypeOK
<1>1. /\ \A l \in links' : l \in links \/ (ParentMine(l.parent, u) /\ AttachmentMine(l.attachment, u))
      /\ links' \subseteq LinkRow
  <2>1. CASE UNCHANGED links
    BY <1>0, <2>1
  <2>2. CASE WritesEvidence(u)
    <3>1. CASE \E t, a : ParentMine(t, u) /\ AttachmentMine(a, u) /\ InsertLink(t, a)
      <4>1. PICK t, a : ParentMine(t, u) /\ AttachmentMine(a, u) /\ InsertLink(t, a)
        BY <3>1
      <4>2. t \in PeriodIds \cup PartnerIds /\ a \in AttachmentIds
        BY <4>1 DEF InsertLink, Linkable, NotesOK, TypeOK, StoreTypeOK, AttachmentRow, PeriodRow,
             PartnerRow
      <4>3. links' = links \cup {[parent |-> t, attachment |-> a]}
        BY <4>1 DEF InsertLink
      <4>4. QED
        BY <1>0, <4>1, <4>2, <4>3 DEF LinkRow
    <3>2. CASE \E gone : DeleteLinks(gone)
      BY <1>0, <3>2 DEF DeleteLinks
    <3>3. QED
      BY <2>1, <2>2, <3>1, <3>2 DEF WritesEvidence, WriteFile, RemoveFile, DeleteAttachmentRow,
           InsertAttachment
  <2>3. WritesPeriod(u) => UNCHANGED links
    BY DEF WritesPeriod, InsertOfferPeriod, DeletePeriodRow, KeepEvidence
  <2>4. WritesMenu(u) => UNCHANGED links
    BY DEF WritesMenu, InsertCategoryOffer, UpdateCategoryOfferForUser, DeleteSelectionByOffer,
         DeleteOfferRow, InsertSelection, UpsertAlias, KeepEvidence
  <2>5. WritesPartner(u) => UNCHANGED links
    BY DEF WritesPartner, InsertPartnerOffer, UpdatePartnerOfferForUser, DeletePartnerRow, KeepEvidence
  <2>6. QED
    BY <2>1, <2>2, <2>3, <2>4, <2>5 DEF Writes, tables
<1>2. LinksMine'
  <2>1. ASSUME NEW l \in links'
        PROVE  \E v \in Users : ParentMine(l.parent, v)' /\ AttachmentMine(l.attachment, v)'
    <3>1. PICK v \in Users : ParentMine(l.parent, v) /\ AttachmentMine(l.attachment, v)
      BY <1>1, <2>1 DEF OwnInv, LinksMine
    <3>2. l.attachment \in Ids /\ StoreTypeOK
      BY <1>1, <2>1 DEF LinkRow, Ids, NotesOK, TypeOK
    <3>3. QED
      BY <3>1, <3>2, ParentAges, AttachmentAges
  <2>2. QED
    BY <2>1 DEF LinksMine
<1>3. ASSUME NEW p \in partners', p.client # None
      PROVE  ClientMine(p.client, p.user)
  <2>1. CASE UNCHANGED partners
    BY <1>3, <2>1 DEF OwnInv, PartnersMine
  <2>2. ASSUME NEW x, NEW c, NEW act, c # None => ClientMine(c, u), InsertPartnerOffer(x, u, c, act)
        PROVE  ClientMine(p.client, p.user)
    BY <1>3, <2>2 DEF InsertPartnerOffer, OwnInv, PartnersMine
  <2>3. ASSUME NEW x, NEW c, NEW act, c # None => ClientMine(c, u),
               UpdatePartnerOfferForUser(x, u, c, act)
        PROVE  ClientMine(p.client, p.user)
    <3>1. PICK y \in partners : p = IF y.id = x THEN [y EXCEPT !.client = c, !.activated = act] ELSE y
      BY <2>3 DEF UpdatePartnerOfferForUser
    <3>2. p = y \/ (y.id = x /\ p.client = c /\ p.user = y.user)
      BY <3>1 DEF NotesOK, TypeOK, StoreTypeOK, PartnerRow
    <3>3. y.id = x => y.user = u
      BY <2>3 DEF UpdatePartnerOfferForUser, PartnerForUser, OwnInv, Keys
    <3>4. QED
      BY <1>3, <2>3, <3>2, <3>3 DEF OwnInv, PartnersMine
  <2>4. ASSUME NEW x, DeletePartnerRow(x, u)
        PROVE  ClientMine(p.client, p.user)
    BY <1>3, <2>4 DEF DeletePartnerRow, OwnInv, PartnersMine
  <2>5. WritesPartner(u) => ClientMine(p.client, p.user)
    BY <2>2, <2>3, <2>4 DEF WritesPartner
  <2>6. WritesPeriod(u) => UNCHANGED partners
    BY DEF WritesPeriod, InsertOfferPeriod, DeletePeriodRow
  <2>7. WritesMenu(u) => UNCHANGED partners
    BY DEF WritesMenu, InsertCategoryOffer, UpdateCategoryOfferForUser, DeleteSelectionByOffer,
         DeleteOfferRow, InsertSelection, UpsertAlias
  <2>8. WritesEvidence(u) => UNCHANGED partners
    BY DEF WritesEvidence, WriteFile, RemoveFile, DeleteAttachmentRow, InsertAttachment,
         InsertLink, DeleteLinks, KeepRecords
  <2>9. QED
    BY <2>1, <2>5, <2>6, <2>7, <2>8 DEF Writes, tables
<1>4. PartnersMine'
  <2>1. ASSUME NEW p \in partners', p.client # None
        PROVE  ClientMine(p.client, p.user)'
    <3>1. PICK c, v : c = p.client /\ v = p.user
      OBVIOUS
    <3>2. ClientMine(c, v)
      BY <1>3, <2>1, <3>1
    <3>3. c \in Ids
      BY <2>1, <3>1 DEF StoreTypeOK, PartnerRow, Ids
    <3>4. QED
      BY <3>1, <3>2, <3>3, ClientAges
  <2>2. QED
    BY <2>1 DEF PartnersMine
<1>5. QED
  BY <1>2, <1>4

(******************************* the files *********************************)

\* Steps that touch no screenshot, no file, and start no upload or removal.
LEMMA TokensKept ==
  ASSUME NotesOK, OwnInv, Aging, attachments' = attachments, files' = files,
         \A r \in Reqs : req'[r].op = "Save" => req[r].op = "Save" /\ req'[r].attach = req[r].attach,
         \A r \in Reqs : req'[r].at = "file" => req[r].at = "file" /\ req'[r].check = req[r].check
  PROVE  Tokens'
<1>1. /\ files \subseteq Ids /\ \A r \in Reqs : req[r].check \subseteq Ids
  BY DEF NotesOK, TypeOK, StoreTypeOK, RequestNote, Ids
<1>2. \A i \in Ids : i \in spent => i \in spent'
  BY DEF Aging, Descent
<1>3. QED
  BY <1>1, <1>2 DEF OwnInv, Tokens

\* Which steps do touch them.
LEMMA OtherStepsKeepFiles ==
  ASSUME req \in [Reqs -> RequestNote], NEW r \in Reqs, Proceed(r),
         ~ StoreRow(r), ~ Reclaim(r), ~ RemoveAttachmentFile(r)
  PROVE  attachments' = attachments /\ files' = files /\ req'[r].at # "file"
<1>0. req[r] \in RequestNote /\ Blank.at = "idle" /\ (Finish(r) => req'[r].at # "file")
  BY DEF Blank, Finish
<1>1. ASSUME NEW s, Goto(r, s), s # "file" PROVE req'[r].at # "file"
  BY <1>0, <1>1 DEF Goto, RequestNote
<1>2. CASE ValidateNewPeriod(r) \/ DropPeriod(r) \/ UpdateOffer(r) \/ RememberAlias(r)
             \/ ValidateSelection(r) \/ InsertSelectionRow(r) \/ InsertOffer(r)
  <2>1. req'[r].at # "file"
    BY <1>0, <1>1, <1>2 DEF ValidateNewPeriod, DropPeriod, UpdateOffer, RememberAlias,
         ValidateSelection, InsertSelectionRow, InsertOffer, ThenAlias, Abort, When
  <2>2. attachments' = attachments /\ files' = files
    BY <1>2 DEF ValidateNewPeriod, DropPeriod, UpdateOffer, RememberAlias, ValidateSelection,
         InsertSelectionRow, InsertOffer, Abort, Reads, tables, DeletePeriodRow,
         UpdateCategoryOfferForUser, UpsertAlias, InsertSelection, InsertCategoryOffer, KeepEvidence
  <2>3. QED
    BY <2>1, <2>2
<1>3. CASE DropPartner(r) \/ Unlink(r) \/ DropLinks(r) \/ UpdatePartner(r)
  <2>1. req'[r].at # "file"
    BY <1>0, <1>1, <1>3 DEF DropPartner, Unlink, DropLinks, UpdatePartner, Abort
  <2>2. attachments' = attachments /\ files' = files
    BY <1>3 DEF DropPartner, Unlink, DropLinks, UpdatePartner, Abort, Reads, tables,
         DeletePartnerRow, DeleteLinks, UpdatePartnerOfferForUser, KeepEvidence
  <2>3. QED
    BY <2>1, <2>2
<1>4. CASE ListMenu(r) \/ ListEvidence(r) \/ ReadPreviousActivation(r)
  <2>1. CASE ListMenu(r)
    BY <1>0, <2>1 DEF ListMenu, Reads, tables, When, RequestNote
  <2>2. CASE ListEvidence(r)
    BY <1>0, <2>2 DEF ListEvidence, Reads, tables, RequestNote
  <2>3. CASE ReadPreviousActivation(r)
    <3>1. Finish(r) \/ \E x : req' = [req EXCEPT ![r].at = "update", ![r].seen = x]
      BY <2>3, Zenon DEF ReadPreviousActivation
    <3>2. QED
      BY <1>0, <2>3, <3>1 DEF ReadPreviousActivation, Reads, tables, RequestNote
  <2>4. QED
    BY <1>4, <2>1, <2>2, <2>3
<1>5. CASE InsertPeriod(r)
  <2>1. \/ Finish(r) \/ \E p : req' = [req EXCEPT ![r].at = "attach", ![r].target = p]
    BY <1>5 DEF InsertPeriod, Abort
  <2>2. attachments' = attachments /\ files' = files
    BY <1>5 DEF InsertPeriod, Abort, Reads, tables, InsertOfferPeriod, KeepEvidence
  <2>3. QED
    BY <1>0, <2>1, <2>2 DEF RequestNote
<1>6. CASE InsertPartner(r)
  <2>1. \/ Finish(r)
        \/ \E p : req' = [req EXCEPT ![r].at = "recheck", ![r].target = p,
                            ![r].check = req[r].attach]
    BY <1>6, Zenon DEF InsertPartner, Abort
  <2>2. attachments' = attachments /\ files' = files
    BY <1>6 DEF InsertPartner, Abort, Reads, tables, InsertPartnerOffer, KeepEvidence
  <2>3. QED
    BY <1>0, <2>1, <2>2 DEF RequestNote
<1>7. CASE DropSelection(r) \/ DropOffer(r)
  <2>1. CASE DropSelection(r)
    BY <1>0, <2>1 DEF DropSelection, DeleteSelectionByOffer, KeepEvidence, RequestNote
  <2>2. CASE DropOffer(r)
    <3>1. attachments' = attachments /\ files' = files
      BY <2>2 DEF DropOffer, Abort, Reads, tables, DeleteOfferRow, KeepEvidence
    <3>2. Finish(r) \/ \E at \in {"selections", "links"} : \E x :
            req' = [req EXCEPT ![r].at = at, ![r].doomed = x, ![r].offer = None]
      BY <2>2 DEF DropOffer, When, Abort
    <3>3. QED
      BY <1>0, <3>1, <3>2 DEF RequestNote
  <2>3. QED
    BY <1>7, <2>1, <2>2
<1>8. CASE CheckAttachment(r)
  BY <1>0, <1>8 DEF CheckAttachment, When, Reads, tables, RequestNote
<1>9. CASE AttachNext(r)
  BY <1>0, <1>9 DEF AttachNext, Abort, Reads, tables, InsertLink, RequestNote
<1>10. QED
  BY <1>2, <1>3, <1>4, <1>5, <1>6, <1>7, <1>8, <1>9 DEF Proceed

LEMMA TokensStay ==
  ASSUME NotesOK, OwnInv, [Next]_vars
  PROVE  Tokens'
<1>1. Aging /\ req' \in [Reqs -> RequestNote] /\ req \in [Reqs -> RequestNote]
  BY StepAges, StepsAreStatements DEF NotesOK, TypeOK
<1>2. \A i \in Ids : i \in spent => i \in spent'
  BY <1>1 DEF Aging, Descent
<1>3. CASE OneStatement \/ UNCHANGED vars
  <2>1. req' = req
    BY <1>3 DEF OneStatement, CreateBankClient, UpdateBankClient, DeleteBankClient,
         SetPeriodMaxOverride, DeleteSelection, EndOrReopenPartnerOffer, vars
  <2>2. attachments' = attachments /\ files' = files
    BY <1>3 DEF OneStatement, CreateBankClient, UpdateBankClient, DeleteBankClient,
         SetPeriodMaxOverride, DeleteSelection, EndOrReopenPartnerOffer, InsertBankClient,
         UpdateBankClientForUser, DeleteBankClientForUser, SetOfferPeriodMaxOverride,
         DeleteSelectionForUser, SetPartnerEnded, KeepEvidence, vars, tables
  <2>3. QED
    BY <1>1, <2>1, <2>2, TokensKept
<1>4. CASE Restart
  BY <1>1, <1>4, TokensKept, ServiceAssumption DEF Restart, Blank, Reads, tables, Multi
<1>5. ASSUME NEW r \in Reqs, Arrive(r), ~ Save(r)
      PROVE  Tokens'
  <2>1. PICK q : Begin(r, q) /\ q.op # "Save" /\ NoteShape(q)
    BY <1>5, Begins
  <2>2. req'[r].op # "Save" /\ \A s \in Reqs \ {r} : req'[s] = req[s]
    BY <1>1, <2>1 DEF Begin
  <2>3. UNCHANGED tables
    BY <2>1 DEF Begin, Reads
  <2>4. req'[r].at # "file"
    <3>1. CASE CreateOfferPeriod(r) \/ DeleteOfferPeriod(r)
      BY <1>1, <3>1 DEF CreateOfferPeriod, DeleteOfferPeriod, Begin, Blank
    <3>2. CASE CreateCategoryOffer(r) \/ UpdateCategoryOffer(r) \/ DeleteCategoryOffer(r)
      BY <1>1, <3>2 DEF CreateCategoryOffer, UpdateCategoryOffer, DeleteCategoryOffer, Begin, Blank
    <3>3. CASE CreateSelection(r) \/ Attach(r) \/ Detach(r)
      BY <1>1, <3>3 DEF CreateSelection, Attach, Detach, Begin, Blank
    <3>4. CASE CreatePartnerOffer(r) \/ UpdatePartnerOffer(r) \/ DeletePartnerOffer(r)
      BY <1>1, <3>4 DEF CreatePartnerOffer, UpdatePartnerOffer, DeletePartnerOffer, Begin, Blank, When
    <3>5. QED
      BY <1>5, <3>1, <3>2, <3>3, <3>4 DEF Arrive
  <2>5. QED
    BY <1>1, <2>2, <2>3, <2>4, TokensKept DEF tables
<1>6. ASSUME NEW r \in Reqs, Save(r)
      PROVE  Tokens'
  <2>1. PICK u \in Users, a \in AttachmentIds : WriteFile(a) /\ req' = [req EXCEPT ![r] = [Blank EXCEPT
              !.op = "Save", !.at = "store", !.user = u, !.attach = {a}]]
    BY <1>6 DEF Save
  <2>2. a \notin spent /\ a \in spent' /\ attachments' = attachments /\ files' = files \cup {a}
    BY <2>1 DEF WriteFile
  <2>3. /\ req'[r].op = "Save" /\ req'[r].at = "store" /\ req'[r].attach = {a}
        /\ \A s \in Reqs \ {r} : req'[s] = req[s]
    BY <1>1, <2>1 DEF Blank
  <2>4. /\ files \subseteq Ids /\ \A s \in Reqs : req[s].check \subseteq Ids
    BY DEF NotesOK, TypeOK, StoreTypeOK, RequestNote, Ids
  <2>5. QED
    BY <1>2, <2>2, <2>3, <2>4 DEF OwnInv, Tokens
<1>7. ASSUME NEW r \in Reqs, Proceed(r)
      PROVE  Tokens'
  <2>1. req'[r].op # "Save"
    <3>1. None # "Save" /\ Blank.op = None
      BY ServiceAssumption DEF Multi, Blank
    <3>2. QED
      BY <1>1, <1>7, <3>1, GoesOn DEF OwnInv, NotesMine, NoteShape
  <2>2. \A s \in Reqs \ {r} : req'[s] = req[s]
    BY <1>1, <1>7, GoesOn
  <2>3. req[r] \in RequestNote /\ files \subseteq Ids /\ \A s \in Reqs : req[s].check \subseteq Ids
    BY DEF NotesOK, TypeOK, StoreTypeOK, RequestNote, Ids
  <2>4. CASE StoreRow(r)
    <3>1. PICK a \in req[r].attach : InsertAttachment(a, req[r].user) \/ RemoveFile(a)
      BY <2>4 DEF StoreRow
    <3>2. req[r].op = "Save" /\ req'[r].at # "file"
      BY <1>1, <2>4 DEF StoreRow, In, Finish, Blank
    <3>3. CASE InsertAttachment(a, req[r].user)
      <4>1. /\ attachments' = attachments \cup {[id |-> a, user |-> req[r].user]}
            /\ files' = files
        BY <3>3 DEF InsertAttachment
      <4>2. \A y \in attachments' : y \in attachments \/ y = [id |-> a, user |-> req[r].user]
        BY <4>1
      <4>3. QED
        BY <1>2, <2>1, <2>2, <2>3, <3>1, <3>2, <4>1, <4>2 DEF OwnInv, Tokens
    <3>4. CASE RemoveFile(a)
      <4>1. attachments' = attachments /\ files' = files \ {a}
        BY <3>4 DEF RemoveFile
      <4>2. QED
        BY <1>2, <2>1, <2>2, <2>3, <3>1, <3>2, <4>1 DEF OwnInv, Tokens
    <3>5. QED
      BY <3>1, <3>3, <3>4
  <2>5. CASE Reclaim(r)
    <3>1. ASSUME NEW a, AfterReclaim(r, a), Reads
          PROVE  Tokens'
      <4>1. req'[r].at # "file"
        BY <1>1, <2>3, <3>1 DEF AfterReclaim, Finish, Blank, RequestNote
      <4>2. QED
        BY <1>1, <2>1, <2>2, <3>1, <4>1, TokensKept DEF Reads, tables
    <3>2. ASSUME NEW a \in req[r].reclaim, DeleteAttachmentRow(a, req[r].user),
                 req' = [req EXCEPT ![r].at = "file", ![r].check = {a}]
          PROVE  Tokens'
      <4>1. req'[r].check = {a}
        BY <2>3, <1>1, <3>2 DEF RequestNote
      <4>2. /\ attachments' = {x \in attachments : x.id # a} /\ files' = files
            /\ \E x \in attachments : x.id = a
        BY <3>2 DEF DeleteAttachmentRow, IsOrphan, AttachmentForUser
      <4>3. a \in spent' /\ a \in Ids
        BY <1>2, <2>3, <4>2 DEF OwnInv, Tokens
      <4>4. QED
        BY <1>2, <2>1, <2>2, <2>3, <4>1, <4>2, <4>3 DEF OwnInv, Tokens
    <3>3. QED
      BY <2>5, <3>1, <3>2 DEF Reclaim
  <2>6. CASE RemoveAttachmentFile(r)
    <3>1. PICK a \in req[r].check : AfterReclaim(r, a) /\ (RemoveFile(a) \/ Reads)
      BY <2>6 DEF RemoveAttachmentFile
    <3>2. req'[r].at # "file" /\ req[r].at = "file"
      BY <1>1, <2>3, <2>6, <3>1 DEF AfterReclaim, Finish, Blank, RequestNote, RemoveAttachmentFile
    <3>3. CASE RemoveFile(a)
      <4>1. attachments' = attachments /\ files' = files \ {a}
        BY <3>3 DEF RemoveFile
      <4>2. QED
        BY <1>2, <2>1, <2>2, <2>3, <3>1, <3>2, <4>1 DEF OwnInv, Tokens
    <3>4. CASE Reads
      BY <1>1, <2>1, <2>2, <3>2, <3>4, TokensKept DEF Reads, tables
    <3>5. QED
      BY <3>1, <3>3, <3>4
  <2>7. CASE ~ StoreRow(r) /\ ~ Reclaim(r) /\ ~ RemoveAttachmentFile(r)
    BY <1>1, <1>7, <2>1, <2>2, <2>7, OtherStepsKeepFiles, TokensKept
  <2>8. QED
    BY <2>4, <2>5, <2>6, <2>7
<1>8. QED
  BY <1>3, <1>4, <1>5, <1>6, <1>7 DEF Next

(******************************* theorems **********************************)

LEMMA InitOwn == Init => OwnInv
<1> SUFFICES ASSUME Init PROVE OwnInv
  OBVIOUS
<1>1. Keys /\ LinksMine /\ PartnersMine
  BY DEF Init, StoreInit, Keys, LinksMine, PartnersMine
<1>2. \A r \in Reqs : req[r] = Blank
  BY DEF Init
<1>3. Tokens
  BY <1>2, ServiceAssumption DEF Init, StoreInit, Tokens, Blank, Multi
<1>4. NotesMine
  BY <1>2, BlankIsMine DEF NotesMine
<1>5. QED
  BY <1>1, <1>3, <1>4 DEF OwnInv

\* The links and the clients of partner offers, at every step.
LEMMA TiesStay ==
  ASSUME NotesOK, NotesOK', OwnInv, [Next]_vars
  PROVE  LinksMine' /\ PartnersMine'
<1>1. Aging /\ req' \in [Reqs -> RequestNote] /\ StoreTypeOK' /\ Keys'
  BY StepAges, StepsAreStatements DEF NotesOK, TypeOK
<1>2. ASSUME NEW r \in Reqs, Proceed(r)
      PROVE  LinksMine' /\ PartnersMine'
  <2>1. Writes(req[r].user)
    BY <1>1, <1>2, Moves
  <2>2. req[r].at # "idle"
    BY <1>2 DEF Proceed, ValidateNewPeriod, InsertPeriod, ListMenu, DropPeriod, InsertOffer,
         UpdateOffer, RememberAlias, DropSelection, DropOffer, ValidateSelection,
         InsertSelectionRow, InsertPartner, ReadPreviousActivation, UpdatePartner, DropPartner,
         StoreRow, CheckAttachment, AttachNext, Unlink, ListEvidence, DropLinks, Reclaim,
         RemoveAttachmentFile, In
  <2>3. req[r].user \in Users
    BY <2>2 DEF NotesOK, Complete
  <2>4. QED
    BY <1>1, <2>1, <2>3, TiesStayMine
<1>3. CASE UNCHANGED links /\ \A p \in partners' : \E x \in partners :
               p.client = x.client /\ p.user = x.user
  <2>1. ASSUME NEW l \in links'
        PROVE  \E v \in Users : ParentMine(l.parent, v)' /\ AttachmentMine(l.attachment, v)'
    <3>1. PICK v \in Users : ParentMine(l.parent, v) /\ AttachmentMine(l.attachment, v)
      BY <1>3, <2>1 DEF OwnInv, LinksMine
    <3>2. l.attachment \in Ids /\ StoreTypeOK
      BY <1>1, <2>1 DEF StoreTypeOK, LinkRow, Ids, NotesOK, TypeOK
    <3>3. QED
      BY <1>1, <3>1, <3>2, ParentAges, AttachmentAges
  <2>2. ASSUME NEW p \in partners', p.client # None
        PROVE  ClientMine(p.client, p.user)'
    <3>1. PICK c \in Ids, v \in Users : c = p.client /\ v = p.user
      BY <1>1, <2>2 DEF StoreTypeOK, PartnerRow, Ids
    <3>2. ClientMine(c, v)
      BY <1>3, <2>2, <3>1 DEF OwnInv, PartnersMine
    <3>3. QED
      BY <1>1, <3>1, <3>2, ClientAges
  <2>3. QED
    BY <2>1, <2>2 DEF LinksMine, PartnersMine
<1>4. CASE OneStatement
  <2>1. UNCHANGED links
    BY <1>4 DEF OneStatement, CreateBankClient, UpdateBankClient, DeleteBankClient,
         SetPeriodMaxOverride, DeleteSelection, EndOrReopenPartnerOffer, InsertBankClient,
         UpdateBankClientForUser, DeleteBankClientForUser, SetOfferPeriodMaxOverride,
         DeleteSelectionForUser, SetPartnerEnded, KeepEvidence
  <2>2. CASE EndOrReopenPartnerOffer
    <3>1. PICK p, e : partners' = {IF x.id = p THEN [x EXCEPT !.ended = e] ELSE x : x \in partners}
      BY <2>2 DEF EndOrReopenPartnerOffer, SetPartnerEnded
    <3>2. QED
      BY <1>3, <2>1, <3>1 DEF NotesOK, TypeOK, StoreTypeOK, PartnerRow
  <2>3. CASE UNCHANGED partners
    BY <1>3, <2>1, <2>3
  <2>4. QED
    BY <1>4, <2>2, <2>3 DEF OneStatement, CreateBankClient, UpdateBankClient, DeleteBankClient,
         SetPeriodMaxOverride, DeleteSelection, InsertBankClient, UpdateBankClientForUser,
         DeleteBankClientForUser, SetOfferPeriodMaxOverride, DeleteSelectionForUser
<1>5. CASE Restart \/ UNCHANGED vars
  BY <1>3, <1>5 DEF Restart, Reads, vars, tables
<1>6. ASSUME NEW r \in Reqs, Arrive(r)
      PROVE  LinksMine' /\ PartnersMine'
  <2>1. CASE Save(r)
    BY <1>3, <2>1 DEF Save, WriteFile, KeepRecords
  <2>2. CASE ~ Save(r)
    BY <1>3, <1>6, <2>2, Begins DEF Begin, Reads, tables
  <2>3. QED
    BY <2>1, <2>2
<1>7. QED
  BY <1>2, <1>4, <1>5, <1>6 DEF Next

THEOREM OwnInvariance == Spec => [](NotesOK /\ OwnInv)
<1>1. Spec => []NotesOK
  BY Invariance, PTL
<1>2. NotesOK /\ NotesOK' /\ OwnInv /\ [Next]_vars => OwnInv'
  BY StepAges, TokensStay, NotesStayMine, TiesStay DEF OwnInv
<1>3. QED
  BY <1>1, <1>2, InitOwn, PTL DEF Spec

\* TiesStayInside: whatever goes between a lookup and the statement that relies on
\* it, records are only ever tied to records of the same account.
THEOREM TiesNeverCross == Spec => []TiesStayInside
<1>1. ASSUME NotesOK, OwnInv
      PROVE  TiesStayInside
  <2>1. RowsReferenced /\ StoreTypeOK
    BY <1>1 DEF NotesOK, TypeOK
  <2>2. PartnerOnOwnClient
    BY <1>1, <2>1 DEF PartnerOnOwnClient, ClientForUser, ClientMine, OwnInv, PartnersMine,
         RowsReferenced, ClientRefExists
  <2>3. ASSUME NEW l \in links
        PROVE  AttachmentForUser(l.attachment, OwnerOfParent(l.parent))
    <3>1. PICK u \in Users : ParentMine(l.parent, u) /\ AttachmentMine(l.attachment, u)
      BY <1>1 DEF OwnInv, LinksMine
    <3>2. AttachmentForUser(l.attachment, u)
      BY <2>1, <3>1 DEF RowsReferenced, Linkable, AttachmentMine, AttachmentForUser
    <3>3. PICK x \in periods \cup partners : x.id = l.parent
      BY <2>1 DEF RowsReferenced, Linkable
    <3>4. CASE l.parent \in PeriodIds
      <4>1. x \in periods
        BY <2>1, <3>3, <3>4, StoreAssumption DEF StoreTypeOK, PartnerRow
      <4>2. PICK c \in clients : c.id = x.client
        BY <2>1, <4>1 DEF RowsReferenced
      <4>3. \A d \in clients : (\E p \in periods : p.id = l.parent /\ p.client = d.id) => d.user = u
        BY <1>1, <3>1, <3>4 DEF ParentMine, PeriodMine, ClientMine
      <4>4. OwnerOfParent(l.parent) = u
        BY <3>3, <3>4, <4>1, <4>2, <4>3 DEF OwnerOfParent
      <4>5. QED
        BY <3>2, <4>4
    <3>5. CASE l.parent \notin PeriodIds
      <4>1. x \in partners /\ l.parent \in PartnerIds
        BY <2>1, <3>3, <3>5 DEF StoreTypeOK, PeriodRow, PartnerRow
      <4>2. \A p \in partners : p.id = l.parent => p.user = u
        BY <3>1, <4>1 DEF ParentMine, PartnerMine
      <4>3. OwnerOfParent(l.parent) = u
        BY <3>3, <3>5, <4>1, <4>2 DEF OwnerOfParent
      <4>4. QED
        BY <3>2, <4>3
    <3>6. QED
      BY <3>4, <3>5
  <2>4. QED
    BY <2>2, <2>3 DEF TiesStayInside, LinksSameOwner
<1>2. QED
  BY <1>1, OwnInvariance, PTL

\* RowHasFile: a screenshot's row always has its file, through crashes too.
THEOREM ContentCanBeRead == Spec => []RowHasFile
<1>1. OwnInv => RowHasFile
  BY DEF OwnInv, Tokens, RowHasFile
<1>2. QED
  BY <1>1, OwnInvariance, PTL

(***************************** other accounts ******************************)

\* What a statement about me's rows leaves of u's periods, menu rows and selections.
PeriodsOf(u)    == {p \in periods : PeriodForUser(p.id, u)}
MenuOf(u)       == {o \in offers : OfferForUser(o.id, u)}
SelectionsOf(u) == {s \in selections : \E o \in MenuOf(u) : o.id = s.offer}

MenuKept(u) ==
  PeriodsOf(u)' = PeriodsOf(u) /\ MenuOf(u)' = MenuOf(u) /\ SelectionsOf(u)' = SelectionsOf(u)

LEMMA PeriodWritesKeep ==
  ASSUME NotesOK, OwnInv, NEW me, NEW u, u # me, WritesPeriod(me)
  PROVE  MenuKept(u) /\ UNCHANGED <<clients, aliases, partners, attachments, links>>
<1>0. StoreTypeOK /\ RowsReferenced /\ Keys
  BY DEF NotesOK, TypeOK, OwnInv
<1>1. /\ UNCHANGED <<offers, selections>>
      /\ UNCHANGED <<clients, aliases, partners, attachments, links>>
  BY DEF WritesPeriod, InsertOfferPeriod, DeletePeriodRow, KeepEvidence
<1>2. PICK p : /\ \A x \in periods : x.id = p => ~ ClientForUser(x.client, u)
               /\ \A x \in periods' : x.id = p => ~ ClientForUser(x.client, u)
               /\ \A x : x.id # p => (x \in periods' <=> x \in periods)
  <2>1. ASSUME NEW p, NEW c, NEW s, ClientMine(c, me), InsertOfferPeriod(p, c, s)
        PROVE  /\ \A x \in periods : x.id = p => ~ ClientForUser(x.client, u)
               /\ \A x \in periods' : x.id = p => ~ ClientForUser(x.client, u)
               /\ \A x : x.id # p => (x \in periods' <=> x \in periods)
    BY <1>0, <2>1 DEF InsertOfferPeriod, Keys, ClientMine, ClientForUser
  <2>2. ASSUME NEW p, PeriodMine(p, me), DeletePeriodRow(p)
        PROVE  /\ \A x \in periods : x.id = p => ~ ClientForUser(x.client, u)
               /\ \A x \in periods' : x.id = p => ~ ClientForUser(x.client, u)
               /\ \A x : x.id # p => (x \in periods' <=> x \in periods)
    BY <2>2 DEF DeletePeriodRow, PeriodMine, ClientMine, ClientForUser
  <2>3. QED
    BY <2>1, <2>2 DEF WritesPeriod
<1>3. \A c : ClientForUser(c, u)' <=> ClientForUser(c, u)
  BY <1>1 DEF ClientForUser
<1>4. \A i : PeriodForUser(i, u)' <=> PeriodForUser(i, u)
  BY <1>2, <1>3 DEF PeriodForUser
<1>5. PeriodsOf(u)' = PeriodsOf(u)
  <2>1. ~ PeriodForUser(p, u)
    BY <1>2 DEF PeriodForUser
  <2>2. QED
    BY <1>2, <1>4, <2>1 DEF PeriodsOf
<1>6. \A i : OfferForUser(i, u)' <=> OfferForUser(i, u)
  BY <1>1, <1>4 DEF OfferForUser
<1>7. MenuOf(u)' = MenuOf(u)
  BY <1>1, <1>6 DEF MenuOf
<1>8. SelectionsOf(u)' = SelectionsOf(u)
  BY <1>1, <1>7 DEF SelectionsOf
<1>9. QED
  BY <1>1, <1>5, <1>7, <1>8 DEF MenuKept

LEMMA MenuWritesKeep ==
  ASSUME NotesOK, OwnInv, NEW me, NEW u, u # me, WritesMenu(me)
  PROVE  /\ MenuKept(u) /\ UNCHANGED <<clients, partners, attachments, links>>
         /\ {x \in aliases : x.user = u}' = {x \in aliases : x.user = u}
<1>0. StoreTypeOK /\ RowsReferenced /\ Keys
  BY DEF NotesOK, TypeOK, OwnInv
<1>1. UNCHANGED <<clients, periods, partners, attachments, links>>
  BY DEF WritesMenu, InsertCategoryOffer, UpdateCategoryOfferForUser, DeleteSelectionByOffer,
       DeleteOfferRow, InsertSelection, UpsertAlias, KeepEvidence
<1>2. \A i : PeriodForUser(i, u)' <=> PeriodForUser(i, u)
  BY <1>1 DEF PeriodForUser, ClientForUser
<1>3. \A i : PeriodMine(i, me) => ~ PeriodForUser(i, u)
  BY DEF PeriodMine, PeriodForUser, ClientMine, ClientForUser
<1>4. \A o : OfferMine(o, me) => ~ OfferForUser(o, u)
  BY <1>3 DEF OfferMine, OfferForUser
<1>5. PeriodsOf(u)' = PeriodsOf(u)
  BY <1>1, <1>2 DEF PeriodsOf
<1>6. CASE \E b, t, c : UpsertAlias(b, t, me, c)
  <2>1. UNCHANGED <<offers, selections>>
    BY <1>6 DEF UpsertAlias
  <2>2. \A i : OfferForUser(i, u)' <=> OfferForUser(i, u)
    BY <1>2, <2>1 DEF OfferForUser
  <2>3. MenuKept(u)
    BY <1>5, <2>1, <2>2 DEF MenuKept, MenuOf, SelectionsOf
  <2>4. {x \in aliases : x.user = u}' = {x \in aliases : x.user = u}
    BY <1>6 DEF UpsertAlias
  <2>5. QED
    BY <1>1, <2>3, <2>4
<1>7. CASE \E o, p, k : PeriodMine(p, me) /\ InsertCategoryOffer(o, p, k)
  <2>1. PICK o, p, k : PeriodMine(p, me) /\ InsertCategoryOffer(o, p, k)
    BY <1>7
  <2>2. UNCHANGED <<selections, aliases>> /\ \A x \in offers : x.id # o
    BY <1>0, <2>1 DEF InsertCategoryOffer, Keys
  <2>3. offers' = offers \cup {[id |-> o, period |-> p, kind |-> k]}
    BY <2>1 DEF InsertCategoryOffer
  <2>4. \A i : OfferForUser(i, u)' <=> OfferForUser(i, u)
    BY <1>2, <1>3, <2>1, <2>3 DEF OfferForUser
  <2>5. ~ OfferForUser(o, u)
    BY <2>2 DEF OfferForUser
  <2>6. MenuOf(u)' = MenuOf(u)
    BY <2>3, <2>4, <2>5 DEF MenuOf
  <2>7. QED
    BY <1>1, <1>5, <2>2, <2>6 DEF MenuKept, SelectionsOf
<1>8. ASSUME NEW o, OfferMine(o, me),
             \/ \E k : UpdateCategoryOfferForUser(o, me, k)
             \/ DeleteOfferRow(o)
      PROVE  MenuKept(u) /\ UNCHANGED aliases
  <2>1. UNCHANGED <<selections, aliases>>
    BY <1>8 DEF UpdateCategoryOfferForUser, DeleteOfferRow
  <2>2. /\ \A x : x.id # o => (x \in offers' <=> x \in offers)
        /\ \A x \in offers' : x.id = o => ~ PeriodForUser(x.period, u)
    <3>1. CASE DeleteOfferRow(o)
      BY <3>1 DEF DeleteOfferRow
    <3>2. ASSUME NEW k, UpdateCategoryOfferForUser(o, me, k)
          PROVE  /\ \A x : x.id # o => (x \in offers' <=> x \in offers)
                 /\ \A x \in offers' : x.id = o => ~ PeriodForUser(x.period, u)
      <4>1. offers' = {IF x.id = o THEN [x EXCEPT !.kind = k] ELSE x : x \in offers}
        BY <3>2 DEF UpdateCategoryOfferForUser
      <4>2. \A x \in offers : [x EXCEPT !.kind = k].id = x.id
        BY <1>0 DEF StoreTypeOK, OfferRow
      <4>3. \A y \in offers' : \E x \in offers : x.id = y.id /\ x.period = y.period
        BY <1>0, <4>1 DEF StoreTypeOK, OfferRow
      <4>4. \A x \in offers : x.id = o => ~ PeriodForUser(x.period, u)
        BY <1>3, <1>8 DEF OfferMine
      <4>5. \A x : x.id # o => (x \in offers' <=> x \in offers)
        BY <4>1, <4>2
      <4>6. QED
        BY <4>3, <4>4, <4>5
    <3>3. QED
      BY <1>8, <3>1, <3>2
  <2>3. ~ OfferForUser(o, u)
    BY <1>4, <1>8
  <2>4. \A i : OfferForUser(i, u)' <=> OfferForUser(i, u)
    BY <1>2, <2>2, <2>3 DEF OfferForUser
  <2>5. MenuOf(u)' = MenuOf(u)
    BY <2>2, <2>3, <2>4 DEF MenuOf
  <2>6. QED
    BY <1>5, <2>1, <2>5 DEF MenuKept, SelectionsOf
<1>9. ASSUME NEW o, OfferMine(o, me),
             DeleteSelectionByOffer(o) \/ \E s, d : InsertSelection(s, o, d)
      PROVE  MenuKept(u) /\ UNCHANGED aliases
  <2>1. UNCHANGED <<offers, aliases>>
    BY <1>9 DEF DeleteSelectionByOffer, InsertSelection
  <2>2. \A i : OfferForUser(i, u)' <=> OfferForUser(i, u)
    BY <1>2, <2>1 DEF OfferForUser
  <2>3. MenuOf(u)' = MenuOf(u)
    BY <2>1, <2>2 DEF MenuOf
  <2>4. \A x \in MenuOf(u) : x.id # o
    BY <1>4, <1>9 DEF MenuOf
  <2>5. \A s : s.offer # o => (s \in selections' <=> s \in selections)
    BY <1>9 DEF DeleteSelectionByOffer, InsertSelection
  <2>6. SelectionsOf(u)' = SelectionsOf(u)
    BY <2>3, <2>4, <2>5 DEF SelectionsOf
  <2>7. QED
    BY <1>5, <2>1, <2>3, <2>6 DEF MenuKept
<1>10. QED
  BY <1>1, <1>6, <1>7, <1>8, <1>9 DEF WritesMenu

LEMMA PartnerWritesKeep ==
  ASSUME NotesOK, OwnInv, NEW me, NEW u, u # me, WritesPartner(me)
  PROVE  /\ UNCHANGED <<clients, periods, offers, selections, aliases, attachments, links>>
         /\ {p \in partners : p.user = u}' = {p \in partners : p.user = u}
<1>0. StoreTypeOK /\ Keys
  BY DEF NotesOK, TypeOK, OwnInv
<1>1. UNCHANGED <<clients, periods, offers, selections, aliases, attachments, links>>
  BY DEF WritesPartner, InsertPartnerOffer, UpdatePartnerOfferForUser, DeletePartnerRow,
       KeepMenu, KeepEvidence
<1>2. ASSUME NEW p, NEW c, NEW act, InsertPartnerOffer(p, me, c, act)
      PROVE  {x \in partners : x.user = u}' = {x \in partners : x.user = u}
  BY <1>2 DEF InsertPartnerOffer
<1>3. ASSUME NEW p, NEW c, NEW act, UpdatePartnerOfferForUser(p, me, c, act)
      PROVE  {x \in partners : x.user = u}' = {x \in partners : x.user = u}
  <2>1. partners' = {IF x.id = p THEN [x EXCEPT !.client = c, !.activated = act] ELSE x :
                     x \in partners}
    BY <1>3 DEF UpdatePartnerOfferForUser
  <2>2. \A x \in partners : x.id = p => x.user = me
    BY <1>0, <1>3 DEF UpdatePartnerOfferForUser, PartnerForUser, Keys
  <2>3. \A x \in partners : [x EXCEPT !.client = c, !.activated = act].user = x.user
    BY <1>0 DEF StoreTypeOK, PartnerRow
  <2>4. \A y \in partners' : y.user = u => y \in partners
    BY <2>1, <2>2, <2>3
  <2>5. \A y \in partners : y.user = u => y \in partners'
    BY <2>1, <2>2
  <2>6. QED
    BY <2>4, <2>5
<1>4. ASSUME NEW p, DeletePartnerRow(p, me)
      PROVE  {x \in partners : x.user = u}' = {x \in partners : x.user = u}
  BY <1>0, <1>4 DEF DeletePartnerRow, PartnerForUser, Keys
<1>5. QED
  BY <1>1, <1>2, <1>3, <1>4 DEF WritesPartner

\* What is linked to a record of the user's is the user's.
LEMMA LinkedIsMine ==
  ASSUME NotesOK, OwnInv, NEW l \in links, NEW me, ParentMine(l.parent, me)
  PROVE  AttachmentMine(l.attachment, me)
<1>0. StoreTypeOK /\ RowsReferenced
  BY DEF NotesOK, TypeOK
<1>1. PICK v \in Users : ParentMine(l.parent, v) /\ AttachmentMine(l.attachment, v)
  BY DEF OwnInv, LinksMine
<1>2. PICK x \in periods \cup partners : x.id = l.parent
  BY <1>0 DEF RowsReferenced, Linkable
<1>3. CASE x \in periods
  <2>1. l.parent \in PeriodIds
    BY <1>0, <1>2, <1>3 DEF StoreTypeOK, PeriodRow
  <2>2. PICK c \in clients : c.id = x.client
    BY <1>0, <1>3 DEF RowsReferenced
  <2>3. v = me
    BY <1>1, <1>2, <1>3, <2>1, <2>2 DEF ParentMine, PeriodMine, ClientMine
  <2>4. QED
    BY <1>1, <2>3
<1>4. CASE x \in partners
  <2>1. l.parent \in PartnerIds
    BY <1>0, <1>2, <1>4 DEF StoreTypeOK, PartnerRow
  <2>2. v = me
    BY <1>1, <1>2, <1>4, <2>1 DEF ParentMine, PartnerMine
  <2>3. QED
    BY <1>1, <2>2
<1>5. QED
  BY <1>2, <1>3, <1>4

LEMMA EvidenceWritesKeep ==
  ASSUME NotesOK, OwnInv, NEW me, NEW u, u # me, WritesEvidence(me)
  PROVE  /\ UNCHANGED <<clients, periods, offers, selections, aliases, partners>>
         /\ {a \in attachments : a.user = u}' = {a \in attachments : a.user = u}
         /\ {l \in links : AttachmentForUser(l.attachment, u)}'
              = {l \in links : AttachmentForUser(l.attachment, u)}
<1> DEFINE Kept == /\ {a \in attachments : a.user = u}' = {a \in attachments : a.user = u}
                   /\ {l \in links : AttachmentForUser(l.attachment, u)}'
                        = {l \in links : AttachmentForUser(l.attachment, u)}
<1>0. StoreTypeOK /\ RowsReferenced /\ Tokens
  BY DEF NotesOK, TypeOK, OwnInv
<1>1. UNCHANGED <<clients, periods, offers, selections, aliases, partners>>
  BY DEF WritesEvidence, WriteFile, RemoveFile, DeleteAttachmentRow, InsertAttachment,
       InsertLink, DeleteLinks, KeepRecords, KeepMenu
<1>2. ASSUME NEW a, WriteFile(a) \/ RemoveFile(a)
      PROVE  Kept
  BY <1>2 DEF WriteFile, RemoveFile, AttachmentForUser
<1>3. ASSUME NEW a, DeleteAttachmentRow(a, me)
      PROVE  Kept
  <2>1. /\ attachments' = {x \in attachments : x.id # a} /\ links' = links
        /\ \A l \in links : l.attachment # a
    BY <1>3 DEF DeleteAttachmentRow, IsOrphan
  <2>2. \A x \in attachments : x.id = a => x.user = me
    BY <1>0, <1>3 DEF DeleteAttachmentRow, IsOrphan, AttachmentForUser, Tokens
  <2>3. \A l \in links : AttachmentForUser(l.attachment, u)' <=> AttachmentForUser(l.attachment, u)
    BY <2>1 DEF AttachmentForUser
  <2>4. QED
    BY <2>1, <2>2, <2>3
<1>4. ASSUME NEW a, AttachmentMine(a, me), InsertAttachment(a, me)
      PROVE  Kept
  <2>1. attachments' = attachments \cup {[id |-> a, user |-> me]} /\ links' = links
    BY <1>4 DEF InsertAttachment
  <2>2. \A i : AttachmentForUser(i, u)' <=> AttachmentForUser(i, u)
    BY <2>1 DEF AttachmentForUser
  <2>3. QED
    BY <2>1, <2>2
<1>5. ASSUME NEW t, NEW a, AttachmentMine(a, me), InsertLink(t, a)
      PROVE  Kept
  <2>1. links' = links \cup {[parent |-> t, attachment |-> a]} /\ attachments' = attachments
    BY <1>5 DEF InsertLink
  <2>2. ~ AttachmentForUser(a, u)
    BY <1>5 DEF AttachmentMine, AttachmentForUser
  <2>3. \A i : AttachmentForUser(i, u)' <=> AttachmentForUser(i, u)
    BY <2>1 DEF AttachmentForUser
  <2>4. QED
    BY <2>1, <2>2, <2>3
<1>6. ASSUME NEW t, ParentMine(t, me), NEW gone \in SUBSET LinksOf(t), DeleteLinks(gone)
      PROVE  Kept
  <2>1. links' = links \ gone /\ attachments' = attachments
    BY <1>6 DEF DeleteLinks
  <2>2. ASSUME NEW l \in gone
        PROVE  ~ AttachmentForUser(l.attachment, u)
    <3>1. l \in links /\ ParentMine(l.parent, me)
      BY <1>6 DEF LinksOf
    <3>2. QED
      BY <3>1, LinkedIsMine DEF AttachmentMine, AttachmentForUser
  <2>3. \A i : AttachmentForUser(i, u)' <=> AttachmentForUser(i, u)
    BY <2>1 DEF AttachmentForUser
  <2>4. QED
    BY <2>1, <2>2, <2>3
<1>7. Kept
  BY <1>2, <1>3, <1>4, <1>5, <1>6 DEF WritesEvidence
<1>8. QED
  BY <1>1, <1>7

LEMMA WritesKeepOthers ==
  ASSUME NotesOK, OwnInv, NEW me, NEW u, u # me, Writes(me)
  PROVE  BelongingsOf(u)' = BelongingsOf(u)
<1>1. CASE UNCHANGED tables
  BY <1>1 DEF tables, BelongingsOf, PeriodForUser, OfferForUser, ClientForUser, AttachmentForUser
<1>2. CASE WritesPeriod(me)
  <2>1. MenuKept(u) /\ UNCHANGED <<clients, aliases, partners, attachments, links>>
    BY <1>2, PeriodWritesKeep
  <2>2. {l \in links : AttachmentForUser(l.attachment, u)}'
          = {l \in links : AttachmentForUser(l.attachment, u)}
    BY <2>1 DEF AttachmentForUser
  <2>3. QED
    BY <2>1, <2>2 DEF MenuKept, PeriodsOf, MenuOf, SelectionsOf, BelongingsOf
<1>3. CASE WritesMenu(me)
  <2>1. /\ MenuKept(u) /\ UNCHANGED <<clients, partners, attachments, links>>
        /\ {x \in aliases : x.user = u}' = {x \in aliases : x.user = u}
    BY <1>3, MenuWritesKeep
  <2>2. {l \in links : AttachmentForUser(l.attachment, u)}'
          = {l \in links : AttachmentForUser(l.attachment, u)}
    BY <2>1 DEF AttachmentForUser
  <2>3. QED
    BY <2>1, <2>2 DEF MenuKept, PeriodsOf, MenuOf, SelectionsOf, BelongingsOf
<1>4. CASE WritesPartner(me)
  <2>1. /\ UNCHANGED <<clients, periods, offers, selections, aliases, attachments, links>>
        /\ {p \in partners : p.user = u}' = {p \in partners : p.user = u}
    BY <1>4, PartnerWritesKeep
  <2>2. {l \in links : AttachmentForUser(l.attachment, u)}'
          = {l \in links : AttachmentForUser(l.attachment, u)}
    BY <2>1 DEF AttachmentForUser
  <2>3. MenuKept(u)
    BY <2>1 DEF MenuKept, PeriodsOf, MenuOf, SelectionsOf, PeriodForUser, OfferForUser, ClientForUser
  <2>4. QED
    BY <2>1, <2>2, <2>3 DEF MenuKept, PeriodsOf, MenuOf, SelectionsOf, BelongingsOf
<1>5. CASE WritesEvidence(me)
  <2>1. /\ UNCHANGED <<clients, periods, offers, selections, aliases, partners>>
        /\ {a \in attachments : a.user = u}' = {a \in attachments : a.user = u}
        /\ {l \in links : AttachmentForUser(l.attachment, u)}'
             = {l \in links : AttachmentForUser(l.attachment, u)}
    BY <1>5, EvidenceWritesKeep
  <2>2. MenuKept(u)
    BY <2>1 DEF MenuKept, PeriodsOf, MenuOf, SelectionsOf, PeriodForUser, OfferForUser, ClientForUser
  <2>3. QED
    BY <2>1, <2>2 DEF MenuKept, PeriodsOf, MenuOf, SelectionsOf, BelongingsOf
<1>6. QED
  BY <1>1, <1>2, <1>3, <1>4, <1>5 DEF Writes

\* OthersUntouched: a request only ever changes what belongs to its own account,
\* although the deletes that follow its lookup carry no user condition.
THEOREM OthersStayUntouched == Spec => OthersUntouched
<1>1. ASSUME NotesOK, OwnInv, [Next]_vars, NEW r \in Reqs, NEW u \in Users,
             req'[r] # req[r], req[r].op # None, u # req[r].user
      PROVE  BelongingsOf(u)' = BelongingsOf(u)
  <2>1. Aging /\ req' \in [Reqs -> RequestNote] /\ req \in [Reqs -> RequestNote]
    BY <1>1, StepAges, StepsAreStatements DEF NotesOK, TypeOK
  <2>2. CASE Restart \/ UNCHANGED vars
    BY <1>1, <2>2, WritesKeepOthers DEF Restart, Reads, vars, Writes
  <2>3. CASE OneStatement
    BY <1>1, <2>3 DEF OneStatement, CreateBankClient, UpdateBankClient, DeleteBankClient,
         SetPeriodMaxOverride, DeleteSelection, EndOrReopenPartnerOffer
  <2>4. ASSUME NEW s \in Reqs, Arrive(s)
        PROVE  FALSE
    <3>1. s = r
      BY <1>1, <2>4, OneMoves
    <3>2. req[r] = Blank
      BY <2>4, <3>1 DEF Arrive, CreateOfferPeriod, DeleteOfferPeriod, CreateCategoryOffer,
           UpdateCategoryOffer, DeleteCategoryOffer, CreateSelection, CreatePartnerOffer,
           UpdatePartnerOffer, DeletePartnerOffer, Save, Attach, Detach, Call
    <3>3. QED
      BY <1>1, <3>2 DEF Blank
  <2>5. ASSUME NEW s \in Reqs, Proceed(s)
        PROVE  BelongingsOf(u)' = BelongingsOf(u)
    <3>1. s = r
      BY <1>1, <2>5, OneMoves
    <3>2. Writes(req[r].user)
      BY <1>1, <2>1, <2>5, <3>1, Moves
    <3>3. QED
      BY <1>1, <3>2, WritesKeepOthers
  <2>6. QED
    BY <1>1, <2>2, <2>3, <2>4, <2>5 DEF Next
<1>2. NotesOK /\ OwnInv /\ [Next]_vars =>
        \A r \in Reqs, u \in Users :
          req'[r] # req[r] /\ req[r].op # None /\ u # req[r].user
            => BelongingsOf(u)' = BelongingsOf(u)
  BY <1>1
<1>3. QED
  BY <1>2, OwnInvariance, PTL DEF Spec, OthersUntouched

(************************ what a request relies on *************************)

\* From here on: what a request has checked and still relies on when it writes, the
\* day of a selection and the slot it takes, the activation moment of a partner
\* offer, the screenshots a delete has listed. The first holds through any
\* interleaving, the slots up to one for every request, the others for requests
\* that run one at a time.

(***************************** which step does what ************************)

\* A step of a request makes new rows, or drops rows, or is the edit of a menu row.
LEMMA ProceedRows ==
  ASSUME NEW r \in Reqs, Proceed(r)
  PROVE  /\ clients' = clients
         /\ \A y \in periods' : y \in periods \/ y.id \notin spent
         /\ \A y \in offers' : y \in offers \/ y.id \notin spent \/ UpdateOffer(r)
         /\ selections' \subseteq selections \/ InsertSelectionRow(r)
<1>1. CASE ValidateNewPeriod(r) \/ InsertPeriod(r) \/ ListMenu(r) \/ DropPeriod(r)
  BY <1>1 DEF ValidateNewPeriod, InsertPeriod, ListMenu, DropPeriod, Abort, Reads, tables,
       InsertOfferPeriod, DeletePeriodRow
<1>2. CASE InsertOffer(r) \/ UpdateOffer(r) \/ RememberAlias(r)
  BY <1>2 DEF InsertOffer, UpdateOffer, RememberAlias, Abort, Reads, tables,
       InsertCategoryOffer, UpdateCategoryOfferForUser, UpsertAlias
<1>3. CASE DropSelection(r) \/ DropOffer(r) \/ ValidateSelection(r)
  BY <1>3 DEF DropSelection, DropOffer, ValidateSelection, Abort, Reads, tables,
       DeleteSelectionByOffer, DeleteOfferRow
<1>4. CASE InsertSelectionRow(r)
  BY <1>4 DEF InsertSelectionRow, Abort, Reads, tables, InsertSelection
<1>5. CASE InsertPartner(r) \/ ReadPreviousActivation(r) \/ UpdatePartner(r) \/ DropPartner(r)
  BY <1>5 DEF InsertPartner, ReadPreviousActivation, UpdatePartner, DropPartner, Abort, Reads,
       tables, InsertPartnerOffer, UpdatePartnerOfferForUser, DeletePartnerRow, KeepMenu
<1>6. CASE StoreRow(r) \/ CheckAttachment(r) \/ AttachNext(r) \/ Unlink(r)
  BY <1>6 DEF StoreRow, CheckAttachment, AttachNext, Unlink, Abort, Reads, tables,
       InsertAttachment, RemoveFile, InsertLink, DeleteLinks, KeepRecords, KeepMenu
<1>7. CASE ListEvidence(r) \/ DropLinks(r) \/ Reclaim(r) \/ RemoveAttachmentFile(r)
  BY <1>7 DEF ListEvidence, DropLinks, Reclaim, RemoveAttachmentFile, Reads, tables,
       DeleteLinks, DeleteAttachmentRow, RemoveFile, KeepRecords, KeepMenu
<1>8. QED
  BY <1>1, <1>2, <1>3, <1>4, <1>5, <1>6, <1>7 DEF Proceed

\* A call that arrives writes no row.
LEMMA ArriveRows ==
  ASSUME NotesOK, OwnInv, NEW r \in Reqs, Arrive(r)
  PROVE  UNCHANGED <<clients, periods, offers, selections, partners, attachments, links>>
<1>1. CASE Save(r)
  BY <1>1 DEF Save, WriteFile, KeepRecords, KeepMenu
<1>2. CASE ~ Save(r)
  BY <1>2, Begins DEF Begin, Reads, tables
<1>3. QED
  BY <1>1, <1>2

\* A call of CreateSelection goes on by its check or its insert.
LEMMA SelectionGoesOn ==
  ASSUME NotesOK, OwnInv, NEW r \in Reqs, Proceed(r), req'[r].op = "CreateSelection"
  PROVE  /\ In(r, "CreateSelection", "count") /\ Goto(r, "insert") /\ Reads
         /\ SelectionAllowed(req[r].seen, Cardinality(RegularSelections(req[r].target)))
<1>0. req \in [Reqs -> RequestNote] /\ req[r] \in RequestNote
  BY DEF NotesOK, TypeOK
<1>1. None # "CreateSelection" /\ Blank.op = None
  BY ServiceAssumption DEF Multi, Blank
<1>2. req[r].op = "CreateSelection" /\ req[r].at \in {"count", "insert"}
  BY <1>0, <1>1, GoesOn DEF OwnInv, NotesMine, NoteShape
<1>3. ValidateSelection(r) \/ InsertSelectionRow(r)
  BY <1>2 DEF Proceed, ValidateNewPeriod, InsertPeriod, ListMenu, DropPeriod, InsertOffer,
       UpdateOffer, RememberAlias, DropSelection, DropOffer, InsertPartner,
       ReadPreviousActivation, UpdatePartner, DropPartner, StoreRow, CheckAttachment, AttachNext,
       Unlink, ListEvidence, DropLinks, Reclaim, RemoveAttachmentFile, In
<1>4. ~ Finish(r)
  BY <1>0, <1>1 DEF Finish
<1>5. ~ InsertSelectionRow(r)
  BY <1>4 DEF InsertSelectionRow, Abort
<1>6. QED
  BY <1>3, <1>4, <1>5 DEF ValidateSelection

(********************************* the date ********************************)

\* The day lies in the period of the menu row i, if both are there.
Within(i, d) ==
  \A o \in offers, p \in periods : o.id = i /\ o.period = p.id => Contains(p, d)

\* The day of a call whose context allowed it.
Dated(q) ==
  q.op = "CreateSelection" /\ (q.at = "insert" \/ q.seen.dated)
    => q.offer \in OfferIds \cap spent /\ (q.seen.backfill \/ Within(q.offer, q.day))

NotesDated == \A r \in Reqs : Dated(req[r])

\* Menu rows and periods do not move.
LEMMA WithinAges ==
  ASSUME RowsReferenced, Keys, Descent, NEW i, i \in spent, NEW d, Within(i, d)
  PROVE  Within(i, d)'
<1>1. ASSUME NEW o \in offers', NEW p \in periods', o.id = i, o.period = p.id
      PROVE  Contains(p, d)
  <2>1. PICK x \in offers : x.id = i /\ x.period = p.id
    BY <1>1 DEF Descent
  <2>2. p.id \in spent
    BY <2>1 DEF RowsReferenced, Keys
  <2>3. PICK y \in periods : y.id = p.id /\ y.from = p.from /\ y.to = p.to
    BY <2>2 DEF Descent
  <2>4. QED
    BY <2>1, <2>3 DEF Within, Contains
<1>2. QED
  BY <1>1 DEF Within

\* What a call of CreateSelection has at hand after a step.
LEMMA SelectionNotes ==
  ASSUME NotesOK, OwnInv, [Next]_vars, NEW r \in Reqs, req'[r].op = "CreateSelection"
  PROVE  \/ req'[r] = req[r]
         \/ CreateSelection(r)
         \/ /\ In(r, "CreateSelection", "count") /\ Goto(r, "insert") /\ Reads
            /\ SelectionAllowed(req[r].seen, Cardinality(RegularSelections(req[r].target)))
<1>0. req \in [Reqs -> RequestNote] /\ None # "CreateSelection" /\ Blank.op = None
  BY ServiceAssumption DEF NotesOK, TypeOK, Multi, Blank
<1>1. CASE OneStatement \/ UNCHANGED vars
  BY <1>1 DEF OneStatement, CreateBankClient, UpdateBankClient, DeleteBankClient,
       SetPeriodMaxOverride, DeleteSelection, EndOrReopenPartnerOffer, vars
<1>2. ASSUME Restart PROVE FALSE
  BY <1>0, <1>2 DEF Restart
<1>3. ASSUME NEW s \in Reqs, Arrive(s) \/ Proceed(s), s # r
      PROVE  req'[r] = req[r]
  BY <1>3, OneMoves
<1>4. ASSUME Proceed(r)
      PROVE  /\ In(r, "CreateSelection", "count") /\ Goto(r, "insert") /\ Reads
             /\ SelectionAllowed(req[r].seen, Cardinality(RegularSelections(req[r].target)))
  BY <1>4, SelectionGoesOn
<1>5. ASSUME Arrive(r)
      PROVE  CreateSelection(r)
  <2>1. \A q : Begin(r, q) => req'[r] = q
    BY <1>0 DEF Begin
  <2>2. CASE CreateOfferPeriod(r) \/ DeleteOfferPeriod(r)
    BY <2>1, <2>2 DEF CreateOfferPeriod, DeleteOfferPeriod, Blank
  <2>3. CASE CreateCategoryOffer(r)
    BY <2>1, <2>3 DEF CreateCategoryOffer, Blank
  <2>4. CASE UpdateCategoryOffer(r) \/ DeleteCategoryOffer(r)
    BY <2>1, <2>4 DEF UpdateCategoryOffer, DeleteCategoryOffer, Blank
  <2>7. CASE Attach(r)
    <3>1. PICK u \in Users, p \in PeriodIds \cup PartnerIds, a \in AttachmentIds :
            Begin(r, [Blank EXCEPT !.op = AttachOp(p), !.at = "recheck", !.user = u, !.target = p,
                        !.check = {a}, !.attach = {a}])
      BY <2>7 DEF Attach
    <3>2. QED
      BY <2>1, <3>1 DEF Blank, AttachOp
  <2>8. CASE Detach(r)
    <3>1. PICK u \in Users, p \in PeriodIds \cup PartnerIds, a \in AttachmentIds :
            Begin(r, [Blank EXCEPT !.op = DetachOp(p), !.at = "unlink", !.user = u, !.target = p,
                        !.reclaim = {a}])
      BY <2>8 DEF Detach
    <3>2. QED
      BY <2>1, <3>1 DEF Blank, DetachOp
  <2>5. CASE CreatePartnerOffer(r) \/ UpdatePartnerOffer(r) \/ DeletePartnerOffer(r)
    BY <2>1, <2>5 DEF CreatePartnerOffer, UpdatePartnerOffer, DeletePartnerOffer, Blank
  <2>6. ASSUME Save(r) PROVE FALSE
    BY <1>0, <2>6 DEF Save, Blank
  <2>9. QED
    BY <1>5, <2>2, <2>3, <2>4, <2>5, <2>6, <2>7, <2>8 DEF Arrive
<1>6. QED
  BY <1>1, <1>2, <1>3, <1>4, <1>5 DEF Next

\* Where a selection comes from.
LEMMA NewSelections ==
  ASSUME NotesOK, OwnInv, [Next]_vars, NEW s \in selections'
  PROVE  \/ s \in selections
         \/ \E r \in Reqs : /\ In(r, "CreateSelection", "insert") /\ InsertSelectionRow(r)
                           /\ s.offer = req[r].offer /\ s.day = req[r].day
<1>1. CASE OneStatement
  BY <1>1 DEF OneStatement, CreateBankClient, UpdateBankClient, DeleteBankClient,
       SetPeriodMaxOverride, DeleteSelection, EndOrReopenPartnerOffer, InsertBankClient,
       UpdateBankClientForUser, DeleteBankClientForUser, SetOfferPeriodMaxOverride,
       DeleteSelectionForUser, SetPartnerEnded, KeepMenu
<1>2. CASE Restart \/ UNCHANGED vars
  BY <1>2 DEF Restart, Reads, vars, tables
<1>3. ASSUME NEW r \in Reqs, Arrive(r)
      PROVE  s \in selections
  BY <1>3, ArriveRows
<1>4. ASSUME NEW r \in Reqs, Proceed(r), s \notin selections
      PROVE  /\ In(r, "CreateSelection", "insert") /\ InsertSelectionRow(r)
             /\ s.offer = req[r].offer /\ s.day = req[r].day
  <2>1. InsertSelectionRow(r)
    BY <1>4, ProceedRows
  <2>2. PICK i : InsertSelection(i, req[r].offer, req[r].day)
    BY <1>4, <2>1 DEF InsertSelectionRow, Abort, Reads, tables
  <2>3. s = [id |-> i, offer |-> req[r].offer, day |-> req[r].day]
    BY <1>4, <2>2 DEF InsertSelection
  <2>4. QED
    BY <2>1, <2>3 DEF InsertSelectionRow
<1>5. QED
  BY <1>1, <1>2, <1>3, <1>4 DEF Next

LEMMA NotesStayDated ==
  ASSUME NotesOK, OwnInv, NotesDated, [Next]_vars
  PROVE  NotesDated'
<1>1. RowsReferenced /\ Keys /\ Descent /\ req \in [Reqs -> RequestNote]
  BY StepAges DEF NotesOK, TypeOK, OwnInv, Aging
<1>2. ASSUME NEW q, Dated(q) PROVE Dated(q)'
  BY <1>1, <1>2, WithinAges DEF Dated, Descent, Ids
<1>5. ASSUME NEW r \in Reqs, req'[r].op = "CreateSelection"
      PROVE  Dated(req[r])'
  <2>1. PICK q : q = req'[r]
    OBVIOUS
  <2>2. Dated(q)
    <3>1. CASE req'[r] = req[r]
      BY <2>1, <3>1 DEF NotesDated
    <3>2. CASE CreateSelection(r)
      <4>1. PICK u \in Users, o \in OfferIds, d \in Days, b \in Backfills :
              /\ OfferForUser(o, u)
              /\ Begin(r, [Blank EXCEPT !.op = "CreateSelection", !.at = "count", !.user = u,
                             !.offer = o, !.target = OfferRowOf(o).period, !.day = d,
                             !.seen = ContextOf(o, d, b)])
        BY <3>2 DEF CreateSelection
      <4>2. /\ q.at = "count" /\ q.offer = o /\ q.day = d /\ q.seen = ContextOf(o, d, b)
        BY <1>1, <2>1, <4>1 DEF Begin, Blank
      <4>0. ContextOf(o, d, b).backfill = b
        BY DEF ContextOf
      <4>3. ASSUME ContextOf(o, d, b).dated, ~ b
            PROVE  o \in spent /\ Within(o, d)
        <5>2. Contains(CHOOSE x \in periods : x.id = OfferRowOf(o).period, d)
          BY <4>3 DEF ContextOf
        <5>3. OfferRowOf(o) \in offers /\ OfferRowOf(o).id = o
          BY <4>1 DEF OfferForUser, OfferRowOf
        <5>4. \A x \in offers : x.id = o => x = OfferRowOf(o)
          BY <1>1, <5>3 DEF Keys
        <5>5. \A p \in periods : p.id = OfferRowOf(o).period =>
                p = CHOOSE x \in periods : x.id = OfferRowOf(o).period
          BY <1>1 DEF Keys
        <5>6. QED
          BY <1>1, <5>2, <5>3, <5>4, <5>5 DEF Within, Keys
      <4>5. o \in spent
        BY <1>1, <4>1 DEF OfferForUser, Keys
      <4>4. QED
        BY <4>0, <4>2, <4>3, <4>5 DEF Dated
    <3>3. CASE /\ In(r, "CreateSelection", "count") /\ Goto(r, "insert")
               /\ SelectionAllowed(req[r].seen, Cardinality(RegularSelections(req[r].target)))
      <4>1. q.offer = req[r].offer /\ q.day = req[r].day /\ q.seen = req[r].seen
        BY <1>1, <2>1, <3>3 DEF Goto, RequestNote
      <4>2. req[r].seen.dated
        BY <3>3 DEF SelectionAllowed
      <4>3. QED
        BY <3>3, <4>1, <4>2 DEF NotesDated, Dated, In
    <3>4. QED
      BY <1>5, <3>1, <3>2, <3>3, SelectionNotes
  <2>3. Dated(q)'
    BY <1>2, <2>2
  <2>4. QED
    BY <2>1, <2>3
<1>6. \A r \in Reqs : Dated(req[r])'
  BY <1>5 DEF Dated
<1>7. QED
  BY <1>6 DEF NotesDated

\* The selections outside W are dated, and those outside V after a step in which
\* every call that overrides the check inserts into V.
LEMMA DatesStay ==
  ASSUME NotesOK, OwnInv, NotesDated, [Next]_vars, NEW W, NEW V, W \subseteq V,
         \A s \in selections : s.id \in W \/ Within(s.offer, s.day),
         \A s \in selections' \ selections : (\E r \in Reqs : Waives(r)) => s.id \in V
  PROVE  \A s \in selections' : s.id \in V \/ Within(s.offer, s.day)'
<1> SUFFICES ASSUME NEW s \in selections', s.id \notin V PROVE Within(s.offer, s.day)'
  OBVIOUS
<1>1. RowsReferenced /\ Keys /\ Descent /\ req \in [Reqs -> RequestNote]
  BY StepAges DEF NotesOK, TypeOK, OwnInv, Aging
<1>2. s.offer \in spent /\ Within(s.offer, s.day)
  <2>1. CASE s \in selections
    BY <1>1, <2>1 DEF RowsReferenced, Keys
  <2>2. CASE s \notin selections
    <3>1. PICK r \in Reqs : /\ In(r, "CreateSelection", "insert") /\ InsertSelectionRow(r)
                            /\ s.offer = req[r].offer /\ s.day = req[r].day
      BY <2>2, NewSelections
    <3>2. req'[r] # req[r]
      <4>1. req'[r] = Blank
        BY <1>1, <3>1 DEF InsertSelectionRow, Abort, Finish
      <4>2. Blank.at # "insert"
        BY DEF Blank
      <4>3. QED
        BY <3>1, <4>1, <4>2 DEF In
    <3>3. ~ req[r].seen.backfill
      BY <2>2, <3>1, <3>2 DEF Waives
    <3>4. QED
      BY <3>1, <3>3 DEF NotesDated, Dated, In
  <2>3. QED
    BY <2>1, <2>2
<1>3. PICK i, d : i = s.offer /\ d = s.day
  OBVIOUS
<1>4. QED
  BY <1>1, <1>2, <1>3, WithinAges

\* Where the instance has no override, no call has one.
NoneWaives == \A r \in Reqs : req[r].op = "CreateSelection" => ~ req[r].seen.backfill

LEMMA NoneWaivesStays ==
  ASSUME Backfills \subseteq {FALSE}, NotesOK, OwnInv, NoneWaives, [Next]_vars
  PROVE  NoneWaives'
<1> SUFFICES ASSUME NEW r \in Reqs, req'[r].op = "CreateSelection"
             PROVE  ~ req'[r].seen.backfill
  BY DEF NoneWaives
<1>1. req \in [Reqs -> RequestNote]
  BY DEF NotesOK, TypeOK
<1>2. CASE req'[r] = req[r]
  BY <1>2 DEF NoneWaives
<1>3. CASE In(r, "CreateSelection", "count") /\ Goto(r, "insert")
  BY <1>1, <1>3 DEF NoneWaives, In, Goto, RequestNote
<1>4. CASE CreateSelection(r)
  <2>1. PICK u \in Users, o \in OfferIds, d \in Days, b \in Backfills :
          Begin(r, [Blank EXCEPT !.op = "CreateSelection", !.at = "count", !.user = u,
                      !.offer = o, !.target = OfferRowOf(o).period, !.day = d,
                      !.seen = ContextOf(o, d, b)])
    BY <1>4 DEF CreateSelection
  <2>2. req'[r].seen = ContextOf(o, d, b)
    BY <1>1, <2>1 DEF Begin, Blank
  <2>3. ContextOf(o, d, b).backfill = b /\ b = FALSE
    BY DEF ContextOf
  <2>4. QED
    BY <2>2, <2>3
<1>5. QED
  BY <1>2, <1>3, <1>4, SelectionNotes

\* Invariant 2: where no call overrides it, a selection is dated inside the period
\* of its menu row, however requests interleave.
THEOREM SelectionsStayDated ==
  ASSUME Backfills \subseteq {FALSE}
  PROVE  Spec => []SelectionsDated
<1> DEFINE AllDated == \A s \in selections : s.id \in {} \/ Within(s.offer, s.day)
           Inv == NotesDated /\ NoneWaives /\ AllDated
<1>1. Init => Inv
  <2>1. None # "CreateSelection" /\ Blank.op = None
    BY ServiceAssumption DEF Multi, Blank
  <2>2. QED
    BY <2>1 DEF Init, StoreInit, NotesDated, NoneWaives, Dated
<1>2. NotesOK /\ OwnInv /\ Inv /\ [Next]_vars => Inv'
  <2> SUFFICES ASSUME NotesOK, OwnInv, Inv, [Next]_vars PROVE Inv'
    OBVIOUS
  <2>1. NotesDated' /\ NoneWaives'
    BY NotesStayDated, NoneWaivesStays
  <2>2. \A r \in Reqs : ~ Waives(r)
    BY DEF NoneWaives, Waives, In
  <2>3. \A s \in selections' : s.id \in {} \/ Within(s.offer, s.day)'
    <3>1. \A s \in selections : s.id \in {} \/ Within(s.offer, s.day)
      OBVIOUS
    <3>2. \A s \in selections' \ selections : (\E r \in Reqs : Waives(r)) => s.id \in {}
      BY <2>2
    <3>3. {} \subseteq {}
      OBVIOUS
    <3> HIDE DEF AllDated
    <3>4. QED
      BY <3>1, <3>2, <3>3, DatesStay
  <2>4. QED
    BY <2>1, <2>3
<1>3. Inv => SelectionsDated
  BY DEF SelectionsDated, Within
<1>4. QED
  BY <1>1, <1>2, <1>3, OwnInvariance, PTL DEF Spec

(********************************* the slots *******************************)

\* Goroutines run the operations of the instance.
OnlyCalled == \A r \in Reqs : req[r].op \in Ops \cup {None}

\* The step each call begins with.
Starts ==
  {<<"CreateOfferPeriod", "ranges">>, <<"DeleteOfferPeriod", "evidence">>,
   <<"CreateCategoryOffer", "insert">>, <<"UpdateCategoryOffer", "update">>,
   <<"DeleteCategoryOffer", "selections">>, <<"CreateSelection", "count">>,
   <<"CreatePartnerOffer", "check">>, <<"CreatePartnerOffer", "insert">>,
   <<"UpdatePartnerOffer", "prev">>, <<"DeletePartnerOffer", "evidence">>, <<"Save", "store">>,
   <<"AttachScreenshot", "recheck">>, <<"AttachPartner", "recheck">>,
   <<"DetachScreenshot", "unlink">>, <<"DetachPartner", "unlink">>}

LEMMA CallsAreCalled ==
  ASSUME NEW r \in Reqs, Arrive(r), req \in [Reqs -> RequestNote]
  PROVE  req'[r].op \in Ops /\ <<req'[r].op, req'[r].at>> \in Starts
<1>1. \A q : Begin(r, q) => req'[r] = q
  BY DEF Begin
<1>2. \A op : Call(r, op) => op \in Ops
  BY DEF Call
<1>3. CASE CreateOfferPeriod(r)
  <2>1. req'[r].op = "CreateOfferPeriod" /\ req'[r].at = "ranges" /\ req'[r].op \in Ops
    BY <1>3 DEF CreateOfferPeriod, Begin, Call, Blank
  <2>2. QED
    BY <2>1 DEF Starts
<1>12. CASE DeleteOfferPeriod(r)
  <2>1. req'[r].op = "DeleteOfferPeriod" /\ req'[r].at = "evidence" /\ req'[r].op \in Ops
    BY <1>12 DEF DeleteOfferPeriod, Begin, Call, Blank
  <2>2. QED
    BY <2>1 DEF Starts
<1>4. CASE CreateCategoryOffer(r)
  <2>1. req'[r].op = "CreateCategoryOffer" /\ req'[r].at = "insert" /\ req'[r].op \in Ops
    BY <1>4 DEF CreateCategoryOffer, Begin, Call, Blank
  <2>2. QED
    BY <2>1 DEF Starts
<1>5. CASE UpdateCategoryOffer(r)
  <2>1. req'[r].op = "UpdateCategoryOffer" /\ req'[r].at = "update" /\ req'[r].op \in Ops
    BY <1>5 DEF UpdateCategoryOffer, Begin, Call, Blank
  <2>2. QED
    BY <2>1 DEF Starts
<1>15. CASE DeleteCategoryOffer(r)
  <2>1. req'[r].op = "DeleteCategoryOffer" /\ req'[r].at = "selections" /\ req'[r].op \in Ops
    BY <1>15 DEF DeleteCategoryOffer, Begin, Call, Blank
  <2>2. QED
    BY <2>1 DEF Starts
<1>6. CASE CreateSelection(r)
  <2>1. req'[r].op = "CreateSelection" /\ req'[r].at = "count" /\ req'[r].op \in Ops
    BY <1>6 DEF CreateSelection, Begin, Call, Blank
  <2>2. QED
    BY <2>1 DEF Starts
<1>7. CASE CreatePartnerOffer(r)
  <2>1. req'[r].op = "CreatePartnerOffer" /\ req'[r].at \in {"check", "insert"} /\ req'[r].op \in Ops
    BY <1>7 DEF CreatePartnerOffer, Begin, Call, When, Blank
  <2>2. QED
    BY <2>1 DEF Starts
<1>13. CASE UpdatePartnerOffer(r)
  <2>1. req'[r].op = "UpdatePartnerOffer" /\ req'[r].at = "prev" /\ req'[r].op \in Ops
    BY <1>13 DEF UpdatePartnerOffer, Begin, Call, Blank
  <2>2. QED
    BY <2>1 DEF Starts
<1>14. CASE DeletePartnerOffer(r)
  <2>1. req'[r].op = "DeletePartnerOffer" /\ req'[r].at = "evidence" /\ req'[r].op \in Ops
    BY <1>14 DEF DeletePartnerOffer, Begin, Call, Blank
  <2>2. QED
    BY <2>1 DEF Starts
<1>8. CASE Save(r)
  <2>1. req'[r].op = "Save" /\ req'[r].at = "store" /\ req'[r].op \in Ops
    BY <1>8 DEF Save, Call, Blank
  <2>2. QED
    BY <2>1 DEF Starts
<1>9. CASE Attach(r)
  <2>1. PICK u \in Users, p \in PeriodIds \cup PartnerIds, a \in AttachmentIds :
          /\ Call(r, AttachOp(p))
          /\ Begin(r, [Blank EXCEPT !.op = AttachOp(p), !.at = "recheck", !.user = u, !.target = p,
                         !.check = {a}, !.attach = {a}])
    BY <1>9 DEF Attach
  <2>2. req'[r].op = AttachOp(p) /\ req'[r].at = "recheck" /\ req'[r].op \in Ops
    BY <1>1, <1>2, <2>1 DEF Blank
  <2>3. QED
    BY <2>2 DEF Starts, AttachOp
<1>10. CASE Detach(r)
  <2>1. PICK u \in Users, p \in PeriodIds \cup PartnerIds, a \in AttachmentIds :
          /\ Call(r, DetachOp(p))
          /\ Begin(r, [Blank EXCEPT !.op = DetachOp(p), !.at = "unlink", !.user = u,
                         !.target = p, !.reclaim = {a}])
    BY <1>10 DEF Detach
  <2>2. req'[r].op = DetachOp(p) /\ req'[r].at = "unlink" /\ req'[r].op \in Ops
    BY <1>1, <1>2, <2>1 DEF Blank
  <2>3. QED
    BY <2>2 DEF Starts, DetachOp
<1>11. QED
  BY <1>3, <1>4, <1>5, <1>6, <1>7, <1>8, <1>9, <1>10, <1>12, <1>13, <1>14, <1>15 DEF Arrive

LEMMA OnlyCalledStays ==
  ASSUME NotesOK, OnlyCalled, [Next]_vars
  PROVE  OnlyCalled'
<1>0. req \in [Reqs -> RequestNote] /\ Blank.op = None
  BY DEF NotesOK, TypeOK, Blank
<1>1. CASE OneStatement \/ UNCHANGED vars
  BY <1>1 DEF OneStatement, CreateBankClient, UpdateBankClient, DeleteBankClient,
       SetPeriodMaxOverride, DeleteSelection, EndOrReopenPartnerOffer, vars, OnlyCalled
<1>2. CASE Restart
  BY <1>0, <1>2 DEF Restart, OnlyCalled
<1>3. ASSUME NEW r \in Reqs, Arrive(r) PROVE OnlyCalled'
  BY <1>0, <1>3, CallsAreCalled, OneMoves DEF OnlyCalled
<1>4. ASSUME NEW r \in Reqs, Proceed(r) PROVE OnlyCalled'
  BY <1>0, <1>4, GoesOn DEF OnlyCalled
<1>5. QED
  BY <1>1, <1>2, <1>3, <1>4 DEF Next

\* Nobody changes a tier, a period's slot count or the kind of a menu row.
LimitsFixed == Ops \cap {"UpdateBankClient", "SetPeriodMaxOverride", "UpdateCategoryOffer"} = {}

LEMMA RowsAreFixed ==
  ASSUME LimitsFixed, NotesOK, OwnInv, OnlyCalled, [Next]_vars
  PROVE  /\ \A y \in clients' : y.id \in spent => y \in clients
         /\ \A y \in periods' : y.id \in spent => y \in periods
         /\ \A y \in offers' : y.id \in spent => y \in offers
<1>1. CASE CreateBankClient
  BY <1>1 DEF CreateBankClient, InsertBankClient
<1>2. CASE DeleteBankClient \/ DeleteSelection \/ EndOrReopenPartnerOffer
  BY <1>2 DEF DeleteBankClient, DeleteBankClientForUser, DeleteSelection, DeleteSelectionForUser,
       EndOrReopenPartnerOffer, SetPartnerEnded, KeepMenu
<1>3. ~ UpdateBankClient /\ ~ SetPeriodMaxOverride
  BY DEF LimitsFixed, UpdateBankClient, SetPeriodMaxOverride
<1>4. CASE Restart \/ UNCHANGED vars
  BY <1>4 DEF Restart, Reads, vars, tables
<1>5. ASSUME NEW r \in Reqs, Arrive(r)
      PROVE  clients' = clients /\ periods' = periods /\ offers' = offers
  BY <1>5, ArriveRows
<1>6. ASSUME NEW r \in Reqs, Proceed(r)
      PROVE  /\ clients' = clients
             /\ \A y \in periods' : y \in periods \/ y.id \notin spent
             /\ \A y \in offers' : y \in offers \/ y.id \notin spent
  <2>1. ~ UpdateOffer(r)
    BY ServiceAssumption DEF LimitsFixed, OnlyCalled, UpdateOffer, In, Multi
  <2>2. QED
    BY <1>6, <2>1, ProceedRows
<1>7. QED
  BY <1>1, <1>2, <1>3, <1>4, <1>5, <1>6 DEF Next, OneStatement

\* So the limit of a period that was there stays.
LEMMA LimitStays ==
  ASSUME LimitsFixed, NotesOK, NotesOK', OwnInv, OwnInv', OnlyCalled, [Next]_vars,
         NEW p \in periods', p.id \in spent
  PROVE  p \in periods /\ EffectiveMax(p.id)' = EffectiveMax(p.id)
<1>1. /\ p \in periods
      /\ \A y \in clients' : y.id \in spent => y \in clients
  BY RowsAreFixed
<1>2. PICK c \in clients' : c.id = p.client
  BY DEF NotesOK, RowsReferenced
<1>3. c \in clients
  BY <1>1, <1>2 DEF NotesOK, OwnInv, Keys, RowsReferenced
<1>4. /\ (CHOOSE x \in periods : x.id = p.id) = p
      /\ (CHOOSE x \in periods' : x.id = p.id) = p
  BY <1>1 DEF OwnInv, Keys
<1>5. /\ (CHOOSE x \in clients : x.id = p.client) = c
      /\ (CHOOSE x \in clients' : x.id = p.client) = c
  BY <1>2, <1>3 DEF OwnInv, Keys
<1>6. /\ EffectiveMax(p.id) = CASE p.override # None -> p.override
                               [] p.override = None /\ c.tier # None -> TierMax[c.tier]
                               [] OTHER -> None
      /\ EffectiveMax(p.id)' = CASE p.override # None -> p.override
                                [] p.override = None /\ c.tier # None -> TierMax[c.tier]
                                [] OTHER -> None
  BY <1>4, <1>5 DEF EffectiveMax
<1>7. QED
  BY <1>1, <1>6

LEMMA FixedIsSteady ==
  ASSUME LimitsFixed, NotesOK, NotesOK', OwnInv, OwnInv', OnlyCalled, [Next]_vars, NEW i
  PROVE  ~ Shifts(i)
<1>1. ASSUME NEW x \in periods, NEW y \in periods', x.id = i, y.id = i
      PROVE  EffectiveMax(i)' = EffectiveMax(i)
  <2>1. i \in spent
    BY <1>1 DEF OwnInv, Keys
  <2>2. EffectiveMax(y.id)' = EffectiveMax(y.id)
    BY <1>1, <2>1, LimitStays
  <2>3. QED
    BY <1>1, <2>2
<1>2. ASSUME NEW x \in offers, NEW y \in offers', x.id = y.id
      PROVE  x = y
  BY <1>2, RowsAreFixed DEF OwnInv, Keys
<1>3. QED
  BY <1>1, <1>2 DEF Shifts

\* The rows that a call of CreateSelection has read: it selects a row of the menu
\* of the period whose slots it counts.
Placed(q) ==
  q.op = "CreateSelection" =>
    /\ q.offer \in spent \cap OfferIds /\ q.target \in spent \cap PeriodIds
    /\ \A o \in offers : o.id = q.offer => o.period = q.target

\* What it has read of them is still so.
Told(q) ==
  q.op = "CreateSelection" =>
    /\ \A o \in offers : o.id = q.offer => o.kind = q.seen.kind
    /\ \A p \in periods : p.id = q.target => EffectiveMax(p.id) = q.seen.limit

\* The calls that were granted a slot of the period and have yet to insert.
Granted(p) ==
  {r \in Reqs : In(r, "CreateSelection", "insert") /\ req[r].target = p
                  /\ req[r].seen.kind = "regular"}

SlotsBase == IsFiniteSet(selections) /\ \A r \in Reqs : Placed(req[r])

ToldOf(i) == \A r \in Reqs : req[r].target = i => Told(req[r])

\* A slot of the period is taken, or granted: the check saw fewer taken than there
\* are, and at most n more are granted beside it.
Bounded(i, n) ==
  /\ ToldOf(i)
  /\ \A p \in periods : p.id = i /\ EffectiveMax(i) # None =>
       Cardinality(RegularSelections(i)) + Cardinality(Granted(i)) <= EffectiveMax(i) + n

LEMMA PlacedAges ==
  ASSUME NotesOK, NotesOK', OwnInv, OwnInv', [Next]_vars, NEW q, Placed(q)
  PROVE  Placed(q)'
<1>1. Descent
  BY StepAges DEF Aging
<1>2. QED
  BY <1>1 DEF Placed, Descent, Ids

LEMMA ToldAges ==
  ASSUME NotesOK, NotesOK', OwnInv, OwnInv', [Next]_vars,
         NEW q, Placed(q), Told(q), ~ Shifts(q.target)
  PROVE  Told(q)'
<1>1. Descent
  BY StepAges DEF Aging
<1>2. SUFFICES ASSUME q.op = "CreateSelection" PROVE Told(q)'
  BY DEF Told
<1>3. ASSUME NEW o \in offers', o.id = q.offer
      PROVE  o.kind = q.seen.kind
  <2>1. PICK x \in offers : x.id = o.id
    BY <1>1, <1>2, <1>3 DEF Placed, Descent
  <2>2. x.period = q.target /\ x.kind = q.seen.kind
    BY <1>2, <1>3, <2>1 DEF Placed, Told
  <2>3. QED
    BY <1>3, <2>1, <2>2 DEF Shifts
<1>4. ASSUME NEW p \in periods', p.id = q.target
      PROVE  EffectiveMax(p.id)' = q.seen.limit
  <2>1. PICK x \in periods : x.id = p.id
    BY <1>1, <1>2, <1>4 DEF Placed, Descent
  <2>2. EffectiveMax(x.id) = q.seen.limit
    BY <1>2, <1>4, <2>1 DEF Told
  <2>3. EffectiveMax(q.target)' = EffectiveMax(q.target)
    BY <1>4, <2>1 DEF Shifts
  <2>4. QED
    BY <1>4, <2>1, <2>2, <2>3
<1>5. QED
  BY <1>3, <1>4 DEF Told

LEMMA ReadingIsCurrent ==
  ASSUME NotesOK, OwnInv, NEW r \in Reqs, CreateSelection(r)
  PROVE  \E q : /\ req'[r] = q /\ Placed(q) /\ Told(q) /\ q.at = "count" /\ UNCHANGED tables
<1>1. PICK u \in Users, o \in OfferIds, d \in Days, b \in Backfills :
        /\ OfferForUser(o, u)
        /\ Begin(r, [Blank EXCEPT !.op = "CreateSelection", !.at = "count", !.user = u,
                       !.offer = o, !.target = OfferRowOf(o).period, !.day = d,
                       !.seen = ContextOf(o, d, b)])
  BY DEF CreateSelection
<1> DEFINE q == [Blank EXCEPT !.op = "CreateSelection", !.at = "count", !.user = u,
                   !.offer = o, !.target = OfferRowOf(o).period, !.day = d,
                   !.seen = ContextOf(o, d, b)]
<1>2. /\ q.at = "count" /\ q.offer = o /\ q.target = OfferRowOf(o).period
      /\ q.seen = ContextOf(o, d, b)
  BY DEF Blank
<1>3. req'[r] = q /\ UNCHANGED tables
  BY <1>1 DEF Begin, Reads, NotesOK, TypeOK
<1> HIDE DEF q
<1>4. OfferRowOf(o) \in offers /\ OfferRowOf(o).id = o
  BY <1>1 DEF OfferForUser, OfferRowOf
<1>5. \A x \in offers : x.id = o => x = OfferRowOf(o)
  BY <1>4 DEF OwnInv, Keys
<1>6. \E p \in periods : p.id = OfferRowOf(o).period
  BY <1>4 DEF NotesOK, RowsReferenced
<1>7. OfferRowOf(o).period \in PeriodIds /\ o \in spent /\ OfferRowOf(o).period \in spent
  BY <1>4, <1>6 DEF NotesOK, TypeOK, StoreTypeOK, OfferRow, OwnInv, Keys
<1>8. /\ q.seen.kind = OfferRowOf(o).kind
      /\ q.seen.limit = EffectiveMax(OfferRowOf(o).period)
  BY <1>2 DEF ContextOf
<1>9. Placed(q) /\ Told(q)
  BY <1>2, <1>5, <1>7, <1>8 DEF Placed, Told
<1>10. QED
  BY <1>2, <1>3, <1>9

\* Each call of CreateSelection after a step: it was one before, or has just read.
LEMMA Readings ==
  ASSUME NotesOK, OwnInv, SlotsBase, [Next]_vars, NEW r \in Reqs, req'[r].op = "CreateSelection"
  PROVE  /\ Placed(req'[r])
         /\ ToldOf(req'[r].target) => Told(req'[r])
<1>1. CASE req'[r] = req[r]
  BY <1>1 DEF SlotsBase, ToldOf
<1>2. CASE CreateSelection(r)
  BY <1>2, ReadingIsCurrent
<1>3. CASE In(r, "CreateSelection", "count") /\ Goto(r, "insert")
  <2>1. PICK q : q = req'[r]
    OBVIOUS
  <2>2. /\ q.op = req[r].op /\ q.offer = req[r].offer /\ q.target = req[r].target
        /\ q.seen = req[r].seen
    BY <1>3, <2>1 DEF Goto, NotesOK, TypeOK, RequestNote
  <2>3. Placed(q) /\ (ToldOf(q.target) => Told(q))
    BY <2>2 DEF SlotsBase, ToldOf, Placed, Told
  <2>4. QED
    BY <2>1, <2>3
<1>4. QED
  BY <1>1, <1>2, <1>3, SelectionNotes

LEMMA SelectionsStayFinite ==
  ASSUME NotesOK, OwnInv, [Next]_vars, IsFiniteSet(selections)
  PROVE  IsFiniteSet(selections')
<1>1. CASE selections' \subseteq selections
  BY <1>1, FS_Subset
<1>2. ASSUME NEW t \in selections', t \notin selections
      PROVE  IsFiniteSet(selections')
  <2>1. PICK r \in Reqs : InsertSelectionRow(r)
    BY <1>2, NewSelections
  <2>2. PICK j : InsertSelection(j, req[r].offer, req[r].day)
    BY <1>2, <2>1 DEF InsertSelectionRow, Abort, Reads, tables
  <2>3. selections' = selections \cup {t}
    BY <1>2, <2>2 DEF InsertSelection
  <2>4. QED
    BY <2>3, FS_AddElement
<1>3. QED
  BY <1>1, <1>2

LEMMA SlotsBaseStays ==
  ASSUME NotesOK, NotesOK', OwnInv, OwnInv', SlotsBase, [Next]_vars
  PROVE  SlotsBase'
<1>1. ASSUME NEW r \in Reqs, req'[r].op = "CreateSelection"
      PROVE  Placed(req[r])'
  <2>1. PICK q : q = req'[r]
    OBVIOUS
  <2>2. Placed(q)
    BY <1>1, <2>1, Readings
  <2>3. Placed(q)'
    BY <2>2, PlacedAges
  <2>4. QED
    BY <2>1, <2>3
<1>2. \A r \in Reqs : Placed(req[r])'
  BY <1>1 DEF Placed
<1>3. QED
  BY <1>2, SelectionsStayFinite DEF SlotsBase

LEMMA ToldStays ==
  ASSUME NotesOK, NotesOK', OwnInv, OwnInv', SlotsBase, [Next]_vars,
         NEW i, ToldOf(i), ~ Shifts(i)
  PROVE  ToldOf(i)'
<1>1. ASSUME NEW r \in Reqs, req'[r].target = i, req'[r].op = "CreateSelection"
      PROVE  Told(req[r])'
  <2>1. PICK q : q = req'[r]
    OBVIOUS
  <2>2. Placed(q) /\ Told(q) /\ q.target = i
    BY <1>1, <2>1, Readings
  <2>3. Told(q)'
    BY <2>2, ToldAges
  <2>4. QED
    BY <2>1, <2>3
<1>2. ASSUME NEW r \in Reqs, req'[r].target = i
      PROVE  Told(req[r])'
  BY <1>1, <1>2 DEF Told
<1>3. QED
  BY <1>2 DEF ToldOf

\* Whose regular selection a period counts was given out, like the period.
LEMMA CountedIsOld ==
  NotesOK /\ OwnInv =>
    \A i : \A s \in RegularSelections(i) :
      s \in selections /\ s.offer \in spent /\ i \in spent
  BY DEF NotesOK, OwnInv, Keys, RowsReferenced, RegularSelections, OffersOf

\* The selections a period counts after a step: those it counted, and the one a
\* granted call inserts.
LEMMA CountsAfter ==
  ASSUME NotesOK, NotesOK', OwnInv, OwnInv', SlotsBase, [Next]_vars,
         NEW i, ToldOf(i), ~ Shifts(i)
  PROVE  \/ RegularSelections(i)' \subseteq RegularSelections(i)
         \/ \E r \in Granted(i) : \E s :
              /\ RegularSelections(i)' \subseteq RegularSelections(i) \cup {s}
              /\ Granted(i)' \subseteq Granted(i) \ {r}
<1>1. ASSUME NEW y \in offers', y.id \in spent, y.period = i
      PROVE  \E x \in offers : x.id = y.id /\ x.period = i /\ x.kind = y.kind
  <2>1. Descent
    BY StepAges DEF Aging
  <2>2. PICK x \in offers : x.id = y.id /\ x.period = y.period
    BY <1>1, <2>1 DEF Descent
  <2>3. QED
    BY <1>1, <2>2 DEF Shifts
<1>2. ASSUME NEW s \in RegularSelections(i)', s \in selections
      PROVE  s \in RegularSelections(i)
  <2>1. PICK o \in offers' : o.period = i /\ o.id = s.offer /\ o.kind = "regular"
    BY <1>2 DEF RegularSelections, OffersOf
  <2>2. o.id \in spent
    BY <1>2, <2>1 DEF NotesOK, OwnInv, Keys, RowsReferenced
  <2>3. PICK x \in offers : x.id = o.id /\ x.period = i /\ x.kind = o.kind
    BY <1>1, <2>1, <2>2
  <2>4. QED
    BY <1>2, <2>1, <2>3 DEF RegularSelections, OffersOf
<1>3. ASSUME NEW t \in RegularSelections(i)', t \notin selections
      PROVE  \E r \in Granted(i) : \E s :
               /\ RegularSelections(i)' \subseteq RegularSelections(i) \cup {s}
               /\ Granted(i)' \subseteq Granted(i) \ {r}
  <2>0. t \in selections'
    BY <1>3 DEF RegularSelections
  <2>1. PICK r \in Reqs : /\ In(r, "CreateSelection", "insert") /\ InsertSelectionRow(r)
                          /\ t.offer = req[r].offer
    BY <1>3, <2>0, NewSelections
  <2>2. PICK j : InsertSelection(j, req[r].offer, req[r].day) /\ Finish(r)
    BY <1>3, <2>0, <2>1 DEF InsertSelectionRow, Abort, Reads, tables
  <2>3. selections' = selections \cup {t} /\ offers' = offers
    BY <1>3, <2>0, <2>2 DEF InsertSelection
  <2>4. RegularSelections(i)' \subseteq RegularSelections(i) \cup {t}
    BY <1>2, <2>3 DEF RegularSelections
  <2>5. PICK o \in offers : o.period = i /\ o.id = t.offer /\ o.kind = "regular"
    BY <1>3, <2>3 DEF RegularSelections, OffersOf
  <2>11. req[r].op = "CreateSelection" /\ req[r].target = i
    BY <2>1, <2>5 DEF SlotsBase, Placed, In
  <2>6. r \in Granted(i)
    BY <2>1, <2>5, <2>11 DEF ToldOf, Told, Granted
  <2>7. req'[r] = Blank /\ \A s \in Reqs \ {r} : req'[s] = req[s]
    BY <2>2 DEF Finish, NotesOK, TypeOK
  <2>8. r \notin Granted(i)'
    BY <2>7 DEF Granted, In, Blank
  <2>9. Granted(i)' \subseteq Granted(i) \ {r}
    BY <2>7, <2>8 DEF Granted, In
  <2>10. QED
    BY <2>4, <2>6, <2>9
<1>4. QED
  BY <1>2, <1>3 DEF RegularSelections

\* The grants after a step: those there were, or one more that the count allowed.
LEMMA GrantsAfter ==
  ASSUME NotesOK, OwnInv, [Next]_vars, NEW i
  PROVE  \/ Granted(i)' \subseteq Granted(i)
         \/ \E r \in Reqs :
              /\ In(r, "CreateSelection", "count") /\ req[r].target = i /\ Reads
              /\ req[r].seen.kind = "regular"
              /\ SelectionAllowed(req[r].seen, Cardinality(RegularSelections(i)))
<1>1. ASSUME NEW r \in Granted(i)', r \notin Granted(i)
      PROVE  /\ In(r, "CreateSelection", "count") /\ req[r].target = i /\ Reads
             /\ req[r].seen.kind = "regular"
             /\ SelectionAllowed(req[r].seen, Cardinality(RegularSelections(i)))
  <2>1. /\ r \in Reqs /\ req'[r].op = "CreateSelection" /\ req'[r].at = "insert"
        /\ req'[r].target = i /\ req'[r].seen.kind = "regular"
    BY <1>1 DEF Granted, In
  <2>2. req'[r] # req[r]
    BY <1>1, <2>1 DEF Granted, In
  <2>3. ~ CreateSelection(r)
    BY <2>1, ReadingIsCurrent
  <2>4. /\ In(r, "CreateSelection", "count") /\ Goto(r, "insert") /\ Reads
        /\ SelectionAllowed(req[r].seen, Cardinality(RegularSelections(req[r].target)))
    BY <2>1, <2>2, <2>3, SelectionNotes
  <2>5. req'[r].target = req[r].target /\ req'[r].seen = req[r].seen
    BY <2>1, <2>4 DEF Goto, NotesOK, TypeOK, RequestNote
  <2>6. QED
    BY <2>1, <2>4, <2>5
<1>2. QED
  BY <1>1 DEF Granted

LEMMA LimitsAreLimits == NotesOK => \A x \in periods : EffectiveMax(x.id) \in Limits
  BY LimitOfPeriod DEF NotesOK, TypeOK

LEMMA FreshPeriodIsFree ==
  ASSUME NotesOK, NotesOK', OwnInv, OwnInv', SlotsBase, [Next]_vars,
         NEW i, ToldOf(i), ~ Shifts(i), i \notin spent
  PROVE  RegularSelections(i)' = {} /\ Granted(i)' = {}
<1>1. RegularSelections(i) = {}
  BY CountedIsOld
<1>2. \A r \in Reqs : req[r].op = "CreateSelection" => req[r].target # i
  BY DEF SlotsBase, Placed
<1>3. Granted(i) = {}
  BY <1>2 DEF Granted, In
<1>4. Granted(i)' = {}
  BY <1>2, <1>3, GrantsAfter DEF In
<1>5. QED
  BY <1>1, <1>3, <1>4, CountsAfter

LEMMA OldPeriodIsBounded ==
  ASSUME NotesOK, NotesOK', OwnInv, OwnInv', SlotsBase, [Next]_vars, IsFiniteSet(Reqs),
         NEW p \in periods, EffectiveMax(p.id) # None, NEW n \in Int, Bounded(p.id, n),
         ~ Shifts(p.id), Cardinality(Granted(p.id)') <= n + 1
  PROVE  Cardinality(RegularSelections(p.id)') + Cardinality(Granted(p.id)')
           <= EffectiveMax(p.id) + n
<1> DEFINE E == EffectiveMax(p.id)
           S == RegularSelections(p.id)
           T == RegularSelections(p.id)'
           G == Granted(p.id)
           H == Granted(p.id)'
<1>0. SUFFICES Cardinality(T) + Cardinality(H) <= E + n
  OBVIOUS
<1>1. E \in Nat /\ Cardinality(S) + Cardinality(G) <= E + n /\ Cardinality(H) <= n + 1
  BY LimitOfPeriod DEF Limits, Bounded, NotesOK, TypeOK
<1>2. S \in SUBSET selections /\ T \in SUBSET selections' /\ G \in SUBSET Reqs /\ H \in SUBSET Reqs
  BY DEF RegularSelections, Granted
<1>3. IsFiniteSet(S) /\ IsFiniteSet(T) /\ IsFiniteSet(G) /\ IsFiniteSet(H)
  BY <1>2, FS_Subset, SelectionsStayFinite DEF SlotsBase
<1>4. /\ Cardinality(S) \in Nat /\ Cardinality(T) \in Nat /\ Cardinality(G) \in Nat
      /\ Cardinality(H) \in Nat
  BY <1>3, FS_CardinalityType
<1>5. \/ T \in SUBSET S
      \/ \E r \in G : \E s : T \in SUBSET (S \cup {s}) /\ H \in SUBSET (G \ {r})
  BY CountsAfter DEF Bounded
<1>6. \/ H \in SUBSET G
      \/ \E r \in Reqs : /\ In(r, "CreateSelection", "count") /\ req[r].target = p.id /\ Reads
                         /\ req[r].seen.kind = "regular"
                         /\ SelectionAllowed(req[r].seen, Cardinality(S))
  BY GrantsAfter
<1>7. ASSUME NEW r \in Reqs, In(r, "CreateSelection", "count"), req[r].target = p.id, Reads,
             req[r].seen.kind = "regular", SelectionAllowed(req[r].seen, Cardinality(S))
      PROVE  T = S /\ Cardinality(S) < E
  <2>1. T = S
    BY <1>7 DEF Reads, tables, RegularSelections, OffersOf
  <2>2. req[r].seen.limit = E
    BY <1>7 DEF Bounded, ToldOf, Told, In
  <2>3. QED
    BY <1>7, <2>1, <2>2 DEF SelectionAllowed
<1> HIDE DEF E, S, T, G, H
<1>8. CASE T = S /\ Cardinality(S) < E
  BY <1>1, <1>4, <1>8
<1>9. CASE T \in SUBSET S /\ H \in SUBSET G
  BY <1>1, <1>3, <1>4, <1>9, FS_Subset
<1>10. ASSUME NEW r \in G, NEW s, T \in SUBSET (S \cup {s}), H \in SUBSET (G \ {r})
       PROVE  Cardinality(T) + Cardinality(H) <= E + n
  <2>1. /\ IsFiniteSet(S \cup {s})
        /\ Cardinality(S \cup {s}) \in {Cardinality(S), Cardinality(S) + 1}
    BY <1>3, FS_AddElement
  <2>2. IsFiniteSet(G \ {r}) /\ Cardinality(G \ {r}) = Cardinality(G) - 1
    BY <1>3, FS_RemoveElement
  <2>3. Cardinality(T) <= Cardinality(S \cup {s}) /\ Cardinality(H) <= Cardinality(G \ {r})
    BY <1>10, <2>1, <2>2, FS_Subset
  <2>4. Cardinality(S \cup {s}) \in Nat /\ Cardinality(G \ {r}) \in Nat
    BY <2>1, <2>2, FS_CardinalityType
  <2>5. QED
    BY <1>1, <1>4, <2>1, <2>2, <2>3, <2>4
<1>11. QED
  BY <1>5, <1>6, <1>7, <1>8, <1>9, <1>10

\* The bound of one period lasts as long as nobody shifts its slots, whatever other
\* periods see, and at most n + 1 of its slots are granted at a time.
LEMMA BoundedStays ==
  ASSUME IsFiniteSet(Reqs), NotesOK, NotesOK', OwnInv, OwnInv', SlotsBase, [Next]_vars,
         NEW i, NEW n \in Int, n >= -1, Bounded(i, n), ~ Shifts(i),
         Cardinality(Granted(i)') <= n + 1
  PROVE  Bounded(i, n)'
<1>1. ToldOf(i) /\ ToldOf(i)'
  BY ToldStays DEF Bounded
<1>2. ASSUME NEW p \in periods', p.id = i, EffectiveMax(i)' # None
      PROVE  Cardinality(RegularSelections(i)') + Cardinality(Granted(i)')
               <= EffectiveMax(i)' + n
  <2>1. CASE i \in spent
    <3>0. Descent
      BY StepAges DEF Aging
    <3>1. PICK x \in periods : x.id = i
      BY <1>2, <2>1, <3>0 DEF Descent
    <3>2. EffectiveMax(i)' = EffectiveMax(i)
      BY <1>2, <3>1 DEF Shifts
    <3>3. Cardinality(RegularSelections(x.id)') + Cardinality(Granted(x.id)')
            <= EffectiveMax(x.id) + n
      BY <1>2, <3>1, <3>2, OldPeriodIsBounded
    <3>4. QED
      BY <3>1, <3>2, <3>3
  <2>2. CASE i \notin spent
    <3>1. RegularSelections(i)' = {} /\ Granted(i)' = {}
      BY <1>1, <2>2, FreshPeriodIsFree
    <3>2. (NotesOK => \A x \in periods : EffectiveMax(x.id) \in Limits)'
      BY LimitsAreLimits, PTL
    <3>3. EffectiveMax(i)' \in Nat \ {0}
      BY <1>2, <3>2 DEF Limits
    <3>4. QED
      BY <3>1, <3>3, FS_EmptySet
  <2>3. QED
    BY <2>1, <2>2
<1>3. QED
  BY <1>1, <1>2 DEF Bounded

\* As many slots are granted at a time as there are requests.
LEMMA GrantsAreRequests ==
  ASSUME IsFiniteSet(Reqs), NEW i
  PROVE  /\ Cardinality(Reqs) \in Nat /\ Cardinality(Reqs) - 1 \in Int /\ Cardinality(Reqs) - 1 >= -1
         /\ Cardinality(Granted(i)) <= (Cardinality(Reqs) - 1) + 1
<1>1. Granted(i) \in SUBSET Reqs
  BY DEF Granted
<1>2. /\ Cardinality(Reqs) \in Nat /\ Cardinality(Granted(i)) \in Nat
      /\ Cardinality(Granted(i)) <= Cardinality(Reqs)
  BY <1>1, FS_Subset, FS_CardinalityType
<1>3. QED
  BY <1>2

\* So the regular selections of a period exceed its slots by at most n.
LEMMA TakenAndGranted ==
  ASSUME NotesOK, SlotsBase, IsFiniteSet(Reqs), NEW p \in periods, EffectiveMax(p.id) # None,
         NEW n \in Int, Bounded(p.id, n)
  PROVE  /\ Cardinality(RegularSelections(p.id)) \in Nat /\ EffectiveMax(p.id) \in Nat
         /\ Cardinality(RegularSelections(p.id)) <= EffectiveMax(p.id) + n
<1>1. EffectiveMax(p.id) \in Nat
  BY LimitsAreLimits DEF Limits
<1>2. /\ RegularSelections(p.id) \in SUBSET selections /\ Granted(p.id) \in SUBSET Reqs
      /\ IsFiniteSet(selections)
  BY DEF RegularSelections, Granted, SlotsBase
<1>3. /\ Cardinality(RegularSelections(p.id)) \in Nat /\ Cardinality(Granted(p.id)) \in Nat
  BY <1>2, FS_Subset, FS_CardinalityType
<1>4. Cardinality(RegularSelections(p.id)) + Cardinality(Granted(p.id)) <= EffectiveMax(p.id) + n
  BY DEF Bounded
<1>5. QED
  BY <1>1, <1>3, <1>4

LEMMA NoneIsPlaced ==
  ASSUME Init
  PROVE  SlotsBase /\ \A i, n : Bounded(i, n)
<1>1. None # "CreateSelection" /\ Blank.op = None
  BY ServiceAssumption DEF Multi, Blank
<1>2. /\ selections = {} /\ periods = {}
      /\ \A r \in Reqs : req[r].op # "CreateSelection"
  BY <1>1 DEF Init, StoreInit
<1>3. QED
  BY <1>2, FS_EmptySet DEF SlotsBase, Placed, Bounded, ToldOf, Told

SlotsInv ==
  OnlyCalled /\ SlotsBase /\ \A i \in PeriodIds : Bounded(i, Cardinality(Reqs) - 1)

LEMMA SlotsInvariance ==
  ASSUME LimitsFixed, IsFiniteSet(Reqs)
  PROVE  Spec => [](NotesOK /\ SlotsInv)
<1>1. Init => SlotsInv
  <2>1. Init => \A r \in Reqs : req[r].op = None
    BY DEF Init, Blank
  <2>2. QED
    BY <2>1, NoneIsPlaced DEF SlotsInv, OnlyCalled
<1>2. NotesOK /\ NotesOK' /\ OwnInv /\ OwnInv' /\ SlotsInv /\ [Next]_vars => SlotsInv'
  <2> SUFFICES ASSUME NotesOK, NotesOK', OwnInv, OwnInv', SlotsInv, [Next]_vars PROVE SlotsInv'
    OBVIOUS
  <2>1. OnlyCalled /\ OnlyCalled' /\ SlotsBase /\ SlotsBase'
    BY OnlyCalledStays, SlotsBaseStays DEF SlotsInv
  <2>2. ASSUME NEW i \in PeriodIds
        PROVE  Bounded(i, Cardinality(Reqs) - 1)'
    <3> DEFINE n == Cardinality(Reqs) - 1
    <3>1. n \in Int /\ n >= -1
      BY GrantsAreRequests
    <3>2. (IsFiniteSet(Reqs) => Cardinality(Granted(i)) <= (Cardinality(Reqs) - 1) + 1)'
      BY GrantsAreRequests, PTL
    <3>3. Cardinality(Granted(i)') <= n + 1
      BY <3>2
    <3>4. Bounded(i, n) /\ ~ Shifts(i)
      BY <2>1, FixedIsSteady DEF SlotsInv
    <3> HIDE DEF n
    <3>5. Bounded(i, n)'
      BY <2>1, <3>1, <3>3, <3>4, BoundedStays
    <3>6. QED
      BY <3>5 DEF n
  <2>3. QED
    BY <2>1, <2>2 DEF SlotsInv
<1>3. QED
  BY <1>1, <1>2, OwnInvariance, PTL DEF Spec

\* Invariant 1 is checked against a count that other calls make stale: while no
\* limit and no kind changes, the regular selections of a period exceed its slots
\* by fewer than there are requests at the same time.
THEOREM OvershootIsBounded ==
  ASSUME LimitsFixed, IsFiniteSet(Reqs)
  PROVE  Spec => []SlotOvershootBounded
<1>1. ASSUME NotesOK, SlotsInv, NEW p \in periods, EffectiveMax(p.id) # None
      PROVE  Cardinality(RegularSelections(p.id)) < EffectiveMax(p.id) + Cardinality(Reqs)
  <2> DEFINE n == Cardinality(Reqs) - 1
  <2>1. Cardinality(Reqs) \in Nat /\ n \in Int
    BY GrantsAreRequests
  <2>2. p.id \in PeriodIds
    BY <1>1 DEF NotesOK, TypeOK, StoreTypeOK, PeriodRow
  <2>3. SlotsBase /\ Bounded(p.id, n)
    BY <1>1, <2>2 DEF SlotsInv
  <2> HIDE DEF n
  <2>4. /\ Cardinality(RegularSelections(p.id)) \in Nat /\ EffectiveMax(p.id) \in Nat
        /\ Cardinality(RegularSelections(p.id)) <= EffectiveMax(p.id) + n
    BY <1>1, <2>1, <2>3, TakenAndGranted
  <2>5. QED
    BY <2>1, <2>4 DEF n
<1>2. NotesOK /\ SlotsInv => SlotOvershootBounded
  BY <1>1 DEF SlotOvershootBounded
<1>3. QED
  BY <1>2, SlotsInvariance, PTL

\* Requests that run one at a time keep invariant 1 as it is stated.
THEOREM OneByOneWithinLimit ==
  ASSUME LimitsFixed, NEW r, Reqs = {r}
  PROVE  Spec => []SlotsWithinLimit
<1>0. IsFiniteSet(Reqs) /\ Cardinality(Reqs) = 1
  BY FS_Singleton
<1>1. IsFiniteSet(Reqs) /\ Cardinality(Reqs) - 1 = 0
  BY <1>0
<1>2. ASSUME NotesOK, SlotsInv, NEW p \in periods, EffectiveMax(p.id) # None
      PROVE  Cardinality(RegularSelections(p.id)) <= EffectiveMax(p.id)
  <2>1. p.id \in PeriodIds
    BY <1>2 DEF NotesOK, TypeOK, StoreTypeOK, PeriodRow
  <2>2. SlotsBase /\ Bounded(p.id, 0)
    BY <1>1, <1>2, <2>1 DEF SlotsInv
  <2>3. QED
    BY <1>1, <1>2, <2>2, TakenAndGranted
<1>3. NotesOK /\ SlotsInv => SlotsWithinLimit
  BY <1>2 DEF SlotsWithinLimit
<1>4. QED
  BY <1>1, <1>3, SlotsInvariance, PTL

\* Two calls that select in the same period at once are noted.
Alone(i) == \A r, q \in Reqs : Selects(r, i) /\ Selects(q, i) => r = q

AloneUnlessRaced == \A i \in PeriodIds \ raced : Alone(i)

LEMMA AloneIsOneGrant ==
  ASSUME NEW i, Alone(i)
  PROVE  Cardinality(Granted(i)) <= 0 + 1
<1>1. \A r, q \in Granted(i) : r = q
  BY DEF Alone, Granted, In, Selects
<1>2. CASE Granted(i) = {}
  BY <1>2, FS_EmptySet
<1>3. ASSUME NEW r \in Granted(i)
      PROVE  Cardinality(Granted(i)) <= 0 + 1
  <2>1. Granted(i) = {r}
    BY <1>1
  <2>2. QED
    BY <2>1, FS_Singleton
<1>4. QED
  BY <1>2, <1>3

\* What a step notes.
LEMMA NotedSteps ==
  ASSUME NotesOK, OwnInv, AloneUnlessRaced, [SlotsNext]_slotsVars
  PROVE  /\ [Next]_vars /\ AloneUnlessRaced' /\ waived \subseteq waived' /\ raced \subseteq raced'
         /\ \A i \in PeriodIds \ moved' : i \notin moved /\ ~ Shifts(i)
         /\ \A s \in selections' \ selections : (\E r \in Reqs : Waives(r)) => s.id \in waived'
<1>1. CASE SlotsNext
  <2>1. ASSUME NEW i \in PeriodIds, i \notin raced'
        PROVE  Alone(i)'
    <3>1. \A r, q \in Reqs : r # q => ~ (Selects(r, i)' /\ Selects(q, i)')
      BY <1>1, <2>1 DEF SlotsNext, Noted
    <3>2. QED
      BY <3>1 DEF Alone
  <2>2. AloneUnlessRaced'
    BY <2>1 DEF AloneUnlessRaced
  <2>3. QED
    BY <1>1, <2>2 DEF SlotsNext, Noted
<1>2. CASE UNCHANGED slotsVars
  <2>1. UNCHANGED <<vars, moved, raced, waived, req, selections, periods, offers, clients>>
    BY <1>2 DEF slotsVars, vars, tables
  <2>2. AloneUnlessRaced'
    BY <2>1 DEF AloneUnlessRaced, Alone, Selects
  <2>3. ASSUME NEW i PROVE ~ Shifts(i)
    <3>1. EffectiveMax(i)' = EffectiveMax(i)
      BY <2>1 DEF EffectiveMax
    <3>2. QED
      BY <2>1, <3>1 DEF Shifts, OwnInv, Keys
  <2>4. QED
    BY <2>1, <2>2, <2>3
<1>3. QED
  BY <1>1, <1>2

HeldInv ==
  /\ NotesDated /\ SlotsBase /\ AloneUnlessRaced
  /\ \A s \in selections : s.id \in waived \/ Within(s.offer, s.day)
  /\ \A i \in PeriodIds \ moved :
       Bounded(i, Cardinality(Reqs) - 1) /\ (i \notin raced => Bounded(i, 0))

LEMMA HeldStays ==
  ASSUME IsFiniteSet(Reqs), NotesOK, NotesOK', OwnInv, OwnInv', HeldInv, [SlotsNext]_slotsVars
  PROVE  HeldInv'
<1>1. /\ [Next]_vars /\ AloneUnlessRaced' /\ waived \subseteq waived' /\ raced \subseteq raced'
      /\ \A i \in PeriodIds \ moved' : i \notin moved /\ ~ Shifts(i)
      /\ \A s \in selections' \ selections : (\E r \in Reqs : Waives(r)) => s.id \in waived'
  BY NotedSteps DEF HeldInv
<1>2. NotesDated /\ NotesDated' /\ SlotsBase /\ SlotsBase'
  BY <1>1, NotesStayDated, SlotsBaseStays DEF HeldInv
<1>3. \A s \in selections' : s.id \in waived' \/ Within(s.offer, s.day)'
  <2>1. \A s \in selections : s.id \in waived \/ Within(s.offer, s.day)
    BY DEF HeldInv
  <2>2. QED
    BY <1>1, <1>2, <2>1, DatesStay
<1>4. ASSUME NEW i \in PeriodIds, i \notin moved'
      PROVE  Bounded(i, Cardinality(Reqs) - 1)'
  <2> DEFINE n == Cardinality(Reqs) - 1
  <2>1. n \in Int /\ n >= -1
    BY GrantsAreRequests
  <2>2. (IsFiniteSet(Reqs) => Cardinality(Granted(i)) <= (Cardinality(Reqs) - 1) + 1)'
    BY GrantsAreRequests, PTL
  <2>3. Cardinality(Granted(i)') <= n + 1
    BY <2>2
  <2>4. Bounded(i, n) /\ ~ Shifts(i)
    BY <1>1, <1>4 DEF HeldInv
  <2> HIDE DEF n
  <2>5. Bounded(i, n)'
    BY <1>1, <1>2, <2>1, <2>3, <2>4, BoundedStays
  <2>6. QED
    BY <2>5 DEF n
<1>5. ASSUME NEW i \in PeriodIds, i \notin moved', i \notin raced'
      PROVE  Bounded(i, 0)'
  <2>1. Alone(i)'
    BY <1>1, <1>5 DEF AloneUnlessRaced
  <2>2. (Alone(i) => Cardinality(Granted(i)) <= 0 + 1)'
    BY AloneIsOneGrant, PTL
  <2>3. Cardinality(Granted(i)') <= 0 + 1
    BY <2>1, <2>2
  <2>4. Bounded(i, 0) /\ ~ Shifts(i)
    BY <1>1, <1>5 DEF HeldInv
  <2>5. QED
    BY <1>1, <1>2, <2>3, <2>4, BoundedStays
<1>6. QED
  BY <1>1, <1>2, <1>3, <1>4, <1>5 DEF HeldInv

\* Invariants 1 and 2 in any interleaving, with overrides, tiers, slot counts and
\* kinds that change: a period nobody shifted is over its slots only if calls for it
\* raced, and then by fewer than there are requests; a selection is dated outside
\* its period only if its call overrode that check.
THEOREM SlotsAndDatesHold ==
  ASSUME IsFiniteSet(Reqs)
  PROVE  SlotsSpec => []SlotsAndDates
<1>1. SlotsSpec => Spec
  <2>1. SlotsInit => Init
    BY DEF SlotsInit
  <2>2. [SlotsNext]_slotsVars => [Next]_vars
    BY DEF SlotsNext, slotsVars
  <2>3. QED
    BY <2>1, <2>2, PTL DEF SlotsSpec, Spec
<1>2. SlotsInit => HeldInv
  <2>1. None # "CreateSelection" /\ Blank.op = None
    BY ServiceAssumption DEF Multi, Blank
  <2>2. ASSUME SlotsInit PROVE SlotsBase /\ \A i, n : Bounded(i, n)
    BY <2>2, NoneIsPlaced DEF SlotsInit
  <2>3. ASSUME SlotsInit PROVE NotesDated /\ AloneUnlessRaced /\ selections = {}
    BY <2>1, <2>3 DEF SlotsInit, Init, StoreInit, NotesDated, Dated, AloneUnlessRaced, Alone, Selects
  <2>4. QED
    BY <2>2, <2>3 DEF HeldInv
<1>3. NotesOK /\ NotesOK' /\ OwnInv /\ OwnInv' /\ HeldInv /\ [SlotsNext]_slotsVars => HeldInv'
  BY HeldStays
<1>4. NotesOK /\ HeldInv => SlotsAndDates
  <2> SUFFICES ASSUME NotesOK, HeldInv PROVE SlotsAndDates
    OBVIOUS
  <2>1. ASSUME NEW p \in periods, p.id \notin moved, EffectiveMax(p.id) # None
        PROVE  /\ Cardinality(RegularSelections(p.id)) < EffectiveMax(p.id) + Cardinality(Reqs)
               /\ p.id \notin raced =>
                    Cardinality(RegularSelections(p.id)) <= EffectiveMax(p.id)
    <3> DEFINE n == Cardinality(Reqs) - 1
    <3>1. Cardinality(Reqs) \in Nat /\ n \in Int
      BY GrantsAreRequests
    <3>2. p.id \in PeriodIds
      BY DEF NotesOK, TypeOK, StoreTypeOK, PeriodRow
    <3>3. SlotsBase /\ Bounded(p.id, n) /\ (p.id \notin raced => Bounded(p.id, 0))
      BY <2>1, <3>2 DEF HeldInv
    <3> HIDE DEF n
    <3>4. /\ Cardinality(RegularSelections(p.id)) \in Nat /\ EffectiveMax(p.id) \in Nat
          /\ Cardinality(RegularSelections(p.id)) <= EffectiveMax(p.id) + n
      BY <2>1, <3>1, <3>3, TakenAndGranted
    <3>5. p.id \notin raced => Cardinality(RegularSelections(p.id)) <= EffectiveMax(p.id) + 0
      BY <2>1, <3>3, TakenAndGranted
    <3>6. QED
      BY <3>1, <3>4, <3>5 DEF n
  <2>2. ASSUME NEW s \in selections, NEW o \in offers, NEW p \in periods,
               s.offer = o.id, o.period = p.id, s.id \notin waived
        PROVE  Contains(p, s.day)
    BY <2>2 DEF HeldInv, Within
  <2>3. QED
    BY <2>1, <2>2 DEF SlotsAndDates
<1>5. QED
  BY <1>1, <1>2, <1>3, <1>4, OwnInvariance, PTL DEF SlotsSpec

(****************************** the activation *****************************)

\* The activation moment that an update of a partner offer has read is still the
\* one of the row.
Recorded(q) ==
  q.op = "UpdatePartnerOffer" /\ q.at = "update" =>
    q.target \in spent \cap PartnerIds /\ \A p \in partners : p.id = q.target => p.activated = q.seen

\* Where a row of partner_offer comes from.
LEMMA PartnerRows ==
  ASSUME NotesOK, OwnInv, [Next]_vars, NEW y \in partners', y.id \in spent
  PROVE  \/ \E x \in partners : x.id = y.id /\ x.activated = y.activated
         \/ \E r \in Reqs : \E act :
              /\ In(r, "UpdatePartnerOffer", "update") /\ Finish(r)
              /\ act \in ActivationOf(req[r].seen)
              /\ y.id = req[r].target /\ y.activated = act
<1>0. StoreTypeOK /\ Keys
  BY DEF NotesOK, TypeOK, OwnInv
<1>1. CASE partners' \subseteq partners
  BY <1>1
<1>2. CASE OneStatement \/ Restart \/ UNCHANGED vars
  <2>1. CASE EndOrReopenPartnerOffer
    BY <1>0, <2>1 DEF EndOrReopenPartnerOffer, SetPartnerEnded, StoreTypeOK, PartnerRow
  <2>2. CASE CreateBankClient \/ UpdateBankClient \/ DeleteBankClient \/ SetPeriodMaxOverride
               \/ DeleteSelection
    BY <2>2 DEF CreateBankClient, UpdateBankClient, DeleteBankClient, SetPeriodMaxOverride,
         DeleteSelection, InsertBankClient, UpdateBankClientForUser, DeleteBankClientForUser,
         SetOfferPeriodMaxOverride, DeleteSelectionForUser
  <2>3. CASE Restart \/ UNCHANGED vars
    BY <2>3 DEF Restart, Reads, vars, tables
  <2>4. QED
    BY <1>2, <2>1, <2>2, <2>3 DEF OneStatement
<1>3. ASSUME NEW r \in Reqs, Arrive(r)
      PROVE  partners' = partners
  BY <1>3, ArriveRows
<1>4. ASSUME NEW r \in Reqs, Proceed(r), ~ InsertPartner(r), ~ UpdatePartner(r)
      PROVE  partners' \subseteq partners
  <2>1. CASE ValidateNewPeriod(r) \/ InsertPeriod(r) \/ ListMenu(r) \/ DropPeriod(r)
               \/ InsertOffer(r) \/ UpdateOffer(r) \/ RememberAlias(r)
    BY <2>1 DEF ValidateNewPeriod, InsertPeriod, ListMenu, DropPeriod, Abort, Reads, tables,
         InsertOfferPeriod, DeletePeriodRow, InsertOffer, UpdateOffer, RememberAlias,
         InsertCategoryOffer, UpdateCategoryOfferForUser, UpsertAlias
  <2>2. CASE DropSelection(r) \/ DropOffer(r) \/ ValidateSelection(r) \/ InsertSelectionRow(r)
               \/ ReadPreviousActivation(r) \/ DropPartner(r)
    BY <2>2 DEF DropSelection, DropOffer, ValidateSelection, InsertSelectionRow, Abort, Reads,
         tables, DeleteSelectionByOffer, DeleteOfferRow, InsertSelection,
         ReadPreviousActivation, DropPartner, DeletePartnerRow
  <2>3. CASE StoreRow(r) \/ CheckAttachment(r) \/ AttachNext(r) \/ Unlink(r)
    BY <2>3 DEF StoreRow, CheckAttachment, AttachNext, Unlink, Abort, Reads, tables,
         InsertAttachment, RemoveFile, InsertLink, DeleteLinks, KeepRecords
  <2>4. CASE ListEvidence(r) \/ DropLinks(r) \/ Reclaim(r) \/ RemoveAttachmentFile(r)
    BY <2>4 DEF ListEvidence, DropLinks, Reclaim, RemoveAttachmentFile, Reads, tables,
         DeleteLinks, DeleteAttachmentRow, RemoveFile, KeepRecords
  <2>5. QED
    BY <1>4, <2>1, <2>2, <2>3, <2>4 DEF Proceed
<1>5. ASSUME NEW r \in Reqs, InsertPartner(r)
      PROVE  y \in partners
  <2>1. ASSUME NEW p, NEW act, InsertPartnerOffer(p, req[r].user, req[r].client, act)
        PROVE  y \in partners
    BY <2>1 DEF InsertPartnerOffer
  <2>2. QED
    BY <1>5, <2>1 DEF InsertPartner, Abort, Reads, tables
<1>6. ASSUME NEW r \in Reqs, UpdatePartner(r), ~ Reads
      PROVE  \/ \E x \in partners : x.id = y.id /\ x.activated = y.activated
             \/ \E act : /\ In(r, "UpdatePartnerOffer", "update") /\ Finish(r)
                         /\ act \in ActivationOf(req[r].seen)
                         /\ y.id = req[r].target /\ y.activated = act
  <2>1. PICK act \in ActivationOf(req[r].seen) :
          UpdatePartnerOfferForUser(req[r].target, req[r].user, req[r].client, act)
    BY <1>6 DEF UpdatePartner, Abort
  <2>2. PICK x \in partners :
          y = IF x.id = req[r].target THEN [x EXCEPT !.client = req[r].client, !.activated = act]
              ELSE x
    BY <2>1 DEF UpdatePartnerOfferForUser
  <2>3. CASE x.id = req[r].target
    <3>1. y.id = req[r].target /\ y.activated = act
      BY <1>0, <2>2, <2>3 DEF StoreTypeOK, PartnerRow
    <3>2. In(r, "UpdatePartnerOffer", "update") /\ Finish(r)
      BY <1>6 DEF UpdatePartner, Abort
    <3>3. QED
      BY <2>1, <3>1, <3>2
  <2>4. QED
    BY <2>2, <2>3
<1>7. Reads => partners' = partners
  BY DEF Reads, tables
<1>8. QED
  BY <1>1, <1>2, <1>3, <1>4, <1>5, <1>6, <1>7 DEF Next

\* An update holds a moment it has just read, or goes on holding it.
LEMMA MomentsRead ==
  ASSUME NotesOK, OwnInv, [Next]_vars, NEW r \in Reqs,
         req'[r].op = "UpdatePartnerOffer", req'[r].at = "update"
  PROVE  \/ req'[r] = req[r] /\ ~ Finish(r)
         \/ /\ In(r, "UpdatePartnerOffer", "prev") /\ Reads
            /\ PartnerForUser(req[r].target, req[r].user)
            /\ req'[r].target = req[r].target
            /\ req'[r].seen = (CHOOSE x \in partners : x.id = req[r].target).activated
<1>0. /\ req \in [Reqs -> RequestNote] /\ req[r] \in RequestNote
      /\ None # "UpdatePartnerOffer" /\ Blank.op = None
  BY ServiceAssumption DEF NotesOK, TypeOK, Multi, Blank
<1>1. ~ Finish(r)
  BY <1>0 DEF Finish
<1>2. CASE OneStatement \/ UNCHANGED vars
  BY <1>1, <1>2 DEF OneStatement, CreateBankClient, UpdateBankClient, DeleteBankClient,
       SetPeriodMaxOverride, DeleteSelection, EndOrReopenPartnerOffer, vars
<1>3. ~ Restart
  BY <1>0 DEF Restart
<1>4. ASSUME NEW s \in Reqs, Arrive(s) \/ Proceed(s), s # r
      PROVE  req'[r] = req[r]
  BY <1>4, OneMoves
<1>5. ~ Arrive(r)
  BY <1>0, CallsAreCalled DEF Starts
<1>6. ASSUME Proceed(r)
      PROVE  /\ In(r, "UpdatePartnerOffer", "prev") /\ Reads
             /\ PartnerForUser(req[r].target, req[r].user)
             /\ req'[r].target = req[r].target
             /\ req'[r].seen = (CHOOSE x \in partners : x.id = req[r].target).activated
  <2>1. req[r].op = "UpdatePartnerOffer" /\ req[r].at \in {"prev", "update"}
    BY <1>0, <1>6, GoesOn DEF OwnInv, NotesMine, NoteShape
  <2>2. ReadPreviousActivation(r) \/ UpdatePartner(r)
    BY <1>6, <2>1 DEF Proceed, ValidateNewPeriod, InsertPeriod, ListMenu, DropPeriod, InsertOffer,
         UpdateOffer, RememberAlias, DropSelection, DropOffer, ValidateSelection,
         InsertSelectionRow, InsertPartner, DropPartner, StoreRow, CheckAttachment, AttachNext,
         Unlink, ListEvidence, DropLinks, Reclaim, RemoveAttachmentFile, In
  <2>3. ReadPreviousActivation(r)
    BY <1>1, <2>2 DEF UpdatePartner, Abort
  <2>4. PICK m : /\ m = (CHOOSE x \in partners : x.id = req[r].target).activated
                 /\ req' = [req EXCEPT ![r].at = "update", ![r].seen = m]
    BY <1>1, <2>3 DEF ReadPreviousActivation
  <2>5. req'[r].target = req[r].target /\ req'[r].seen = m
    BY <1>0, <2>4 DEF RequestNote
  <2>6. QED
    BY <1>1, <2>3, <2>4, <2>5 DEF ReadPreviousActivation
<1>7. QED
  BY <1>1, <1>2, <1>3, <1>4, <1>5, <1>6 DEF Next

LEMMA RecordedStays ==
  ASSUME NEW r, Reqs = {r}, NotesOK, OwnInv, Recorded(req[r]), [Next]_vars
  PROVE  Recorded(req[r])'
<1>0. Keys /\ Descent /\ StoreTypeOK
  BY StepAges DEF Aging, OwnInv, NotesOK, TypeOK
<1>1. SUFFICES ASSUME req'[r].op = "UpdatePartnerOffer", req'[r].at = "update"
               PROVE  /\ req'[r].target \in spent' \cap PartnerIds
                      /\ \A p \in partners' : p.id = req'[r].target => p.activated = req'[r].seen
  BY DEF Recorded
<1>2. CASE req'[r] = req[r] /\ ~ Finish(r)
  <2>1. /\ req[r].target \in spent \cap PartnerIds
        /\ \A p \in partners : p.id = req[r].target => p.activated = req[r].seen
    BY <1>1, <1>2 DEF Recorded
  <2>2. ASSUME NEW y \in partners', y.id = req[r].target
        PROVE  y.activated = req[r].seen
    <3>1. \E x \in partners : x.id = y.id /\ x.activated = y.activated
      BY <1>2, <2>1, <2>2, PartnerRows
    <3>2. QED
      BY <2>1, <2>2, <3>1
  <2>3. QED
    BY <1>0, <1>2, <2>1, <2>2 DEF Descent, Ids
<1>3. CASE /\ In(r, "UpdatePartnerOffer", "prev") /\ Reads
           /\ PartnerForUser(req[r].target, req[r].user)
           /\ req'[r].target = req[r].target
           /\ req'[r].seen = (CHOOSE x \in partners : x.id = req[r].target).activated
  <2>1. PICK x \in partners : x.id = req[r].target
    BY <1>3 DEF PartnerForUser
  <2>2. x = CHOOSE y \in partners : y.id = req[r].target
    BY <1>0, <2>1 DEF Keys
  <2>3. partners' = partners /\ spent' = spent
    BY <1>3 DEF Reads, tables
  <2>4. x.id \in spent \cap PartnerIds
    BY <1>0, <2>1 DEF Keys, StoreTypeOK, PartnerRow
  <2>5. QED
    BY <1>0, <1>3, <2>1, <2>2, <2>3, <2>4 DEF Keys
<1>4. QED
  BY <1>1, <1>2, <1>3, MomentsRead

\* Re-sending activated = true keeps the moment a partner offer was activated,
\* when requests run one at a time: the update writes back what it read.
THEOREM ActivationStays ==
  ASSUME NEW r, Reqs = {r}
  PROVE  Spec => ActivationKept
<1>1. Init => Recorded(req[r])
  BY DEF Init, Blank, Recorded
<1>2. NotesOK /\ OwnInv /\ Recorded(req[r]) /\ [Next]_vars => Recorded(req[r])'
  BY RecordedStays
<1>3. ASSUME NotesOK, OwnInv, Recorded(req[r]), [Next]_vars, NEW p \in partners,
             NEW q \in partners', p.id = q.id, p.activated # None, q.activated # None
      PROVE  q.activated = p.activated
  <2>1. p.id \in spent /\ \A x \in partners : x.id = p.id => x = p
    BY <1>3 DEF OwnInv, Keys
  <2>2. CASE \E x \in partners : x.id = q.id /\ x.activated = q.activated
    BY <1>3, <2>1, <2>2
  <2>3. ASSUME NEW act, In(r, "UpdatePartnerOffer", "update"), act \in ActivationOf(req[r].seen),
               q.id = req[r].target, q.activated = act
        PROVE  q.activated = p.activated
    <3>1. p.activated = req[r].seen
      BY <1>3, <2>3 DEF Recorded, In
    <3>2. QED
      BY <1>3, <2>3, <3>1 DEF ActivationOf
  <2>4. QED
    BY <1>3, <2>1, <2>2, <2>3, PartnerRows
<1>4. NotesOK /\ OwnInv /\ Recorded(req[r]) /\ [Next]_vars =>
        \A p \in partners, q \in partners' :
          p.id = q.id /\ p.activated # None /\ q.activated # None => q.activated = p.activated
  BY <1>3
<1>5. QED
  BY <1>1, <1>2, <1>4, OwnInvariance, PTL DEF Spec, ActivationKept

(******************************* the evidence ******************************)

Deletes == {"DeleteOfferPeriod", "DeletePartnerOffer"}

\* What a delete has found out, and what keeps true while no other request runs.
Plan(q) ==
  /\ q.op = "DeletePartnerOffer" /\ q.at \notin {"reclaim", "file"} =>
       q.at \in {"evidence", "links", "parent"} /\ PartnerForUser(q.target, q.user)
  /\ q.at \in {"selections", "row"} => q.op \in {"DeleteOfferPeriod", "DeleteCategoryOffer"}
  /\ q.at \in {"evidence", "menu", "links"} => q.op \in Deletes
  /\ q.op = "DeleteOfferPeriod" /\ q.at \in {"selections", "row"} =>
       \A o \in OffersOf(q.target) : o.id \in q.doomed
  /\ q.op = "DeleteOfferPeriod" /\ q.at \in {"links", "parent"} => OffersOf(q.target) = {}
  /\ q.op \in Deletes /\ q.at \in {"menu", "selections", "row", "links"} =>
       \A l \in LinksOf(q.target) : l.attachment \in q.reclaim
  /\ q.at = "parent" => LinksOf(q.target) = {}

\* A screenshot that a record names, or that a request is about to reclaim.
Linked(i) == \E l \in links : l.attachment = i

Recovering(a) ==
  \E r \in Reqs : /\ req[r].at \in {"parent", "reclaim", "file"}
                  /\ a.id \in req[r].reclaim /\ a.user = req[r].user

EvidenceInv ==
  /\ \A r \in Reqs : Plan(req[r])
  /\ wasLinked \subseteq spent \cap AttachmentIds
  /\ \A r \in Reqs : req[r].op = "Save" => req[r].attach \cap wasLinked = {}
  /\ \A a \in attachments : a.id \in wasLinked => Linked(a.id) \/ Recovering(a)

\* Steps at which a call holds no list of its own.
Planless == Steps \ {"evidence", "menu", "selections", "row", "links", "parent"}

LEMMA NothingPlanned ==
  ASSUME NEW q, q.at \in Planless, q.op # "DeletePartnerOffer" \/ q.at \in {"reclaim", "file"}
  PROVE  Plan(q)
  BY DEF Planless, Plan

LEMMA OneStatementKeepsEvidence ==
  ASSUME StoreTypeOK, OneStatement \/ UNCHANGED vars
  PROVE  /\ UNCHANGED <<req, offers, attachments, links>>
         /\ \A i, u : PartnerForUser(i, u) => PartnerForUser(i, u)'
<1>1. CASE EndOrReopenPartnerOffer
  <2>1. PICK p, u, e : SetPartnerEnded(p, u, e)
    BY <1>1 DEF EndOrReopenPartnerOffer
  <2>2. \A x \in partners : \E y \in partners' : y.id = x.id /\ y.user = x.user
    <3>1. partners' = {IF x.id = p THEN [x EXCEPT !.ended = e] ELSE x : x \in partners}
      BY <2>1 DEF SetPartnerEnded
    <3>2. \A x \in partners : [x EXCEPT !.ended = e].id = x.id /\ [x EXCEPT !.ended = e].user = x.user
      BY DEF StoreTypeOK, PartnerRow
    <3>3. QED
      BY <3>1, <3>2
  <2>3. UNCHANGED <<req, offers, attachments, links>>
    BY <1>1, <2>1 DEF EndOrReopenPartnerOffer, SetPartnerEnded, KeepMenu, KeepEvidence
  <2>4. QED
    BY <2>2, <2>3 DEF PartnerForUser
<1>2. CASE CreateBankClient \/ UpdateBankClient \/ DeleteBankClient \/ SetPeriodMaxOverride
             \/ DeleteSelection \/ UNCHANGED vars
  <2>1. UNCHANGED <<req, offers, attachments, links, partners>>
    BY <1>2 DEF CreateBankClient, UpdateBankClient, DeleteBankClient, SetPeriodMaxOverride,
         DeleteSelection, InsertBankClient, UpdateBankClientForUser, DeleteBankClientForUser,
         SetOfferPeriodMaxOverride, DeleteSelectionForUser, KeepEvidence, vars, tables
  <2>2. QED
    BY <2>1 DEF PartnerForUser
<1>3. QED
  BY <1>1, <1>2 DEF OneStatement

LEMMA PlanWaits ==
  ASSUME StoreTypeOK, NEW q, Plan(q), OneStatement \/ UNCHANGED vars
  PROVE  Plan(q)'
<1>1. \A i : OffersOf(i)' = OffersOf(i) /\ LinksOf(i)' = LinksOf(i)
  BY OneStatementKeepsEvidence DEF OffersOf, LinksOf
<1>2. QED
  BY <1>1, OneStatementKeepsEvidence DEF Plan

LEMMA PlanBegins ==
  ASSUME NotesOK, NEW r \in Reqs, Arrive(r)
  PROVE  Plan(req[r])'
<1>0. req \in [Reqs -> RequestNote]
  BY DEF NotesOK, TypeOK
<1>1. <<req'[r].op, req'[r].at>> \in Starts
  BY <1>0, CallsAreCalled
<1>2. req'[r].op = "DeletePartnerOffer" => PartnerForUser(req[r].target, req[r].user)'
  <2>1. CASE DeletePartnerOffer(r)
    <3>1. PICK u, p : /\ PartnerForUser(p, u) /\ Reads
                      /\ req' = [req EXCEPT ![r] = [Blank EXCEPT !.op = "DeletePartnerOffer",
                                   !.at = "evidence", !.user = u, !.target = p]]
      BY <2>1 DEF DeletePartnerOffer, Begin
    <3>2. req'[r].target = p /\ req'[r].user = u
      BY <1>0, <3>1 DEF Blank
    <3>3. QED
      BY <3>1, <3>2 DEF PartnerForUser, Reads, tables
  <2>2. CASE CreateOfferPeriod(r) \/ DeleteOfferPeriod(r)
    BY <1>0, <2>2 DEF CreateOfferPeriod, DeleteOfferPeriod, Begin, Blank
  <2>3. CASE CreateCategoryOffer(r) \/ UpdateCategoryOffer(r)
    BY <1>0, <2>3 DEF CreateCategoryOffer, UpdateCategoryOffer, Begin, Blank
  <2>4. CASE DeleteCategoryOffer(r) \/ CreateSelection(r)
    BY <1>0, <2>4 DEF DeleteCategoryOffer, CreateSelection, Begin, Blank
  <2>5. CASE CreatePartnerOffer(r) \/ UpdatePartnerOffer(r)
    BY <1>0, <2>5 DEF CreatePartnerOffer, UpdatePartnerOffer, Begin, Blank
  <2>6. CASE Save(r)
    BY <1>0, <2>6 DEF Save, Blank
  <2>7. CASE Attach(r)
    BY <1>0, <2>7 DEF Attach, AttachOp, Begin, Blank
  <2>8. CASE Detach(r)
    BY <1>0, <2>8 DEF Detach, DetachOp, Begin, Blank
  <2>9. QED
    BY <2>1, <2>2, <2>3, <2>4, <2>5, <2>6, <2>7, <2>8 DEF Arrive
<1>3. /\ req'[r].at \in {"evidence", "selections"} \/ req'[r].at \in Planless
      /\ req'[r].at = "evidence" => req'[r].op \in Deletes
      /\ req'[r].at = "selections" => req'[r].op = "DeleteCategoryOffer"
      /\ req'[r].op = "DeletePartnerOffer" => req'[r].at = "evidence"
  BY <1>1 DEF Starts, Planless, Steps, Deletes
<1>4. QED
  BY <1>2, <1>3 DEF Plan, Planless, Deletes

LEMMA PlanProceeds ==
  ASSUME NotesOK, OwnInv, NEW r \in Reqs, Plan(req[r]), Proceed(r)
  PROVE  Plan(req[r])'
<1>0. req \in [Reqs -> RequestNote] /\ req[r] \in RequestNote /\ Blank.op = None
      /\ Blank.at = "idle" /\ None \notin {"DeletePartnerOffer", "DeleteOfferPeriod"}
  BY ServiceAssumption DEF NotesOK, TypeOK, Blank, Multi
<1>1. ASSUME Finish(r) PROVE Plan(req[r])'
  BY <1>0, <1>1 DEF Finish, Plan, Deletes
<1>2. ASSUME NEW s \in {"reclaim", "file"}, req'[r].at = s PROVE Plan(req[r])'
  BY <1>2 DEF Plan
<1>3. ASSUME NEW s \in Planless, req'[r].at = s, req'[r].op # "DeletePartnerOffer"
      PROVE  Plan(req[r])'
  BY <1>3 DEF Plan, Planless
<1>4. ASSUME NEW s, Goto(r, s)
      PROVE  req'[r].at = s /\ req'[r].op = req[r].op /\ req'[r].target = req[r].target
             /\ req'[r].user = req[r].user /\ req'[r].reclaim = req[r].reclaim
             /\ req'[r].doomed = req[r].doomed
  BY <1>0, <1>4 DEF Goto, RequestNote
<1>5. CASE ValidateNewPeriod(r) \/ InsertPeriod(r)
  BY <1>0, <1>1, <1>3, <1>4, <1>5 DEF ValidateNewPeriod, InsertPeriod, In, When, Abort, Planless,
       Steps, RequestNote
<1>6. CASE InsertOffer(r) \/ UpdateOffer(r) \/ RememberAlias(r)
  BY <1>0, <1>1, <1>3, <1>4, <1>6 DEF InsertOffer, UpdateOffer, RememberAlias, ThenAlias, In,
       Abort, Planless, Steps
<1>7. CASE ValidateSelection(r) \/ InsertSelectionRow(r)
  BY <1>0, <1>1, <1>3, <1>4, <1>7 DEF ValidateSelection, InsertSelectionRow, In, Abort, Planless,
       Steps
<1>8. CASE InsertPartner(r) \/ ReadPreviousActivation(r) \/ UpdatePartner(r)
  <2>1. \/ Finish(r)
        \/ \E p : req' = [req EXCEPT ![r].at = "recheck", ![r].target = p,
                            ![r].check = req[r].attach]
        \/ \E x : req' = [req EXCEPT ![r].at = "update", ![r].seen = x]
    BY <1>8, Zenon DEF InsertPartner, ReadPreviousActivation, UpdatePartner, Abort
  <2>2. req[r].op \in {"CreatePartnerOffer", "UpdatePartnerOffer"}
    BY <1>8 DEF InsertPartner, ReadPreviousActivation, UpdatePartner, In
  <2>3. Finish(r) \/ (req'[r].at \in {"recheck", "update"} /\ req'[r].op = req[r].op)
    <3>1. ASSUME NEW p, req' = [req EXCEPT ![r].at = "recheck", ![r].target = p,
                                  ![r].check = req[r].attach]
          PROVE  req'[r].at = "recheck" /\ req'[r].op = req[r].op
      BY <1>0, <3>1 DEF RequestNote
    <3>2. ASSUME NEW x, req' = [req EXCEPT ![r].at = "update", ![r].seen = x]
          PROVE  req'[r].at = "update" /\ req'[r].op = req[r].op
      BY <1>0, <3>2 DEF RequestNote
    <3>3. QED
      BY <2>1, <3>1, <3>2
  <2>4. QED
    BY <1>1, <1>3, <2>2, <2>3 DEF Planless, Steps
<1>9. CASE DropPartner(r) \/ DropPeriod(r)
  BY <1>1, <1>2, <1>4, <1>9 DEF DropPartner, DropPeriod, Abort
<1>10. CASE StoreRow(r) \/ AttachNext(r)
  <2>1. Finish(r) \/ (req'[r].at = "attach" /\ req'[r].op = req[r].op /\ req[r].at = "attach")
    BY <1>0, <1>10 DEF StoreRow, AttachNext, Abort, RequestNote
  <2>2. QED
    BY <1>1, <1>3, <2>1 DEF Plan, Planless, Steps
<1>11. CASE CheckAttachment(r)
  <2>1. \/ Finish(r)
        \/ /\ req'[r].at \in {"check", "recheck", "insert", "attach"} /\ req'[r].op = req[r].op
           /\ req[r].at \in {"check", "recheck"}
    BY <1>0, <1>11 DEF CheckAttachment, When, RequestNote
  <2>2. QED
    BY <1>1, <1>3, <2>1 DEF Plan, Planless, Steps
<1>12. CASE Unlink(r)
  BY <1>1, <1>2, <1>4, <1>12 DEF Unlink, Abort
<1>13. CASE Reclaim(r) \/ RemoveAttachmentFile(r)
  <2>1. Finish(r) \/ req'[r].at \in {"reclaim", "file"}
    <3>1. ASSUME NEW a, AfterReclaim(r, a)
          PROVE  Finish(r) \/ req'[r].at = "reclaim"
      BY <1>0, <3>1 DEF AfterReclaim, RequestNote
    <3>2. ASSUME NEW a, req' = [req EXCEPT ![r].at = "file", ![r].check = {a}]
          PROVE  req'[r].at = "file"
      BY <1>0, <3>2 DEF RequestNote
    <3>3. QED
      BY <1>13, <3>1, <3>2 DEF Reclaim, RemoveAttachmentFile
  <2>2. QED
    BY <1>1, <1>2, <2>1
<1>14. CASE ListEvidence(r)
  <2>1. PICK q : q = [req[r] EXCEPT !.reclaim = {l.attachment : l \in LinksOf(req[r].target)},
                        !.at = IF req[r].op = "DeleteOfferPeriod" THEN "menu" ELSE "links"]
    OBVIOUS
  <2>2. req'[r] = q /\ UNCHANGED <<partners, links>> /\ req[r].at = "evidence"
    BY <1>0, <1>14, <2>1 DEF ListEvidence, Reads, tables
  <2>3. /\ q.op = req[r].op /\ q.target = req[r].target /\ q.user = req[r].user
        /\ q.reclaim = {l.attachment : l \in LinksOf(req[r].target)}
        /\ q.at = IF req[r].op = "DeleteOfferPeriod" THEN "menu" ELSE "links"
    BY <1>0, <2>1 DEF RequestNote
  <2>4. /\ LinksOf(q.target)' = LinksOf(q.target)
        /\ q.op = "DeletePartnerOffer" => PartnerForUser(q.target, q.user)'
    BY <2>2, <2>3 DEF LinksOf, PartnerForUser, Plan
  <2>5. Plan(q)'
    BY <2>2, <2>3, <2>4 DEF Plan, Deletes
  <2>6. QED
    BY <2>2, <2>5
<1>15. CASE ListMenu(r)
  <2> DEFINE ids == {o.id : o \in OffersOf(req[r].target)}
  <2>1. PICK q : q = [req[r] EXCEPT !.at = When(ids, "selections", "links"), !.doomed = ids]
    OBVIOUS
  <2>2. /\ req'[r] = q /\ UNCHANGED <<offers, links>> /\ req[r].at = "menu"
        /\ req[r].op = "DeleteOfferPeriod"
    BY <1>0, <1>15, <2>1 DEF ListMenu, Reads, tables, In
  <2>3. /\ q.op = "DeleteOfferPeriod" /\ q.target = req[r].target /\ q.reclaim = req[r].reclaim
        /\ q.doomed = ids /\ q.at = When(ids, "selections", "links")
    BY <1>0, <2>1, <2>2 DEF RequestNote
  <2>4. LinksOf(q.target)' = LinksOf(q.target) /\ OffersOf(q.target)' = OffersOf(q.target)
    BY <2>2 DEF LinksOf, OffersOf
  <2>5. \A l \in LinksOf(q.target) : l.attachment \in q.reclaim
    BY <2>2, <2>3 DEF Plan, Deletes
  <2>6. Plan(q)'
    BY <2>3, <2>4, <2>5 DEF Plan, Deletes, When
  <2>7. QED
    BY <2>2, <2>6
<1>16. CASE DropSelection(r)
  <2>1. PICK o : req' = [req EXCEPT ![r].at = "row", ![r].offer = o]
    BY <1>16 DEF DropSelection
  <2>2. PICK q : q = [req[r] EXCEPT !.at = "row", !.offer = o]
    OBVIOUS
  <2>3. /\ req'[r] = q /\ UNCHANGED <<offers, links>> /\ req[r].at = "selections"
    BY <1>0, <1>16, <2>1, <2>2 DEF DropSelection, DeleteSelectionByOffer, KeepEvidence
  <2>4. /\ q.op = req[r].op /\ q.target = req[r].target /\ q.reclaim = req[r].reclaim
        /\ q.doomed = req[r].doomed /\ q.at = "row"
    BY <1>0, <2>2 DEF RequestNote
  <2>5. LinksOf(q.target)' = LinksOf(q.target) /\ OffersOf(q.target)' = OffersOf(q.target)
    BY <2>3 DEF LinksOf, OffersOf
  <2>6. Plan(q)'
    BY <2>3, <2>4, <2>5 DEF Plan, Deletes
  <2>7. QED
    BY <2>3, <2>6
<1>17. CASE DropOffer(r) /\ ~ Finish(r)
  <2> DEFINE left == req[r].doomed \ {req[r].offer}
  <2>1. PICK q : q = [req[r] EXCEPT !.at = When(left, "selections", "links"), !.doomed = left,
                        !.offer = None]
    OBVIOUS
  <2>2. /\ DeleteOfferRow(req[r].offer) /\ req[r].at = "row" /\ req'[r] = q
        /\ ~ (left = {} /\ req[r].op = "DeleteCategoryOffer")
    BY <1>0, <1>17, <2>1 DEF DropOffer, Abort
  <2>3. /\ q.op = req[r].op /\ q.target = req[r].target /\ q.reclaim = req[r].reclaim
        /\ q.doomed = left /\ q.at = When(left, "selections", "links")
    BY <1>0, <2>1 DEF RequestNote
  <2>4. links' = links /\ offers' = {x \in offers : x.id # req[r].offer}
    BY <2>2 DEF DeleteOfferRow, KeepEvidence
  <2>5. LinksOf(q.target)' = LinksOf(q.target)
    BY <2>4 DEF LinksOf
  <2>6. ASSUME q.op = "DeleteOfferPeriod"
        PROVE  \A o \in OffersOf(q.target)' : o.id \in q.doomed
    BY <2>2, <2>3, <2>4, <2>6 DEF Plan, OffersOf
  <2>7. /\ q.op \in {"DeleteOfferPeriod", "DeleteCategoryOffer"}
        /\ q.op = "DeleteOfferPeriod" => \A l \in LinksOf(q.target) : l.attachment \in q.reclaim
    BY <2>2, <2>3 DEF Plan, Deletes
  <2>8. q.at = "selections" \/ (q.at = "links" /\ q.doomed = {} /\ q.op = "DeleteOfferPeriod")
    BY <2>2, <2>3, <2>7 DEF When
  <2>9. q.op = "DeleteOfferPeriod" /\ q.at = "links" => OffersOf(q.target)' = {}
    BY <2>6, <2>8
  <2>10. Plan(q)'
    BY <2>5, <2>6, <2>7, <2>8, <2>9 DEF Plan, Deletes
  <2>11. QED
    BY <2>2, <2>10
<1>18. CASE DropLinks(r)
  <2>1. PICK q : q = req'[r]
    OBVIOUS
  <2>2. /\ q.at = "parent" /\ q.op = req[r].op /\ q.target = req[r].target
        /\ q.user = req[r].user /\ req[r].at = "links"
    BY <1>4, <1>18, <2>1 DEF DropLinks
  <2>3. links' = links \ LinksOf(q.target) /\ UNCHANGED <<offers, partners>>
    BY <1>18, <2>2 DEF DropLinks, DeleteLinks, KeepRecords, KeepMenu
  <2>4. /\ LinksOf(q.target)' = {} /\ OffersOf(q.target)' = OffersOf(q.target)
        /\ (PartnerForUser(q.target, q.user) => PartnerForUser(q.target, q.user)')
    BY <2>3 DEF LinksOf, OffersOf, PartnerForUser
  <2>5. Plan(q)'
    BY <2>2, <2>4 DEF Plan
  <2>6. QED
    BY <2>1, <2>5
<1>19. QED
  BY <1>1, <1>5, <1>6, <1>7, <1>8, <1>9, <1>10, <1>11, <1>12, <1>13, <1>14, <1>15, <1>16, <1>17,
     <1>18 DEF Proceed

\* A step that leaves rows and links alone, of a request that reclaims nothing.
LEMMA KeptUnmoved ==
  ASSUME NEW r, Reqs = {r}, EvidenceInv, UNCHANGED <<attachments, links>>,
         wasLinked' = wasLinked \cup {l.attachment : l \in links'},
         req[r].at \notin {"parent", "reclaim", "file"} \/ req'[r] = req[r],
         NEW a \in attachments', a.id \in wasLinked'
  PROVE  Linked(a.id)' \/ Recovering(a)'
<1>1. Linked(a.id)' <=> Linked(a.id)
  BY DEF Linked
<1>2. a.id \in wasLinked \/ Linked(a.id)
  BY DEF Linked
<1>3. Linked(a.id) \/ Recovering(a)
  BY <1>2 DEF EvidenceInv
<1>4. QED
  BY <1>1, <1>3 DEF Recovering

\* Taking links away puts their screenshots on the list to reclaim first.
LEMMA UnlinkedIsListed ==
  ASSUME NEW r, Reqs = {r}, NotesOK, OwnInv, EvidenceInv, NEW gone,
         gone \subseteq LinksOf(req[r].target), DeleteLinks(gone),
         \A l \in gone : l.attachment \in req[r].reclaim,
         req[r].at \in {"links", "unlink"}, NEW s \in {"parent", "reclaim"}, Goto(r, s),
         wasLinked' = wasLinked \cup {l.attachment : l \in links'},
         NEW a \in attachments', a.id \in wasLinked'
  PROVE  Linked(a.id)' \/ Recovering(a)'
<1>1. attachments' = attachments /\ links' = links \ gone
  BY DEF DeleteLinks
<1>2. Linked(a.id)
  BY <1>1 DEF EvidenceInv, Linked, Recovering
<1>3. PICK l \in links : l.attachment = a.id
  BY <1>2 DEF Linked
<1>4. CASE l \notin gone
  BY <1>1, <1>3, <1>4 DEF Linked
<1>5. CASE l \in gone
  <2>1. req[r].op # "UpdatePartnerOffer" /\ NoteMine(req[r])
    BY DEF OwnInv, NotesMine, NoteShape
  <2>2. ParentMine(l.parent, req[r].user)
    BY <1>5, <2>1 DEF NoteMine, LinksOf
  <2>3. a.user = req[r].user
    BY <1>1, <1>3, <2>2, LinkedIsMine DEF AttachmentMine
  <2>4. /\ req'[r].at = s /\ req'[r].reclaim = req[r].reclaim /\ req'[r].user = req[r].user
    BY DEF Goto, NotesOK, TypeOK, RequestNote
  <2>5. QED
    BY <1>3, <1>5, <2>3, <2>4 DEF Recovering
<1>6. QED
  BY <1>4, <1>5

\* The last step of a reclaimed screenshot: the row is gone, or somebody names it.
LEMMA ReclaimedOrLinked ==
  ASSUME NEW r, Reqs = {r}, NotesOK, OwnInv, EvidenceInv, UNCHANGED <<attachments, links>>,
         NEW d, AfterReclaim(r, d), \A x \in attachments : x.id = d /\ x.user = req[r].user => Linked(d),
         wasLinked' = wasLinked \cup {l.attachment : l \in links'},
         NEW a \in attachments', a.id \in wasLinked'
  PROVE  Linked(a.id)' \/ Recovering(a)'
<1>1. Linked(a.id)' <=> Linked(a.id)
  BY DEF Linked
<1>2. Linked(a.id) \/ Recovering(a)
  BY DEF EvidenceInv, Linked
<1>3. ASSUME ~ Linked(a.id)
      PROVE  Recovering(a)'
  <2>1. a \in attachments /\ a.id \in req[r].reclaim /\ a.user = req[r].user
    BY <1>2, <1>3 DEF Recovering
  <2>2. a.id # d
    BY <1>3, <2>1
  <2>3. req' = [req EXCEPT ![r].at = "reclaim", ![r].reclaim = req[r].reclaim \ {d},
                  ![r].check = {}]
    BY <2>1, <2>2 DEF AfterReclaim
  <2>4. /\ req'[r].at = "reclaim" /\ req'[r].reclaim = req[r].reclaim \ {d}
        /\ req'[r].user = req[r].user
    BY <2>3 DEF NotesOK, TypeOK, RequestNote
  <2>5. QED
    BY <2>1, <2>2, <2>4 DEF Recovering
<1>4. QED
  BY <1>1, <1>3

LEMMA ScreenshotsKept ==
  ASSUME NEW r, Reqs = {r}, NotesOK, OwnInv, EvidenceInv, [Next]_vars, ~ Restart,
         wasLinked' = wasLinked \cup {l.attachment : l \in links'},
         NEW a \in attachments', a.id \in wasLinked'
  PROVE  Linked(a.id)' \/ Recovering(a)'
<1>0. /\ req \in [Reqs -> RequestNote] /\ req[r] \in RequestNote /\ r \in Reqs /\ StoreTypeOK
      /\ Plan(req[r])
  BY DEF NotesOK, TypeOK, EvidenceInv
<1>1. CASE OneStatement \/ UNCHANGED vars
  BY <1>0, <1>1, OneStatementKeepsEvidence, KeptUnmoved
<1>2. CASE Arrive(r)
  <2>1. req[r] = Blank
    BY <1>2 DEF Arrive, CreateOfferPeriod, DeleteOfferPeriod, CreateCategoryOffer,
         UpdateCategoryOffer, DeleteCategoryOffer, CreateSelection, CreatePartnerOffer,
         UpdatePartnerOffer, DeletePartnerOffer, Save, Attach, Detach, Call
  <2>2. req[r].at = "idle"
    BY <2>1 DEF Blank
  <2>3. QED
    BY <1>0, <1>2, <2>2, ArriveRows, KeptUnmoved
<1>3. CASE ValidateNewPeriod(r) \/ InsertPeriod(r) \/ ListMenu(r) \/ InsertOffer(r)
             \/ UpdateOffer(r) \/ RememberAlias(r) \/ DropSelection(r) \/ DropOffer(r)
  <2>1. UNCHANGED <<attachments, links>>
    BY <1>3 DEF ValidateNewPeriod, InsertPeriod, ListMenu, InsertOffer, UpdateOffer, RememberAlias,
         DropSelection, DropOffer, Abort, Reads, tables, InsertOfferPeriod, InsertCategoryOffer,
         UpdateCategoryOfferForUser, UpsertAlias, DeleteSelectionByOffer, DeleteOfferRow,
         KeepEvidence
  <2>2. req[r].at \notin {"parent", "reclaim", "file"}
    BY <1>3 DEF ValidateNewPeriod, InsertPeriod, ListMenu, InsertOffer, UpdateOffer, RememberAlias,
         DropSelection, DropOffer, In
  <2>3. QED
    BY <2>1, <2>2, KeptUnmoved
<1>4. CASE ValidateSelection(r) \/ InsertSelectionRow(r) \/ InsertPartner(r)
             \/ ReadPreviousActivation(r) \/ UpdatePartner(r) \/ CheckAttachment(r)
             \/ ListEvidence(r)
  <2>1. UNCHANGED <<attachments, links>>
    BY <1>4 DEF ValidateSelection, InsertSelectionRow, InsertPartner, ReadPreviousActivation,
         UpdatePartner, CheckAttachment, ListEvidence, Abort, Reads, tables, InsertSelection,
         InsertPartnerOffer, UpdatePartnerOfferForUser, KeepEvidence
  <2>2. req[r].at \notin {"parent", "reclaim", "file"}
    BY <1>4 DEF ValidateSelection, InsertSelectionRow, InsertPartner, ReadPreviousActivation,
         UpdatePartner, CheckAttachment, ListEvidence, In
  <2>3. QED
    BY <2>1, <2>2, KeptUnmoved
<1>5. CASE DropPeriod(r) \/ DropPartner(r)
  <2>1. LinksOf(req[r].target) = {} /\ req[r].at = "parent"
    BY <1>0, <1>5 DEF DropPeriod, DropPartner, In, Plan
  <2>2. /\ UNCHANGED <<attachments, links>>
        /\ IF req[r].reclaim = {} THEN Finish(r) ELSE Goto(r, "reclaim")
    <3>1. CASE DropPeriod(r)
      <4>1. PeriodIsBare(req[r].target)
        BY <1>0, <2>1, <3>1 DEF DropPeriod, In, Plan, PeriodIsBare
      <4>2. QED
        BY <3>1, <4>1 DEF DropPeriod, DeletePeriodRow, KeepEvidence
    <3>2. CASE DropPartner(r)
      <4>1. PartnerForUser(req[r].target, req[r].user)
        BY <1>0, <3>2 DEF DropPartner, In, Plan
      <4>2. QED
        BY <2>1, <3>2, <4>1 DEF DropPartner, DeletePartnerRow, KeepEvidence
    <3>3. QED
      BY <1>5, <3>1, <3>2
  <2>3. Linked(a.id)' <=> Linked(a.id)
    BY <2>2 DEF Linked
  <2>4. Linked(a.id) \/ Recovering(a)
    BY <2>2 DEF EvidenceInv, Linked
  <2>5. ASSUME Recovering(a)
        PROVE  Recovering(a)'
    <3>1. a.id \in req[r].reclaim /\ a.user = req[r].user
      BY <2>5 DEF Recovering
    <3>2. Goto(r, "reclaim")
      BY <2>2, <3>1
    <3>3. req'[r].at = "reclaim" /\ req'[r].reclaim = req[r].reclaim /\ req'[r].user = req[r].user
      BY <1>0, <3>2 DEF Goto, RequestNote
    <3>4. QED
      BY <1>0, <3>1, <3>3 DEF Recovering
  <2>6. QED
    BY <2>3, <2>4, <2>5
<1>6. CASE StoreRow(r)
  <2>1. PICK d \in req[r].attach : InsertAttachment(d, req[r].user) \/ RemoveFile(d)
    BY <1>6 DEF StoreRow
  <2>2. req[r].op = "Save" /\ req[r].at = "store" /\ links' = links
    BY <1>6, <2>1 DEF StoreRow, In, InsertAttachment, RemoveFile
  <2>3. CASE RemoveFile(d)
    BY <2>2, <2>3, KeptUnmoved DEF RemoveFile
  <2>4. CASE a \in attachments
    <3>1. Linked(a.id)
      BY <2>2, <2>4 DEF EvidenceInv, Recovering, Linked
    <3>2. QED
      BY <2>2, <3>1 DEF Linked
  <2>5. CASE InsertAttachment(d, req[r].user) /\ a \notin attachments
    <3>1. a.id = d
      BY <2>5 DEF InsertAttachment
    <3>2. d \notin wasLinked /\ \A x \in attachments : x.id # d
      BY <1>0, <2>1, <2>2 DEF EvidenceInv, OwnInv, Tokens
    <3>3. \A l \in links : l.attachment # d
      BY <3>2 DEF NotesOK, RowsReferenced, Linkable
    <3>4. QED
      BY <2>2, <3>1, <3>2, <3>3
  <2>6. QED
    BY <2>1, <2>3, <2>4, <2>5
<1>7. CASE AttachNext(r)
  <2>1. req[r].at = "attach" /\ attachments' = attachments /\ links \subseteq links'
    BY <1>7 DEF AttachNext, Abort, Reads, tables, InsertLink
  <2>2. Linked(a.id)'
    BY <2>1 DEF EvidenceInv, Recovering, Linked
  <2>3. QED
    BY <2>2
<1>8. CASE Unlink(r)
  <2> DEFINE gone == {l \in LinksOf(req[r].target) : l.attachment \in req[r].reclaim}
  <2>1. CASE DeleteLinks(gone) /\ Goto(r, "reclaim")
    BY <1>8, <2>1, UnlinkedIsListed DEF Unlink
  <2>2. CASE Reads
    BY <1>8, <2>2, KeptUnmoved DEF Unlink, Reads, tables
  <2>3. QED
    BY <1>8, <2>1, <2>2 DEF Unlink, Abort
<1>9. CASE DropLinks(r)
  <2>1. req[r].at = "links" /\ DeleteLinks(LinksOf(req[r].target)) /\ Goto(r, "parent")
    BY <1>9 DEF DropLinks
  <2>2. \A l \in LinksOf(req[r].target) : l.attachment \in req[r].reclaim
    BY <1>0, <2>1 DEF Plan
  <2>3. QED
    BY <2>1, <2>2, UnlinkedIsListed
<1>10. CASE Reclaim(r)
  <2>1. PICK d \in req[r].reclaim :
          \/ /\ DeleteAttachmentRow(d, req[r].user)
             /\ req' = [req EXCEPT ![r].at = "file", ![r].check = {d}]
          \/ ~ IsOrphan(d, req[r].user) /\ AfterReclaim(r, d) /\ Reads
    BY <1>10 DEF Reclaim
  <2>2. CASE ~ IsOrphan(d, req[r].user) /\ AfterReclaim(r, d) /\ Reads
    <3>1. UNCHANGED <<attachments, links>>
      BY <2>2 DEF Reads, tables
    <3>2. \A x \in attachments : x.id = d /\ x.user = req[r].user => Linked(d)
      BY <2>2 DEF IsOrphan, AttachmentForUser, Linked
    <3>3. QED
      BY <2>2, <3>1, <3>2, ReclaimedOrLinked
  <2>3. CASE /\ DeleteAttachmentRow(d, req[r].user)
             /\ req' = [req EXCEPT ![r].at = "file", ![r].check = {d}]
    <3>1. links' = links /\ a \in attachments /\ req[r].at = "reclaim"
      BY <1>10, <2>3 DEF DeleteAttachmentRow, Reclaim
    <3>2. Linked(a.id) \/ Recovering(a)
      BY <3>1 DEF EvidenceInv, Linked
    <3>3. req'[r].at = "file" /\ req'[r].reclaim = req[r].reclaim /\ req'[r].user = req[r].user
      BY <1>0, <2>3 DEF RequestNote
    <3>4. QED
      BY <1>0, <3>1, <3>2, <3>3 DEF Linked, Recovering
  <2>4. QED
    BY <2>1, <2>2, <2>3
<1>11. CASE RemoveAttachmentFile(r)
  <2>1. PICK d \in req[r].check : AfterReclaim(r, d) /\ (RemoveFile(d) \/ Reads)
    BY <1>11 DEF RemoveAttachmentFile
  <2>2. UNCHANGED <<attachments, links>> /\ req[r].at = "file"
    BY <1>11, <2>1 DEF RemoveAttachmentFile, RemoveFile, Reads, tables
  <2>3. \A x \in attachments : x.id # d
    BY <1>0, <2>1, <2>2 DEF OwnInv, Tokens
  <2>4. QED
    BY <2>1, <2>2, <2>3, ReclaimedOrLinked
<1>12. QED
  BY <1>1, <1>2, <1>3, <1>4, <1>5, <1>6, <1>7, <1>8, <1>9, <1>10, <1>11 DEF Next, Proceed

\* What was ever linked is an id given out.
LEMMA LinkedIsSpent ==
  NotesOK /\ OwnInv => \A l \in links : l.attachment \in spent \cap AttachmentIds
  BY DEF NotesOK, TypeOK, StoreTypeOK, LinkRow, RowsReferenced, Linkable, OwnInv, Tokens

\* An upload stores what no record ever named.
LEMMA UploadsAreNew ==
  ASSUME NEW r, Reqs = {r}, NotesOK, OwnInv, EvidenceInv, [Next]_vars, ~ Restart,
         wasLinked' = wasLinked \cup {l.attachment : l \in links'}, req'[r].op = "Save"
  PROVE  req'[r].attach \cap wasLinked' = {}
<1>0. /\ req \in [Reqs -> RequestNote] /\ r \in Reqs /\ None # "Save" /\ Blank.op = None
      /\ StoreTypeOK
  BY ServiceAssumption DEF NotesOK, TypeOK, Multi, Blank
<1>1. CASE OneStatement \/ UNCHANGED vars
  <2>1. links' = links /\ req' = req
    BY <1>0, <1>1, OneStatementKeepsEvidence
  <2>2. \A l \in links : l.attachment \notin req[r].attach
    BY <1>0, <2>1 DEF NotesOK, RowsReferenced, Linkable, OwnInv, Tokens
  <2>3. QED
    BY <1>0, <2>1, <2>2 DEF EvidenceInv
<1>2. CASE Save(r)
  <2>1. PICK u, b : WriteFile(b) /\ req' = [req EXCEPT ![r] = [Blank EXCEPT !.op = "Save",
                      !.at = "store", !.user = u, !.attach = {b}]]
    BY <1>2 DEF Save
  <2>2. req'[r].attach = {b} /\ b \notin spent /\ links' = links
    BY <1>0, <2>1 DEF Blank, WriteFile
  <2>3. QED
    BY <2>2, LinkedIsSpent DEF EvidenceInv
<1>3. CASE Arrive(r) /\ ~ Save(r)
  BY <1>0, <1>3, Begins DEF Begin
<1>4. CASE Proceed(r)
  BY <1>0, <1>4, GoesOn DEF OwnInv, NotesMine, NoteShape
<1>5. QED
  BY <1>1, <1>2, <1>3, <1>4 DEF Next

LEMMA EvidenceStays ==
  ASSUME NEW r, Reqs = {r}, NotesOK, NotesOK', OwnInv, OwnInv', EvidenceInv, [Next]_vars,
         ~ Restart, wasLinked' = wasLinked \cup {l.attachment : l \in links'}
  PROVE  EvidenceInv'
<1>0. StoreTypeOK /\ Plan(req[r]) /\ r \in Reqs
  BY DEF NotesOK, TypeOK, EvidenceInv
<1>1. Plan(req[r])'
  <2>1. CASE OneStatement \/ UNCHANGED vars
    <3>1. PICK q : q = req[r]
      OBVIOUS
    <3>2. Plan(q)' /\ req'[r] = q
      BY <1>0, <2>1, <3>1, PlanWaits, OneStatementKeepsEvidence
    <3>3. QED
      BY <3>2
  <2>2. CASE Arrive(r)
    BY <1>0, <2>2, PlanBegins
  <2>3. CASE Proceed(r)
    BY <1>0, <2>3, PlanProceeds
  <2>4. QED
    BY <2>1, <2>2, <2>3 DEF Next
<1>2. wasLinked' \subseteq spent' \cap AttachmentIds
  <2>1. (\A l \in links : l.attachment \in spent \cap AttachmentIds)'
    <3>1. (NotesOK /\ OwnInv => \A l \in links : l.attachment \in spent \cap AttachmentIds)'
      BY LinkedIsSpent, PTL
    <3>2. QED
      BY <3>1
  <2>2. Descent
    BY StepAges DEF Aging
  <2>3. QED
    BY <2>1, <2>2 DEF EvidenceInv, Descent, Ids
<1>3. req'[r].op = "Save" => req'[r].attach \cap wasLinked' = {}
  BY UploadsAreNew
<1>4. \A a \in attachments' : a.id \in wasLinked' => Linked(a.id)' \/ Recovering(a)'
  BY ScreenshotsKept
<1>5. QED
  BY <1>1, <1>2, <1>3, <1>4 DEF EvidenceInv

\* reclaimAttachments: with requests that run one at a time and to their end, a
\* screenshot lives exactly as long as the records that name it. What is unlinked
\* is on the list of the running request until its row is deleted.
THEOREM EvidenceStaysKept ==
  ASSUME NEW r, Reqs = {r}, "Restart" \notin Ops
  PROVE  EvidenceSpec => []EvidenceKept
<1>1. EvidenceInit => Init /\ EvidenceInv
  <2>1. /\ Blank.op = None /\ Blank.at = "idle"
        /\ None \notin {"Save", "DeletePartnerOffer", "DeleteOfferPeriod"}
    BY ServiceAssumption DEF Multi, Blank
  <2>2. QED
    BY <2>1 DEF EvidenceInit, Init, StoreInit, EvidenceInv, Plan, Deletes
<1>2. [EvidenceNext]_evidenceVars => [Next]_vars
  BY DEF EvidenceNext, evidenceVars
<1>3. NotesOK /\ NotesOK' /\ OwnInv /\ OwnInv' /\ EvidenceInv /\ [EvidenceNext]_evidenceVars
        => EvidenceInv'
  <2>1. ~ Restart
    BY DEF Restart
  <2>2. ASSUME NotesOK, NotesOK', OwnInv, OwnInv', EvidenceInv, EvidenceNext
        PROVE  EvidenceInv'
    BY <2>1, <2>2, EvidenceStays DEF EvidenceNext
  <2>3. ASSUME EvidenceInv, UNCHANGED evidenceVars
        PROVE  EvidenceInv'
    BY <2>3 DEF evidenceVars, vars, tables, EvidenceInv, Plan, Linked, Recovering, OffersOf, LinksOf,
         PartnerForUser
  <2>4. QED
    BY <2>2, <2>3
<1>4. OwnInv /\ EvidenceInv => EvidenceKept
  BY DEF OwnInv, Tokens, EvidenceInv, EvidenceKept, UnlinkedReclaimed, RowHasFile, Quiet, Linked,
       Recovering, Blank
<1>5. QED
  BY <1>1, <1>2, <1>3, <1>4, OwnInvariance, PTL DEF EvidenceSpec, Spec
=============================================================================
