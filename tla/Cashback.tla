------------------------------ MODULE Cashback ------------------------------
(***************************************************************************)
(* What the cashback module promises, stated over CashbackService.         *)
(* Invariant numbers are those of the comments in internal/cashback.       *)
(***************************************************************************)
EXTENDS CashbackService

Maybe(S) == S \cup {None}

\* what CreateSelection learned from GetOfferWithContextForUser
OfferContext ==
  [selected : BOOLEAN, kind : Kinds, dated : BOOLEAN, backfill : Backfills, limit : Limits]

RequestNote ==
  [op : Maybe(Multi), at : Steps, user : Maybe(Users), client : Maybe(ClientIds),
   bank : Maybe(Banks), target : Maybe(PeriodIds \cup PartnerIds), offer : Maybe(OfferIds),
   span : Maybe(Spans), kind : Maybe(Kinds), map : Maybe(Mappings), day : Days \cup {0},
   check : SUBSET AttachmentIds, attach : SUBSET AttachmentIds,
   reclaim : SUBSET AttachmentIds, doomed : SUBSET OfferIds,
   seen : Maybe(OfferContext \cup Moments)]

\* Every table holds rows of its kind, and a goroutine's note only what it was
\* given or has read.
TypeOK == StoreTypeOK /\ req \in [Reqs -> RequestNote]

\* Invariant 4 (domain.go ErrPeriodOverlap): the periods of one bank client
\* never overlap, although CreateOfferPeriod validates against ranges it read
\* two statements before it inserts.
PeriodsDisjoint ==
  \A p, q \in periods : p # q /\ p.client = q.client => ~ Overlaps(p, q)

\* An offer is selected at most once (ErrAlreadySelected), whatever two
\* CreateSelection calls for it read before inserting.
OneSelectionPerOffer ==
  \A s, t \in selections : s.offer = t.offer => s = t

\* Nothing dangles: a period's client, a menu row's period, a selection's
\* offer, a partner offer's client and both ends of a screenshot link exist in
\* every state, between the statements of a multi-statement delete too.
RowsReferenced ==
  /\ \A p \in periods : \E c \in clients : c.id = p.client
  /\ \A o \in offers : \E p \in periods : p.id = o.period
  /\ \A s \in selections : \E o \in offers : o.id = s.offer
  /\ \A p \in partners : ClientRefExists(p.client)
  /\ \A l \in links : Linkable(l.parent, l.attachment)

\* What the schema backs, through every interleaving of requests and every delete
\* that stops half way.
TablesConsistent == PeriodsDisjoint /\ OneSelectionPerOffer /\ RowsReferenced

\* Invariant 2 (domain.go ErrOutsidePeriod): without backfill_override a
\* selection is dated inside the period of the offer it selects.
SelectionsDated ==
  \A s \in selections, o \in offers, p \in periods :
    s.offer = o.id /\ o.period = p.id => Contains(p, s.day)

\* Invariant 1 (domain.go ErrSlotsExhausted): the regular selections of a period
\* never exceed its effective slot count.
SlotsWithinLimit ==
  \A p \in periods :
    EffectiveMax(p.id) # None =>
      Cardinality(RegularSelections(p.id)) <= EffectiveMax(p.id)

\* What invariant 1 is worth under concurrency while limits and kinds stay as
\* they are: the check-then-insert of CreateSelection can overshoot by one slot
\* for every other request that runs at the same time, never by more.
SlotOvershootBounded ==
  \A p \in periods :
    EffectiveMax(p.id) # None =>
      Cardinality(RegularSelections(p.id)) < EffectiveMax(p.id) + Cardinality(Reqs)

OwnerOfParent(parent) ==
  IF parent \in PeriodIds
  THEN (CHOOSE c \in clients : \E p \in periods : p.id = parent /\ p.client = c.id).user
  ELSE (CHOOSE p \in partners : p.id = parent).user

\* A screenshot is only ever linked to a record of the account that uploaded it:
\* ownership is read statements before the link is inserted, and the record or
\* the screenshot may have gone in between.
LinksSameOwner ==
  \A l \in links : AttachmentForUser(l.attachment, OwnerOfParent(l.parent))

\* A partner offer tied to a bank client is tied to one of its own account
\* (AssertOwnsClient), through create and update.
PartnerOnOwnClient ==
  \A p \in partners : p.client # None => ClientForUser(p.client, p.user)

\* Records are only ever tied to records of the same account.
TiesStayInside == LinksSameOwner /\ PartnerOnOwnClient

\* Every attachment row has its bytes on disk (attach.Save writes the file
\* first, reclaimAttachments deletes the row first), so a content request that
\* finds the row can open the file, across crashes too.
RowHasFile == \A a \in attachments : a.id \in files

\* http.go (partner-offer-update): re-sending activated=true must not move an
\* activation moment already recorded.
ActivationKept ==
  [][\A p \in partners, q \in partners' :
       p.id = q.id /\ p.activated # None /\ q.activated # None
         => q.activated = p.activated]_vars

\* everything the tables hold for one account
BelongingsOf(u) ==
  LET own == {p \in periods : PeriodForUser(p.id, u)}
      off == {o \in offers : OfferForUser(o.id, u)}
  IN  <<own, off, {s \in selections : \E o \in off : o.id = s.offer},
        {p \in partners : p.user = u}, {a \in attachments : a.user = u},
        {l \in links : AttachmentForUser(l.attachment, u)},
        {x \in aliases : x.user = u}>>

\* A request only changes rows of the account it runs for: the deletes after the
\* user-scoped lookup (DeleteSelectionByOffer, DeleteCategoryOffer,
\* DeleteOfferPeriod, the link deletes) carry no user condition of their own.
OthersUntouched ==
  [][\A r \in Reqs, u \in Users :
       req'[r] # req[r] /\ req[r].op # None /\ u # req[r].user
         => BelongingsOf(u)' = BelongingsOf(u)]_vars
=============================================================================
