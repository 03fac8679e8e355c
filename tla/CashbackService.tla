-------------------------- MODULE CashbackService --------------------------
(***************************************************************************)
(* The requests of the cashback API (internal/cashback/service.go and      *)
(* http.go, bank clients of internal/server, uploads of internal/attach).  *)
(* No handler opens a transaction: a request is a sequence of statements   *)
(* that interleaves with every other request, and it acts on what it read  *)
(* some statements ago.  Operations of one statement are one action; the   *)
(* others start with their first read and keep what they learned in req.   *)
(* A call that the first read rejects changes nothing and is left out.     *)
(***************************************************************************)
EXTENDS CashbackStore

CONSTANTS
  Reqs,         \* goroutines that serve requests at the same time
  Ops,          \* the operations the clients of this instance call
  Backfills,    \* values of backfill_override
  AttachLists,  \* lists of screenshots a create call may name
  Mappings      \* explicit mappings [title, canonical] of a menu row, or None

Multi == {"CreateOfferPeriod", "DeleteOfferPeriod", "AttachScreenshot", "DetachScreenshot",
          "CreateCategoryOffer", "UpdateCategoryOffer", "DeleteCategoryOffer",
          "CreateSelection", "CreatePartnerOffer", "UpdatePartnerOffer",
          "DeletePartnerOffer", "AttachPartner", "DetachPartner", "Save"}

ASSUME ServiceAssumption ==
  /\ AttachLists \subseteq SUBSET AttachmentIds
  /\ Mappings \subseteq {None} \cup [title : Titles, canonical : Canons]
  /\ Backfills \subseteq BOOLEAN
  /\ None \notin Multi
  /\ None \notin [title : Titles, canonical : Canons]

VARIABLE req    \* what each goroutine is doing

vars == <<tables, req>>

Blank == [op |-> None, at |-> "idle", user |-> None, client |-> None, bank |-> None,
          target |-> None, offer |-> None, span |-> None, kind |-> None, map |-> None,
          day |-> 0, check |-> {}, attach |-> {}, reclaim |-> {}, doomed |-> {},
          seen |-> None]

Steps == {"idle", "ranges", "check", "insert", "recheck", "attach", "evidence", "menu",
          "selections", "row", "links", "parent", "unlink", "reclaim", "file", "alias",
          "update", "count", "prev", "store"}

Init == StoreInit /\ req = [r \in Reqs |-> Blank]

(**************************** control helpers ******************************)

Reads == UNCHANGED tables

Call(r, op)  == op \in Ops /\ req[r] = Blank
Begin(r, q)  == req' = [req EXCEPT ![r] = q] /\ Reads
In(r, op, s) == req[r].op = op /\ req[r].at = s
Finish(r)    == req' = [req EXCEPT ![r] = Blank]
Abort(r)     == Finish(r) /\ Reads
Goto(r, s)   == req' = [req EXCEPT ![r].at = s]

\* continue with step s when there is something to do there, else with t
When(S, s, t) == IF S = {} THEN t ELSE s

(************** bank clients (internal/server), one statement **************)

CreateBankClient == "CreateBankClient" \in Ops /\ UNCHANGED req /\
  \E c \in ClientIds, u \in Users, b \in Banks, t \in Tiers \cup {None} :
    InsertBankClient(c, u, b, t)

UpdateBankClient == "UpdateBankClient" \in Ops /\ UNCHANGED req /\
  \E c \in ClientIds, u \in Users, t \in Tiers \cup {None} : UpdateBankClientForUser(c, u, t)

DeleteBankClient == "DeleteBankClient" \in Ops /\ UNCHANGED req /\
  \E c \in ClientIds, u \in Users : DeleteBankClientForUser(c, u)

(***************************** offer periods *******************************)

CreateOfferPeriod(r) ==
  \E u \in Users, c \in ClientIds, s \in Spans, as \in AttachLists :
    /\ Call(r, "CreateOfferPeriod")
    /\ ClientForUser(c, u)
    /\ Begin(r, [Blank EXCEPT !.op = "CreateOfferPeriod", !.at = "ranges", !.user = u,
                   !.client = c, !.span = s, !.check = as, !.attach = as])

\* ListPeriodRangesForClient, then ValidateNewPeriod (invariant 4)
ValidateNewPeriod(r) ==
  /\ In(r, "CreateOfferPeriod", "ranges")
  /\ IF /\ Valid(req[r].span)
        /\ \A p \in periods : p.client = req[r].client => ~ Overlaps(req[r].span, p)
     THEN Goto(r, When(req[r].check, "check", "insert"))
     ELSE Finish(r)
  /\ Reads

InsertPeriod(r) ==
  /\ In(r, "CreateOfferPeriod", "insert")
  /\ \/ \E p \in PeriodIds :
          /\ InsertOfferPeriod(p, req[r].client, req[r].span)
          /\ IF req[r].attach = {} THEN Finish(r)
             ELSE req' = [req EXCEPT ![r].at = "attach", ![r].target = p]
     \/ ~ PeriodFits(req[r].client, req[r].span) /\ Abort(r)

SetPeriodMaxOverride == "SetPeriodMaxOverride" \in Ops /\ UNCHANGED req /\
  \E p \in PeriodIds, u \in Users, n \in Overrides : SetOfferPeriodMaxOverride(p, u, n)

\* mutant: the lookup forgets the user
DeleteOfferPeriodOfAnyone(r) ==
  \E u \in Users, p \in PeriodIds :
    /\ Call(r, "DeleteOfferPeriod")
    /\ \E row \in periods : row.id = p
    /\ Begin(r, [Blank EXCEPT !.op = "DeleteOfferPeriod", !.at = "evidence",
                   !.user = u, !.target = p])

DeleteOfferPeriod(r) ==
  \E u \in Users, p \in PeriodIds :
    /\ Call(r, "DeleteOfferPeriod")
    /\ PeriodForUser(p, u)
    /\ Begin(r, [Blank EXCEPT !.op = "DeleteOfferPeriod", !.at = "evidence",
                   !.user = u, !.target = p])

ListMenu(r) ==
  /\ In(r, "DeleteOfferPeriod", "menu")
  /\ LET ids == {o.id : o \in OffersOf(req[r].target)} IN
     req' = [req EXCEPT ![r].at = When(ids, "selections", "links"), ![r].doomed = ids]
  /\ Reads

DropPeriod(r) ==
  /\ In(r, "DeleteOfferPeriod", "parent")
  /\ \/ /\ DeletePeriodRow(req[r].target)
        /\ IF req[r].reclaim = {} THEN Finish(r) ELSE Goto(r, "reclaim")
     \/ ~ PeriodIsBare(req[r].target) /\ Abort(r)

(******************************* menu rows *********************************)

BankOfPeriod(p) == (CHOOSE c \in clients : \E row \in periods : row.id = p /\ row.client = c.id).bank
OfferRowOf(o) == CHOOSE row \in offers : row.id = o

\* resolveBankCategory can only reject (nothing is written before it), so it
\* is part of the calls left out
CreateCategoryOffer(r) ==
  \E u \in Users, p \in PeriodIds, k \in Kinds, m \in Mappings :
    /\ Call(r, "CreateCategoryOffer")
    /\ PeriodForUser(p, u)
    /\ Begin(r, [Blank EXCEPT !.op = "CreateCategoryOffer", !.at = "insert", !.user = u,
                   !.bank = BankOfPeriod(p), !.target = p, !.kind = k, !.map = m])

ThenAlias(r) == IF req[r].map = None THEN Finish(r) ELSE Goto(r, "alias")

InsertOffer(r) ==
  /\ In(r, "CreateCategoryOffer", "insert")
  /\ \/ \E o \in OfferIds : InsertCategoryOffer(o, req[r].target, req[r].kind) /\ ThenAlias(r)
     \/ ~ (\E row \in periods : row.id = req[r].target) /\ Abort(r)

UpdateCategoryOffer(r) ==
  \E u \in Users, o \in OfferIds, k \in Kinds, m \in Mappings :
    /\ Call(r, "UpdateCategoryOffer")
    /\ OfferForUser(o, u)
    /\ Begin(r, [Blank EXCEPT !.op = "UpdateCategoryOffer", !.at = "update", !.user = u,
                   !.bank = BankOfPeriod(OfferRowOf(o).period), !.offer = o, !.kind = k, !.map = m])

UpdateOffer(r) ==
  /\ In(r, "UpdateCategoryOffer", "update")
  /\ \/ UpdateCategoryOfferForUser(req[r].offer, req[r].user, req[r].kind) /\ ThenAlias(r)
     \/ ~ OfferForUser(req[r].offer, req[r].user) /\ Abort(r)

RememberAlias(r) ==
  /\ req[r].at = "alias"
  /\ UpsertAlias(req[r].bank, req[r].map.title, req[r].user, req[r].map.canonical)
  /\ Finish(r)

DeleteCategoryOffer(r) ==
  \E u \in Users, o \in OfferIds :
    /\ Call(r, "DeleteCategoryOffer")
    /\ OfferForUser(o, u)
    /\ Begin(r, [Blank EXCEPT !.op = "DeleteCategoryOffer", !.at = "selections",
                   !.user = u, !.doomed = {o}])

\* DeleteSelectionByOffer, then DeleteCategoryOffer, for every doomed row
DropSelection(r) ==
  /\ req[r].at = "selections"
  /\ \E o \in req[r].doomed :
       /\ DeleteSelectionByOffer(o)
       /\ req' = [req EXCEPT ![r].at = "row", ![r].offer = o]

DropOffer(r) ==
  /\ req[r].at = "row"
  /\ \/ /\ DeleteOfferRow(req[r].offer)
        /\ LET left == req[r].doomed \ {req[r].offer} IN
           IF left = {} /\ req[r].op = "DeleteCategoryOffer" THEN Finish(r)
           ELSE req' = [req EXCEPT ![r].at = When(left, "selections", "links"),
                          ![r].doomed = left, ![r].offer = None]
     \/ ~ OfferIsUnselected(req[r].offer) /\ Abort(r)

(****************************** selections *********************************)

\* effectiveMax: the period's override, else the tier's count, else no limit
EffectiveMax(p) ==
  LET row == CHOOSE x \in periods : x.id = p
      c   == CHOOSE x \in clients : x.id = row.client
  IN  CASE row.override # None -> row.override
        [] row.override = None /\ c.tier # None -> TierMax[c.tier]
        [] OTHER -> None

\* GetOfferWithContextForUser; the tier catalogue never changes at run time,
\* so the limit is settled by what this statement returns
ContextOf(o, d, backfill) ==
  LET p == OfferRowOf(o).period IN
  [selected |-> ~ OfferIsUnselected(o),
   kind     |-> OfferRowOf(o).kind,
   dated    |-> backfill \/ Contains(CHOOSE x \in periods : x.id = p, d),
   backfill |-> backfill,
   limit    |-> EffectiveMax(p)]

CreateSelection(r) ==
  \E u \in Users, o \in OfferIds, d \in Days, backfill \in Backfills :
    /\ Call(r, "CreateSelection")
    /\ OfferForUser(o, u)
    /\ Begin(r, [Blank EXCEPT !.op = "CreateSelection", !.at = "count", !.user = u,
                   !.offer = o, !.target = OfferRowOf(o).period, !.day = d,
                   !.seen = ContextOf(o, d, backfill)])

\* mutant: an off-by-one in the slot check
SelectionAllowedOneMore(seen, count) ==
  /\ ~ seen.selected
  /\ seen.dated
  /\ seen.kind = "regular" /\ seen.limit # None => count <= seen.limit

\* CountRegularSelectionsInPeriod, then ValidateSelection (invariants 1 and 2)
SelectionAllowed(seen, count) ==
  /\ ~ seen.selected
  /\ seen.dated
  /\ seen.kind = "regular" /\ seen.limit # None => count < seen.limit

ValidateSelection(r) ==
  /\ In(r, "CreateSelection", "count")
  /\ IF SelectionAllowed(req[r].seen, Cardinality(RegularSelections(req[r].target)))
     THEN Goto(r, "insert") ELSE Finish(r)
  /\ Reads

InsertSelectionRow(r) ==
  /\ In(r, "CreateSelection", "insert")
  /\ \/ \E s \in SelectionIds : InsertSelection(s, req[r].offer, req[r].day) /\ Finish(r)
     \/ ~ Selectable(req[r].offer) /\ Abort(r)

DeleteSelection == "DeleteSelection" \in Ops /\ UNCHANGED req /\
  \E s \in SelectionIds, u \in Users : DeleteSelectionForUser(s, u)

(***************************** partner offers ******************************)

\* AssertOwnsClient: null is not tied to a client
OwnsClient(u, c) == c = None \/ ClientForUser(c, u)

CreatePartnerOffer(r) ==
  \E u \in Users, c \in ClientIds \cup {None}, as \in AttachLists :
    /\ Call(r, "CreatePartnerOffer")
    /\ OwnsClient(u, c)
    /\ Begin(r, [Blank EXCEPT !.op = "CreatePartnerOffer", !.at = When(as, "check", "insert"),
                   !.user = u, !.client = c, !.check = as, !.attach = as])

\* mutant: the previous moment ignored
ActivationNow(prev) == {None} \cup (Moments \ spent)

\* partnerV2Params: not activated, the moment already recorded, or now
ActivationOf(prev) == {None} \cup (IF prev = None THEN Moments \ spent ELSE {prev})

InsertPartner(r) ==
  /\ In(r, "CreatePartnerOffer", "insert")
  /\ \/ \E p \in PartnerIds, act \in ActivationOf(None) :
          /\ InsertPartnerOffer(p, req[r].user, req[r].client, act)
          /\ IF req[r].attach = {} THEN Finish(r)
             ELSE req' = [req EXCEPT ![r].at = "recheck", ![r].target = p,
                            ![r].check = req[r].attach]
     \/ ~ ClientRefExists(req[r].client) /\ Abort(r)

UpdatePartnerOffer(r) ==
  \E u \in Users, p \in PartnerIds, c \in ClientIds \cup {None} :
    /\ Call(r, "UpdatePartnerOffer")
    /\ OwnsClient(u, c)
    /\ Begin(r, [Blank EXCEPT !.op = "UpdatePartnerOffer", !.at = "prev", !.user = u,
                   !.client = c, !.target = p])

ReadPreviousActivation(r) ==
  /\ In(r, "UpdatePartnerOffer", "prev")
  /\ IF PartnerForUser(req[r].target, req[r].user)
     THEN LET row == CHOOSE x \in partners : x.id = req[r].target IN
          req' = [req EXCEPT ![r].at = "update", ![r].seen = row.activated]
     ELSE Finish(r)
  /\ Reads

UpdatePartner(r) ==
  /\ In(r, "UpdatePartnerOffer", "update")
  /\ \/ /\ \E act \in ActivationOf(req[r].seen) :
             UpdatePartnerOfferForUser(req[r].target, req[r].user, req[r].client, act)
        /\ Finish(r)
     \/ /\ ~ (PartnerForUser(req[r].target, req[r].user) /\ ClientRefExists(req[r].client))
        /\ Abort(r)

EndOrReopenPartnerOffer == "EndPartnerOffer" \in Ops /\ UNCHANGED req /\
  \E p \in PartnerIds, u \in Users, ended \in BOOLEAN : SetPartnerEnded(p, u, ended)

DeletePartnerOffer(r) ==
  \E u \in Users, p \in PartnerIds :
    /\ Call(r, "DeletePartnerOffer")
    /\ PartnerForUser(p, u)
    /\ Begin(r, [Blank EXCEPT !.op = "DeletePartnerOffer", !.at = "evidence",
                   !.user = u, !.target = p])

DropPartner(r) ==
  /\ In(r, "DeletePartnerOffer", "parent")
  /\ \/ /\ DeletePartnerRow(req[r].target, req[r].user)
        /\ IF req[r].reclaim = {} THEN Finish(r) ELSE Goto(r, "reclaim")
     \/ /\ ~ (PartnerForUser(req[r].target, req[r].user) /\ LinksOf(req[r].target) = {})
        /\ Abort(r)

(******************************* screenshots *******************************)

\* Save: the file first, then the row; a failed insert takes the file back
Save(r) ==
  \E u \in Users, a \in AttachmentIds :
    /\ Call(r, "Save")
    /\ WriteFile(a)
    /\ req' = [req EXCEPT ![r] = [Blank EXCEPT !.op = "Save", !.at = "store",
                                    !.user = u, !.attach = {a}]]

StoreRow(r) ==
  /\ In(r, "Save", "store")
  /\ \E a \in req[r].attach : InsertAttachment(a, req[r].user) \/ RemoveFile(a)
  /\ Finish(r)

ParentForUser(parent, u) == PeriodForUser(parent, u) \/ PartnerForUser(parent, u)

\* the parent's lookup decides the operation: a period's or a partner offer's
AttachOp(parent) == IF parent \in PeriodIds THEN "AttachScreenshot" ELSE "AttachPartner"
DetachOp(parent) == IF parent \in PeriodIds THEN "DetachScreenshot" ELSE "DetachPartner"

Attach(r) ==
  \E u \in Users, parent \in PeriodIds \cup PartnerIds, a \in AttachmentIds :
    /\ Call(r, AttachOp(parent))
    /\ ParentForUser(parent, u)
    /\ Begin(r, [Blank EXCEPT !.op = AttachOp(parent), !.at = "recheck", !.user = u,
                   !.target = parent, !.check = {a}, !.attach = {a}])

\* mutant: ownership of the screenshot not checked
CheckNothing(r) ==
  /\ req[r].at \in {"check", "recheck"}
  /\ Goto(r, IF req[r].at = "check" THEN "insert" ELSE "attach")
  /\ Reads

\* GetAttachmentForUser, one id at a time; a foreign or missing id ends the call
CheckAttachment(r) ==
  /\ req[r].at \in {"check", "recheck"}
  /\ \E a \in req[r].check :
       IF AttachmentForUser(a, req[r].user)
       THEN LET left == req[r].check \ {a}
                next == IF req[r].at = "check" THEN "insert" ELSE "attach"
            IN  req' = [req EXCEPT ![r].at = When(left, req[r].at, next), ![r].check = left]
       ELSE Finish(r)
  /\ Reads

AttachNext(r) ==
  /\ req[r].at = "attach"
  /\ \E a \in req[r].attach :
       LET left == req[r].attach \ {a} IN
       \/ /\ InsertLink(req[r].target, a)
          /\ IF left = {} THEN Finish(r) ELSE req' = [req EXCEPT ![r].attach = left]
       \/ ~ Linkable(req[r].target, a) /\ Abort(r)

Detach(r) ==
  \E u \in Users, parent \in PeriodIds \cup PartnerIds, a \in AttachmentIds :
    /\ Call(r, DetachOp(parent))
    /\ ParentForUser(parent, u)
    /\ Begin(r, [Blank EXCEPT !.op = DetachOp(parent), !.at = "unlink", !.user = u,
                   !.target = parent, !.reclaim = {a}])

\* mutant: the link goes, nothing is reclaimed
UnlinkOnly(r) ==
  /\ req[r].at = "unlink"
  /\ DeleteLinks({l \in LinksOf(req[r].target) : l.attachment \in req[r].reclaim})
  /\ Finish(r)

Unlink(r) ==
  /\ req[r].at = "unlink"
  /\ LET gone == {l \in LinksOf(req[r].target) : l.attachment \in req[r].reclaim} IN
     \/ gone # {} /\ DeleteLinks(gone) /\ Goto(r, "reclaim")
     \/ gone = {} /\ Abort(r)

\* the links are read before they are deleted: afterwards nothing names them
ListEvidence(r) ==
  /\ req[r].at = "evidence"
  /\ req' = [req EXCEPT ![r].reclaim = {l.attachment : l \in LinksOf(req[r].target)},
               ![r].at = IF req[r].op = "DeleteOfferPeriod" THEN "menu" ELSE "links"]
  /\ Reads

DropLinks(r) ==
  /\ req[r].at = "links"
  /\ DeleteLinks(LinksOf(req[r].target))
  /\ Goto(r, "parent")

\* reclaimAttachments: DeleteAttachmentIfOrphan per id, then the disk file
AfterReclaim(r, a) ==
  LET left == req[r].reclaim \ {a} IN
  IF left = {} THEN Finish(r)
  ELSE req' = [req EXCEPT ![r].at = "reclaim", ![r].reclaim = left, ![r].check = {}]

Reclaim(r) ==
  /\ req[r].at = "reclaim"
  /\ \E a \in req[r].reclaim :
       \/ /\ DeleteAttachmentRow(a, req[r].user)
          /\ req' = [req EXCEPT ![r].at = "file", ![r].check = {a}]
       \/ ~ IsOrphan(a, req[r].user) /\ AfterReclaim(r, a) /\ Reads

\* best effort: an error leaves the file and is ignored
RemoveAttachmentFile(r) ==
  /\ req[r].at = "file"
  /\ \E a \in req[r].check : AfterReclaim(r, a) /\ (RemoveFile(a) \/ Reads)

(***************************************************************************)
(* The process dies: requests in flight are lost, tables and files stay.   *)
(***************************************************************************)
Restart ==
  /\ "Restart" \in Ops
  /\ \E r \in Reqs : req[r] # Blank
  /\ req' = [r \in Reqs |-> Blank]
  /\ Reads

OneStatement ==
  \/ CreateBankClient \/ UpdateBankClient \/ DeleteBankClient
  \/ SetPeriodMaxOverride \/ DeleteSelection \/ EndOrReopenPartnerOffer

Arrive(r) ==
  \/ CreateOfferPeriod(r) \/ DeleteOfferPeriod(r)
  \/ CreateCategoryOffer(r) \/ UpdateCategoryOffer(r) \/ DeleteCategoryOffer(r)
  \/ CreateSelection(r)
  \/ CreatePartnerOffer(r) \/ UpdatePartnerOffer(r) \/ DeletePartnerOffer(r)
  \/ Save(r) \/ Attach(r) \/ Detach(r)

Proceed(r) ==
  \/ ValidateNewPeriod(r) \/ InsertPeriod(r) \/ ListMenu(r) \/ DropPeriod(r)
  \/ InsertOffer(r) \/ UpdateOffer(r) \/ RememberAlias(r)
  \/ DropSelection(r) \/ DropOffer(r)
  \/ ValidateSelection(r) \/ InsertSelectionRow(r)
  \/ InsertPartner(r) \/ ReadPreviousActivation(r) \/ UpdatePartner(r) \/ DropPartner(r)
  \/ StoreRow(r) \/ CheckAttachment(r) \/ AttachNext(r) \/ Unlink(r)
  \/ ListEvidence(r) \/ DropLinks(r) \/ Reclaim(r) \/ RemoveAttachmentFile(r)

Next == OneStatement \/ Restart \/ \E r \in Reqs : Arrive(r) \/ Proceed(r)

Spec == Init /\ [][Next]_vars
=============================================================================
