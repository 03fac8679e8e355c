--------------------------- MODULE CashbackStore ---------------------------
(***************************************************************************)
(* The PostgreSQL tables of the cashback module and the statements of      *)
(* internal/db/queries that the service issues against them.  A statement  *)
(* is atomic (every one runs in a transaction of its own, READ COMMITTED); *)
(* what a constraint of the schema rejects is a disjunct or a guard of the *)
(* statement.  A table is a set of rows and a row is a record.             *)
(***************************************************************************)
EXTENDS Integers, FiniteSets

CONSTANTS
  Users, Banks,
  ClientIds, PeriodIds, OfferIds, SelectionIds, PartnerIds, AttachmentIds,
                   \* the values each table's id can take in an instance
  Moments,         \* readings of the server's clock
  Titles, Canons,  \* raw menu titles, canonical categories
  TierMax,         \* program_tier.max_categories, a function on tier ids
  Spans,           \* period bounds a client may send, [from, to], any order
  Days,            \* days a selection may be dated
  Overrides,       \* slot counts a period may be given (1 or more, or null)
  None             \* SQL null

Tiers  == DOMAIN TierMax
Limits == (Nat \ {0}) \cup {None}
Kinds  == {"regular", "super", "special"}

\* Table ids are generated once and for all: pools never meet, and null is no id.
ASSUME StoreAssumption ==
  /\ TierMax \in [Tiers -> Limits]
  /\ Spans \subseteq [from : Nat, to : Nat]
  /\ Days \subseteq Nat
  /\ Overrides \subseteq Limits
  /\ PeriodIds \cap PartnerIds = {}
  /\ \A S \in {Users, Banks, Tiers, ClientIds, Canons, Moments} : None \notin S
  /\ None \notin Nat

Ids == UNION {ClientIds, PeriodIds, OfferIds, SelectionIds, PartnerIds, AttachmentIds}

ASSUME NullIsNoId == None \notin Ids

VARIABLES
  clients,      \* bank_client
  periods,      \* offer_period
  offers,       \* category_offer
  selections,   \* selection
  aliases,      \* bank_category_alias
  partners,     \* partner_offer
  attachments,  \* attachment
  links,        \* offer_period_attachment and partner_offer_attachment
  files,        \* the attachment directory: ids that have a file
  spent         \* ids and clock readings already used: none comes twice

tables == <<clients, periods, offers, selections, aliases, partners,
            attachments, links, files, spent>>

ClientRow     == [id: ClientIds, user: Users, bank: Banks, tier: Tiers \cup {None}]
PeriodRow     == [id: PeriodIds, client: ClientIds, from: Nat, to: Nat, override: Limits]
OfferRow      == [id: OfferIds, period: PeriodIds, kind: Kinds]
SelectionRow  == [id: SelectionIds, offer: OfferIds, day: Nat]
AliasRow      == [bank: Banks, title: Titles, user: Users, canonical: Canons]
PartnerRow    == [id: PartnerIds, user: Users, client: ClientIds \cup {None},
                  activated: Moments \cup {None}, ended: BOOLEAN]
AttachmentRow == [id: AttachmentIds, user: Users]
LinkRow       == [parent: PeriodIds \cup PartnerIds, attachment: AttachmentIds]

StoreTypeOK ==
  /\ clients     \subseteq ClientRow
  /\ periods     \subseteq PeriodRow
  /\ offers      \subseteq OfferRow
  /\ selections  \subseteq SelectionRow
  /\ aliases     \subseteq AliasRow
  /\ partners    \subseteq PartnerRow
  /\ attachments \subseteq AttachmentRow
  /\ links       \subseteq LinkRow
  /\ files       \subseteq AttachmentIds
  /\ spent \subseteq UNION {ClientIds, PeriodIds, OfferIds, SelectionIds,
                            PartnerIds, AttachmentIds, Moments}

StoreInit ==
  /\ clients = {} /\ periods = {} /\ offers = {} /\ selections = {}
  /\ aliases = {} /\ partners = {} /\ attachments = {} /\ links = {}
  /\ files = {} /\ spent = {}

(***************************** dates (domain.go) ***************************)

Valid(r)       == r.from <= r.to
Contains(r, d) == r.from <= d /\ d <= r.to
Overlaps(r, o) == r.from <= o.to /\ o.from <= r.to

(******************************** queries **********************************)

\* the user-scoped lookups: the row exists and its client is the caller's
ClientForUser(c, u)     == \E row \in clients : row.id = c /\ row.user = u
PeriodForUser(p, u)     == \E row \in periods : row.id = p /\ ClientForUser(row.client, u)
OfferForUser(o, u)      == \E row \in offers : row.id = o /\ PeriodForUser(row.period, u)
PartnerForUser(p, u)    == \E row \in partners : row.id = p /\ row.user = u
AttachmentForUser(a, u) == \E row \in attachments : row.id = a /\ row.user = u

OffersOf(p) == {o \in offers : o.period = p}
LinksOf(p)  == {l \in links : l.parent = p}

\* CountRegularSelectionsInPeriod
RegularSelections(p) ==
  {s \in selections : \E o \in OffersOf(p) : o.id = s.offer /\ o.kind = "regular"}

(******************************* statements ********************************)

KeepMenu     == UNCHANGED <<clients, periods, offers, selections, aliases>>
KeepEvidence == UNCHANGED <<attachments, links, files>>

InsertBankClient(c, u, b, t) ==
  /\ c \notin spent
  /\ clients' = clients \cup {[id |-> c, user |-> u, bank |-> b, tier |-> t]}
  /\ spent' = spent \cup {c}
  /\ UNCHANGED <<periods, offers, selections, aliases, partners>> /\ KeepEvidence

UpdateBankClientForUser(c, u, t) ==
  /\ ClientForUser(c, u)
  /\ clients' = {IF row.id = c THEN [row EXCEPT !.tier = t] ELSE row : row \in clients}
  /\ UNCHANGED <<periods, offers, selections, aliases, partners, spent>> /\ KeepEvidence

\* refused (409) while a period or a partner offer names the client
DeleteBankClientForUser(c, u) ==
  /\ ClientForUser(c, u)
  /\ ~ \E p \in periods : p.client = c
  /\ ~ \E p \in partners : p.client = c
  /\ clients' = {row \in clients : row.id # c}
  /\ UNCHANGED <<periods, offers, selections, aliases, partners, spent>> /\ KeepEvidence

\* mutant: a schema without the exclusion constraint
PeriodFitsUnchecked(c, r) == Valid(r) /\ \E row \in clients : row.id = c

\* the exclusion constraint offer_period_no_overlap, the check on the bounds
\* and the foreign key to bank_client
PeriodFits(c, r) ==
  /\ Valid(r)
  /\ \E row \in clients : row.id = c
  /\ \A p \in periods : p.client = c => ~ Overlaps(p, r)

InsertOfferPeriod(p, c, r) ==
  /\ p \notin spent
  /\ PeriodFits(c, r)
  /\ periods' = periods \cup
       {[id |-> p, client |-> c, from |-> r.from, to |-> r.to, override |-> None]}
  /\ spent' = spent \cup {p}
  /\ UNCHANGED <<clients, offers, selections, aliases, partners>> /\ KeepEvidence

SetOfferPeriodMaxOverride(p, u, n) ==
  /\ PeriodForUser(p, u)
  /\ periods' = {IF row.id = p THEN [row EXCEPT !.override = n] ELSE row : row \in periods}
  /\ UNCHANGED <<clients, offers, selections, aliases, partners, spent>> /\ KeepEvidence

\* plain foreign keys: a menu row or a link left under the period refuses it
PeriodIsBare(p) == OffersOf(p) = {} /\ LinksOf(p) = {}

DeletePeriodRow(p) ==
  /\ PeriodIsBare(p)
  /\ periods' = {row \in periods : row.id # p}
  /\ UNCHANGED <<clients, offers, selections, aliases, partners, spent>> /\ KeepEvidence

InsertCategoryOffer(o, p, k) ==
  /\ o \notin spent
  /\ \E row \in periods : row.id = p
  /\ offers' = offers \cup {[id |-> o, period |-> p, kind |-> k]}
  /\ spent' = spent \cup {o}
  /\ UNCHANGED <<clients, periods, selections, aliases, partners>> /\ KeepEvidence

UpdateCategoryOfferForUser(o, u, k) ==
  /\ OfferForUser(o, u)
  /\ offers' = {IF row.id = o THEN [row EXCEPT !.kind = k] ELSE row : row \in offers}
  /\ UNCHANGED <<clients, periods, selections, aliases, partners, spent>> /\ KeepEvidence

DeleteSelectionByOffer(o) ==
  /\ selections' = {row \in selections : row.offer # o}
  /\ UNCHANGED <<clients, periods, offers, aliases, partners, spent>> /\ KeepEvidence

\* the foreign key selection -> category_offer
OfferIsUnselected(o) == ~ \E s \in selections : s.offer = o

DeleteOfferRow(o) ==
  /\ OfferIsUnselected(o)
  /\ offers' = {row \in offers : row.id # o}
  /\ UNCHANGED <<clients, periods, selections, aliases, partners, spent>> /\ KeepEvidence

\* unique (category_offer_id) and the foreign key
Selectable(o) == (\E row \in offers : row.id = o) /\ OfferIsUnselected(o)

InsertSelection(s, o, d) ==
  /\ s \notin spent
  /\ Selectable(o)
  /\ selections' = selections \cup {[id |-> s, offer |-> o, day |-> d]}
  /\ spent' = spent \cup {s}
  /\ UNCHANGED <<clients, periods, offers, aliases, partners>> /\ KeepEvidence

DeleteSelectionForUser(s, u) ==
  /\ \E row \in selections : row.id = s /\ OfferForUser(row.offer, u)
  /\ selections' = {row \in selections : row.id # s}
  /\ UNCHANGED <<clients, periods, offers, aliases, partners, spent>> /\ KeepEvidence

\* insert .. on conflict (bank, title, user) do update
UpsertAlias(b, t, u, c) ==
  /\ aliases' = {row \in aliases : ~ (row.bank = b /\ row.title = t /\ row.user = u)}
                  \cup {[bank |-> b, title |-> t, user |-> u, canonical |-> c]}
  /\ UNCHANGED <<clients, periods, offers, selections, partners, spent>> /\ KeepEvidence

\* null or an existing client (foreign key)
ClientRefExists(c) == c = None \/ \E row \in clients : row.id = c

InsertPartnerOffer(p, u, c, act) ==
  /\ p \notin spent
  /\ ClientRefExists(c)
  /\ partners' = partners \cup
       {[id |-> p, user |-> u, client |-> c, activated |-> act, ended |-> FALSE]}
  /\ spent' = (spent \cup {p, act}) \ {None}
  /\ KeepMenu /\ KeepEvidence

UpdatePartnerOfferForUser(p, u, c, act) ==
  /\ PartnerForUser(p, u)
  /\ ClientRefExists(c)
  /\ partners' = {IF row.id = p THEN [row EXCEPT !.client = c, !.activated = act] ELSE row :
                  row \in partners}
  /\ spent' = (spent \cup {act}) \ {None}
  /\ KeepMenu /\ KeepEvidence

\* EndPartnerOfferForUser (TRUE) and ReopenPartnerOfferForUser (FALSE)
SetPartnerEnded(p, u, ended) ==
  /\ PartnerForUser(p, u)
  /\ partners' = {IF row.id = p THEN [row EXCEPT !.ended = ended] ELSE row : row \in partners}
  /\ spent' = spent
  /\ KeepMenu /\ KeepEvidence

DeletePartnerRow(p, u) ==
  /\ PartnerForUser(p, u)
  /\ LinksOf(p) = {}
  /\ partners' = {row \in partners : row.id # p}
  /\ spent' = spent
  /\ KeepMenu /\ KeepEvidence

(***************** attachments: rows, link rows and the disk ***************)

KeepRecords == KeepMenu /\ UNCHANGED partners

WriteFile(a) ==
  /\ a \notin spent
  /\ files' = files \cup {a}
  /\ spent' = spent \cup {a}
  /\ UNCHANGED <<attachments, links>> /\ KeepRecords

RemoveFile(a) ==
  /\ files' = files \ {a}
  /\ UNCHANGED <<attachments, links, spent>> /\ KeepRecords

InsertAttachment(a, u) ==
  /\ attachments' = attachments \cup {[id |-> a, user |-> u]}
  /\ UNCHANGED <<links, files, spent>> /\ KeepRecords

\* AttachToOfferPeriod / AttachToPartnerOffer need both ends (foreign keys)
Linkable(parent, a) ==
  /\ \E row \in attachments : row.id = a
  /\ \E row \in periods \cup partners : row.id = parent

InsertLink(parent, a) ==
  /\ Linkable(parent, a)
  /\ links' = links \cup {[parent |-> parent, attachment |-> a]}
  /\ UNCHANGED <<attachments, files, spent>> /\ KeepRecords

\* DetachFrom.. (one attachment) and Delete..Attachments (all of a parent's)
DeleteLinks(gone) ==
  /\ links' = links \ gone
  /\ UNCHANGED <<attachments, files, spent>> /\ KeepRecords

\* DeleteAttachmentIfOrphan: its owner's, and neither join names it
IsOrphan(a, u) == AttachmentForUser(a, u) /\ ~ \E l \in links : l.attachment = a

DeleteAttachmentRow(a, u) ==
  /\ IsOrphan(a, u)
  /\ attachments' = {row \in attachments : row.id # a}
  /\ UNCHANGED <<links, files, spent>> /\ KeepRecords

(***************************************************************************)
(* Any client of the schema: one statement at a time, whatever its order.  *)
(* What follows from constraints alone holds of this specification, and of *)
(* the service because each of its steps issues one statement or none.     *)
(***************************************************************************)
ClientStatement ==
  \E c \in ClientIds, u \in Users :
    \/ \E b \in Banks, t \in Tiers \cup {None} : InsertBankClient(c, u, b, t)
    \/ \E t \in Tiers \cup {None} : UpdateBankClientForUser(c, u, t)
    \/ DeleteBankClientForUser(c, u)

PeriodStatement ==
  \E p \in PeriodIds :
    \/ \E c \in ClientIds, r \in Spans : InsertOfferPeriod(p, c, r)
    \/ \E u \in Users, n \in Overrides : SetOfferPeriodMaxOverride(p, u, n)
    \/ DeletePeriodRow(p)

MenuStatement ==
  \E o \in OfferIds :
    \/ \E p \in PeriodIds, k \in Kinds : InsertCategoryOffer(o, p, k)
    \/ \E u \in Users, k \in Kinds : UpdateCategoryOfferForUser(o, u, k)
    \/ DeleteSelectionByOffer(o)
    \/ DeleteOfferRow(o)
    \/ \E s \in SelectionIds, d \in Days : InsertSelection(s, o, d)

OtherStatement ==
  \/ \E s \in SelectionIds, u \in Users : DeleteSelectionForUser(s, u)
  \/ \E b \in Banks, t \in Titles, u \in Users, c \in Canons : UpsertAlias(b, t, u, c)

PartnerStatement ==
  \E p \in PartnerIds, u \in Users :
    \/ \E c \in ClientIds \cup {None}, act \in Moments \cup {None} :
         InsertPartnerOffer(p, u, c, act) \/ UpdatePartnerOfferForUser(p, u, c, act)
    \/ \E ended \in BOOLEAN : SetPartnerEnded(p, u, ended)
    \/ DeletePartnerRow(p, u)

EvidenceStatement ==
  \/ \E a \in AttachmentIds :
       \/ WriteFile(a) \/ RemoveFile(a)
       \/ \E u \in Users : InsertAttachment(a, u) \/ DeleteAttachmentRow(a, u)
       \/ \E parent \in PeriodIds \cup PartnerIds : InsertLink(parent, a)
  \/ \E gone \in SUBSET links : DeleteLinks(gone)

Statement == ClientStatement \/ PeriodStatement \/ MenuStatement \/ OtherStatement
               \/ PartnerStatement \/ EvidenceStatement

StoreSpec == StoreInit /\ [][Statement]_tables
=============================================================================
