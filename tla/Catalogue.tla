------------------------------ MODULE Catalogue -----------------------------
(***************************************************************************)
(* The picker catalog of a bank has three writers: every deployment seeds  *)
(* the release's reference data while the app serves, users add rows and   *)
(* mappings of their own (internal/cashback), and the operator edits what  *)
(* the seed does not own (internal/admin). A call is modelled statement by *)
(* statement, a seed run may stop after any statement.                     *)
(***************************************************************************)
EXTENDS Seed

CONSTANTS
  Users, Runners, Banks, Titles, Normal, Slugs, OfferIds, Data, Orphans,
  Entries,      \* what users type: [title, slug]
  Edits,        \* what the operator types: [title, slug, active]
  DeskCodes,    \* codes the operator writes
  LinkCodes,    \* codes the operator gives to rows
  Glosses,      \* what the operator says of a code
  MaxRows       \* users add rows up to this id

Desk == "operator"

Releases == DOMAIN Data

\* cashback_offer_kind
Kinds == {"regular", "special", "super"}

Listed(rows) == rows \in Seq(Range(rows))

ASSUME CatalogueAssumption ==
  /\ Titles \subseteq Nat
  /\ \A e \in Entries \cup Edits : e.title \in Titles /\ e.slug \in {None} \cup Slugs
  /\ \A e \in Edits : e.active \in BOOLEAN
  /\ Normal \in [Titles -> Titles]
  /\ None \notin Users /\ None \notin Banks /\ None \notin Titles /\ None \notin Slugs
  /\ Desk \notin Users

ASSUME OrphansAssumption ==
  /\ IsFiniteSet(Orphans)
  /\ \A o \in Orphans :
       /\ o \in [id : 1..Cardinality(Orphans), bank : Banks, title : Titles, by : {None},
                 custom : {TRUE}, slug : {None}, kind : Kinds, active : BOOLEAN]
       /\ \A p \in Orphans : o.id = p.id \/ (o.bank = p.bank /\ o.title = p.title) => o = p

ASSUME ReleaseAssumption ==
  /\ Data # <<>> /\ Listed(Data)
  /\ \A n \in Releases :
       LET d == Data[n] IN
       /\ Listed(d.banks) /\ Listed(d.programs) /\ Listed(d.canonicals) /\ Listed(d.colors)
       /\ d.titles \in Seq([bank : Banks, title : Titles, slug : {None} \cup Slugs,
                            kind : Kinds, active : BOOLEAN])
       /\ d.retiredTitles \in Seq([bank : Banks, title : Titles, now : Titles])
       /\ d.aliases \in Seq([bank : Banks, title : Titles, slug : Slugs])
       /\ d.retiredAliases \in Seq([bank : Banks, title : Titles, slug : Slugs])

SameTitle(t, u) == t.bank = u.bank /\ t.title = u.title

\* rows of a release that name a row once, and none that the release retires
OnceListed(rows, retired) ==
  \A t \in Range(rows) : /\ \A u \in Range(rows) : SameTitle(t, u) => t = u
                         /\ \A u \in Range(retired) : ~ SameTitle(t, u)

\* a row needs what comes before it, and a key has one value
Consistent(d) ==
  LET base  == d.programs \o d.canonicals
      banks == {b.key : b \in Range(d.banks)}
      slugs == {c.key : c \in Range(d.canonicals)} IN
  /\ \A b \in Range(d.banks) : b.needs = {}
  /\ \A i \in DOMAIN base : base[i].needs \subseteq banks \cup {base[j].key : j \in 1..(i - 1)}
  /\ \A c \in Range(d.colors) : c.key \in banks
  /\ \A f, g \in Range(base) \cup Range(d.colors) : f.key = g.key => f.value = g.value
  /\ \A a \in Range(d.aliases) : a.bank \in banks /\ a.slug \in slugs
  /\ \A t \in Range(d.titles) : t.bank \in banks /\ t.slug \in {None} \cup slugs
  /\ OnceListed(d.aliases, d.retiredAliases) /\ OnceListed(d.titles, d.retiredTitles)

\* the new spelling of t is among the titles
Respelled(t, titles) == \E u \in Range(titles) : u.bank = t.bank /\ u.title = t.now

\* no release lists what an earlier one retired, and a new spelling comes with the
\* retirement of the old one
ASSUME SeedDataAssumption ==
  \A n \in Releases :
    /\ Consistent(Data[n])
    /\ \A t \in Range(Data[n].retiredTitles), m \in Releases :
         /\ Respelled(t, Data[m].titles) => t \in Range(Data[m].retiredTitles)
         /\ m >= n => \A u \in Range(Data[m].titles) : ~ SameTitle(t, u)

VARIABLES
  runs,         \* seed runs under way: [release, at]
  deployed,     \* release whose seed was last started
  loaded,       \* release a seed run has completed
  sidecar,      \* release the operator's binary was built from
  calls         \* what a request has read and not yet written

rest == <<runs, deployed, loaded, sidecar>>
vars == <<tables, rest, calls>>

Runs == [n \in Releases |-> Run(Data[n])]

(*************************** the seed of a deployment **********************)

Running == {r \in Runners : runs[r] # None}

\* a deployment never goes back, and two run at once only of one release
StartSeed(r) ==
  \E n \in {deployed, deployed + 1} \cap Releases :
    /\ runs[r] = None
    /\ \A q \in Running : runs[q].release = n
    /\ runs' = [runs EXCEPT ![r] = [release |-> n, at |-> 1]]
    /\ deployed' = n
    /\ UNCHANGED <<tables, loaded, sidecar, calls>>

StepSeed(r) ==
  /\ runs[r] # None
  /\ LET todo == Runs[runs[r].release]
         last == runs[r].at = Len(todo)
     IN  /\ Execute(todo[runs[r].at])
         /\ runs' = [runs EXCEPT ![r] = IF last THEN None ELSE [runs[r] EXCEPT !.at = @ + 1]]
         /\ loaded' = IF last THEN runs[r].release ELSE loaded
  /\ UNCHANGED <<deployed, sidecar, calls>>

\* stopped, or failed: two runs that insert one program collide on its key
BreakSeed(r) ==
  /\ runs[r] # None
  /\ runs' = [runs EXCEPT ![r] = None]
  /\ UNCHANGED <<tables, deployed, loaded, sidecar, calls>>

RestartSidecar ==
  /\ sidecar < deployed /\ calls[Desk] = None
  /\ sidecar' = deployed
  /\ UNCHANGED <<tables, runs, deployed, loaded, calls>>

(********************************* users ***********************************)

Seen(c, u) == c.by \in {None, u}

Note(w, note) == calls' = [calls EXCEPT ![w] = note]

Begin(w) == calls[w] = None /\ UNCHANGED <<tables, rest>>

End(w) == Note(w, None) /\ UNCHANGED rest

Mapped(entry) == entry.slug \in {None} \cup DOMAIN facts

ListBankCategories(u, bank) ==
  {c \in categories : c.bank = bank /\ c.active /\ Seen(c, u)}

\* a row is drawn with the look of what it is mapped to
Picker(u, bank) ==
  {[row |-> c, look |-> IF c.slug = None THEN None ELSE facts[c.slug]] :
     c \in ListBankCategories(u, bank)}

\* one row per spelling: the own mapping before the seeded one
ListAliasesForBank(u, bank) ==
  LET mine == {a \in aliases : a.bank = bank /\ a.by = u}
  IN  mine \cup {a \in aliases : /\ a.bank = bank /\ a.by = None
                                 /\ a.title \notin {m.title : m \in mine}}

\* the first row, in the order of the spellings, that reads alike
SuggestCanonical(title, rows) ==
  LET like == {a \in rows : Normal[a.title] = Normal[title]}
  IN  IF like = {} THEN None
      ELSE (CHOOSE a \in like : \A b \in like : a.title <= b.title).slug

SuggestAlias(u, bank, title) == SuggestCanonical(title, ListAliasesForBank(u, bank))

CountVisible(u) ==
  \E bank \in Banks \cap DOMAIN facts, e \in Entries :
    /\ Begin(u) /\ Mapped(e)
    /\ nextId <= MaxRows
    /\ ~ \E c \in categories : c.bank = bank /\ c.title = e.title /\ Seen(c, u)
    /\ Note(u, [do |-> "create", bank |-> bank, title |-> e.title, slug |-> e.slug])

\* a row of the caller's own that came in between wins
CreateBankCategory(u) ==
  /\ calls[u] # None /\ calls[u].do = "create"
  /\ IF Row(calls[u].bank, calls[u].title, u) # {} THEN UNCHANGED <<categories, nextId>>
     ELSE /\ categories' = categories \cup
               {Save(nextId, calls[u].bank, calls[u].title, u, calls[u].slug, "regular", TRUE)}
          /\ nextId' = nextId + 1
  /\ End(u)
  /\ UNCHANGED <<facts, aliases, codes, links, offers>>

\* mutant: any row of the catalog can be attached
PickableAny(u, bank) == categories

\* a pick is a row of the bank the caller can see
Pickable(u, bank) == {c \in categories : c.bank = bank /\ Seen(c, u)}

FirstNonNil(explicit, fallback) == IF explicit # None THEN explicit ELSE fallback

\* of a new menu row, or of one that is corrected
ResolveBankCategory(u) ==
  \E id \in OfferIds, bank \in Banks \cap DOMAIN facts, e \in Entries :
    /\ Begin(u) /\ Mapped(e)
    /\ \A o \in offers : o.id = id /\ o.user = u => o.bank = bank
    /\ \/ Note(u, [do |-> "save", id |-> id, bank |-> bank, title |-> e.title, row |-> None,
                   explicit |-> e.slug, slug |-> e.slug])
       \/ \E c \in Pickable(u, bank) :
            Note(u, [do |-> "save", id |-> id, bank |-> bank, title |-> e.title, row |-> c.id,
                     explicit |-> e.slug, slug |-> FirstNonNil(e.slug, c.slug)])

\* refused when the row it picks is gone by now
SaveCategoryOffer(u) ==
  /\ calls[u] # None /\ calls[u].do = "save"
  /\ LET n == calls[u] IN
       IF n.row \notin {None} \cup {c.id : c \in categories} THEN UNCHANGED offers /\ Note(u, None)
       ELSE /\ offers' = {o \in offers : o.id # n.id \/ o.user # u} \cup
                 {[id |-> n.id, user |-> u, bank |-> n.bank, title |-> n.title,
                   row |-> n.row, slug |-> n.slug]}
            /\ Note(u, IF n.explicit = None THEN None
                       ELSE [do |-> "alias", bank |-> n.bank, title |-> n.title, slug |-> n.explicit])
  /\ UNCHANGED <<facts, categories, aliases, codes, links, nextId, rest>>

\* mutant: the mapping becomes everybody's
UpsertAliasForAll(u) ==
  /\ calls[u] # None /\ calls[u].do = "alias"
  /\ Upsert(calls[u].bank, calls[u].title, None, calls[u].slug)
  /\ End(u)

UpsertAlias(u) ==
  /\ calls[u] # None /\ calls[u].do = "alias"
  /\ Upsert(calls[u].bank, calls[u].title, u, calls[u].slug)
  /\ End(u)

DeleteCategoryOffer(u) ==
  /\ calls[u] = None
  /\ \E o \in offers : o.user = u /\ offers' = offers \ {o}
  /\ UNCHANGED <<facts, categories, aliases, codes, links, nextId, rest, calls>>

UserStep(u) ==
  \/ CountVisible(u) \/ CreateBankCategory(u)
  \/ ResolveBankCategory(u) \/ SaveCategoryOffer(u) \/ UpsertAlias(u)
  \/ DeleteCategoryOffer(u)

(******************************* the operator ******************************)

\* rows of a title that the panel marks as the seed's
SeedManaged(bank, title) == {c \in Row(bank, title, None) : ~ c.custom}

\* rows the panel lets the operator write
GuardBankCategory ==
  \E c \in categories, do \in {"edit", "delete"} :
    Begin(Desk) /\ c.custom /\ Note(Desk, [do |-> do, row |-> c.id])

Guarded(do) ==
  /\ calls[Desk] # None /\ calls[Desk].do = do
  /\ End(Desk)

\* nothing is written over a title its owner already has
AdminUpdateBankCategory ==
  /\ Guarded("edit")
  /\ \E e \in Edits :
       LET old == {c \in categories : c.id = calls[Desk].row /\ c.custom}
           new == {[c EXCEPT !.title = e.title, !.slug = e.slug, !.active = e.active] : c \in old}
           hit == UNION {Row(c.bank, c.title, c.by) : c \in new}
       IN  Mapped(e) /\ categories' = IF hit \subseteq old THEN (categories \ old) \cup new ELSE categories
  /\ UNCHANGED <<facts, aliases, codes, links, offers, nextId>>

AdminDeleteBankCategory ==
  /\ Guarded("delete")
  /\ Drop({c \in categories : c.id = calls[Desk].row /\ c.custom})

\* codes of the dictionary the binary carries
SeededMCCCodes == DOMAIN Data[sidecar].codes

GuardMCC(code) == code \notin SeededMCCCodes

AdminWriteMCC ==
  /\ \E code \in DeskCodes, gloss \in Glosses :
       GuardMCC(code) /\ codes' = Over([k \in {code} |-> gloss], codes)
  /\ UNCHANGED <<facts, categories, aliases, links, offers, nextId, rest, calls>>

\* refused while a row of the catalog has the code
AdminDeleteMCC ==
  /\ \E code \in DeskCodes \cap DOMAIN codes :
       /\ GuardMCC(code) /\ ~ \E l \in links : l.code = code
       /\ codes' = Restrict(codes, DOMAIN codes \ {code})
  /\ UNCHANGED <<facts, categories, aliases, links, offers, nextId, rest, calls>>

AdminLink ==
  /\ \E c \in categories, code \in LinkCodes \cap DOMAIN codes :
       links' \in {links \cup {[row |-> c.id, code |-> code]},
                   links \ {[row |-> c.id, code |-> code]}}
  /\ UNCHANGED <<facts, categories, aliases, codes, offers, nextId, rest, calls>>

DeskStep ==
  \/ GuardBankCategory \/ AdminUpdateBankCategory \/ AdminDeleteBankCategory
  \/ AdminWriteMCC \/ AdminDeleteMCC \/ AdminLink \/ RestartSidecar

(***************************** specification *******************************)

Init ==
  /\ facts = [b \in {o.bank : o \in Orphans} |-> None]
  /\ categories = Orphans
  /\ aliases = {} /\ codes = <<>> /\ links = {} /\ offers = {}
  /\ nextId = Cardinality(Orphans) + 1
  /\ runs = [r \in Runners |-> None]
  /\ deployed = 1 /\ loaded = 0 /\ sidecar = 1
  /\ calls = [w \in Users \cup {Desk} |-> None]

SeedStep == \E r \in Runners : StartSeed(r) \/ StepSeed(r) \/ BreakSeed(r)

Next == SeedStep \/ (\E u \in Users : UserStep(u)) \/ DeskStep

Spec == Init /\ [][Next]_vars

(******************************* properties ********************************)

\* tables keep their types and their keys: one row of an owner per title
TypeOK ==
  /\ \A c \in categories :
       /\ c.id \in 1..(nextId - 1) /\ c.bank \in Banks /\ c.title \in Titles
       /\ c.by \in {None} \cup Users /\ c.slug \in {None} \cup DOMAIN facts
       /\ Row(c.bank, c.title, c.by) = {c}
  /\ \A a \in aliases : a.slug \in DOMAIN facts /\ AliasRow(a.bank, a.title, a.by) = {a}
  /\ \A l \in links : l.row \in {c.id : c \in categories} /\ l.code \in DOMAIN codes
  /\ \A o, p \in offers : o.id = p.id /\ o.user = p.user => o = p
  /\ loaded \in 0..deployed /\ sidecar \in 1..deployed

Dataset == Data[deployed]

\* titles that a row which is not the seed's may hold
Squatted(t) ==
  \/ \E o \in Orphans : o.bank = t.bank /\ o.title = t.title
  \/ \E e \in Edits : e.title = t.title

\* Once a run of the newest release has gone through, after whatever stopped or
\* ran beside it, the shared data is what the release says: every fact, every
\* title and mapping corrected, and nothing left that it retired. (A title that a
\* row from before private catalogs or of the operator's holds is the one exception.)
SeedConverges ==
  loaded = deployed =>
    /\ \A f \in Range(Dataset.programs \o Dataset.canonicals \o Dataset.colors) :
         f.key \in DOMAIN facts /\ facts[f.key] = f.value
    /\ \A t \in Range(Dataset.titles) :
         \/ Squatted(t)
         \/ \E c \in SeedManaged(t.bank, t.title) : c.slug = t.slug /\ c.kind = t.kind
    /\ \A a \in Range(Dataset.aliases) :
         \E b \in AliasRow(a.bank, a.title, None) : b.slug = a.slug
    /\ \A a \in Range(Dataset.retiredAliases) : AliasRow(a.bank, a.title, None) = {}
    /\ \A t \in Range(Dataset.retiredTitles) : SeedManaged(t.bank, t.title) = {}

\* "If seed writes it, the panel only reads it": a code that a release carries says
\* what the newest one says, but for one an operator's binary did not know yet.
DictionaryIsReleased ==
  loaded = deployed =>
    \A code \in DOMAIN Dataset.codes :
      (\A n \in 1..deployed : code \in DOMAIN Data[n].codes) => codes[code] = Dataset.codes[code]

\* After a deployment the shared data is that of its release, whatever stopped, ran
\* beside it or was edited in the panel before and after.
SharedIsReleased == SeedConverges /\ DictionaryIsReleased

\* "Retired titles go first, so a rename never leaves both spellings behind", not
\* even while the seed runs.
NeverBothSpellings ==
  \A t \in Range(Dataset.retiredTitles) :
    SeedManaged(t.bank, t.title) = {} \/ SeedManaged(t.bank, t.now) = {}

\* The seed leaves alone what users wrote, rows, mappings and menu rows, and what
\* else hangs on a row it refreshes: its id, its codes, its active flag.
SparedBySeed ==
  runs' # runs =>
    /\ {c \in categories : c.custom} = {c \in categories' : c.custom}
    /\ {a \in aliases : a.by # None} = {a \in aliases' : a.by # None}
    /\ \A o \in offers : \E p \in offers' : [o EXCEPT !.row = None] = [p EXCEPT !.row = None]
    /\ \A c \in categories, d \in categories' :
         c.bank = d.bank /\ c.title = d.title /\ c.by = d.by =>
           c.id = d.id /\ c.active = d.active

SeedSparesUsers == [][SparedBySeed]_vars

\* a menu row cites a catalog row of its bank that its owner can see, whoever
\* retired, renamed or deleted rows while the request was under way
PickIsVisible ==
  \A o \in offers : o.row # None =>
    \E c \in categories : c.id = o.row /\ c.bank = o.bank /\ c.by \in {None, o.user}

\* Keys hold, and a menu row cites a catalog row its owner can see, whatever was
\* retired, renamed or deleted between the look at the catalog and the save.
CatalogHolds == TypeOK /\ PickIsVisible

Screen(u) ==
  [reference |-> facts,
   picker    |-> [bank \in Banks |-> Picker(u, bank)],
   suggested |-> [bank \in Banks |-> [t \in Titles |-> SuggestAlias(u, bank, t)]]]

\* "The catalog is a shared namespace on an installation with open registration":
\* what one account writes changes neither the picker nor the suggestions of another.
Unseen ==
  \A u \in Users, v \in DOMAIN calls \ {Desk} :
    u # v /\ calls'[v] # calls[v] => UNCHANGED Screen(u)

OthersChangeNothing == [][Unseen]_vars
=============================================================================
