-------------------------------- MODULE Seed --------------------------------
(***************************************************************************)
(* The reference data of a release and how the seed (internal/seed) writes *)
(* it over whatever the database holds: one statement after the other,     *)
(* each committed on its own.                                              *)
(*                                                                         *)
(* Banks, programs, tiers and canonical categories are one table of facts: *)
(* a key, the keys it refers to, and the columns a refresh overwrites. The *)
(* numbers of titles are their order in the collation.                     *)
(***************************************************************************)
EXTENDS Integers, FiniteSets, SequencesExt

CONSTANT None

VARIABLES
  facts,        \* bank, cashback_program, program_tier, canonical_category
  categories,   \* bank_category
  aliases,      \* bank_category_alias
  codes,        \* mcc: code -> what it says
  links,        \* bank_category_mcc: [row, code]
  offers,       \* category_offer, with the bank and the owner of its period
  nextId

tables == <<facts, categories, aliases, codes, links, offers, nextId>>

Known(keys) == keys \subseteq DOMAIN facts

Row(bank, title, by) ==
  {c \in categories : c.bank = bank /\ c.title = title /\ c.by = by}

AliasRow(bank, title, by) ==
  {a \in aliases : a.bank = bank /\ a.title = title /\ a.by = by}

\* offers forget a row that is gone, its codes go with it
Drop(rows) ==
  LET ids == {c.id : c \in rows}
  IN  /\ categories' = categories \ rows
      /\ links' = {l \in links : l.row \notin ids}
      /\ offers' = {[o EXCEPT !.row = IF @ \in ids THEN None ELSE @] : o \in offers}
      /\ UNCHANGED <<facts, aliases, codes, nextId>>

Upsert(bank, title, by, slug) ==
  /\ aliases' = (aliases \ AliasRow(bank, title, by))
                  \cup {[bank |-> bank, title |-> title, by |-> by, slug |-> slug]}
  /\ UNCHANGED <<facts, categories, codes, links, offers, nextId>>

Save(id, bank, title, by, slug, kind, active) ==
  [id |-> id, bank |-> bank, title |-> title, by |-> by, custom |-> by # None,
   slug |-> slug, kind |-> kind, active |-> active]

\* columns of new written over those of old
Over(new, old) ==
  [k \in DOMAIN new \cup DOMAIN old |-> IF k \in DOMAIN new THEN new[k] ELSE old[k]]

(****************************** statements *********************************)

Insert(f) ==
  /\ facts' = IF f.key \notin DOMAIN facts /\ Known(f.needs)
              THEN Over([k \in {f.key} |-> f.value], facts) ELSE facts
  /\ UNCHANGED <<categories, aliases, codes, links, offers, nextId>>

\* mutant: what is there stays as it was first seeded
RefreshNever(f) == UNCHANGED tables

Refresh(f) ==
  /\ facts' = [k \in DOMAIN facts |-> IF k = f.key THEN f.value ELSE facts[k]]
  /\ UNCHANGED <<categories, aliases, codes, links, offers, nextId>>

SeedAlias(a) ==
  IF Known({a.bank, a.slug}) THEN Upsert(a.bank, a.title, None, a.slug) ELSE UNCHANGED tables

RetireAlias(a) ==
  /\ aliases' = aliases \ AliasRow(a.bank, a.title, None)
  /\ UNCHANGED <<facts, categories, codes, links, offers, nextId>>

\* mutant: whoever wrote the row
RetireTitleOfAll(t) == Drop({c \in categories : c.bank = t.bank /\ c.title = t.title})

RetireTitle(t) == Drop({c \in Row(t.bank, t.title, None) : ~ c.custom})

\* the row all accounts share; its active flag is only ever inserted
SeedTitle(t) ==
  LET old  == Row(t.bank, t.title, None)
      slug == IF t.slug \in DOMAIN facts THEN t.slug ELSE None
  IN  /\ IF ~ Known({t.bank}) THEN UNCHANGED <<categories, nextId>>
         ELSE IF old = {}
         THEN /\ categories' = categories
                   \cup {Save(nextId, t.bank, t.title, None, slug, t.kind, t.active)}
              /\ nextId' = nextId + 1
         ELSE /\ categories' = (categories \ old)
                   \cup {IF c.custom THEN c ELSE [c EXCEPT !.slug = slug, !.kind = t.kind] : c \in old}
              /\ UNCHANGED nextId
      /\ UNCHANGED <<facts, aliases, codes, links, offers>>

\* one transaction
SeedMCC(dict) ==
  /\ codes' = Over(dict, codes)
  /\ UNCHANGED <<facts, categories, aliases, links, offers, nextId>>

(******************************** one run **********************************)

Each(do, rows) == [i \in DOMAIN rows |-> [do |-> do, row |-> rows[i]]]

InsertThenRefresh(rows) ==
  [i \in 1..(2 * Len(rows)) |->
     [do |-> IF i % 2 = 1 THEN "insert" ELSE "refresh", row |-> rows[(i + 1) \div 2]]]

\* mutant: the new titles come before the retired ones go
RunNewTitlesFirst(d) ==
  Each("insert", d.banks)
    \o InsertThenRefresh(d.programs \o d.canonicals)
    \o Each("alias", d.aliases) \o Each("retire alias", d.retiredAliases)
    \o Each("title", d.titles) \o Each("retire title", d.retiredTitles)
    \o Each("refresh", d.colors)
    \o Each("dictionary", <<d.codes>>)

\* a program comes before its tiers; banks get their color at the end
Run(d) ==
  Each("insert", d.banks)
    \o InsertThenRefresh(d.programs \o d.canonicals)
    \o Each("alias", d.aliases) \o Each("retire alias", d.retiredAliases)
    \o Each("retire title", d.retiredTitles) \o Each("title", d.titles)
    \o Each("refresh", d.colors)
    \o Each("dictionary", <<d.codes>>)

Execute(s) ==
  \/ s.do = "insert" /\ Insert(s.row)
  \/ s.do = "refresh" /\ Refresh(s.row)
  \/ s.do = "alias" /\ SeedAlias(s.row)
  \/ s.do = "retire alias" /\ RetireAlias(s.row)
  \/ s.do = "retire title" /\ RetireTitle(s.row)
  \/ s.do = "title" /\ SeedTitle(s.row)
  \/ s.do = "dictionary" /\ SeedMCC(s.row)
=============================================================================
