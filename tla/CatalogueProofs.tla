--------------------------- MODULE CatalogueProofs ---------------------------
(***************************************************************************)
(* The catalog of a bank under three kinds of writers, for any number of   *)
(* accounts, releases and seed runs, of which each may stop anywhere. The  *)
(* argument is that rows change neither their id, nor their bank, nor      *)
(* their owner: what a request has seen of a row it picks is true of that  *)
(* row as long as there is one. Of a seed it is that each statement comes  *)
(* after what it builds on, and that no statement of a release undoes      *)
(* another: what a run has behind it stands, whoever writes beside it.     *)
(***************************************************************************)
EXTENDS Catalogue, FiniteSetTheorems, TLAPS

(******************************* the tables ********************************)

CategoriesOK ==
  /\ nextId \in Nat \ {0}
  /\ categories \subseteq
       [id : 1..(nextId - 1), bank : Banks, title : Titles, by : {None} \cup Users,
        custom : BOOLEAN, slug : {None} \cup DOMAIN facts, kind : Kinds, active : BOOLEAN]
  /\ \A c \in categories : c.by # None => c.custom
  /\ \A c, d \in categories :
       c.id = d.id \/ (c.bank = d.bank /\ c.title = d.title /\ c.by = d.by) => c = d

AliasesOK ==
  /\ aliases \subseteq
       [bank : Banks, title : Titles, by : {None} \cup Users, slug : DOMAIN facts]
  /\ \A a, b \in aliases : a.bank = b.bank /\ a.title = b.title /\ a.by = b.by => a = b

LinksOK ==
  \A l \in links : l.row \in {c.id : c \in categories} /\ l.code \in DOMAIN codes

OffersOK ==
  /\ offers \subseteq
       [id : OfferIds, user : Users, bank : Banks, title : Titles,
        row : {None} \cup Nat, slug : {None} \cup DOMAIN facts]
  /\ \A o, p \in offers : o.id = p.id /\ o.user = p.user => o = p
  /\ PickIsVisible

TablesOK == CategoriesOK /\ AliasesOK /\ LinksOK /\ OffersOK

(************************** the runs and the calls *************************)

RunsOK ==
  /\ deployed \in Releases /\ loaded \in 0..deployed /\ sidecar \in 1..deployed
  /\ DOMAIN runs = Runners
  /\ \A r \in Runners : runs[r] # None =>
       /\ runs[r] \in [release : 1..deployed, at : Nat \ {0}]
       /\ runs[r].at <= Len(Runs[runs[r].release])

Creating(n) ==
  n.do = "create" =>
    n.bank \in Banks /\ n.title \in Titles /\ n.slug \in {None} \cup DOMAIN facts

\* what is cited is a row of the bank that the user can see, or gone
Saving(u, n) ==
  n.do = "save" =>
    /\ n.id \in OfferIds /\ n.bank \in Banks /\ n.title \in Titles
    /\ n.slug \in {None} \cup DOMAIN facts /\ n.explicit \in {None} \cup DOMAIN facts
    /\ n.row # None =>
         /\ n.row \in 1..(nextId - 1)
         /\ \A c \in categories : c.id = n.row => c.bank = n.bank /\ c.by \in {None, u}

Aliasing(n) ==
  n.do = "alias" => n.bank \in Banks /\ n.title \in Titles /\ n.slug \in DOMAIN facts

NoteOK(u, n) == Creating(n) /\ Saving(u, n) /\ Aliasing(n)

CallsOK ==
  /\ DOMAIN calls = Users \cup {Desk}
  /\ \A u \in Users : calls[u] # None => NoteOK(u, calls[u])

CatInv == TablesOK /\ RunsOK /\ CallsOK

(****************************** one statement ******************************)

Facts(d) == Range(d.banks) \cup Range(d.programs) \cup Range(d.canonicals) \cup Range(d.colors)

SeedAliasRow == [bank : Banks, title : Titles, slug : Slugs]
Retired      == [bank : Banks, title : Titles, now : Titles]
SeedTitleRow ==
  [bank : Banks, title : Titles, slug : {None} \cup Slugs, kind : Kinds, active : BOOLEAN]

Statement(d) ==
  [do : {"insert", "refresh"}, row : Facts(d)]
    \cup [do : {"alias", "retire alias"}, row : SeedAliasRow]
    \cup [do : {"retire title"}, row : Retired]
    \cup [do : {"title"}, row : SeedTitleRow]
    \cup [do : {"dictionary"}, row : {d.codes}]

LEMMA EachTyped ==
  ASSUME NEW S, NEW rows \in Seq(S), NEW T, NEW do, \A x \in S : [do |-> do, row |-> x] \in T
  PROVE  Each(do, rows) \in Seq(T)
<1>1. DOMAIN rows = 1..Len(rows) /\ Len(rows) \in Nat
  OBVIOUS
<1>2. \A i \in 1..Len(rows) : rows[i] \in S
  OBVIOUS
<1>3. Each(do, rows) = [i \in 1..Len(rows) |-> [do |-> do, row |-> rows[i]]]
  BY <1>1 DEF Each
<1>4. \A i \in 1..Len(rows) : [do |-> do, row |-> rows[i]] \in T
  BY <1>2
<1>5. QED
  BY <1>1, <1>3, <1>4

LEMMA PairsTyped ==
  ASSUME NEW S, NEW rows \in Seq(S), NEW T,
         \A x \in S : [do |-> "insert", row |-> x] \in T /\ [do |-> "refresh", row |-> x] \in T
  PROVE  InsertThenRefresh(rows) \in Seq(T)
<1> DEFINE s(i) == [do |-> IF i % 2 = 1 THEN "insert" ELSE "refresh", row |-> rows[(i + 1) \div 2]]
<1>1. Len(rows) \in Nat /\ \A i \in 1..Len(rows) : rows[i] \in S
  OBVIOUS
<1>2. ASSUME NEW i \in 1..(2 * Len(rows))
      PROVE  s(i) \in T
  <2>1. (i + 1) \div 2 \in 1..Len(rows)
    BY <1>1
  <2>2. rows[(i + 1) \div 2] \in S
    BY <1>1, <2>1
  <2>3. QED
    BY <2>2
<1>3. 2 * Len(rows) \in Nat
  BY <1>1
<1>4. InsertThenRefresh(rows) = [i \in 1..(2 * Len(rows)) |-> s(i)]
  BY DEF InsertThenRefresh
<1> HIDE DEF s
<1>5. QED
  BY <1>2, <1>3, <1>4

LEMMA SeedStatements ==
  ASSUME NEW n \in Releases
  PROVE  Runs[n] \in Seq(Statement(Data[n])) /\ Len(Runs[n]) \in Nat \ {0}
<1> DEFINE d == Data[n]
           T == Statement(d)
<1>1. /\ d.banks \in Seq(Range(d.banks)) /\ d.programs \in Seq(Range(d.programs))
      /\ d.canonicals \in Seq(Range(d.canonicals)) /\ d.colors \in Seq(Range(d.colors))
      /\ d.titles \in Seq(SeedTitleRow) /\ d.retiredTitles \in Seq(Retired)
      /\ d.aliases \in Seq(SeedAliasRow) /\ d.retiredAliases \in Seq(SeedAliasRow)
  BY ReleaseAssumption DEF Listed, SeedTitleRow, Retired, SeedAliasRow
<1>2. /\ Each("insert", d.banks) \in Seq(T) /\ Each("refresh", d.colors) \in Seq(T)
  BY <1>1, EachTyped DEF Statement, Facts
<1>3. InsertThenRefresh(d.programs \o d.canonicals) \in Seq(T)
  <2>1. d.programs \o d.canonicals \in Seq(Range(d.programs) \cup Range(d.canonicals))
    BY <1>1
  <2>2. \A x \in Range(d.programs) \cup Range(d.canonicals) :
          [do |-> "insert", row |-> x] \in T /\ [do |-> "refresh", row |-> x] \in T
    BY DEF Statement, Facts
  <2> HIDE DEF T
  <2>3. QED
    BY <2>1, <2>2, PairsTyped
<1>4. Each("alias", d.aliases) \in Seq(T) /\ Each("retire alias", d.retiredAliases) \in Seq(T)
  BY <1>1, EachTyped DEF Statement
<1>5. Each("retire title", d.retiredTitles) \in Seq(T) /\ Each("title", d.titles) \in Seq(T)
  BY <1>1, EachTyped DEF Statement
<1>6. Each("dictionary", <<d.codes>>) \in Seq(T) /\ Len(Each("dictionary", <<d.codes>>)) = 1
  <2>1. <<d.codes>> \in Seq({d.codes}) /\ DOMAIN <<d.codes>> = 1..1
    OBVIOUS
  <2>2. Each("dictionary", <<d.codes>>) \in Seq(T)
    BY <2>1, EachTyped DEF Statement
  <2>3. DOMAIN Each("dictionary", <<d.codes>>) = 1..1
    BY <2>1 DEF Each
  <2>4. QED
    BY <2>2, <2>3
<1> HIDE DEF T
<1>7. Runs[n] = Run(d)
  BY DEF Runs
<1>8. Run(d) \in Seq(T) /\ Len(Run(d)) \in Nat \ {0}
  <2>1. ASSUME NEW s \in Seq(T), NEW t \in Seq(T)
        PROVE  s \o t \in Seq(T) /\ Len(s \o t) = Len(s) + Len(t) /\ Len(s) \in Nat
    OBVIOUS
  <2>2. Run(d) \in Seq(T)
    BY <1>2, <1>3, <1>4, <1>5, <1>6, <2>1 DEF Run
  <2> DEFINE all == Each("insert", d.banks)
                      \o InsertThenRefresh(d.programs \o d.canonicals)
                      \o Each("alias", d.aliases) \o Each("retire alias", d.retiredAliases)
                      \o Each("retire title", d.retiredTitles) \o Each("title", d.titles)
                      \o Each("refresh", d.colors)
  <2>3. all \in Seq(T)
    BY <1>2, <1>3, <1>4, <1>5, <2>1
  <2>4. Run(d) = all \o Each("dictionary", <<d.codes>>)
    BY DEF Run
  <2> HIDE DEF all
  <2>5. Len(Run(d)) = Len(all) + 1 /\ Len(all) \in Nat
    BY <1>6, <2>1, <2>3, <2>4
  <2>6. QED
    BY <2>2, <2>5
<1>9. QED
  BY <1>7, <1>8 DEF T

(************************* what rows keep for life *************************)

\* Facts are only added, and a row with an id that was given out is that row still.
Ages ==
  /\ DOMAIN facts \subseteq DOMAIN facts'
  /\ nextId' \in Nat /\ nextId <= nextId'
  /\ \A d \in categories' : d.id \in 1..(nextId - 1) =>
       \E c \in categories : c.id = d.id /\ c.bank = d.bank /\ c.by = d.by

LEMMA NotesAge ==
  ASSUME TablesOK, CallsOK, Ages, NEW u \in Users, calls'[u] = calls[u]
  PROVE  (calls[u] # None => NoteOK(u, calls[u]))'
<1> DEFINE n == calls[u]
<1>1. SUFFICES ASSUME n # None
               PROVE  NoteOK(u, n)'
  OBVIOUS
<1>2. NoteOK(u, n)
  BY <1>1 DEF CallsOK
<1>3. n' = n
  OBVIOUS
<1>4. Creating(n)' /\ Aliasing(n)'
  BY <1>2, <1>3 DEF NoteOK, Creating, Aliasing, Ages
<1>5. Saving(u, n)'
  BY <1>2, <1>3 DEF NoteOK, Saving, Ages, TablesOK, CategoriesOK
<1>6. QED
  BY <1>4, <1>5 DEF NoteOK

LEMMA DropsKeep ==
  ASSUME TablesOK, NEW rows \in SUBSET categories, Drop(rows)
  PROVE  TablesOK' /\ Ages
<1> DEFINE ids == {c.id : c \in rows}
<1>1. categories' = categories \ rows /\ UNCHANGED <<facts, aliases, codes, nextId>>
  BY DEF Drop
<1>2. links' = {l \in links : l.row \notin ids}
  BY DEF Drop
<1>3. offers' = {[o EXCEPT !.row = IF @ \in ids THEN None ELSE @] : o \in offers}
  BY DEF Drop
<1>4. \A c \in categories : c \in rows <=> c.id \in ids
  BY DEF TablesOK, CategoriesOK
<1>5. CategoriesOK'
  BY <1>1 DEF TablesOK, CategoriesOK
<1>6. AliasesOK'
  BY <1>1 DEF TablesOK, AliasesOK
<1>7. LinksOK'
  BY <1>1, <1>2, <1>4 DEF TablesOK, LinksOK
<1>8. OffersOK'
  <2> DEFINE gone(o) == [o EXCEPT !.row = IF @ \in ids THEN None ELSE @]
  <2>1. \A o \in offers :
          /\ gone(o) \in [id : OfferIds, user : Users, bank : Banks, title : Titles,
                          row : {None} \cup Nat, slug : {None} \cup DOMAIN facts]
          /\ gone(o).id = o.id /\ gone(o).user = o.user /\ gone(o).bank = o.bank
          /\ gone(o).row = IF o.row \in ids THEN None ELSE o.row
    BY DEF TablesOK, OffersOK
  <2>2. \A p \in offers' : \E o \in offers : p = gone(o)
    BY <1>3
  <2> HIDE DEF gone, ids
  <2>3. \A p, q \in offers' : p.id = q.id /\ p.user = q.user => p = q
    BY <2>1, <2>2 DEF TablesOK, OffersOK
  <2>4. ASSUME NEW p \in offers', p.row # None
        PROVE  \E c \in categories' : c.id = p.row /\ c.bank = p.bank /\ c.by \in {None, p.user}
    <3>1. PICK o \in offers : p = gone(o)
      BY <2>2
    <3>2. o.row \notin ids /\ o.row # None /\ p.row = o.row /\ p.bank = o.bank /\ p.user = o.user
      BY <2>1, <2>4, <3>1
    <3>3. PICK c \in categories : c.id = o.row /\ c.bank = o.bank /\ c.by \in {None, o.user}
      BY <3>2 DEF TablesOK, OffersOK, PickIsVisible
    <3>4. c \in categories'
      BY <1>1, <1>4, <3>2, <3>3
    <3>5. QED
      BY <3>2, <3>3, <3>4
  <2>5. offers' \subseteq [id : OfferIds, user : Users, bank : Banks, title : Titles,
                           row : {None} \cup Nat, slug : {None} \cup DOMAIN facts']
    BY <1>1, <2>1, <2>2
  <2>6. QED
    BY <2>3, <2>4, <2>5 DEF OffersOK, PickIsVisible
<1>9. Ages
  BY <1>1 DEF Ages, TablesOK, CategoriesOK
<1>10. QED
  BY <1>5, <1>6, <1>7, <1>8, <1>9 DEF TablesOK

LEMMA UpsertsKeep ==
  ASSUME TablesOK, NEW bank \in Banks, NEW title \in Titles, NEW by \in {None} \cup Users,
         NEW slug \in DOMAIN facts, Upsert(bank, title, by, slug)
  PROVE  TablesOK' /\ Ages
<1>1. /\ aliases' = (aliases \ AliasRow(bank, title, by))
                      \cup {[bank |-> bank, title |-> title, by |-> by, slug |-> slug]}
      /\ UNCHANGED <<facts, categories, codes, links, offers, nextId>>
  BY DEF Upsert
<1>2. AliasesOK'
  BY <1>1 DEF TablesOK, AliasesOK, AliasRow
<1>3. CategoriesOK' /\ LinksOK' /\ OffersOK'
  BY <1>1 DEF TablesOK, CategoriesOK, LinksOK, OffersOK, PickIsVisible
<1>4. Ages
  BY <1>1 DEF Ages, TablesOK, CategoriesOK
<1>5. QED
  BY <1>2, <1>3, <1>4 DEF TablesOK

\* Facts that are added or refreshed.
LEMMA FactsKeep ==
  ASSUME TablesOK, DOMAIN facts \subseteq DOMAIN facts',
         UNCHANGED <<categories, aliases, codes, links, offers, nextId>>
  PROVE  TablesOK' /\ Ages
<1>1. CategoriesOK' /\ AliasesOK' /\ LinksOK' /\ OffersOK'
  BY DEF TablesOK, CategoriesOK, AliasesOK, LinksOK, OffersOK, PickIsVisible
<1>2. QED
  BY <1>1 DEF TablesOK, CategoriesOK, Ages

LEMMA TitlesKeep ==
  ASSUME TablesOK, NEW t \in SeedTitleRow, SeedTitle(t)
  PROVE  TablesOK' /\ Ages
<1> DEFINE old  == Row(t.bank, t.title, None)
           slug == IF t.slug \in DOMAIN facts THEN t.slug ELSE None
           new  == Save(nextId, t.bank, t.title, None, slug, t.kind, t.active)
           now(c) == IF c.custom THEN c ELSE [c EXCEPT !.slug = slug, !.kind = t.kind]
<1>0. UNCHANGED <<facts, aliases, codes, links, offers>>
  BY DEF SeedTitle
<1>1. CASE UNCHANGED <<categories, nextId>>
  BY <1>0, <1>1, FactsKeep
<1>2. CASE old = {} /\ categories' = categories \cup {new} /\ nextId' = nextId + 1
  <2>1. /\ new \in [id : 1..(nextId' - 1), bank : Banks, title : Titles, by : {None},
                    custom : BOOLEAN, slug : {None} \cup DOMAIN facts, kind : Kinds,
                    active : BOOLEAN]
        /\ new.id = nextId /\ new.bank = t.bank /\ new.title = t.title
    BY <1>2 DEF Save, SeedTitleRow, TablesOK, CategoriesOK
  <2>2. \A c \in categories : c.id # new.id /\ ~ (c.bank = new.bank /\ c.title = new.title /\ c.by = new.by)
    BY <1>2, <2>1 DEF Row, TablesOK, CategoriesOK
  <2> HIDE DEF new
  <2>3. CategoriesOK'
    BY <1>0, <1>2, <2>1, <2>2 DEF TablesOK, CategoriesOK
  <2>4. AliasesOK' /\ LinksOK' /\ OffersOK'
    BY <1>0, <1>2 DEF TablesOK, AliasesOK, LinksOK, OffersOK, PickIsVisible
  <2>5. Ages
    BY <1>0, <1>2, <2>1 DEF Ages, TablesOK, CategoriesOK
  <2>6. QED
    BY <2>3, <2>4, <2>5 DEF TablesOK
<1>3. CASE categories' = (categories \ old) \cup {now(c) : c \in old} /\ UNCHANGED nextId
  <2>1. \A c \in categories :
          /\ now(c) \in [id : 1..(nextId - 1), bank : Banks, title : Titles, by : {None} \cup Users,
                         custom : BOOLEAN, slug : {None} \cup DOMAIN facts, kind : Kinds,
                         active : BOOLEAN]
          /\ now(c).id = c.id /\ now(c).bank = c.bank /\ now(c).title = c.title
          /\ now(c).by = c.by /\ now(c).custom = c.custom
    BY DEF TablesOK, CategoriesOK, SeedTitleRow
  <2>2c. old \subseteq categories
    BY DEF Row
  <2>2. \A d \in categories' : \E c \in categories : d \in {c, now(c)} /\ (d # c => c \in old)
    <3> HIDE DEF now, old
    <3> QED
      BY <1>3, <2>2c
  <2>2a. \A c \in categories : (c \in old /\ now(c) \in categories') \/ c \in categories'
    BY <1>3
  <2>2b. \A c, d \in old : c = d
    BY DEF Row, TablesOK, CategoriesOK
  <2> HIDE DEF now, old
  <2>3. CategoriesOK'
    <3>1. ASSUME NEW d \in categories', NEW e \in categories',
                 d.id = e.id \/ (d.bank = e.bank /\ d.title = e.title /\ d.by = e.by)
          PROVE  d = e
      <4>1. PICK c \in categories : d \in {c, now(c)} /\ (d # c => c \in old)
        BY <2>2
      <4>2. PICK b \in categories : e \in {b, now(b)} /\ (e # b => b \in old)
        BY <2>2
      <4>3. c = b
        BY <3>1, <4>1, <4>2, <2>1 DEF TablesOK, CategoriesOK
      <4>4. \A x \in categories' : (x \in categories /\ x \notin old) \/ \E y \in old : x = now(y)
        BY <1>3
      <4>5. QED
        BY <4>1, <4>2, <4>3, <4>4, <2>1, <2>2b, <2>2c DEF TablesOK, CategoriesOK
    <3>2. \A d \in categories' :
            /\ d \in [id : 1..(nextId - 1), bank : Banks, title : Titles, by : {None} \cup Users,
                      custom : BOOLEAN, slug : {None} \cup DOMAIN facts, kind : Kinds,
                      active : BOOLEAN]
            /\ d.by # None => d.custom
      BY <2>1, <2>2 DEF TablesOK, CategoriesOK
    <3>3. QED
      BY <1>0, <1>3, <3>1, <3>2 DEF TablesOK, CategoriesOK
  <2>4. \A c \in categories : \E d \in categories' : d.id = c.id /\ d.bank = c.bank /\ d.by = c.by
    BY <2>1, <2>2a
  <2>5. AliasesOK' /\ LinksOK'
    BY <1>0, <2>4 DEF TablesOK, AliasesOK, LinksOK
  <2>6. OffersOK'
    BY <1>0, <2>4 DEF TablesOK, OffersOK, PickIsVisible
  <2>7. Ages
    <3>1. \A d \in categories' : \E c \in categories : c.id = d.id /\ c.bank = d.bank /\ c.by = d.by
      BY <2>1, <2>2
    <3>2. QED
      BY <1>0, <1>3, <3>1 DEF Ages, TablesOK, CategoriesOK
  <2>8. QED
    BY <2>3, <2>5, <2>6, <2>7 DEF TablesOK
<1>4. QED
  BY <1>1, <1>2, <1>3 DEF SeedTitle

LEMMA StatementsKeep ==
  ASSUME TablesOK, NEW n \in Releases, NEW s \in Statement(Data[n]), Execute(s)
  PROVE  TablesOK' /\ Ages
<1>1. CASE s.do = "insert" /\ Insert(s.row)
  BY <1>1, FactsKeep DEF Insert, Over
<1>2. CASE s.do = "refresh" /\ Refresh(s.row)
  BY <1>2, FactsKeep DEF Refresh
<1>3. CASE s.do = "alias" /\ SeedAlias(s.row)
  <2>1. s.row \in SeedAliasRow
    BY <1>3 DEF Statement
  <2>2. CASE Known({s.row.bank, s.row.slug})
    BY <1>3, <2>1, <2>2, UpsertsKeep DEF SeedAlias, SeedAliasRow, Known
  <2>3. CASE ~ Known({s.row.bank, s.row.slug})
    BY <1>3, <2>3, FactsKeep DEF SeedAlias, tables
  <2>4. QED
    BY <2>2, <2>3
<1>4. CASE s.do = "retire alias" /\ RetireAlias(s.row)
  <2>1. /\ aliases' \subseteq aliases
        /\ UNCHANGED <<facts, categories, codes, links, offers, nextId>>
    BY <1>4 DEF RetireAlias
  <2>2. AliasesOK'
    BY <2>1 DEF TablesOK, AliasesOK
  <2>3. CategoriesOK' /\ LinksOK' /\ OffersOK'
    BY <2>1 DEF TablesOK, CategoriesOK, LinksOK, OffersOK, PickIsVisible
  <2>4. QED
    BY <2>1, <2>2, <2>3 DEF Ages, TablesOK, CategoriesOK
<1>5. CASE s.do = "retire title" /\ RetireTitle(s.row)
  BY <1>5, DropsKeep DEF RetireTitle, Row
<1>6. CASE s.do = "title" /\ SeedTitle(s.row)
  <2>1. s.row \in SeedTitleRow
    BY <1>6 DEF Statement
  <2>2. QED
    BY <1>6, <2>1, TitlesKeep
<1>7. CASE s.do = "dictionary" /\ SeedMCC(s.row)
  <2>1. /\ DOMAIN codes \subseteq DOMAIN codes'
        /\ UNCHANGED <<facts, categories, aliases, links, offers, nextId>>
    BY <1>7 DEF SeedMCC, Over
  <2>2. QED
    BY <2>1 DEF TablesOK, CategoriesOK, AliasesOK, LinksOK, OffersOK, PickIsVisible, Ages
<1>8. QED
  BY <1>1, <1>2, <1>3, <1>4, <1>5, <1>6, <1>7 DEF Execute

(******************************** the seed *********************************)

LEMMA ReleaseNumbers == Releases = 1..Len(Data) /\ Len(Data) \in Nat \ {0}
BY ReleaseAssumption DEF Releases, Listed

LEMMA SeedTables ==
  ASSUME CatInv, NEW r \in Runners, StepSeed(r)
  PROVE  TablesOK' /\ Ages
<1> DEFINE n == runs[r].release
<1>1. /\ runs[r] # None /\ n \in Releases /\ runs[r].at \in 1..Len(Runs[n])
  BY ReleaseNumbers DEF StepSeed, CatInv, RunsOK
<1>2. Execute(Runs[n][runs[r].at])
  BY DEF StepSeed
<1>3. Runs[n][runs[r].at] \in Statement(Data[n])
  BY <1>1, SeedStatements
<1>4. QED
  BY <1>1, <1>2, <1>3, StatementsKeep DEF CatInv

LEMMA SeedRuns ==
  ASSUME CatInv, NEW r \in Runners, StartSeed(r) \/ StepSeed(r) \/ BreakSeed(r)
  PROVE  RunsOK'
<1>1. CASE StartSeed(r)
  <2>1. PICK n \in {deployed, deployed + 1} \cap Releases :
          runs' = [runs EXCEPT ![r] = [release |-> n, at |-> 1]] /\ deployed' = n
    BY <1>1 DEF StartSeed
  <2>2. Len(Runs[n]) \in Nat \ {0}
    BY SeedStatements
  <2>3. UNCHANGED <<loaded, sidecar>> /\ deployed \in Nat /\ n \in Nat /\ deployed <= n
    BY <1>1, <2>1, ReleaseNumbers DEF StartSeed, CatInv, RunsOK
  <2>4. \A q \in Runners : runs'[q] = IF q = r THEN [release |-> n, at |-> 1] ELSE runs[q]
    BY <2>1 DEF CatInv, RunsOK
  <2>5. ASSUME NEW q \in Runners, runs'[q] # None
        PROVE  runs'[q] \in [release : 1..n, at : Nat \ {0}] /\ runs'[q].at <= Len(Runs[runs'[q].release])
    BY <2>2, <2>3, <2>4, <2>5, ReleaseNumbers DEF CatInv, RunsOK
  <2>6. loaded' \in 0..n /\ sidecar' \in 1..n
    BY <2>3 DEF CatInv, RunsOK
  <2>7. DOMAIN runs' = Runners
    BY <2>1 DEF CatInv, RunsOK
  <2>8. QED
    BY <2>1, <2>5, <2>6, <2>7 DEF RunsOK
<1>2. CASE StepSeed(r)
  <2> DEFINE n == runs[r].release
             last == runs[r].at = Len(Runs[n])
  <2>1. /\ runs[r] # None
        /\ runs' = [runs EXCEPT ![r] = IF last THEN None ELSE [runs[r] EXCEPT !.at = @ + 1]]
        /\ loaded' = IF last THEN n ELSE loaded
        /\ UNCHANGED <<deployed, sidecar>>
    BY <1>2 DEF StepSeed
  <2>2. /\ runs[r] \in [release : 1..deployed, at : Nat \ {0}] /\ runs[r].at <= Len(Runs[n])
        /\ Len(Runs[n]) \in Nat /\ deployed \in Nat
    BY <2>1, SeedStatements, ReleaseNumbers DEF CatInv, RunsOK
  <2>3. \A q \in Runners : runs'[q] = IF q = r
                                      THEN IF last THEN None ELSE [runs[r] EXCEPT !.at = @ + 1]
                                      ELSE runs[q]
    <3> HIDE DEF last
    <3> QED
      BY <2>1 DEF CatInv, RunsOK
  <2>4. ~ last => [runs[r] EXCEPT !.at = @ + 1] \in [release : 1..deployed, at : Nat \ {0}]
                  /\ [runs[r] EXCEPT !.at = @ + 1].at = runs[r].at + 1
                  /\ [runs[r] EXCEPT !.at = @ + 1].release = n
    BY <2>2
  <2>5. ~ last => runs[r].at + 1 <= Len(Runs[n])
    BY <2>2
  <2>6. loaded' \in 0..deployed
    BY <2>1, <2>2 DEF CatInv, RunsOK
  <2>7. DOMAIN runs' = Runners
    BY <2>1 DEF CatInv, RunsOK
  <2> HIDE DEF last, n
  <2>8. ASSUME NEW q \in Runners, runs'[q] # None
        PROVE  runs'[q] \in [release : 1..deployed, at : Nat \ {0}]
               /\ runs'[q].at <= Len(Runs[runs'[q].release])
    <3>1. CASE q = r
      BY <2>3, <2>4, <2>5, <2>8, <3>1
    <3>2. CASE q # r
      BY <2>3, <2>8, <3>2 DEF CatInv, RunsOK
    <3>3. QED
      BY <3>1, <3>2
  <2>9. QED
    BY <2>1, <2>6, <2>7, <2>8 DEF CatInv, RunsOK
<1>3. CASE BreakSeed(r)
  <2>1. runs' = [runs EXCEPT ![r] = None] /\ UNCHANGED <<deployed, loaded, sidecar>>
    BY <1>3 DEF BreakSeed
  <2>2. DOMAIN runs' = Runners /\ \A q \in Runners : runs'[q] = None \/ runs'[q] = runs[q]
    BY <2>1 DEF CatInv, RunsOK
  <2>3. QED
    BY <2>1, <2>2 DEF CatInv, RunsOK
<1>4. QED
  BY <1>1, <1>2, <1>3

LEMMA SeedKeeps ==
  ASSUME CatInv, SeedStep
  PROVE  CatInv'
<1>1. PICK r \in Runners : StartSeed(r) \/ StepSeed(r) \/ BreakSeed(r)
  BY DEF SeedStep
<1>2. TablesOK' /\ Ages
  <2>1. CASE StepSeed(r)
    BY <2>1, SeedTables
  <2>2. CASE StartSeed(r) \/ BreakSeed(r)
    BY <2>2, FactsKeep DEF StartSeed, BreakSeed, tables, CatInv
  <2>3. QED
    BY <1>1, <2>1, <2>2
<1>3. UNCHANGED calls
  BY <1>1 DEF StartSeed, StepSeed, BreakSeed
<1>4. CallsOK'
  BY <1>2, <1>3, NotesAge DEF CatInv, CallsOK
<1>5. QED
  BY <1>1, <1>2, <1>4, SeedRuns DEF CatInv

(********************************* users ***********************************)

\* A step of w writes the note of w and leaves the runs alone.
LEMMA OthersNotes ==
  ASSUME CatInv, NEW w \in Users \cup {Desk}, NEW note, Note(w, note), UNCHANGED rest,
         TablesOK', Ages, w \in Users => note = None \/ NoteOK(w, note)'
  PROVE  CatInv'
<1>1. calls' = [calls EXCEPT ![w] = note]
  BY DEF Note
<1>2. DOMAIN calls' = Users \cup {Desk} /\ calls'[w] = note
      /\ \A u \in Users : u # w => calls'[u] = calls[u]
  BY <1>1 DEF CatInv, CallsOK
<1>3. \A u \in Users : u # w => (calls[u] # None => NoteOK(u, calls[u]))'
  BY <1>2, NotesAge DEF CatInv
<1>4. w \in Users => (calls[w] # None => NoteOK(w, calls[w]))'
  BY <1>2
<1>5. CallsOK'
  BY <1>2, <1>3, <1>4 DEF CallsOK
<1>6. RunsOK'
  BY DEF CatInv, RunsOK, rest
<1>7. QED
  BY <1>5, <1>6 DEF CatInv

LEMMA CreateKeeps ==
  ASSUME CatInv, NEW u \in Users, CreateBankCategory(u)
  PROVE  TablesOK' /\ Ages
<1> DEFINE n == calls[u]
           new == Save(nextId, n.bank, n.title, u, n.slug, "regular", TRUE)
<1>0. UNCHANGED <<facts, aliases, codes, links, offers>>
  BY DEF CreateBankCategory
<1>1. CASE UNCHANGED <<categories, nextId>>
  BY <1>0, <1>1, FactsKeep DEF CatInv
<1>2. CASE Row(n.bank, n.title, u) = {} /\ categories' = categories \cup {new} /\ nextId' = nextId + 1
  <2>1. n.bank \in Banks /\ n.title \in Titles /\ n.slug \in {None} \cup DOMAIN facts
    BY DEF CreateBankCategory, CatInv, CallsOK, NoteOK, Creating
  <2>1a. (u # None) = TRUE
    BY CatalogueAssumption
  <2>1b. /\ nextId \in 1..(nextId' - 1) /\ "regular" \in Kinds
    BY <1>2 DEF CatInv, TablesOK, CategoriesOK, Kinds
  <2>2. /\ new \in [id : 1..(nextId' - 1), bank : Banks, title : Titles, by : {u},
                    custom : {TRUE}, slug : {None} \cup DOMAIN facts, kind : Kinds,
                    active : BOOLEAN]
        /\ new.id = nextId /\ new.bank = n.bank /\ new.title = n.title /\ new.by = u
    BY <2>1, <2>1a, <2>1b DEF Save
  <2>3. \A c \in categories : c.id # new.id /\ ~ (c.bank = new.bank /\ c.title = new.title /\ c.by = new.by)
    <3> HIDE DEF new, n
    <3>1. \A c \in categories : c.id < nextId
      BY DEF CatInv, TablesOK, CategoriesOK
    <3>2. \A c \in categories : ~ (c.bank = n.bank /\ c.title = n.title /\ c.by = u)
      BY <1>2 DEF Row
    <3>3. QED
      BY <2>2, <3>1, <3>2 DEF CatInv, TablesOK, CategoriesOK
  <2> HIDE DEF new
  <2>3a. \A c \in categories : c \in
           [id : 1..(nextId' - 1), bank : Banks, title : Titles, by : {None} \cup Users,
            custom : BOOLEAN, slug : {None} \cup DOMAIN facts, kind : Kinds, active : BOOLEAN]
    BY <1>2 DEF CatInv, TablesOK, CategoriesOK
  <2>4. CategoriesOK'
    <3>1. \A c, d \in categories' :
            c.id = d.id \/ (c.bank = d.bank /\ c.title = d.title /\ c.by = d.by) => c = d
      BY <1>2, <2>3 DEF CatInv, TablesOK, CategoriesOK
    <3>2. categories' \subseteq
           [id : 1..(nextId' - 1), bank : Banks, title : Titles, by : {None} \cup Users,
            custom : BOOLEAN, slug : {None} \cup DOMAIN facts, kind : Kinds, active : BOOLEAN]
      BY <1>2, <2>2, <2>3a
    <3>3. \A c \in categories' : c.by # None => c.custom
      BY <1>2, <2>2 DEF CatInv, TablesOK, CategoriesOK
    <3>4. nextId' \in Nat \ {0}
      BY <1>2 DEF CatInv, TablesOK, CategoriesOK
    <3>5. QED
      BY <1>0, <3>1, <3>2, <3>3, <3>4 DEF CategoriesOK
  <2>5. AliasesOK' /\ LinksOK' /\ OffersOK'
    BY <1>0, <1>2 DEF CatInv, TablesOK, AliasesOK, LinksOK, OffersOK, PickIsVisible
  <2>6. Ages
    BY <1>0, <1>2, <2>2 DEF Ages, CatInv, TablesOK, CategoriesOK
  <2>7. QED
    BY <2>4, <2>5, <2>6 DEF TablesOK
<1>3. QED
  BY <1>1, <1>2 DEF CreateBankCategory

\* Menu rows change: what is left or new cites what its owner sees.
LEMMA MenuKeeps ==
  ASSUME CatInv, UNCHANGED <<facts, categories, aliases, codes, links, nextId>>, OffersOK'
  PROVE  TablesOK' /\ Ages
<1>1. CategoriesOK' /\ AliasesOK' /\ LinksOK'
  BY DEF CatInv, TablesOK, CategoriesOK, AliasesOK, LinksOK
<1>2. Ages
  BY DEF Ages, CatInv, TablesOK, CategoriesOK
<1>3. QED
  BY <1>1, <1>2 DEF TablesOK

LEMMA SaveKeeps ==
  ASSUME CatInv, NEW u \in Users, SaveCategoryOffer(u)
  PROVE  CatInv'
<1> DEFINE n == calls[u]
           new == [id |-> n.id, user |-> u, bank |-> n.bank, title |-> n.title,
                   row |-> n.row, slug |-> n.slug]
           next == [do |-> "alias", bank |-> n.bank, title |-> n.title, slug |-> n.explicit]
<1>0. /\ n # None /\ n.do = "save"
      /\ UNCHANGED <<facts, categories, aliases, codes, links, nextId, rest>>
  BY DEF SaveCategoryOffer
<1>1. Saving(u, n)
  BY <1>0 DEF CatInv, CallsOK, NoteOK
<1>2. CASE UNCHANGED offers /\ Note(u, None)
  <2>1. OffersOK'
    BY <1>0, <1>2 DEF CatInv, TablesOK, OffersOK, PickIsVisible
  <2>2. QED
    BY <1>0, <1>2, <2>1, MenuKeeps, OthersNotes
<1>3. CASE /\ n.row \in {None} \cup {c.id : c \in categories}
           /\ offers' = {o \in offers : o.id # n.id \/ o.user # u} \cup {new}
           /\ Note(u, IF n.explicit = None THEN None ELSE next)
  <2>1. new \in [id : OfferIds, user : Users, bank : Banks, title : Titles,
                 row : {None} \cup Nat, slug : {None} \cup DOMAIN facts]
    BY <1>0, <1>1, <1>3 DEF Saving, CatInv, TablesOK, CategoriesOK
  <2>2. new.row # None => \E c \in categories : c.id = new.row /\ c.bank = new.bank /\ c.by \in {None, new.user}
    BY <1>0, <1>1, <1>3 DEF Saving
  <2>3. new.id = n.id /\ new.user = u
    OBVIOUS
  <2> HIDE DEF new
  <2>4. OffersOK'
    BY <1>0, <1>3, <2>1, <2>2, <2>3 DEF CatInv, TablesOK, OffersOK, PickIsVisible
  <2>5. TablesOK' /\ Ages
    BY <1>0, <2>4, MenuKeeps
  <2>6. PICK m : m = next
    OBVIOUS
  <2>7. n.explicit # None => NoteOK(u, m)'
    BY <1>0, <1>1, <2>6 DEF Saving, NoteOK, Creating, Aliasing
  <2>8. CASE n.explicit = None
    BY <1>0, <1>3, <2>5, <2>8, OthersNotes
  <2>9. CASE n.explicit # None
    BY <1>0, <1>3, <2>5, <2>6, <2>7, <2>9, OthersNotes
  <2>10. QED
    BY <2>8, <2>9
<1>4. QED
  BY <1>2, <1>3 DEF SaveCategoryOffer

LEMMA UsersKeep ==
  ASSUME CatInv, NEW u \in Users, UserStep(u)
  PROVE  CatInv'
<1>1. CASE CountVisible(u)
  <2>1. PICK bank \in Banks \cap DOMAIN facts, e \in Entries :
          /\ Begin(u) /\ Mapped(e)
          /\ Note(u, [do |-> "create", bank |-> bank, title |-> e.title, slug |-> e.slug])
    BY <1>1 DEF CountVisible
  <2>2. TablesOK' /\ Ages /\ UNCHANGED rest /\ UNCHANGED tables
    BY <2>1, FactsKeep DEF Begin, tables, CatInv
  <2>3. NoteOK(u, [do |-> "create", bank |-> bank, title |-> e.title, slug |-> e.slug])'
    BY <2>1, <2>2, CatalogueAssumption DEF NoteOK, Creating, Saving, Aliasing, Mapped, tables
  <2>4. QED
    BY <2>1, <2>2, <2>3, OthersNotes
<1>2. CASE CreateBankCategory(u)
  BY <1>2, CreateKeeps, OthersNotes DEF CreateBankCategory, End
<1>3. CASE ResolveBankCategory(u)
  <2>1. PICK id \in OfferIds, bank \in Banks \cap DOMAIN facts, e \in Entries :
          /\ Begin(u) /\ Mapped(e)
          /\ \/ Note(u, [do |-> "save", id |-> id, bank |-> bank, title |-> e.title, row |-> None,
                         explicit |-> e.slug, slug |-> e.slug])
             \/ \E c \in Pickable(u, bank) :
                  Note(u, [do |-> "save", id |-> id, bank |-> bank, title |-> e.title, row |-> c.id,
                           explicit |-> e.slug, slug |-> FirstNonNil(e.slug, c.slug)])
    BY <1>3 DEF ResolveBankCategory
  <2>2. TablesOK' /\ Ages /\ UNCHANGED rest /\ UNCHANGED tables
    BY <2>1, FactsKeep DEF Begin, tables, CatInv
  <2>3. e.title \in Titles /\ e.slug \in {None} \cup DOMAIN facts'
    BY <2>1, <2>2, CatalogueAssumption DEF Mapped, tables
  <2>4. CASE Note(u, [do |-> "save", id |-> id, bank |-> bank, title |-> e.title, row |-> None,
                      explicit |-> e.slug, slug |-> e.slug])
    <3>1. NoteOK(u, [do |-> "save", id |-> id, bank |-> bank, title |-> e.title, row |-> None,
                     explicit |-> e.slug, slug |-> e.slug])'
      BY <2>3 DEF NoteOK, Creating, Saving, Aliasing
    <3>2. QED
      BY <2>2, <2>4, <3>1, OthersNotes
  <2>5. ASSUME NEW c \in Pickable(u, bank),
               Note(u, [do |-> "save", id |-> id, bank |-> bank, title |-> e.title, row |-> c.id,
                        explicit |-> e.slug, slug |-> FirstNonNil(e.slug, c.slug)])
        PROVE  CatInv'
    <3>1. /\ c \in categories /\ c.bank = bank /\ c.by \in {None, u}
          /\ c.id \in 1..(nextId - 1) /\ c.slug \in {None} \cup DOMAIN facts
      BY <2>5 DEF Pickable, Seen, CatInv, TablesOK, CategoriesOK
    <3>2. FirstNonNil(e.slug, c.slug) \in {None} \cup DOMAIN facts'
      BY <2>2, <2>3, <3>1 DEF FirstNonNil, tables
    <3>3. \A d \in categories' : d.id = c.id => d.bank = bank /\ d.by \in {None, u}
      BY <2>2, <3>1 DEF CatInv, TablesOK, CategoriesOK, tables
    <3>4. c.id \in 1..(nextId' - 1)
      BY <2>2, <3>1 DEF tables
    <3>5. NoteOK(u, [do |-> "save", id |-> id, bank |-> bank, title |-> e.title, row |-> c.id,
                     explicit |-> e.slug, slug |-> FirstNonNil(e.slug, c.slug)])'
      BY <2>3, <3>2, <3>3, <3>4 DEF NoteOK, Creating, Saving, Aliasing
    <3>6. QED
      BY <2>2, <2>5, <3>5, OthersNotes
  <2>6. QED
    BY <2>1, <2>4, <2>5
<1>4. CASE SaveCategoryOffer(u)
  BY <1>4, SaveKeeps
<1>5. CASE UpsertAlias(u)
  <2>1. Aliasing(calls[u]) /\ calls[u].do = "alias"
    BY <1>5 DEF UpsertAlias, CatInv, CallsOK, NoteOK
  <2>2. TablesOK' /\ Ages
    BY <1>5, <2>1, UpsertsKeep DEF UpsertAlias, Aliasing, CatInv
  <2>3. QED
    BY <1>5, <2>2, OthersNotes DEF UpsertAlias, End
<1>6. CASE DeleteCategoryOffer(u)
  <2>1. /\ offers' \subseteq offers
        /\ UNCHANGED <<facts, categories, aliases, codes, links, nextId, rest, calls>>
    BY <1>6 DEF DeleteCategoryOffer
  <2>2. OffersOK'
    BY <2>1 DEF CatInv, TablesOK, OffersOK, PickIsVisible
  <2>3. TablesOK' /\ Ages
    BY <2>1, <2>2, MenuKeeps
  <2>4. CallsOK'
    BY <2>1, <2>3, NotesAge DEF CatInv, CallsOK
  <2>5. RunsOK'
    BY <2>1 DEF CatInv, RunsOK, rest
  <2>6. QED
    BY <2>3, <2>4, <2>5 DEF CatInv
<1>7. QED
  BY <1>1, <1>2, <1>3, <1>4, <1>5, <1>6 DEF UserStep

(******************************* the operator ******************************)

LEMMA EditKeeps ==
  ASSUME CatInv, AdminUpdateBankCategory
  PROVE  TablesOK' /\ Ages
<1>1. PICK e \in Edits :
        LET old == {c \in categories : c.id = calls[Desk].row /\ c.custom}
            new == {[c EXCEPT !.title = e.title, !.slug = e.slug, !.active = e.active] : c \in old}
            hit == UNION {Row(c.bank, c.title, c.by) : c \in new}
        IN  Mapped(e) /\ categories' = IF hit \subseteq old THEN (categories \ old) \cup new ELSE categories
  BY DEF AdminUpdateBankCategory
<1> DEFINE old == {c \in categories : c.id = calls[Desk].row /\ c.custom}
           now(c) == [c EXCEPT !.title = e.title, !.slug = e.slug, !.active = e.active]
           new == {now(c) : c \in old}
<1>2. UNCHANGED <<facts, aliases, codes, links, offers, nextId>>
  BY DEF AdminUpdateBankCategory
<1>3. CASE categories' = categories
  BY <1>2, <1>3, FactsKeep DEF CatInv
<1>4. CASE /\ UNION {Row(c.bank, c.title, c.by) : c \in new} \subseteq old
           /\ categories' = (categories \ old) \cup new
  <2>1. e.title \in Titles /\ e.slug \in {None} \cup DOMAIN facts /\ e.active \in BOOLEAN
    BY <1>1, CatalogueAssumption DEF Mapped
  <2>2. \A c \in categories :
          /\ now(c) \in [id : 1..(nextId - 1), bank : Banks, title : Titles, by : {None} \cup Users,
                         custom : BOOLEAN, slug : {None} \cup DOMAIN facts, kind : Kinds,
                         active : BOOLEAN]
          /\ now(c).id = c.id /\ now(c).bank = c.bank /\ now(c).title = e.title
          /\ now(c).by = c.by /\ now(c).custom = c.custom
    BY <2>1 DEF CatInv, TablesOK, CategoriesOK
  <2>3. old \subseteq categories /\ \A c, d \in old : c = d
    BY DEF CatInv, TablesOK, CategoriesOK
  <2>4. \A b \in old, c \in categories :
          c.bank = b.bank /\ c.title = e.title /\ c.by = b.by => c \in old
    <3>1. SUFFICES ASSUME NEW b \in old, NEW c \in categories,
                          c.bank = b.bank, c.title = e.title, c.by = b.by
                   PROVE  c \in old
      OBVIOUS
    <3>2. c \in Row(now(b).bank, now(b).title, now(b).by)
      BY <2>2, <2>3, <3>1 DEF Row
    <3>3. now(b) \in new
      OBVIOUS
    <3> HIDE DEF old, now, new
    <3>4. QED
      BY <1>4, <3>2, <3>3
  <2> HIDE DEF old
  <2>5. \A d \in categories' : (d \in categories /\ d \notin old) \/ \E c \in old : d = now(c)
    BY <1>4
  <2> HIDE DEF now, new
  <2>6. CategoriesOK'
    <3>1. ASSUME NEW d \in categories', NEW x \in categories',
                 d.id = x.id \/ (d.bank = x.bank /\ d.title = x.title /\ d.by = x.by)
          PROVE  d = x
      <4>1. CASE d \in categories /\ d \notin old /\ x \in categories /\ x \notin old
        BY <3>1, <4>1 DEF CatInv, TablesOK, CategoriesOK
      <4>2. CASE \E c \in old : d = now(c)
        <5>1. PICK c \in old : d = now(c)
          BY <4>2
        <5>2. CASE \E b \in old : x = now(b)
          BY <2>3, <5>1, <5>2
        <5>3. CASE x \in categories /\ x \notin old
          BY <2>2, <2>3, <2>4, <3>1, <5>1, <5>3 DEF CatInv, TablesOK, CategoriesOK
        <5>4. QED
          BY <2>5, <5>2, <5>3
      <4>3. CASE (\E b \in old : x = now(b)) /\ d \in categories /\ d \notin old
        <5>1. PICK b \in old : x = now(b)
          BY <4>3
        <5>2. QED
          BY <2>2, <2>3, <2>4, <3>1, <4>3, <5>1 DEF CatInv, TablesOK, CategoriesOK
      <4>4. QED
        BY <2>5, <4>1, <4>2, <4>3
    <3>2. \A d \in categories' :
            /\ d \in [id : 1..(nextId - 1), bank : Banks, title : Titles, by : {None} \cup Users,
                      custom : BOOLEAN, slug : {None} \cup DOMAIN facts, kind : Kinds,
                      active : BOOLEAN]
            /\ d.by # None => d.custom
      BY <2>2, <2>3, <2>5 DEF CatInv, TablesOK, CategoriesOK
    <3>3. QED
      BY <1>2, <3>1, <3>2 DEF CatInv, TablesOK, CategoriesOK
  <2>7. \A c \in categories : \E d \in categories' : d.id = c.id /\ d.bank = c.bank /\ d.by = c.by
    <3>1. \A c \in categories : c \in categories' \/ (c \in old /\ now(c) \in categories')
      BY <1>4 DEF new
    <3>2. QED
      BY <2>2, <3>1
  <2>8. AliasesOK' /\ LinksOK' /\ OffersOK'
    BY <1>2, <2>7 DEF CatInv, TablesOK, AliasesOK, LinksOK, OffersOK, PickIsVisible
  <2>9. Ages
    <3>1. \A d \in categories' : \E c \in categories : c.id = d.id /\ c.bank = d.bank /\ c.by = d.by
      BY <2>2, <2>3, <2>5
    <3>2. QED
      BY <1>2, <3>1 DEF Ages, CatInv, TablesOK, CategoriesOK
  <2>10. QED
    BY <2>6, <2>8, <2>9 DEF TablesOK
<1>5. QED
  BY <1>1, <1>3, <1>4

LEMMA DeskKeeps ==
  ASSUME CatInv, DeskStep
  PROVE  CatInv'
<1>1. CASE GuardBankCategory
  <2>1. PICK c \in categories, do \in {"edit", "delete"} :
          Begin(Desk) /\ Note(Desk, [do |-> do, row |-> c.id])
    BY <1>1 DEF GuardBankCategory
  <2>2. TablesOK' /\ Ages /\ UNCHANGED rest
    BY <2>1, FactsKeep DEF Begin, tables, CatInv
  <2>3. QED
    BY <2>1, <2>2, CatalogueAssumption, OthersNotes
<1>2. CASE AdminUpdateBankCategory
  BY <1>2, EditKeeps, CatalogueAssumption, OthersNotes DEF AdminUpdateBankCategory, Guarded, End
<1>3. CASE AdminDeleteBankCategory
  <2>1. PICK rows \in SUBSET categories : Drop(rows)
    BY <1>3 DEF AdminDeleteBankCategory
  <2>2. TablesOK' /\ Ages
    BY <2>1, DropsKeep DEF CatInv
  <2>3. QED
    BY <1>3, <2>2, CatalogueAssumption, OthersNotes DEF AdminDeleteBankCategory, Guarded, End
<1>4. CASE AdminWriteMCC \/ AdminDeleteMCC \/ AdminLink
  <2>1. UNCHANGED <<facts, categories, aliases, offers, nextId, rest, calls>>
    BY <1>4 DEF AdminWriteMCC, AdminDeleteMCC, AdminLink
  <2>2. LinksOK'
    <3>1. CASE AdminWriteMCC
      BY <3>1 DEF AdminWriteMCC, Over, CatInv, TablesOK, LinksOK
    <3>2. CASE AdminDeleteMCC
      BY <3>2 DEF AdminDeleteMCC, Restrict, CatInv, TablesOK, LinksOK
    <3>3. CASE AdminLink
      <4>1. PICK c \in categories, code \in LinkCodes \cap DOMAIN codes :
              links' \in {links \cup {[row |-> c.id, code |-> code]},
                          links \ {[row |-> c.id, code |-> code]}}
        BY <3>3 DEF AdminLink
      <4>2. UNCHANGED <<categories, codes>>
        BY <3>3 DEF AdminLink
      <4>3. QED
        BY <4>1, <4>2 DEF CatInv, TablesOK, LinksOK
    <3>4. QED
      BY <1>4, <3>1, <3>2, <3>3
  <2>3. CategoriesOK' /\ AliasesOK' /\ OffersOK' /\ Ages
    BY <2>1 DEF CatInv, TablesOK, CategoriesOK, AliasesOK, OffersOK, PickIsVisible, Ages
  <2>4. CallsOK'
    BY <2>1, <2>3, NotesAge DEF CatInv, CallsOK
  <2>5. RunsOK'
    BY <2>1 DEF CatInv, RunsOK, rest
  <2>6. QED
    BY <2>2, <2>3, <2>4, <2>5 DEF CatInv, TablesOK
<1>5. CASE RestartSidecar
  <2>1. sidecar' = deployed /\ UNCHANGED <<tables, runs, deployed, loaded, calls>>
    BY <1>5 DEF RestartSidecar
  <2>2. TablesOK' /\ Ages
    BY <2>1, FactsKeep DEF CatInv, tables
  <2>3. RunsOK'
    BY <2>1, ReleaseNumbers DEF CatInv, RunsOK
  <2>4. CallsOK'
    BY <2>1, <2>2, NotesAge DEF CatInv, CallsOK
  <2>5. QED
    BY <2>2, <2>3, <2>4 DEF CatInv
<1>6. QED
  BY <1>1, <1>2, <1>3, <1>4, <1>5 DEF DeskStep

(******************************** the catalog ******************************)

LEMMA InitOK == Init => CatInv
<1> SUFFICES ASSUME Init PROVE CatInv
  OBVIOUS
<1>1. Cardinality(Orphans) \in Nat
  BY OrphansAssumption, FS_CardinalityType
<1>2. CategoriesOK
  <2>1. nextId \in Nat \ {0} /\ nextId - 1 = Cardinality(Orphans)
    BY <1>1 DEF Init
  <2>2. \A o \in Orphans :
          /\ o \in [id : 1..(nextId - 1), bank : Banks, title : Titles, by : {None} \cup Users,
                   custom : BOOLEAN, slug : {None} \cup DOMAIN facts, kind : Kinds,
                   active : BOOLEAN]
          /\ o.by = None
    BY <2>1, OrphansAssumption
  <2>3. \A c, d \in Orphans :
          c.id = d.id \/ (c.bank = d.bank /\ c.title = d.title /\ c.by = d.by) => c = d
    BY OrphansAssumption
  <2>4. QED
    BY <2>1, <2>2, <2>3 DEF Init, CategoriesOK
<1>3. AliasesOK /\ LinksOK /\ OffersOK
  BY DEF Init, AliasesOK, LinksOK, OffersOK, PickIsVisible
<1>4. RunsOK
  BY ReleaseNumbers DEF Init, RunsOK
<1>5. CallsOK
  BY DEF Init, CallsOK
<1>6. QED
  BY <1>2, <1>3, <1>4, <1>5 DEF CatInv, TablesOK

THEOREM CatInvariance == Spec => []CatInv
<1>1. CatInv /\ [Next]_vars => CatInv'
  <2>1. ASSUME CatInv, Next PROVE CatInv'
    BY <2>1, SeedKeeps, UsersKeep, DeskKeeps DEF Next
  <2>2. ASSUME CatInv, UNCHANGED vars PROVE CatInv'
    BY <2>2 DEF vars, tables, rest, CatInv, TablesOK, RunsOK, CallsOK, CategoriesOK, AliasesOK,
         LinksOK, OffersOK, PickIsVisible, NoteOK, Creating, Saving, Aliasing
  <2>3. QED
    BY <2>1, <2>2
<1>2. QED
  BY <1>1, InitOK, PTL DEF Spec

\* The keys of the tables, and that a menu row cites a row of its bank its owner can
\* see: CreateCategoryOffer looks the row up in one statement and cites it in a later
\* one, while seeds, the operator and other accounts write.
THEOREM CatalogAlwaysHolds == Spec => []CatalogHolds
<1>1. CatInv => CatalogHolds
  <2>1. ASSUME CatInv, NEW c \in categories
        PROVE  Row(c.bank, c.title, c.by) = {c}
    BY <2>1 DEF CatInv, TablesOK, CategoriesOK, Row
  <2>2. ASSUME CatInv, NEW a \in aliases
        PROVE  AliasRow(a.bank, a.title, a.by) = {a}
    BY <2>2 DEF CatInv, TablesOK, AliasesOK, AliasRow
  <2>3. CatInv => \A c \in categories :
                    /\ c.id \in 1..(nextId - 1) /\ c.bank \in Banks /\ c.title \in Titles
                    /\ c.by \in {None} \cup Users /\ c.slug \in {None} \cup DOMAIN facts
    BY DEF CatInv, TablesOK, CategoriesOK
  <2>4. CatInv => \A a \in aliases : a.slug \in DOMAIN facts
    BY DEF CatInv, TablesOK, AliasesOK
  <2>5. CatInv => /\ \A l \in links : l.row \in {c.id : c \in categories} /\ l.code \in DOMAIN codes
                  /\ \A o, p \in offers : o.id = p.id /\ o.user = p.user => o = p
                  /\ loaded \in 0..deployed /\ sidecar \in 1..deployed
                  /\ PickIsVisible
    BY DEF CatInv, TablesOK, LinksOK, OffersOK, RunsOK
  <2>6. QED
    BY <2>1, <2>2, <2>3, <2>4, <2>5 DEF CatalogHolds, TypeOK
<1>2. QED
  BY <1>1, CatInvariance, PTL

(*************************** the seed and the users ************************)

LEMMA SeedStepsOnly ==
  ASSUME CatInv, Next, runs' # runs
  PROVE  SeedStep
<1>1. (\E u \in Users : UserStep(u)) => runs' = runs
  BY DEF UserStep, CountVisible, CreateBankCategory, ResolveBankCategory, SaveCategoryOffer,
       UpsertAlias, DeleteCategoryOffer, Begin, End, rest
<1>2. DeskStep => runs' = runs
  BY DEF DeskStep, GuardBankCategory, AdminUpdateBankCategory, AdminDeleteBankCategory, Guarded,
       AdminWriteMCC, AdminDeleteMCC, AdminLink, RestartSidecar, Begin, End, rest
<1>3. QED
  BY <1>1, <1>2 DEF Next

OwnRows ==
  /\ {c \in categories : c.custom} = {c \in categories' : c.custom}
  /\ \A c \in categories, d \in categories' :
       c.bank = d.bank /\ c.title = d.title /\ c.by = d.by =>
         c.id = d.id /\ c.active = d.active

LEMMA TitlesSpare ==
  ASSUME TablesOK, NEW t \in SeedTitleRow, SeedTitle(t)
  PROVE  OwnRows
<1> DEFINE old  == Row(t.bank, t.title, None)
           slug == IF t.slug \in DOMAIN facts THEN t.slug ELSE None
           new  == Save(nextId, t.bank, t.title, None, slug, t.kind, t.active)
           now(c) == IF c.custom THEN c ELSE [c EXCEPT !.slug = slug, !.kind = t.kind]
<1>1. CASE UNCHANGED categories
  BY <1>1 DEF OwnRows, TablesOK, CategoriesOK
<1>2. CASE old = {} /\ categories' = categories \cup {new}
  <2>1. new.bank = t.bank /\ new.title = t.title /\ new.by = None /\ ~ new.custom
    BY DEF Save
  <2> HIDE DEF new
  <2>2. \A c \in categories : ~ (c.bank = new.bank /\ c.title = new.title /\ c.by = new.by)
    BY <1>2, <2>1 DEF Row
  <2>3. QED
    BY <1>2, <2>1, <2>2 DEF OwnRows, TablesOK, CategoriesOK
<1>3. CASE categories' = (categories \ old) \cup {now(c) : c \in old}
  <2>1. \A c \in categories :
          /\ now(c).id = c.id /\ now(c).bank = c.bank /\ now(c).title = c.title
          /\ now(c).by = c.by /\ now(c).custom = c.custom /\ now(c).active = c.active
          /\ c.custom => now(c) = c
    BY DEF TablesOK, CategoriesOK
  <2>2. old \subseteq categories
    BY DEF Row
  <2> HIDE DEF now, old
  <2>3. \A d \in categories' : \E c \in categories : d \in {c, now(c)}
    BY <1>3, <2>2
  <2>4. \A c \in categories : c \in categories' \/ now(c) \in categories'
    BY <1>3
  <2>5. {c \in categories : c.custom} = {c \in categories' : c.custom}
    BY <2>1, <2>3, <2>4
  <2>6. ASSUME NEW c \in categories, NEW d \in categories',
               c.bank = d.bank, c.title = d.title, c.by = d.by
        PROVE  c.id = d.id /\ c.active = d.active
    <3>1. PICK b \in categories : d \in {b, now(b)}
      BY <2>3
    <3>2. b = c
      BY <2>1, <2>6, <3>1 DEF TablesOK, CategoriesOK
    <3>3. QED
      BY <2>1, <3>1, <3>2
  <2>7. QED
    BY <2>5, <2>6 DEF OwnRows
<1>4. QED
  BY <1>1, <1>2, <1>3 DEF SeedTitle

OwnAliases == {a \in aliases : a.by # None} = {a \in aliases' : a.by # None}

OwnMenus == \A o \in offers : \E p \in offers' : [o EXCEPT !.row = None] = [p EXCEPT !.row = None]

LEMMA StatementsSpare ==
  ASSUME TablesOK, NEW n \in Releases, NEW s \in Statement(Data[n]), Execute(s)
  PROVE  OwnRows /\ OwnAliases /\ OwnMenus
<1>0. UNCHANGED categories => OwnRows
  BY DEF OwnRows, TablesOK, CategoriesOK
<1>1. CASE Insert(s.row) \/ Refresh(s.row) \/ SeedMCC(s.row)
  BY <1>0, <1>1 DEF Insert, Refresh, SeedMCC, OwnAliases, OwnMenus
<1>2. CASE SeedAlias(s.row) \/ RetireAlias(s.row)
  <2>1. UNCHANGED <<categories, offers>>
    BY <1>2 DEF SeedAlias, RetireAlias, Upsert, tables
  <2>2. OwnAliases
    BY <1>2 DEF SeedAlias, RetireAlias, Upsert, AliasRow, OwnAliases, tables
  <2>3. QED
    BY <1>0, <2>1, <2>2 DEF OwnMenus
<1>3. CASE s.do = "retire title" /\ RetireTitle(s.row)
  <2> DEFINE rows == {c \in Row(s.row.bank, s.row.title, None) : ~ c.custom}
             ids == {c.id : c \in rows}
  <2>1. /\ categories' = categories \ rows /\ UNCHANGED aliases
        /\ offers' = {[o EXCEPT !.row = IF @ \in ids THEN None ELSE @] : o \in offers}
    BY <1>3 DEF RetireTitle, Drop
  <2>2. OwnRows
    BY <2>1 DEF OwnRows, TablesOK, CategoriesOK
  <2>3. OwnMenus
    <3> HIDE DEF ids
    <3>1. \A o \in offers : [o EXCEPT !.row = IF @ \in ids THEN None ELSE @] \in offers'
      BY <2>1
    <3>2. \A o \in offers :
            [o EXCEPT !.row = None]
              = [[o EXCEPT !.row = IF @ \in ids THEN None ELSE @] EXCEPT !.row = None]
      BY DEF TablesOK, OffersOK
    <3>3. QED
      BY <3>1, <3>2 DEF OwnMenus
  <2>4. QED
    BY <2>1, <2>2, <2>3 DEF OwnAliases
<1>4. CASE s.do = "title" /\ SeedTitle(s.row)
  <2>1. s.row \in SeedTitleRow
    BY <1>4 DEF Statement
  <2>2. QED
    BY <1>4, <2>1, TitlesSpare DEF SeedTitle, OwnAliases, OwnMenus
<1>5. QED
  BY <1>1, <1>2, <1>3, <1>4 DEF Execute

\* seed.Run refreshes what is its own and nothing else: no release, no order of
\* statements and no stop half way costs a user a row, a mapping or a menu row, or
\* a seeded row its id and its active flag.
THEOREM UsersAreSpared == Spec => SeedSparesUsers
<1>1. ASSUME CatInv, Next PROVE SparedBySeed
  <2>1. SUFFICES ASSUME SeedStep PROVE OwnRows /\ OwnAliases /\ OwnMenus
    BY <1>1, SeedStepsOnly DEF SparedBySeed, OwnRows, OwnAliases, OwnMenus
  <2>2. PICK r \in Runners : StartSeed(r) \/ StepSeed(r) \/ BreakSeed(r)
    BY <2>1 DEF SeedStep
  <2>3. CASE StartSeed(r) \/ BreakSeed(r)
    <3>1. UNCHANGED <<categories, aliases, offers>>
      BY <2>3 DEF StartSeed, BreakSeed, tables
    <3>2. QED
      BY <1>1, <3>1 DEF OwnRows, OwnAliases, OwnMenus, CatInv, TablesOK, CategoriesOK
  <2>4. CASE StepSeed(r)
    <3> DEFINE n == runs[r].release
    <3>1. /\ runs[r] # None /\ n \in Releases /\ runs[r].at \in 1..Len(Runs[n])
      BY <1>1, <2>4, ReleaseNumbers DEF StepSeed, CatInv, RunsOK
    <3>2. Execute(Runs[n][runs[r].at])
      BY <2>4 DEF StepSeed
    <3>3. Runs[n][runs[r].at] \in Statement(Data[n])
      BY <3>1, SeedStatements
    <3>4. QED
      BY <1>1, <3>1, <3>2, <3>3, StatementsSpare DEF CatInv
  <2>5. QED
    BY <2>2, <2>3, <2>4
<1>2. UNCHANGED vars => SparedBySeed
  BY DEF SparedBySeed, vars, rest
<1>3. CatInv /\ [Next]_vars => SparedBySeed
  BY <1>1, <1>2
<1>4. QED
  BY <1>3, CatInvariance, PTL DEF Spec, SeedSparesUsers

(*************************** one account and another ***********************)

LEMMA SameScreen ==
  ASSUME NEW u, UNCHANGED facts,
         \A bank \in Banks : ListBankCategories(u, bank)' = ListBankCategories(u, bank),
         \A bank \in Banks : ListAliasesForBank(u, bank)' = ListAliasesForBank(u, bank)
  PROVE  UNCHANGED Screen(u)
<1>1. \A bank \in Banks : Picker(u, bank)' = Picker(u, bank)
  BY DEF Picker
<1>2. \A bank \in Banks, t \in Titles : SuggestAlias(u, bank, t)' = SuggestAlias(u, bank, t)
  BY DEF SuggestAlias
<1>3. [bank \in Banks |-> Picker(u, bank)]' = [bank \in Banks |-> Picker(u, bank)]
  BY <1>1
<1>4. [bank \in Banks |-> [t \in Titles |-> SuggestAlias(u, bank, t)]]'
        = [bank \in Banks |-> [t \in Titles |-> SuggestAlias(u, bank, t)]]
  BY <1>2
<1>5. QED
  BY <1>3, <1>4 DEF Screen

LEMMA UsersUnseen ==
  ASSUME CatInv, NEW v \in Users, NEW u \in Users, u # v, UserStep(v)
  PROVE  UNCHANGED Screen(u)
<1>1. CASE UNCHANGED <<facts, categories, aliases>>
  BY <1>1, SameScreen DEF ListBankCategories, ListAliasesForBank, Seen
<1>2. CASE CreateBankCategory(v)
  <2> DEFINE new == Save(nextId, calls[v].bank, calls[v].title, v, calls[v].slug, "regular", TRUE)
  <2>1. UNCHANGED <<facts, aliases>> /\ categories' \in {categories, categories \cup {new}}
    BY <1>2 DEF CreateBankCategory
  <2>2. new.by = v /\ v # None
    BY CatalogueAssumption DEF Save
  <2> HIDE DEF new
  <2>3. \A bank \in Banks : ListBankCategories(u, bank)' = ListBankCategories(u, bank)
    BY <2>1, <2>2 DEF ListBankCategories, Seen
  <2>4. QED
    BY <2>1, <2>3, SameScreen DEF ListAliasesForBank
<1>3. CASE UpsertAlias(v)
  <2>1. /\ UNCHANGED <<facts, categories>>
        /\ aliases' = (aliases \ AliasRow(calls[v].bank, calls[v].title, v))
                        \cup {[bank |-> calls[v].bank, title |-> calls[v].title, by |-> v,
                               slug |-> calls[v].slug]}
    BY <1>3 DEF UpsertAlias, Upsert
  <2>2. v # None
    BY CatalogueAssumption
  <2>3. ASSUME NEW w \in {None, u}, NEW bank \in Banks
        PROVE  {a \in aliases' : a.bank = bank /\ a.by = w} = {a \in aliases : a.bank = bank /\ a.by = w}
    BY <2>1, <2>2 DEF AliasRow
  <2>4. ASSUME NEW bank \in Banks
        PROVE  ListAliasesForBank(u, bank)' = ListAliasesForBank(u, bank)
    <3> DEFINE mine == {a \in aliases : a.bank = bank /\ a.by = u}
               seeded == {a \in aliases : a.bank = bank /\ a.by = None}
    <3>1. mine' = mine /\ seeded' = seeded
      BY <2>3
    <3>2. ListAliasesForBank(u, bank)
            = mine \cup {a \in seeded : a.title \notin {m.title : m \in mine}}
      BY DEF ListAliasesForBank
    <3>3. ListAliasesForBank(u, bank)'
            = mine' \cup {a \in seeded' : a.title \notin {m.title : m \in mine'}}
      BY DEF ListAliasesForBank
    <3> HIDE DEF mine, seeded
    <3>4. QED
      BY <3>1, <3>2, <3>3
  <2>5. QED
    BY <2>1, <2>4, SameScreen DEF ListBankCategories, Seen
<1>4. QED
  BY <1>1, <1>2, <1>3 DEF UserStep, CountVisible, ResolveBankCategory, SaveCategoryOffer,
       DeleteCategoryOffer, Begin, tables

\* "The catalog is a shared namespace on an installation with open registration"
\* (00019_user_scoped_catalogs.sql): a step of one account changes nothing that
\* another is shown.
THEOREM AccountsStayApart == Spec => OthersChangeNothing
<1>1. ASSUME CatInv, Next, NEW u \in Users, NEW v \in DOMAIN calls \ {Desk},
             u # v, calls'[v] # calls[v]
      PROVE  UNCHANGED Screen(u)
  <2>1. v \in Users
    BY <1>1 DEF CatInv, CallsOK
  <2>2. SeedStep => calls' = calls
    BY DEF SeedStep, StartSeed, StepSeed, BreakSeed
  <2>3. DeskStep => calls'[v] = calls[v]
    BY <1>1, <2>1 DEF DeskStep, GuardBankCategory, AdminUpdateBankCategory, AdminDeleteBankCategory,
         Guarded, AdminWriteMCC, AdminDeleteMCC, AdminLink, RestartSidecar, End, Note, CatInv, CallsOK
  <2>4. ASSUME NEW w \in Users, UserStep(w), w # v
        PROVE  calls'[v] = calls[v]
    <3>1. UNCHANGED calls \/ \E note : Note(w, note)
      <4>1. CASE CountVisible(w) \/ CreateBankCategory(w)
        BY <4>1 DEF CountVisible, CreateBankCategory, End
      <4>2. CASE ResolveBankCategory(w)
        BY <4>2 DEF ResolveBankCategory
      <4>3. CASE SaveCategoryOffer(w) \/ UpsertAlias(w) \/ DeleteCategoryOffer(w)
        BY <4>3 DEF SaveCategoryOffer, UpsertAlias, DeleteCategoryOffer, End
      <4>4. QED
        BY <2>4, <4>1, <4>2, <4>3 DEF UserStep
    <3>2. QED
      BY <1>1, <2>4, <3>1 DEF Note, CatInv, CallsOK
  <2>5. UserStep(v)
    BY <1>1, <2>1, <2>2, <2>3, <2>4 DEF Next
  <2>6. QED
    BY <1>1, <2>1, <2>5, UsersUnseen
<1>2. UNCHANGED vars => Unseen
  BY DEF Unseen, vars
<1>3. CatInv /\ [Next]_vars => Unseen
  BY <1>1, <1>2 DEF Unseen
<1>4. QED
  BY <1>3, CatInvariance, PTL DEF Spec, OthersChangeNothing

(************************* the statements of a run *************************)

Do(do, rows) == {[do |-> do, row |-> x] : x \in rows}

Base(d) == d.programs \o d.canonicals

StatementsOf(d) ==
  Do("insert", Range(d.banks)) \cup Do("insert", Range(Base(d))) \cup Do("refresh", Range(Base(d)))
    \cup Do("alias", Range(d.aliases)) \cup Do("retire alias", Range(d.retiredAliases))
    \cup Do("retire title", Range(d.retiredTitles)) \cup Do("title", Range(d.titles))
    \cup Do("refresh", Range(d.colors)) \cup Do("dictionary", {d.codes})

\* the keys a statement refers to, and the keys that statements bring
Refers(s) ==
  CASE s.do = "insert"  -> s.row.needs
    [] s.do = "refresh" -> {s.row.key}
    [] s.do = "alias"   -> {s.row.bank, s.row.slug}
    [] s.do = "title"   -> {s.row.bank, s.row.slug} \ {None}
    [] OTHER -> {}

Brings(S) == {s.row.key : s \in {x \in S : x.do = "insert"}}

\* Each statement of the sequence comes after what it builds on, done being before all.
Builds(d, done, s) ==
  /\ Refers(s) \subseteq Brings(done)
  /\ s.do = "title" => Do("retire title", Range(d.retiredTitles)) \subseteq done

Past(s, k) == {s[j] : j \in 1..(k - 1)}

Follows(d, done, s) == \A k \in DOMAIN s : Builds(d, done \cup Past(s, k), s[k])

LEMMA JoinedRange ==
  ASSUME NEW S, NEW s \in Seq(S), NEW U, NEW t \in Seq(U)
  PROVE  Range(s \o t) = Range(s) \cup Range(t)
<1> DEFINE st == s \o t
<1>1. /\ Len(st) = Len(s) + Len(t) /\ Len(s) \in Nat /\ Len(t) \in Nat
      /\ \A k \in 1..Len(st) : st[k] = IF k <= Len(s) THEN s[k] ELSE t[k - Len(s)]
      /\ DOMAIN s = 1..Len(s) /\ DOMAIN t = 1..Len(t) /\ DOMAIN st = 1..Len(st)
  OBVIOUS
<1> HIDE DEF st
<1>2. \A k \in DOMAIN s : k \in DOMAIN st /\ st[k] = s[k]
  BY <1>1
<1>3. \A k \in DOMAIN t : k + Len(s) \in DOMAIN st /\ st[k + Len(s)] = t[k]
  BY <1>1
<1>4. \A k \in DOMAIN st : \/ k \in DOMAIN s /\ st[k] = s[k]
                           \/ k - Len(s) \in DOMAIN t /\ st[k] = t[k - Len(s)]
  BY <1>1
<1>5. Range(st) = Range(s) \cup Range(t)
  BY <1>2, <1>3, <1>4 DEF Range
<1> QED BY <1>5 DEF st

LEMMA Joined ==
  ASSUME NEW T, NEW s \in Seq(T), NEW t \in Seq(T), NEW d, NEW done,
         Follows(d, done, s), Follows(d, done \cup Range(s), t)
  PROVE  /\ s \o t \in Seq(T)
         /\ Range(s \o t) = Range(s) \cup Range(t)
         /\ Follows(d, done, s \o t)
<1> DEFINE st == s \o t
<1>1. /\ st \in Seq(T) /\ Len(st) = Len(s) + Len(t) /\ Len(s) \in Nat /\ Len(t) \in Nat
      /\ \A k \in 1..Len(st) : st[k] = IF k <= Len(s) THEN s[k] ELSE t[k - Len(s)]
      /\ DOMAIN s = 1..Len(s) /\ DOMAIN t = 1..Len(t) /\ DOMAIN st = 1..Len(st)
  OBVIOUS
<1> HIDE DEF st
<1>2. Range(st) = Range(s) \cup Range(t)
  BY JoinedRange DEF st
<1>3. ASSUME NEW k \in DOMAIN st
      PROVE  Builds(d, done \cup Past(st, k), st[k])
  <2>1. CASE k <= Len(s)
    <3>1. k \in DOMAIN s /\ st[k] = s[k] /\ \A j \in 1..(k - 1) : st[j] = s[j]
      BY <1>1, <1>3, <2>1
    <3>2. Past(st, k) = Past(s, k)
      BY <3>1 DEF Past
    <3> QED BY <3>1, <3>2 DEF Follows
  <2>2. CASE k > Len(s)
    <3>1. k - Len(s) \in DOMAIN t /\ st[k] = t[k - Len(s)]
      BY <1>1, <1>3, <2>2
    <3>2. Range(s) \subseteq Past(st, k)
      <4>1. \A j \in DOMAIN s : j \in 1..(k - 1) /\ st[j] = s[j]
        BY <1>1, <1>3, <2>2
      <4> QED BY <4>1 DEF Past, Range
    <3>3. Past(t, k - Len(s)) \subseteq Past(st, k)
      <4>1. ASSUME NEW j \in 1..(k - Len(s) - 1)
            PROVE  j + Len(s) \in 1..(k - 1) /\ st[j + Len(s)] = t[j]
        <5>1. k \in Nat /\ k <= Len(s) + Len(t) /\ j \in Nat
          BY <1>1, <1>3
        <5>2. /\ j + Len(s) \in 1..(k - 1) /\ j + Len(s) \in 1..Len(st)
              /\ ~ (j + Len(s) <= Len(s)) /\ (j + Len(s)) - Len(s) = j
          BY <1>1, <4>1, <5>1
        <5>3. st[j + Len(s)] = t[(j + Len(s)) - Len(s)]
          BY <1>1, <5>2
        <5> QED BY <5>2, <5>3
      <4> QED BY <4>1 DEF Past
    <3>4. Builds(d, (done \cup Range(s)) \cup Past(t, k - Len(s)), t[k - Len(s)])
      BY <3>1 DEF Follows
    <3>5. (done \cup Range(s)) \cup Past(t, k - Len(s)) \subseteq done \cup Past(st, k)
      BY <3>2, <3>3
    <3>6. \A A, B : A \subseteq B => Brings(A) \subseteq Brings(B)
      BY DEF Brings
    <3> QED BY <3>1, <3>4, <3>5, <3>6 DEF Builds
  <2> QED BY <1>1, <1>3, <2>1, <2>2
<1> QED BY <1>1, <1>2, <1>3 DEF Follows, st

LEMMA EachIs ==
  ASSUME NEW do, NEW rows, NEW n \in Nat, DOMAIN rows = 1..n
  PROVE  /\ Each(do, rows) \in Seq(Do(do, Range(rows)))
         /\ Range(Each(do, rows)) = Do(do, Range(rows))
<1>1. \A x \in Range(rows) : [do |-> do, row |-> x] \in Do(do, Range(rows))
  BY DEF Do
<1>2. Each(do, rows) = [i \in 1..n |-> [do |-> do, row |-> rows[i]]]
  BY DEF Each
<1>3. \A i \in 1..n : [do |-> do, row |-> rows[i]] \in Do(do, Range(rows))
  BY <1>1 DEF Range
<1>4. Each(do, rows) \in Seq(Do(do, Range(rows)))
  BY <1>2, <1>3
<1>5. Range(Each(do, rows)) = Do(do, Range(rows))
  BY <1>2 DEF Range, Do
<1> QED BY <1>4, <1>5

\* A segment of one kind of statements, all of which build on what is done.
LEMMA EachFollows ==
  ASSUME NEW d, NEW done, NEW do, NEW rows, NEW n \in Nat, DOMAIN rows = 1..n,
         \A x \in Range(rows) : Builds(d, done, [do |-> do, row |-> x])
  PROVE  Follows(d, done, Each(do, rows))
<1> DEFINE s == Each(do, rows)
<1> SUFFICES ASSUME NEW k \in DOMAIN s PROVE Builds(d, done \cup Past(s, k), s[k])
  BY DEF Follows
<1>1. k \in 1..n /\ s[k] = [do |-> do, row |-> rows[k]] /\ rows[k] \in Range(rows)
  BY DEF Each, Range
<1>2. Builds(d, done, s[k])
  BY <1>1
<1>3. Brings(done) \subseteq Brings(done \cup Past(s, k))
  BY DEF Brings
<1> QED BY <1>2, <1>3 DEF Builds

\* The pairs: a row is inserted, then refreshed, and needs what comes before it.
LEMMA PairsFollow ==
  ASSUME NEW d, NEW done, NEW rows, NEW n \in Nat, n = Len(rows), DOMAIN rows = 1..n,
         \A i \in DOMAIN rows : rows[i].needs \subseteq Brings(done) \cup {rows[j].key : j \in 1..(i - 1)}
  PROVE  LET s == InsertThenRefresh(rows) IN
         /\ s \in Seq(Do("insert", Range(rows)) \cup Do("refresh", Range(rows)))
         /\ Range(s) = Do("insert", Range(rows)) \cup Do("refresh", Range(rows))
         /\ Follows(d, done, s)
<1> DEFINE s == InsertThenRefresh(rows)
           T == Do("insert", Range(rows)) \cup Do("refresh", Range(rows))
           at(i) == [do |-> IF i % 2 = 1 THEN "insert" ELSE "refresh", row |-> rows[(i + 1) \div 2]]
<1>1. 2 * n \in Nat /\ s = [i \in 1..(2 * n) |-> at(i)]
  BY DEF InsertThenRefresh
<1>2. ASSUME NEW i \in 1..(2 * n)
      PROVE  /\ (i + 1) \div 2 \in 1..n
             /\ at(i) \in T
  <2>1. (i + 1) \div 2 \in 1..n
    OBVIOUS
  <2>2. rows[(i + 1) \div 2] \in Range(rows)
    BY <2>1 DEF Range
  <2> QED BY <2>1, <2>2 DEF Do
<1>3. \A m \in 1..n : /\ 2 * m - 1 \in 1..(2 * n) /\ 2 * m \in 1..(2 * n)
                      /\ at(2 * m - 1) = [do |-> "insert", row |-> rows[m]]
                      /\ at(2 * m) = [do |-> "refresh", row |-> rows[m]]
  <2> SUFFICES ASSUME NEW m \in 1..n
               PROVE  /\ 2 * m - 1 \in 1..(2 * n) /\ 2 * m \in 1..(2 * n)
                      /\ at(2 * m - 1) = [do |-> "insert", row |-> rows[m]]
                      /\ at(2 * m) = [do |-> "refresh", row |-> rows[m]]
    OBVIOUS
  <2>1. /\ (2 * m - 1) % 2 = 1 /\ (2 * m - 1 + 1) \div 2 = m
        /\ (2 * m) % 2 = 0 /\ (2 * m + 1) \div 2 = m
    OBVIOUS
  <2> QED BY <2>1
<1> HIDE DEF at
<1>4. s \in Seq(T)
  BY <1>1, <1>2
<1>5. Range(s) = T
  <2>1. \A x \in Range(rows) : \E m \in 1..n : x = rows[m]
    BY DEF Range
  <2>2. \A i \in 1..(2 * n) : s[i] = at(i) /\ i \in DOMAIN s
    BY <1>1
  <2>3. ASSUME NEW x \in Range(rows)
        PROVE  [do |-> "insert", row |-> x] \in Range(s) /\ [do |-> "refresh", row |-> x] \in Range(s)
    <3>1. PICK m \in 1..n : x = rows[m]
      BY <2>1
    <3>2. /\ s[2 * m - 1] = [do |-> "insert", row |-> x] /\ 2 * m - 1 \in DOMAIN s
          /\ s[2 * m] = [do |-> "refresh", row |-> x] /\ 2 * m \in DOMAIN s
      BY <1>3, <2>2, <3>1
    <3> HIDE DEF s
    <3> QED BY <3>2 DEF Range
  <2>4. Range(s) \subseteq T
    BY <1>1, <1>2, <2>2 DEF Range
  <2>5. T \subseteq Range(s)
    BY <2>3 DEF Do
  <2> QED BY <2>4, <2>5
<1>6. ASSUME NEW k \in DOMAIN s
      PROVE  Builds(d, done \cup Past(s, k), s[k])
  <2> DEFINE m == (k + 1) \div 2
             past == done \cup Past(s, k)
  <2>1. k \in 1..(2 * n) /\ m \in 1..n /\ (k = 2 * m - 1 \/ k = 2 * m)
    <3>1. k \in 1..(2 * n) /\ k \in Int
      BY <1>1
    <3>2. m \in 1..n
      BY <1>2, <3>1
    <3>3. \A i \in Int : i = 2 * ((i + 1) \div 2) - 1 \/ i = 2 * ((i + 1) \div 2)
      OBVIOUS
    <3> QED BY <3>1, <3>2, <3>3
  <2>2. \A j \in 1..(k - 1) : s[j] = at(j) /\ s[j] \in past
    BY <1>1, <2>1 DEF Past
  <2>3. \A j \in 1..(m - 1) : rows[j].key \in Brings(past)
    <3> SUFFICES ASSUME NEW j \in 1..(m - 1) PROVE rows[j].key \in Brings(past)
      OBVIOUS
    <3>1. 2 * j - 1 \in 1..(k - 1) /\ j \in 1..n
      BY <2>1
    <3>2. [do |-> "insert", row |-> rows[j]] \in past
      BY <1>3, <2>2, <3>1
    <3> HIDE DEF past
    <3> QED BY <3>2 DEF Brings
  <2>4. CASE k = 2 * m - 1
    <3>0. at(2 * m - 1) = [do |-> "insert", row |-> rows[m]]
      BY <1>3, <2>1
    <3>1. s[k] = [do |-> "insert", row |-> rows[m]]
      BY <1>1, <2>1, <2>4, <3>0
    <3>2. rows[m].needs \subseteq Brings(done) \cup {rows[j].key : j \in 1..(m - 1)}
      BY <2>1
    <3>3. Brings(done) \subseteq Brings(past)
      BY DEF Brings
    <3> HIDE DEF past, m
    <3>4. \A key \in rows[m].needs : key \in Brings(past)
      BY <2>3, <3>2, <3>3
    <3>5. Refers(s[k]) = rows[m].needs /\ s[k].do # "title"
      BY <3>1 DEF Refers
    <3>6. Builds(d, past, s[k])
      BY <3>4, <3>5 DEF Builds
    <3> QED BY <3>6 DEF past
  <2>5. CASE k = 2 * m
    <3>0. at(2 * m) = [do |-> "refresh", row |-> rows[m]]
          /\ at(2 * m - 1) = [do |-> "insert", row |-> rows[m]]
      BY <1>3, <2>1
    <3>1. s[k] = [do |-> "refresh", row |-> rows[m]]
      BY <1>1, <2>1, <2>5, <3>0
    <3>2. [do |-> "insert", row |-> rows[m]] \in past
      <4>1. 2 * m - 1 \in 1..(k - 1)
        BY <2>1, <2>5
      <4> HIDE DEF m, past
      <4> QED BY <2>2, <3>0, <4>1
    <3> HIDE DEF past, m
    <3>3. rows[m].key \in Brings(past)
      BY <3>2 DEF Brings
    <3> QED BY <3>1, <3>3 DEF Builds, Refers, past
  <2> QED BY <2>1, <2>4, <2>5
<1> QED BY <1>4, <1>5, <1>6 DEF Follows

(**************************** the whole sequence ***************************)

LEMMA InBrings ==
  ASSUME NEW A, NEW x, [do |-> "insert", row |-> x] \in A
  PROVE  x.key \in Brings(A)
<1> DEFINE s == [do |-> "insert", row |-> x]
<1>1. s.do = "insert" /\ s.row = x /\ s \in A
  OBVIOUS
<1> HIDE DEF s
<1> QED BY <1>1 DEF Brings

LEMMA BringsMore == \A A, B : A \subseteq B => Brings(A) \subseteq Brings(B)
BY DEF Brings

\* A run executes each statement of its release, and none before what it builds on.
LEMMA RunIsAll ==
  ASSUME NEW n \in Releases
  PROVE  /\ Range(Runs[n]) = StatementsOf(Data[n])
         /\ Follows(Data[n], {}, Runs[n])
<1> DEFINE d  == Data[n]
           b  == Base(d)
           T  == StatementsOf(d)
           s1 == Each("insert", d.banks)
           s2 == InsertThenRefresh(b)
           s3 == Each("alias", d.aliases)
           s4 == Each("retire alias", d.retiredAliases)
           s5 == Each("retire title", d.retiredTitles)
           s6 == Each("title", d.titles)
           s7 == Each("refresh", d.colors)
           s8 == Each("dictionary", <<d.codes>>)
           R1 == Do("insert", Range(d.banks))
           R2 == Do("insert", Range(b)) \cup Do("refresh", Range(b))
           R3 == Do("alias", Range(d.aliases))
           R4 == Do("retire alias", Range(d.retiredAliases))
           R5 == Do("retire title", Range(d.retiredTitles))
           R6 == Do("title", Range(d.titles))
           R7 == Do("refresh", Range(d.colors))
           R8 == Do("dictionary", {d.codes})
<1>1. /\ d.banks \in Seq(Range(d.banks)) /\ d.programs \in Seq(Range(d.programs))
      /\ d.canonicals \in Seq(Range(d.canonicals)) /\ d.colors \in Seq(Range(d.colors))
      /\ d.titles \in Seq(SeedTitleRow) /\ d.retiredTitles \in Seq(Retired)
      /\ d.aliases \in Seq(SeedAliasRow) /\ d.retiredAliases \in Seq(SeedAliasRow)
      /\ <<d.codes>> \in Seq({d.codes}) /\ Range(<<d.codes>>) = {d.codes}
  <2>1. /\ d.banks \in Seq(Range(d.banks)) /\ d.programs \in Seq(Range(d.programs))
        /\ d.canonicals \in Seq(Range(d.canonicals)) /\ d.colors \in Seq(Range(d.colors))
        /\ d.titles \in Seq(SeedTitleRow) /\ d.retiredTitles \in Seq(Retired)
        /\ d.aliases \in Seq(SeedAliasRow) /\ d.retiredAliases \in Seq(SeedAliasRow)
    BY ReleaseAssumption DEF Listed, SeedTitleRow, Retired, SeedAliasRow
  <2>2. <<d.codes>> \in Seq({d.codes}) /\ Range(<<d.codes>>) = {d.codes}
    BY DEF Range
  <2> QED BY <2>1, <2>2
<1>2. /\ b \in Seq(Range(d.programs) \cup Range(d.canonicals))
      /\ Range(b) = Range(d.programs) \cup Range(d.canonicals)
  <2> DEFINE p == d.programs
             c == d.canonicals
  <2>1. p \in Seq(Range(p)) /\ c \in Seq(Range(c)) /\ b = p \o c
    BY <1>1 DEF Base
  <2> HIDE DEF p, c, b
  <2>2. Range(b) = Range(p) \cup Range(c)
    BY <2>1, JoinedRange
  <2>3. b \in Seq(Range(p) \cup Range(c))
    BY <2>1
  <2> QED BY <2>2, <2>3 DEF p, c
<1>3. Consistent(d)
  BY SeedDataAssumption
<1> HIDE DEF d
<1>4. \A S : \A q \in Seq(S) : Len(q) \in Nat /\ DOMAIN q = 1..Len(q)
  OBVIOUS
\* banks need nothing
<1>5. s1 \in Seq(R1) /\ Range(s1) = R1 /\ Follows(d, {}, s1)
  <2>1. \A x \in Range(d.banks) : Builds(d, {}, [do |-> "insert", row |-> x])
    BY <1>3 DEF Consistent, Builds, Refers
  <2> QED BY <1>1, <1>4, <2>1, EachIs, EachFollows
<1>6. Brings(R1) = {x.key : x \in Range(d.banks)}
  <2>1. \A x \in Range(d.banks) : x.key \in Brings(R1)
    <3> SUFFICES ASSUME NEW x \in Range(d.banks) PROVE x.key \in Brings(R1)
      OBVIOUS
    <3>1. [do |-> "insert", row |-> x] \in R1
      BY DEF Do
    <3> HIDE DEF R1
    <3> QED BY <3>1, InBrings
  <2>2. \A k \in Brings(R1) : \E x \in Range(d.banks) : k = x.key
    BY DEF Brings, Do
  <2> HIDE DEF R1
  <2> QED BY <2>1, <2>2
<1>7. s2 \in Seq(R2) /\ Range(s2) = R2 /\ Follows(d, R1, s2)
  <2>1. \A i \in DOMAIN b : b[i].needs \subseteq Brings(R1) \cup {b[j].key : j \in 1..(i - 1)}
    BY <1>3, <1>6 DEF Consistent, Base
  <2> HIDE DEF b, s2, R1, R2
  <2> QED BY <1>2, <1>4, <2>1, PairsFollow DEF s2, R2
<1>8. /\ \A x \in Range(d.banks) : x.key \in Brings(R1 \cup R2)
      /\ \A x \in Range(d.canonicals) : x.key \in Brings(R1 \cup R2)
  <2>1. /\ \A x \in Range(d.banks) : [do |-> "insert", row |-> x] \in R1
        /\ \A x \in Range(d.canonicals) : [do |-> "insert", row |-> x] \in R2
    BY <1>2 DEF Do
  <2> HIDE DEF R1, R2
  <2> QED BY <2>1, InBrings
<1>9. \A A : R1 \cup R2 \subseteq A =>
        /\ \A x \in Range(d.aliases) : Builds(d, A, [do |-> "alias", row |-> x])
        /\ \A x \in Range(d.colors) : Builds(d, A, [do |-> "refresh", row |-> x])
        /\ \A x : /\ Builds(d, A, [do |-> "retire alias", row |-> x])
                  /\ Builds(d, A, [do |-> "retire title", row |-> x])
                  /\ Builds(d, A, [do |-> "dictionary", row |-> x])
        /\ R5 \subseteq A =>
             \A x \in Range(d.titles) : Builds(d, A, [do |-> "title", row |-> x])
  <2> SUFFICES ASSUME NEW A, R1 \cup R2 \subseteq A
               PROVE  /\ \A x \in Range(d.aliases) : Builds(d, A, [do |-> "alias", row |-> x])
                      /\ \A x \in Range(d.colors) : Builds(d, A, [do |-> "refresh", row |-> x])
                      /\ \A x : /\ Builds(d, A, [do |-> "retire alias", row |-> x])
                                /\ Builds(d, A, [do |-> "retire title", row |-> x])
                                /\ Builds(d, A, [do |-> "dictionary", row |-> x])
                      /\ R5 \subseteq A =>
                           \A x \in Range(d.titles) : Builds(d, A, [do |-> "title", row |-> x])
    OBVIOUS
  <2>1. /\ \A x \in Range(d.banks) : x.key \in Brings(A)
        /\ \A x \in Range(d.canonicals) : x.key \in Brings(A)
    BY <1>8, BringsMore
  <2> HIDE DEF R1, R2, R5
  <2>2. \A x \in Range(d.aliases) : Builds(d, A, [do |-> "alias", row |-> x])
    BY <1>3, <2>1 DEF Consistent, Builds, Refers
  <2>3. \A x \in Range(d.colors) : Builds(d, A, [do |-> "refresh", row |-> x])
    BY <1>3, <2>1 DEF Consistent, Builds, Refers
  <2>4. \A x : /\ Builds(d, A, [do |-> "retire alias", row |-> x])
               /\ Builds(d, A, [do |-> "retire title", row |-> x])
               /\ Builds(d, A, [do |-> "dictionary", row |-> x])
    BY DEF Builds, Refers
  <2>5. R5 \subseteq A => \A x \in Range(d.titles) : Builds(d, A, [do |-> "title", row |-> x])
    <3> SUFFICES ASSUME R5 \subseteq A, NEW x \in Range(d.titles)
                 PROVE  Builds(d, A, [do |-> "title", row |-> x])
      OBVIOUS
    <3>1. {x.bank, x.slug} \ {None} \subseteq Brings(A)
      BY <1>3, <2>1 DEF Consistent
    <3> DEFINE st == [do |-> "title", row |-> x]
    <3>2. st.do = "title" /\ st.row = x
      OBVIOUS
    <3> HIDE DEF st
    <3>3. Refers(st) = {x.bank, x.slug} \ {None}
      BY <3>2 DEF Refers
    <3>4. Builds(d, A, st)
      BY <3>1, <3>3 DEF Builds, R5
    <3> QED BY <3>4 DEF st
  <2> QED BY <2>2, <2>3, <2>4, <2>5
<1> DEFINE D2 == R1 \cup R2
           D3 == D2 \cup R3
           D4 == D3 \cup R4
           D5 == D4 \cup R5
           D6 == D5 \cup R6
           D7 == D6 \cup R7
<1>10. /\ s3 \in Seq(R3) /\ Range(s3) = R3 /\ Follows(d, D2, s3)
       /\ s4 \in Seq(R4) /\ Range(s4) = R4 /\ Follows(d, D3, s4)
       /\ s5 \in Seq(R5) /\ Range(s5) = R5 /\ Follows(d, D4, s5)
  <2>1. D2 \subseteq D3 /\ D2 \subseteq D4
    OBVIOUS
  <2> HIDE DEF D2, D3, D4
  <2>2. /\ \A x \in Range(d.aliases) : Builds(d, D2, [do |-> "alias", row |-> x])
        /\ \A x : Builds(d, D3, [do |-> "retire alias", row |-> x])
        /\ \A x : Builds(d, D4, [do |-> "retire title", row |-> x])
    BY <1>9, <2>1 DEF D2
  <2> QED BY <1>1, <1>4, <2>2, EachIs, EachFollows
<1>11. /\ s6 \in Seq(R6) /\ Range(s6) = R6 /\ Follows(d, D5, s6)
       /\ s7 \in Seq(R7) /\ Range(s7) = R7 /\ Follows(d, D6, s7)
       /\ s8 \in Seq(R8) /\ Range(s8) = R8 /\ Follows(d, D7, s8)
  <2>1. D2 \subseteq D5 /\ D2 \subseteq D6 /\ D2 \subseteq D7 /\ R5 \subseteq D5
    OBVIOUS
  <2> HIDE DEF D2, D5, D6, D7
  <2>2. /\ \A x \in Range(d.titles) : Builds(d, D5, [do |-> "title", row |-> x])
        /\ \A x \in Range(d.colors) : Builds(d, D6, [do |-> "refresh", row |-> x])
        /\ \A x : Builds(d, D7, [do |-> "dictionary", row |-> x])
    BY <1>9, <2>1 DEF D2
  <2> QED BY <1>1, <1>4, <2>2, EachIs, EachFollows
<1>12. R1 \subseteq T /\ R2 \subseteq T /\ R3 \subseteq T /\ R4 \subseteq T /\ R5 \subseteq T
       /\ R6 \subseteq T /\ R7 \subseteq T /\ R8 \subseteq T
       /\ T = D7 \cup R8
  BY DEF StatementsOf
<1> HIDE DEF s1, s2, s3, s4, s5, s6, s7, s8, R1, R2, R3, R4, R5, R6, R7, R8, T
<1>13. \A S : S \subseteq T => \A q \in Seq(S) : q \in Seq(T)
  OBVIOUS
<1>14. /\ s1 \in Seq(T) /\ s2 \in Seq(T) /\ s3 \in Seq(T) /\ s4 \in Seq(T)
       /\ s5 \in Seq(T) /\ s6 \in Seq(T) /\ s7 \in Seq(T) /\ s8 \in Seq(T)
  BY <1>5, <1>7, <1>10, <1>11, <1>12, <1>13
<1>15. s1 \o s2 \in Seq(T) /\ Range(s1 \o s2) = D2 /\ Follows(d, {}, s1 \o s2)
  <2>1. Follows(d, {} \cup Range(s1), s2)
    BY <1>5, <1>7
  <2>2. Range(s1) \cup Range(s2) = D2
    BY <1>5, <1>7
  <2> HIDE DEF D2
  <2>3. s1 \o s2 \in Seq(T) /\ Range(s1 \o s2) = Range(s1) \cup Range(s2) /\ Follows(d, {}, s1 \o s2)
    BY <1>5, <1>14, <2>1, Joined
  <2> QED BY <2>2, <2>3
<1> DEFINE t2 == s1 \o s2
           t3 == t2 \o s3
           t4 == t3 \o s4
           t5 == t4 \o s5
           t6 == t5 \o s6
           t7 == t6 \o s7
           t8 == t7 \o s8
<1>16. ASSUME NEW t \in Seq(T), NEW s \in Seq(T), NEW D, Range(t) = D, Follows(d, {}, t),
              Follows(d, D, s)
       PROVE  t \o s \in Seq(T) /\ Range(t \o s) = D \cup Range(s) /\ Follows(d, {}, t \o s)
  <2>1. Follows(d, {} \cup Range(t), s)
    BY <1>16
  <2> QED BY <1>16, <2>1, Joined
<1>17. Runs[n] = t8
  BY DEF Runs, Run, d, s1, s2, s3, s4, s5, s6, s7, s8, Base
<1> HIDE DEF t2, D2
<1>18. t2 \in Seq(T) /\ Range(t2) = D2 /\ Follows(d, {}, t2)
  BY <1>15 DEF t2
<1>19. t3 \in Seq(T) /\ Range(t3) = D3 /\ Follows(d, {}, t3)
  BY <1>10, <1>14, <1>16, <1>18
<1> HIDE DEF t3, D3
<1>20. t4 \in Seq(T) /\ Range(t4) = D4 /\ Follows(d, {}, t4)
  BY <1>10, <1>14, <1>16, <1>19
<1> HIDE DEF t4, D4
<1>21. t5 \in Seq(T) /\ Range(t5) = D5 /\ Follows(d, {}, t5)
  BY <1>10, <1>14, <1>16, <1>20
<1> HIDE DEF t5, D5
<1>22. t6 \in Seq(T) /\ Range(t6) = D6 /\ Follows(d, {}, t6)
  BY <1>11, <1>14, <1>16, <1>21
<1> HIDE DEF t6, D6
<1>23. t7 \in Seq(T) /\ Range(t7) = D7 /\ Follows(d, {}, t7)
  BY <1>11, <1>14, <1>16, <1>22
<1> HIDE DEF t7, D7
<1>24. t8 \in Seq(T) /\ Range(t8) = D7 \cup R8 /\ Follows(d, {}, t8)
  BY <1>11, <1>14, <1>16, <1>23
<1> QED BY <1>12, <1>17, <1>24 DEF d, T

(************************ what has been done stays *************************)

\* rows the seed owns, and mappings all accounts share
Managed == {c \in categories : c.by = None /\ ~ c.custom}
Shared  == {a \in aliases : a.by = None}

\* What a statement has brought about.
Held(s) ==
  /\ s.do \in {"insert", "refresh"} => s.row.key \in DOMAIN facts
  /\ s.do = "refresh" => facts[s.row.key] = s.row.value
  /\ s.do = "alias" => \E b \in AliasRow(s.row.bank, s.row.title, None) : b.slug = s.row.slug
  /\ s.do = "retire alias" => AliasRow(s.row.bank, s.row.title, None) = {}
  /\ s.do = "retire title" => SeedManaged(s.row.bank, s.row.title) = {}
  /\ s.do = "title" =>
       \/ Squatted(s.row)
       \/ \E c \in SeedManaged(s.row.bank, s.row.title) : c.slug = s.row.slug /\ c.kind = s.row.kind
  /\ s.do = "dictionary" =>
       \A code \in DOMAIN s.row :
         (\A n \in 1..deployed : code \in DOMAIN Data[n].codes)
           => code \in DOMAIN codes /\ codes[code] = s.row[code]

LEMMA ManagedRows ==
  \A bank, title : SeedManaged(bank, title) = {c \in Managed : SameTitle(c, [bank |-> bank, title |-> title])}
BY DEF SeedManaged, Row, Managed, SameTitle

LEMMA SharedRows ==
  \A bank, title : AliasRow(bank, title, None) = {a \in Shared : SameTitle(a, [bank |-> bank, title |-> title])}
BY DEF AliasRow, Shared, SameTitle

\* Who leaves the seed's rows alone, and what all releases tell of codes, undoes nothing.
LEMMA LeftAlone ==
  ASSUME NEW s, Held(s), UNCHANGED <<facts, Managed, Shared, deployed>>,
         \A code : (\A n \in 1..deployed : code \in DOMAIN Data[n].codes) /\ code \in DOMAIN codes
                     => code \in DOMAIN codes' /\ codes'[code] = codes[code]
  PROVE  Held(s)'
<1>1. \A bank, title : /\ SeedManaged(bank, title)' = SeedManaged(bank, title)
                       /\ AliasRow(bank, title, None)' = AliasRow(bank, title, None)
  <2>1. \A bank, title : SeedManaged(bank, title)' = {c \in Managed' : SameTitle(c, [bank |-> bank, title |-> title])}
    BY DEF SeedManaged, Row, Managed, SameTitle
  <2>2. \A bank, title : AliasRow(bank, title, None)' = {a \in Shared' : SameTitle(a, [bank |-> bank, title |-> title])}
    BY DEF AliasRow, Shared, SameTitle
  <2> QED BY <2>1, <2>2, ManagedRows, SharedRows
<1>2. s.do = "dictionary" =>
        \A code \in DOMAIN s.row :
         (\A n \in 1..deployed' : code \in DOMAIN Data[n].codes)
           => code \in DOMAIN codes' /\ codes'[code] = s.row[code]
  BY DEF Held
<1>3. /\ s.do = "alias" => \E b \in AliasRow(s.row.bank, s.row.title, None)' : b.slug = s.row.slug
      /\ s.do = "retire alias" => AliasRow(s.row.bank, s.row.title, None)' = {}
      /\ s.do = "retire title" => SeedManaged(s.row.bank, s.row.title)' = {}
      /\ s.do = "title" =>
       \/ Squatted(s.row)
       \/ \E c \in SeedManaged(s.row.bank, s.row.title)' : c.slug = s.row.slug /\ c.kind = s.row.kind
  BY <1>1 DEF Held
<1>4. /\ s.do \in {"insert", "refresh"} => s.row.key \in DOMAIN facts'
      /\ s.do = "refresh" => facts'[s.row.key] = s.row.value
  BY DEF Held
<1> QED BY <1>2, <1>3, <1>4 DEF Held

(************************ the statements of a release **********************)

\* rows without an owner that are not the seed's have a title from before private
\* catalogs, or one the operator gave them
Strangers ==
  \A c \in categories : c.by = None /\ c.custom =>
    \/ \E o \in Orphans : o.bank = c.bank /\ o.title = c.title
    \/ \E e \in Edits : c.title = e.title

\* a row of the seed's has a title of a release
Titled ==
  \A c \in Managed : \E m \in 1..deployed : \E u \in Range(Data[m].titles) : SameTitle(u, c)

Old == CategoriesOK /\ AliasesOK /\ Strangers

LEMMA InDo ==
  ASSUME NEW do, NEW rows, NEW s \in Do(do, rows)
  PROVE  s.do = do /\ s.row \in rows
BY DEF Do

\* A statement is of one kind, and its row is listed by the release.
LEMMA OneKind ==
  ASSUME NEW d, NEW s \in StatementsOf(d)
  PROVE  /\ s.do \in {"insert", "refresh", "alias", "retire alias", "retire title", "title", "dictionary"}
         /\ s.do = "insert" => s.row \in Range(d.banks) \cup Range(Base(d))
         /\ s.do = "refresh" => s.row \in Range(Base(d)) \cup Range(d.colors)
         /\ s.do = "alias" => s.row \in Range(d.aliases)
         /\ s.do = "retire alias" => s.row \in Range(d.retiredAliases)
         /\ s.do = "retire title" => s.row \in Range(d.retiredTitles)
         /\ s.do = "title" => s.row \in Range(d.titles)
         /\ s.do = "dictionary" => s.row = d.codes
<1>1. CASE s \in Do("insert", Range(d.banks)) \/ s \in Do("insert", Range(Base(d)))
  <2>1. s.do = "insert" /\ s.row \in Range(d.banks) \cup Range(Base(d))
    BY <1>1, InDo
  <2> QED BY <2>1
<1>2. CASE s \in Do("refresh", Range(Base(d))) \/ s \in Do("refresh", Range(d.colors))
  <2>1. s.do = "refresh" /\ s.row \in Range(Base(d)) \cup Range(d.colors)
    BY <1>2, InDo
  <2> QED BY <2>1
<1>3. CASE s \in Do("alias", Range(d.aliases))
  <2>1. s.do = "alias" /\ s.row \in Range(d.aliases)
    BY <1>3, InDo
  <2> QED BY <2>1
<1>4. CASE s \in Do("retire alias", Range(d.retiredAliases))
  <2>1. s.do = "retire alias" /\ s.row \in Range(d.retiredAliases)
    BY <1>4, InDo
  <2> QED BY <2>1
<1>5. CASE s \in Do("retire title", Range(d.retiredTitles))
  <2>1. s.do = "retire title" /\ s.row \in Range(d.retiredTitles)
    BY <1>5, InDo
  <2> QED BY <2>1
<1>6. CASE s \in Do("title", Range(d.titles))
  <2>1. s.do = "title" /\ s.row \in Range(d.titles)
    BY <1>6, InDo
  <2> QED BY <2>1
<1>7. CASE s \in Do("dictionary", {d.codes})
  <2>1. s.do = "dictionary" /\ s.row = d.codes
    BY <1>7, InDo
  <2> QED BY <2>1
<1> QED BY <1>1, <1>2, <1>3, <1>4, <1>5, <1>6, <1>7 DEF StatementsOf

\* What its statements build on is there: then each brings about what it says.
LEMMA Does ==
  ASSUME Old, NEW n \in Releases, n = deployed, deployed' = deployed,
         NEW s \in StatementsOf(Data[n]),
         NEW done, \A x \in done : Held(x), Builds(Data[n], done, s), Execute(s)
  PROVE  Held(s)'
<1> DEFINE d == Data[n]
<1>1. \A key \in Brings(done) : key \in DOMAIN facts
  BY DEF Brings, Held
<1>2. CASE s.do = "insert"
  <2>1. Insert(s.row) /\ Known(s.row.needs)
    BY <1>1, <1>2 DEF Execute, Builds, Refers, Known
  <2>2. s.row.key \in DOMAIN facts'
    BY <2>1 DEF Insert, Over
  <2> QED BY <1>2, <2>2 DEF Held
<1>3. CASE s.do = "refresh"
  <2>1. Refresh(s.row) /\ s.row.key \in DOMAIN facts
    BY <1>1, <1>3 DEF Execute, Builds, Refers
  <2>2. s.row.key \in DOMAIN facts' /\ facts'[s.row.key] = s.row.value
    BY <2>1 DEF Refresh
  <2> QED BY <1>3, <2>2 DEF Held
<1>4. CASE s.do = "alias"
  <2>1. SeedAlias(s.row) /\ Known({s.row.bank, s.row.slug})
    BY <1>1, <1>4 DEF Execute, Builds, Refers, Known
  <2> DEFINE b == [bank |-> s.row.bank, title |-> s.row.title, by |-> None, slug |-> s.row.slug]
  <2>2. b \in aliases'
    BY <2>1 DEF SeedAlias, Upsert
  <2>3. b.bank = s.row.bank /\ b.title = s.row.title /\ b.by = None /\ b.slug = s.row.slug
    OBVIOUS
  <2> HIDE DEF b
  <2>4. \E x \in AliasRow(s.row.bank, s.row.title, None)' : x.slug = s.row.slug
    BY <2>2, <2>3 DEF AliasRow
  <2> QED BY <1>4, <2>4 DEF Held
<1>5. CASE s.do = "retire alias"
  <2>1. aliases' = aliases \ AliasRow(s.row.bank, s.row.title, None)
    BY <1>5 DEF Execute, RetireAlias
  <2>2. AliasRow(s.row.bank, s.row.title, None)' = {}
    BY <2>1 DEF AliasRow
  <2> QED BY <1>5, <2>2 DEF Held
<1>6. CASE s.do = "retire title"
  <2>1. categories' = categories \ {c \in Row(s.row.bank, s.row.title, None) : ~ c.custom}
    BY <1>6 DEF Execute, RetireTitle, Drop
  <2>2. SeedManaged(s.row.bank, s.row.title)' = {}
    BY <2>1 DEF SeedManaged, Row
  <2> QED BY <1>6, <2>2 DEF Held
<1>7. CASE s.do = "title"
  <2> DEFINE t == s.row
             old == Row(t.bank, t.title, None)
  <2>1. SeedTitle(t) /\ {t.bank, t.slug} \ {None} \subseteq DOMAIN facts
    BY <1>1, <1>7 DEF Execute, Builds, Refers
  <2>2. t \in Range(d.titles) /\ t \in SeedTitleRow
    <3>1. t \in Range(d.titles)
      BY <1>7, OneKind
    <3>2. d.titles \in Seq(SeedTitleRow)
      BY ReleaseAssumption DEF SeedTitleRow
    <3>3. \A i \in DOMAIN d.titles : d.titles[i] \in SeedTitleRow
      BY <3>2
    <3> QED BY <3>1, <3>3 DEF Range
  <2>3. None \notin Banks /\ t.bank \in Banks
    BY <2>2, CatalogueAssumption DEF SeedTitleRow
  <2>4. Known({t.bank}) /\ (IF t.slug \in DOMAIN facts THEN t.slug ELSE None) = t.slug
    BY <2>1, <2>3 DEF Known
  <2>5. CASE old = {}
    <3> DEFINE new == Save(nextId, t.bank, t.title, None, t.slug, t.kind, t.active)
    <3>1. new \in categories'
      BY <2>1, <2>4, <2>5 DEF SeedTitle
    <3>2. /\ new.bank = t.bank /\ new.title = t.title /\ new.by = None /\ ~ new.custom
          /\ new.slug = t.slug /\ new.kind = t.kind
      BY DEF Save
    <3> HIDE DEF new
    <3>3. \E c \in SeedManaged(t.bank, t.title)' : c.slug = t.slug /\ c.kind = t.kind
      BY <3>1, <3>2 DEF SeedManaged, Row
    <3> QED BY <1>7, <3>3 DEF Held
  <2>6. CASE old # {}
    <3>1. PICK c \in old : TRUE
      BY <2>6
    <3>2. c \in categories /\ c.bank = t.bank /\ c.title = t.title /\ c.by = None
      BY DEF Row
    <3>3. CASE c.custom
      <4>1. Squatted(t)
        BY <3>2, <3>3 DEF Old, Strangers, Squatted
      <4> QED BY <1>7, <4>1 DEF Held
    <3>4. CASE ~ c.custom
      <4> DEFINE now == [c EXCEPT !.slug = t.slug, !.kind = t.kind]
      <4>1. now \in categories'
        <5>1. categories' = (categories \ old)
                   \cup {IF x.custom THEN x ELSE [x EXCEPT !.slug = t.slug, !.kind = t.kind] : x \in old}
          BY <2>1, <2>4, <2>6 DEF SeedTitle
        <5> QED BY <3>4, <5>1
      <4>2. /\ now.bank = t.bank /\ now.title = t.title /\ now.by = None /\ ~ now.custom
            /\ now.slug = t.slug /\ now.kind = t.kind
        BY <3>2, <3>4 DEF Old, CategoriesOK
      <4> HIDE DEF now
      <4>3. \E x \in SeedManaged(t.bank, t.title)' : x.slug = t.slug /\ x.kind = t.kind
        BY <4>1, <4>2 DEF SeedManaged, Row
      <4> QED BY <1>7, <4>3 DEF Held
    <3> QED BY <3>3, <3>4
  <2> QED BY <2>5, <2>6
<1>8. CASE s.do = "dictionary"
  <2>1. codes' = Over(s.row, codes)
    BY <1>8 DEF Execute, SeedMCC
  <2>2. \A code \in DOMAIN s.row : code \in DOMAIN codes' /\ codes'[code] = s.row[code]
    BY <2>1 DEF Over
  <2> QED BY <1>8, <2>2 DEF Held
<1> QED BY <1>2, <1>3, <1>4, <1>5, <1>6, <1>7, <1>8, OneKind

LEMMA SameRows ==
  ASSUME NEW bank, NEW title,
         \A c \in Managed \cup Managed' : SameTitle(c, [bank |-> bank, title |-> title]) =>
           (c \in Managed <=> c \in Managed')
  PROVE  SeedManaged(bank, title)' = SeedManaged(bank, title)
<1>1. /\ SeedManaged(bank, title) = {c \in Managed : SameTitle(c, [bank |-> bank, title |-> title])}
      /\ SeedManaged(bank, title)' = {c \in Managed' : SameTitle(c, [bank |-> bank, title |-> title])}
  BY DEF SeedManaged, Row, Managed, SameTitle
<1> QED BY <1>1

LEMMA SameMappings ==
  ASSUME NEW bank, NEW title,
         \A a \in Shared \cup Shared' : SameTitle(a, [bank |-> bank, title |-> title]) =>
           (a \in Shared <=> a \in Shared')
  PROVE  AliasRow(bank, title, None)' = AliasRow(bank, title, None)
<1>1. /\ AliasRow(bank, title, None) = {a \in Shared : SameTitle(a, [bank |-> bank, title |-> title])}
      /\ AliasRow(bank, title, None)' = {a \in Shared' : SameTitle(a, [bank |-> bank, title |-> title])}
  BY DEF AliasRow, Shared, SameTitle
<1> QED BY <1>1

\* One statement of a release undoes nothing that another has brought about.
LEMMA UndoesNothing ==
  ASSUME Old, NEW n \in Releases, n = deployed, deployed' = deployed,
         NEW s \in StatementsOf(Data[n]), NEW x \in StatementsOf(Data[n]),
         Held(x), Execute(s)
  PROVE  Held(x)'
<1> DEFINE d == Data[n]
<1>0. Consistent(d)
  BY SeedDataAssumption
<1>1. CASE s.do = "insert"
  <2>1. /\ \A k \in DOMAIN facts : k \in DOMAIN facts' /\ facts'[k] = facts[k]
        /\ UNCHANGED <<categories, aliases, codes>>
    BY <1>1 DEF Execute, Insert, Over
  <2>2. UNCHANGED <<Managed, Shared>>
    BY <2>1 DEF Managed, Shared
  <2>3. \A bank, title : /\ SeedManaged(bank, title)' = SeedManaged(bank, title)
                         /\ AliasRow(bank, title, None)' = AliasRow(bank, title, None)
    BY <2>2, SameRows, SameMappings
  <2> QED BY <2>1, <2>3 DEF Held
<1>2. CASE s.do = "refresh"
  <2>1. /\ facts' = [k \in DOMAIN facts |-> IF k = s.row.key THEN s.row.value ELSE facts[k]]
        /\ UNCHANGED <<categories, aliases, codes>>
    BY <1>2 DEF Execute, Refresh
  <2>2. UNCHANGED <<Managed, Shared>>
    BY <2>1 DEF Managed, Shared
  <2>3. \A bank, title : /\ SeedManaged(bank, title)' = SeedManaged(bank, title)
                         /\ AliasRow(bank, title, None)' = AliasRow(bank, title, None)
    BY <2>2, SameRows, SameMappings
  <2>4. x.do = "refresh" /\ x.row.key = s.row.key => x.row.value = s.row.value
    <3>1. \A f, g \in Range(Base(d)) \cup Range(d.colors) : f.key = g.key => f.value = g.value
      BY <1>0 DEF Consistent, Base
    <3>2. s.row \in Range(Base(d)) \cup Range(d.colors)
      BY <1>2, OneKind
    <3>3. x.do = "refresh" => x.row \in Range(Base(d)) \cup Range(d.colors)
      BY OneKind
    <3> QED BY <3>1, <3>2, <3>3
  <2>5. /\ x.do \in {"insert", "refresh"} => x.row.key \in DOMAIN facts'
        /\ x.do = "refresh" => facts'[x.row.key] = x.row.value
    BY <2>1, <2>4 DEF Held
  <2> QED BY <2>1, <2>3, <2>5 DEF Held
<1>3. CASE s.do = "alias"
  <2> DEFINE a == s.row
             b == [bank |-> a.bank, title |-> a.title, by |-> None, slug |-> a.slug]
  <2>0. UNCHANGED <<facts, categories, codes>>
    BY <1>3 DEF Execute, SeedAlias, Upsert, tables
  <2>1. UNCHANGED Managed
    BY <2>0 DEF Managed
  <2>2. \A bank, title : SeedManaged(bank, title)' = SeedManaged(bank, title)
    BY <2>1, SameRows
  <2>3. CASE UNCHANGED tables
    <3>1. UNCHANGED Shared
      BY <2>3 DEF tables, Shared
    <3>2. \A bank, title : AliasRow(bank, title, None)' = AliasRow(bank, title, None)
      BY <3>1, SameMappings
    <3> QED BY <2>0, <2>2, <3>2 DEF Held
  <2>4. CASE aliases' = (aliases \ AliasRow(a.bank, a.title, None)) \cup {b}
    <3>0. b.bank = a.bank /\ b.title = a.title /\ b.by = None /\ b.slug = a.slug
      OBVIOUS
    <3>1. b \in AliasRow(a.bank, a.title, None)'
      BY <2>4 DEF AliasRow
    <3> HIDE DEF b
    <3>2. \A y : ~ SameTitle(a, y) => AliasRow(y.bank, y.title, None)' = AliasRow(y.bank, y.title, None)
      BY <2>4, <3>0 DEF AliasRow, SameTitle
    <3>3. x.do = "alias" => x.row = a \/ ~ SameTitle(a, x.row)
      BY <1>0, <1>3, OneKind DEF Consistent, OnceListed
    <3>4. x.do = "retire alias" => ~ SameTitle(a, x.row)
      BY <1>0, <1>3, OneKind DEF Consistent, OnceListed
    <3>5. x.do = "alias" => \E y \in AliasRow(x.row.bank, x.row.title, None)' : y.slug = x.row.slug
      BY <3>0, <3>1, <3>2, <3>3 DEF Held
    <3>6. x.do = "retire alias" => AliasRow(x.row.bank, x.row.title, None)' = {}
      BY <3>2, <3>4 DEF Held
    <3> QED BY <2>0, <2>2, <3>5, <3>6 DEF Held
  <2> QED BY <1>3, <2>3, <2>4 DEF Execute, SeedAlias, Upsert
<1>4. CASE s.do = "retire alias"
  <2> DEFINE a == s.row
  <2>0. UNCHANGED <<facts, categories, codes>> /\ aliases' = aliases \ AliasRow(a.bank, a.title, None)
    BY <1>4 DEF Execute, RetireAlias
  <2>1. UNCHANGED Managed
    BY <2>0 DEF Managed
  <2>2. \A bank, title : SeedManaged(bank, title)' = SeedManaged(bank, title)
    BY <2>1, SameRows
  <2>3. \A y : ~ SameTitle(y, a) => AliasRow(y.bank, y.title, None)' = AliasRow(y.bank, y.title, None)
    BY <2>0 DEF AliasRow, SameTitle
  <2>4. x.do = "alias" => ~ SameTitle(x.row, a)
    BY <1>0, <1>4, OneKind DEF Consistent, OnceListed
  <2>5. \A bank, title : AliasRow(bank, title, None)' \subseteq AliasRow(bank, title, None)
    BY <2>0 DEF AliasRow
  <2>6. x.do = "alias" => \E y \in AliasRow(x.row.bank, x.row.title, None)' : y.slug = x.row.slug
    BY <2>3, <2>4 DEF Held
  <2>7. x.do = "retire alias" => AliasRow(x.row.bank, x.row.title, None)' = {}
    BY <2>5 DEF Held
  <2> QED BY <2>0, <2>2, <2>6, <2>7 DEF Held
<1>5. CASE s.do = "retire title"
  <2> DEFINE t == s.row
  <2>0. /\ UNCHANGED <<facts, aliases, codes>>
        /\ categories' = categories \ {c \in Row(t.bank, t.title, None) : ~ c.custom}
    BY <1>5 DEF Execute, RetireTitle, Drop
  <2>1. UNCHANGED Shared
    BY <2>0 DEF Shared
  <2>2. \A bank, title : AliasRow(bank, title, None)' = AliasRow(bank, title, None)
    BY <2>1, SameMappings
  <2>3. \A y : ~ SameTitle(y, t) => SeedManaged(y.bank, y.title)' = SeedManaged(y.bank, y.title)
    BY <2>0 DEF SeedManaged, Row, SameTitle
  <2>4. x.do = "title" => ~ SameTitle(x.row, t)
    BY <1>0, <1>5, OneKind DEF Consistent, OnceListed
  <2>5. \A bank, title : SeedManaged(bank, title)' \subseteq SeedManaged(bank, title)
    BY <2>0 DEF SeedManaged, Row
  <2>6. x.do = "title" =>
          \/ Squatted(x.row)
          \/ \E c \in SeedManaged(x.row.bank, x.row.title)' : c.slug = x.row.slug /\ c.kind = x.row.kind
    BY <2>3, <2>4 DEF Held
  <2>7. x.do = "retire title" => SeedManaged(x.row.bank, x.row.title)' = {}
    BY <2>5 DEF Held
  <2> QED BY <2>0, <2>2, <2>6, <2>7 DEF Held
<1>6. CASE s.do = "title"
  <2> DEFINE t    == s.row
             old  == Row(t.bank, t.title, None)
             slug == IF t.slug \in DOMAIN facts THEN t.slug ELSE None
             new  == Save(nextId, t.bank, t.title, None, slug, t.kind, t.active)
             now(c) == IF c.custom THEN c ELSE [c EXCEPT !.slug = slug, !.kind = t.kind]
  <2>0. UNCHANGED <<facts, aliases, codes>>
    BY <1>6 DEF Execute, SeedTitle
  <2>1. UNCHANGED Shared
    BY <2>0 DEF Shared
  <2>2. \A bank, title : AliasRow(bank, title, None)' = AliasRow(bank, title, None)
    BY <2>1, SameMappings
  <2>3. /\ \A c \in categories : c \in categories' \/ (c \in old /\ ~ c.custom /\ now(c) \in categories')
        /\ \A c \in categories' : c \in categories \/ c = new \/ \E o \in old : ~ o.custom /\ c = now(o)
    <3>1. SeedTitle(t)
      BY <1>6 DEF Execute
    <3>2. \/ categories' = categories
          \/ old = {} /\ categories' = categories \cup {new}
          \/ categories' = (categories \ old) \cup {now(c) : c \in old}
      BY <3>1 DEF SeedTitle
    <3>3. old \subseteq categories /\ \A c \in old : c.custom => now(c) = c
      BY DEF Row
    <3> HIDE DEF old, new, now
    <3> QED BY <3>2, <3>3
  <2>4. /\ new.bank = t.bank /\ new.title = t.title
        /\ \A c \in old : /\ now(c).bank = t.bank /\ now(c).title = t.title
                          /\ ~ c.custom =>
                               /\ now(c).by = None /\ ~ now(c).custom
                               /\ now(c).slug = slug /\ now(c).kind = t.kind
    <3>1. new.bank = t.bank /\ new.title = t.title
      BY DEF Save
    <3>2. \A c \in old : c \in categories /\ c.bank = t.bank /\ c.title = t.title /\ c.by = None
      BY DEF Row
    <3> HIDE DEF old
    <3> QED BY <3>1, <3>2 DEF Old, CategoriesOK
  <2>5. \A c \in old : c.bank = t.bank /\ c.title = t.title
    BY DEF Row
  <2>6. \A y : ~ SameTitle(t, y) => SeedManaged(y.bank, y.title)' = SeedManaged(y.bank, y.title)
    <3> SUFFICES ASSUME NEW y, ~ SameTitle(t, y)
                 PROVE  SeedManaged(y.bank, y.title)' = SeedManaged(y.bank, y.title)
      OBVIOUS
    <3> HIDE DEF old, new, now, slug
    <3>1. \A c : c.bank = y.bank /\ c.title = y.title => (c \in categories <=> c \in categories')
      BY <2>3, <2>4, <2>5 DEF SameTitle
    <3> QED BY <3>1 DEF SeedManaged, Row
  <2>7. x.do = "retire title" => ~ SameTitle(t, x.row)
    BY <1>0, <1>6, OneKind DEF Consistent, OnceListed
  <2>8. x.do = "title" => x.row = t \/ ~ SameTitle(t, x.row)
    BY <1>0, <1>6, OneKind DEF Consistent, OnceListed
  <2>9. ASSUME x.do = "title", x.row = t, ~ Squatted(t)
        PROVE  \E c \in SeedManaged(t.bank, t.title)' : c.slug = t.slug /\ c.kind = t.kind
    <3>1. PICK c \in SeedManaged(t.bank, t.title) : c.slug = t.slug /\ c.kind = t.kind
      BY <2>9 DEF Held
    <3>2. c \in categories /\ c \in old /\ ~ c.custom /\ c.by = None /\ c.bank = t.bank /\ c.title = t.title
      BY <3>1 DEF SeedManaged, Row
    <3>3. t.slug \in {None} \cup DOMAIN facts
      BY <3>1, <3>2 DEF Old, CategoriesOK
    <3>4. slug = t.slug
      BY <3>3
    <3> HIDE DEF old, new, now, slug
    <3>5. CASE c \in categories'
      BY <3>1, <3>2, <3>5 DEF SeedManaged, Row
    <3>6. CASE now(c) \in categories'
      <4> DEFINE e == now(c)
      <4>1. e \in categories' /\ e.bank = t.bank /\ e.title = t.title /\ e.by = None /\ ~ e.custom
            /\ e.slug = t.slug /\ e.kind = t.kind
        BY <2>4, <3>2, <3>4, <3>6
      <4> HIDE DEF e
      <4> QED BY <4>1 DEF SeedManaged, Row
    <3> QED BY <2>3, <3>2, <3>5, <3>6
  <2>10. x.do = "title" =>
          \/ Squatted(x.row)
          \/ \E c \in SeedManaged(x.row.bank, x.row.title)' : c.slug = x.row.slug /\ c.kind = x.row.kind
    BY <2>6, <2>8, <2>9 DEF Held
  <2>11. x.do = "retire title" => SeedManaged(x.row.bank, x.row.title)' = {}
    BY <2>6, <2>7 DEF Held
  <2> QED BY <2>0, <2>2, <2>10, <2>11 DEF Held
<1>7. CASE s.do = "dictionary"
  <2>1. codes' = Over(d.codes, codes) /\ UNCHANGED <<facts, categories, aliases>>
    BY <1>7, OneKind DEF Execute, SeedMCC
  <2>2. \A code \in DOMAIN d.codes : code \in DOMAIN codes' /\ codes'[code] = d.codes[code]
    BY <2>1 DEF Over
  <2>3. UNCHANGED <<Managed, Shared>>
    BY <2>1 DEF Managed, Shared
  <2>4. \A bank, title : /\ SeedManaged(bank, title)' = SeedManaged(bank, title)
                         /\ AliasRow(bank, title, None)' = AliasRow(bank, title, None)
    BY <2>3, SameRows, SameMappings
  <2>5. x.do = "dictionary" => x.row = d.codes
    BY OneKind
  <2> QED BY <2>1, <2>2, <2>4, <2>5 DEF Held
<1> QED BY <1>1, <1>2, <1>3, <1>4, <1>5, <1>6, <1>7, OneKind

(***************************** who leaves it alone *************************)

NeverBothOf(d) ==
  \A t \in Range(d.retiredTitles) :
    SeedManaged(t.bank, t.title) = {} \/ SeedManaged(t.bank, t.now) = {}

HasDone(r) ==
  runs[r].release = deployed /\ \A j \in 1..(runs[r].at - 1) : Held(Runs[deployed][j])

AllDone == \A s \in StatementsOf(Data[deployed]) : Held(s)

\* What the running seeds have behind them stands, and what a completed one has done.
SeedInv ==
  /\ Strangers /\ Titled
  /\ \A n \in Releases : NeverBothOf(Data[n])
  /\ \A r \in Runners : runs[r] # None => HasDone(r)
  /\ loaded = deployed => AllDone

CodesKept ==
  \A code : (\A n \in 1..deployed : code \in DOMAIN Data[n].codes) /\ code \in DOMAIN codes
              => code \in DOMAIN codes' /\ codes'[code] = codes[code]

LEMMA Frame ==
  ASSUME CatInv, SeedInv, UNCHANGED <<facts, Managed, Shared, deployed, loaded>>, CodesKept, Strangers',
         \A r \in Runners : runs'[r] # None => runs'[r] = runs[r]
  PROVE  SeedInv'
<1>1. \A s : Held(s) => Held(s)'
  BY LeftAlone DEF CodesKept
<1>2. \A bank, title : SeedManaged(bank, title)' = SeedManaged(bank, title)
  BY SameRows
<1>3. \A n \in Releases : NeverBothOf(Data[n])'
  BY <1>2 DEF SeedInv, NeverBothOf
<1>4. Titled'
  BY DEF SeedInv, Titled
<1>5. PICK n \in Releases : n = deployed
  BY DEF CatInv, RunsOK
<1>6. ASSUME NEW r \in Runners, runs'[r] # None
      PROVE  HasDone(r)'
  <2>1. runs'[r] = runs[r] /\ HasDone(r)
    BY <1>6 DEF SeedInv
  <2>2. runs[r].release = n /\ \A j \in 1..(runs[r].at - 1) : Held(Runs[n][j])
    BY <1>5, <2>1 DEF HasDone
  <2>3. \A j \in 1..(runs[r].at - 1) : Held(Runs[n][j])'
    BY <1>1, <2>2
  <2>4. n = deployed'
    BY <1>5
  <2> QED BY <2>1, <2>2, <2>3, <2>4 DEF HasDone
<1>7. ASSUME loaded' = deployed'
      PROVE  AllDone'
  <2>1. \A s \in StatementsOf(Data[n]) : Held(s)
    BY <1>5, <1>7 DEF SeedInv, AllDone
  <2>2. \A s \in StatementsOf(Data[n]) : Held(s)'
    BY <1>1, <2>1
  <2>3. n = deployed'
    BY <1>5
  <2> QED BY <2>2, <2>3 DEF AllDone
<1> QED BY <1>3, <1>4, <1>6, <1>7 DEF SeedInv

LEMMA RowsOfOwners ==
  ASSUME UNCHANGED <<aliases>>,
         \A c \in categories \cup categories' : c.by = None => (c \in categories <=> c \in categories')
  PROVE  /\ UNCHANGED <<Managed, Shared>>
         /\ Strangers => Strangers'
<1>1. UNCHANGED Managed
  BY DEF Managed
<1>2. UNCHANGED Shared
  BY DEF Shared
<1>3. Strangers => Strangers'
  BY DEF Strangers
<1> QED BY <1>1, <1>2, <1>3

LEMMA UsersLeave ==
  ASSUME CatInv, SeedInv, NEW u \in Users, UserStep(u)
  PROVE  SeedInv'
<1>0. None # u /\ None \notin Users
  BY CatalogueAssumption
<1>1. UNCHANGED <<rest, facts, codes>>
  BY DEF UserStep, CountVisible, CreateBankCategory, ResolveBankCategory, SaveCategoryOffer,
     UpsertAlias, DeleteCategoryOffer, Begin, End, Upsert, tables
<1>2. UNCHANGED <<Managed, Shared>> /\ (Strangers => Strangers')
  <2>1. CASE CountVisible(u) \/ ResolveBankCategory(u) \/ SaveCategoryOffer(u) \/ DeleteCategoryOffer(u)
    <3>1. UNCHANGED <<categories, aliases>>
      BY <2>1 DEF CountVisible, ResolveBankCategory, SaveCategoryOffer, DeleteCategoryOffer, Begin, tables
    <3> QED BY <3>1, RowsOfOwners
  <2>2. CASE CreateBankCategory(u)
    <3> DEFINE new == Save(nextId, calls[u].bank, calls[u].title, u, calls[u].slug, "regular", TRUE)
    <3>1. aliases' = aliases /\ categories' \in {categories, categories \cup {new}}
      BY <2>2 DEF CreateBankCategory
    <3>2. new.by = u
      BY DEF Save
    <3> HIDE DEF new
    <3> QED BY <1>0, <3>1, <3>2, RowsOfOwners
  <2>3. CASE UpsertAlias(u)
    <3> DEFINE n == calls[u]
               b == [bank |-> n.bank, title |-> n.title, by |-> u, slug |-> n.slug]
    <3>1. categories' = categories /\ aliases' = (aliases \ AliasRow(n.bank, n.title, u)) \cup {b}
      BY <2>3 DEF UpsertAlias, Upsert
    <3>2. b.by = u /\ \A a \in AliasRow(n.bank, n.title, u) : a.by = u
      BY DEF AliasRow
    <3> HIDE DEF b
    <3>3. UNCHANGED Shared
      BY <1>0, <3>1, <3>2 DEF Shared
    <3>4. UNCHANGED Managed /\ (Strangers => Strangers')
      BY <3>1 DEF Managed, Strangers
    <3> QED BY <3>3, <3>4
  <2> QED BY <2>1, <2>2, <2>3 DEF UserStep
<1>3. CodesKept
  BY <1>1 DEF CodesKept
<1> QED BY <1>1, <1>2, <1>3, Frame DEF rest, SeedInv

LEMMA DeskLeaves ==
  ASSUME CatInv, SeedInv, DeskStep
  PROVE  SeedInv'
<1>1. UNCHANGED <<runs, deployed, loaded, facts, aliases>>
  BY DEF DeskStep, GuardBankCategory, AdminUpdateBankCategory, AdminDeleteBankCategory, AdminWriteMCC,
     AdminDeleteMCC, AdminLink, RestartSidecar, Guarded, Begin, End, Drop, tables, rest
<1>2. CodesKept
  <2>1. CASE UNCHANGED codes
    BY <2>1 DEF CodesKept
  <2>2. sidecar \in 1..deployed
    BY DEF CatInv, RunsOK
  <2>3. CASE AdminWriteMCC
    <3>1. PICK code \in DeskCodes, gloss \in Glosses :
            code \notin DOMAIN Data[sidecar].codes /\ codes' = Over([k \in {code} |-> gloss], codes)
      BY <2>3 DEF AdminWriteMCC, GuardMCC, SeededMCCCodes
    <3>2. \A k \in DOMAIN codes : k # code => k \in DOMAIN codes' /\ codes'[k] = codes[k]
      BY <3>1 DEF Over
    <3> QED BY <2>2, <3>1, <3>2 DEF CodesKept
  <2>4. CASE AdminDeleteMCC
    <3>1. PICK code \in DeskCodes \cap DOMAIN codes :
            code \notin DOMAIN Data[sidecar].codes /\ codes' = Restrict(codes, DOMAIN codes \ {code})
      BY <2>4 DEF AdminDeleteMCC, GuardMCC, SeededMCCCodes
    <3>2. \A k \in DOMAIN codes : k # code => k \in DOMAIN codes' /\ codes'[k] = codes[k]
      BY <3>1 DEF Restrict
    <3> QED BY <2>2, <3>1, <3>2 DEF CodesKept
  <2>5. AdminWriteMCC \/ AdminDeleteMCC \/ UNCHANGED codes
    BY DEF DeskStep, GuardBankCategory, AdminUpdateBankCategory, AdminDeleteBankCategory,
       AdminLink, RestartSidecar, Guarded, Begin, End, Drop, tables, rest
  <2> QED BY <2>1, <2>3, <2>4, <2>5
<1>3. UNCHANGED Shared
  BY <1>1 DEF Shared
<1>4. UNCHANGED Managed /\ Strangers'
  <2>1. CASE UNCHANGED categories
    BY <2>1 DEF Managed, Strangers, SeedInv
  <2>2. CASE AdminDeleteBankCategory
    <3>1. categories' = categories \ {c \in categories : c.id = calls[Desk].row /\ c.custom}
      BY <2>2 DEF AdminDeleteBankCategory, Drop
    <3> QED BY <3>1 DEF Managed, Strangers, SeedInv
  <2>3. CASE AdminUpdateBankCategory
    <3>1. PICK e \in Edits :
            LET old == {c \in categories : c.id = calls[Desk].row /\ c.custom}
                new == {[c EXCEPT !.title = e.title, !.slug = e.slug, !.active = e.active] : c \in old}
            IN  categories' \in {categories, (categories \ old) \cup new}
      BY <2>3 DEF AdminUpdateBankCategory
    <3> DEFINE old == {c \in categories : c.id = calls[Desk].row /\ c.custom}
               now(c) == [c EXCEPT !.title = e.title, !.slug = e.slug, !.active = e.active]
    <3>2. categories' = categories \/ categories' = (categories \ old) \cup {now(c) : c \in old}
      BY <3>1
    <3>3. \A c \in old : c.custom /\ c \in categories /\ now(c).custom /\ now(c).title = e.title
      BY DEF CatInv, TablesOK, CategoriesOK
    <3> HIDE DEF old, now
    <3>4. \A c \in categories' : c \in categories \/ (c.custom /\ c.title = e.title)
      BY <3>2, <3>3
    <3>5. \A c \in categories : c \in categories' \/ c.custom
      BY <3>2, <3>3
    <3>6. UNCHANGED Managed
      BY <3>4, <3>5 DEF Managed
    <3> QED BY <3>4, <3>6 DEF Strangers, SeedInv
  <2>4. AdminDeleteBankCategory \/ AdminUpdateBankCategory \/ UNCHANGED categories
    BY DEF DeskStep, GuardBankCategory, AdminWriteMCC, AdminDeleteMCC, AdminLink, RestartSidecar,
       Begin, tables
  <2> QED BY <2>1, <2>2, <2>3, <2>4
<1> QED BY <1>1, <1>2, <1>3, <1>4, Frame DEF SeedInv

(***************************** a step of a seed ****************************)

LEMMA TablesStep ==
  ASSUME Old, Titled, \A k \in Releases : NeverBothOf(Data[k]),
         NEW n \in Releases, n = deployed, deployed' = deployed, NEW s \in StatementsOf(Data[n]),
         NEW done, \A x \in done : Held(x), Builds(Data[n], done, s), Execute(s)
  PROVE  Strangers' /\ Titled' /\ \A k \in Releases : NeverBothOf(Data[k])'
<1> DEFINE d == Data[n]
<1>0. n \in Nat /\ \A m \in 1..n : m \in Releases
  BY ReleaseNumbers
<1>1. CASE s.do \notin {"retire title", "title"}
  <2>1. UNCHANGED categories
    BY <1>1 DEF Execute, Insert, Refresh, SeedAlias, RetireAlias, SeedMCC, Upsert, tables
  <2>2. UNCHANGED Managed
    BY <2>1 DEF Managed
  <2>3. \A bank, title : SeedManaged(bank, title)' = SeedManaged(bank, title)
    BY <2>2, SameRows
  <2> QED BY <2>1, <2>2, <2>3 DEF Old, Strangers, Titled, NeverBothOf
<1>2. CASE s.do = "retire title"
  <2>1. categories' \subseteq categories
    BY <1>2 DEF Execute, RetireTitle, Drop
  <2>2. \A bank, title : SeedManaged(bank, title)' \subseteq SeedManaged(bank, title)
    BY <2>1 DEF SeedManaged, Row
  <2>3. Managed' \subseteq Managed
    BY <2>1 DEF Managed
  <2>4. \A k \in Releases : NeverBothOf(Data[k])'
    BY <2>2 DEF NeverBothOf
  <2> QED BY <2>1, <2>3, <2>4 DEF Old, Strangers, Titled
<1>3. CASE s.do = "title"
  <2> DEFINE t    == s.row
             old  == Row(t.bank, t.title, None)
             slug == IF t.slug \in DOMAIN facts THEN t.slug ELSE None
             new  == Save(nextId, t.bank, t.title, None, slug, t.kind, t.active)
             now(c) == IF c.custom THEN c ELSE [c EXCEPT !.slug = slug, !.kind = t.kind]
  <2>1. t \in Range(d.titles) /\ \A x \in Do("retire title", Range(d.retiredTitles)) : Held(x)
    BY <1>3, OneKind DEF Builds
  <2>2. \A c \in categories' : c \in categories \/ c = new \/ \E o \in old : ~ o.custom /\ c = now(o)
    <3>1. SeedTitle(t)
      BY <1>3 DEF Execute
    <3>2. \/ categories' = categories
          \/ old = {} /\ categories' = categories \cup {new}
          \/ categories' = (categories \ old) \cup {now(c) : c \in old}
      BY <3>1 DEF SeedTitle
    <3>3. old \subseteq categories /\ \A c \in old : c.custom => now(c) = c
      BY DEF Row
    <3> HIDE DEF old, new, now
    <3> QED BY <3>2, <3>3
  <2>3. /\ new.bank = t.bank /\ new.title = t.title /\ ~ new.custom
        /\ \A c \in old : ~ c.custom => now(c).bank = t.bank /\ now(c).title = t.title /\ ~ now(c).custom
    <3>1. new.bank = t.bank /\ new.title = t.title /\ ~ new.custom
      BY DEF Save
    <3>2. \A c \in old : c \in categories /\ c.bank = t.bank /\ c.title = t.title
      BY DEF Row
    <3> HIDE DEF old
    <3> QED BY <3>1, <3>2 DEF Old, CategoriesOK
  <2> HIDE DEF new, now, old
  <2>4. \A c \in categories' : c \in categories \/ (~ c.custom /\ SameTitle(t, c))
    BY <2>2, <2>3 DEF SameTitle
  <2>5. Strangers'
    BY <2>4 DEF Old, Strangers
  <2>6. Titled'
    <3>1. \A c \in Managed' : c \in Managed \/ SameTitle(t, c)
      <4>1. \A c \in Managed' : c \in categories' /\ c.by = None /\ ~ c.custom
        BY DEF Managed
      <4>2. \A c : c \in categories /\ c.by = None /\ ~ c.custom => c \in Managed
        BY DEF Managed
      <4> QED BY <2>4, <4>1, <4>2
    <3>2. n \in 1..deployed' /\ 1..deployed' = 1..deployed /\ n = deployed
      BY <1>0, ReleaseNumbers
    <3>3. \A c \in Managed' : \E m \in 1..deployed' : \E u \in Range(Data[m].titles) : SameTitle(u, c)
      <4> SUFFICES ASSUME NEW c \in Managed'
                   PROVE  \E m \in 1..deployed' : \E u \in Range(Data[m].titles) : SameTitle(u, c)
        OBVIOUS
      <4>1. CASE c \in Managed
        BY <3>2, <4>1 DEF Titled
      <4>2. CASE SameTitle(t, c)
        BY <2>1, <3>2, <4>2
      <4> QED BY <3>1, <4>1, <4>2
    <3> QED BY <3>3 DEF Titled
  <2>7. \A y : ~ (t.bank = y.bank /\ t.title = y.title) =>
               SeedManaged(y.bank, y.title)' \subseteq SeedManaged(y.bank, y.title)
    BY <2>4 DEF SeedManaged, Row, SameTitle
  <2>8. ASSUME NEW k \in Releases, NEW x \in Range(Data[k].retiredTitles)
        PROVE  SeedManaged(x.bank, x.title)' = {} \/ SeedManaged(x.bank, x.now)' = {}
    <3>0. /\ \A m \in Releases : Respelled(x, Data[m].titles) => x \in Range(Data[m].retiredTitles)
          /\ \A m \in Releases : m >= k => \A u \in Range(Data[m].titles) : ~ SameTitle(x, u)
          /\ k \in Nat /\ Releases \subseteq Nat
      BY SeedDataAssumption, ReleaseNumbers
    <3>1. SeedManaged(x.bank, x.title) = {} \/ SeedManaged(x.bank, x.now) = {}
      BY DEF NeverBothOf
    <3> DEFINE y == [bank |-> x.bank, title |-> x.now]
    <3>2. ~ (t.bank = x.bank /\ t.title = x.now)
            => SeedManaged(x.bank, x.now)' \subseteq SeedManaged(x.bank, x.now)
      <4>1. y.bank = x.bank /\ y.title = x.now
        OBVIOUS
      <4> HIDE DEF y
      <4> QED BY <2>7, <4>1
    <3>3. CASE t.bank = x.bank /\ t.title = x.now
      <4>1. x \in Range(d.retiredTitles)
        BY <2>1, <3>0, <3>3 DEF Respelled
      <4>2. SeedManaged(x.bank, x.title) = {}
        <5> DEFINE st == [do |-> "retire title", row |-> x]
        <5>1. st \in Do("retire title", Range(d.retiredTitles)) /\ st.do = "retire title" /\ st.row = x
          BY <4>1 DEF Do
        <5> HIDE DEF st
        <5> QED BY <2>1, <5>1 DEF Held
      <4>3. ~ SameTitle(x, t)
        <5>1. OnceListed(d.titles, d.retiredTitles)
          BY SeedDataAssumption DEF Consistent
        <5>2. ~ SameTitle(t, x)
          BY <2>1, <4>1, <5>1 DEF OnceListed
        <5> QED BY <5>2 DEF SameTitle
      <4> QED BY <2>7, <4>2, <4>3 DEF SameTitle
    <3>4. CASE t.bank = x.bank /\ t.title = x.title
      <4>1. ~ (n >= k)
        BY <2>1, <3>0, <3>4 DEF SameTitle
      <4>2. SeedManaged(x.bank, x.now) = {}
        <5> SUFFICES ASSUME NEW c \in SeedManaged(x.bank, x.now) PROVE FALSE
          OBVIOUS
        <5>1. c \in Managed /\ c.bank = x.bank /\ c.title = x.now
          BY DEF SeedManaged, Row, Managed
        <5>2. PICK m \in 1..deployed : \E u \in Range(Data[m].titles) : SameTitle(u, c)
          BY <5>1 DEF Titled
        <5>3. m \in Releases /\ Respelled(x, Data[m].titles)
          BY <1>0, <5>1, <5>2 DEF Respelled, SameTitle
        <5>4. x \in Range(Data[m].retiredTitles)
          BY <3>0, <5>3
        <5>5. n >= m
          BY <1>0, <5>2
        <5>6. ~ SameTitle(x, t)
          BY <2>1, <5>3, <5>4, <5>5, SeedDataAssumption
        <5> QED BY <3>4, <5>6 DEF SameTitle
      <4>3. CASE x.title = x.now
        <5>1. t.bank = x.bank /\ t.title = x.now
          BY <3>4, <4>3
        <5> QED BY <3>3, <5>1
      <4> QED BY <3>2, <3>4, <4>2, <4>3
    <3>5. CASE ~ (t.bank = x.bank /\ t.title = x.now) /\ ~ (t.bank = x.bank /\ t.title = x.title)
      BY <2>7, <3>1, <3>2, <3>5
    <3> QED BY <3>3, <3>4, <3>5
  <2> QED BY <2>5, <2>6, <2>8 DEF NeverBothOf
<1> QED BY <1>1, <1>2, <1>3

LEMMA StepKeeps ==
  ASSUME CatInv, SeedInv, NEW r \in Runners, StepSeed(r)
  PROVE  SeedInv'
<1>1. PICK n \in Releases : n = deployed /\ n = runs[r].release
  BY DEF StepSeed, CatInv, RunsOK, SeedInv, HasDone
<1>2. PICK at \in 1..Len(Runs[n]) : at = runs[r].at
  BY <1>1 DEF StepSeed, CatInv, RunsOK
<1> DEFINE s == Runs[n][at]
           done == Past(Runs[n], at)
<1>3. /\ Execute(s) /\ deployed' = deployed
      /\ \A q \in Runners \ {r} : runs'[q] = runs[q]
      /\ runs'[r] = None \/ runs'[r] = [runs[r] EXCEPT !.at = at + 1]
      /\ loaded' = loaded \/ (at = Len(Runs[n]) /\ loaded' = n)
  BY <1>1, <1>2 DEF StepSeed, CatInv, RunsOK
<1>4. /\ Range(Runs[n]) = StatementsOf(Data[n]) /\ Follows(Data[n], {}, Runs[n])
      /\ DOMAIN Runs[n] = 1..Len(Runs[n]) /\ Len(Runs[n]) \in Nat
  <2>1. Runs[n] \in Seq(Statement(Data[n]))
    BY SeedStatements
  <2>2. DOMAIN Runs[n] = 1..Len(Runs[n]) /\ Len(Runs[n]) \in Nat
    BY <2>1
  <2> QED BY <2>2, RunIsAll
<1>5. \A j \in 1..Len(Runs[n]) : Runs[n][j] \in StatementsOf(Data[n])
  BY <1>4 DEF Range
<1>6. \A j \in 1..(at - 1) : Held(Runs[n][j])
  BY <1>1, <1>2 DEF SeedInv, HasDone, StepSeed
<1>7. (\A x \in done : Held(x)) /\ Builds(Data[n], done, s)
  <2>1. Builds(Data[n], {} \cup done, s)
    BY <1>4 DEF Follows
  <2>2. {} \cup done = done
    OBVIOUS
  <2>3. \A x \in done : Held(x)
    BY <1>6 DEF Past
  <2> QED BY <2>1, <2>2, <2>3
<1>8. s \in StatementsOf(Data[n])
  BY <1>5
<1>9. Old /\ Titled /\ \A k \in Releases : NeverBothOf(Data[k])
  BY DEF Old, SeedInv, CatInv, TablesOK
<1> HIDE DEF s, done
<1>10. Held(s)'
  BY <1>1, <1>3, <1>7, <1>8, <1>9, Does
<1>11. \A x \in StatementsOf(Data[n]) : Held(x) => Held(x)'
  BY <1>1, <1>3, <1>8, <1>9, UndoesNothing
<1>12. Strangers' /\ Titled' /\ \A k \in Releases : NeverBothOf(Data[k])'
  BY <1>1, <1>3, <1>7, <1>8, <1>9, TablesStep
<1>13. ASSUME NEW q \in Runners, runs'[q] # None
       PROVE  HasDone(q)'
  <2>1. CASE q # r
    <3>1. runs'[q] = runs[q] /\ HasDone(q)
      BY <1>3, <1>13, <2>1 DEF SeedInv
    <3>0. runs[q] # None /\ runs[q].release = n
      BY <1>1, <1>13, <3>1 DEF HasDone
    <3>2. runs[q].at - 1 \in 0..Len(Runs[n])
      <4>1. runs[q] \in [release : 1..deployed, at : Nat \ {0}] /\ runs[q].at <= Len(Runs[n])
        BY <3>0 DEF CatInv, RunsOK
      <4> QED BY <1>4, <4>1
    <3>3. \A j \in 1..(runs[q].at - 1) : Held(Runs[n][j])
      BY <1>1, <3>1 DEF HasDone
    <3>4. \A j \in 1..(runs[q].at - 1) : Held(Runs[n][j])'
      BY <1>4, <1>5, <1>11, <3>2, <3>3
    <3>5. n = deployed'
      BY <1>1, <1>3
    <3> QED BY <3>0, <3>1, <3>4, <3>5 DEF HasDone
  <2>2. CASE q = r
    <3>1. runs'[r] = [runs[r] EXCEPT !.at = at + 1]
      BY <1>3, <1>13, <2>2
    <3>2. runs[r] \in [release : 1..deployed, at : Nat \ {0}]
      BY DEF StepSeed, CatInv, RunsOK
    <3>3. runs'[r].release = n /\ runs'[r].at = at + 1 /\ (at + 1) - 1 = at
      BY <1>1, <1>2, <3>1, <3>2
    <3>4. \A j \in 1..at : Held(Runs[n][j])'
      <4> SUFFICES ASSUME NEW j \in 1..at PROVE Held(Runs[n][j])'
        OBVIOUS
      <4>1. CASE j = at
        BY <1>10, <4>1 DEF s
      <4>2. CASE j # at
        <5>1. j \in 1..(at - 1) /\ j \in 1..Len(Runs[n])
          BY <1>4, <4>2
        <5> QED BY <1>5, <1>6, <1>11, <5>1
      <4> QED BY <4>1, <4>2
    <3>5. n = deployed'
      BY <1>1, <1>3
    <3> QED BY <2>2, <3>3, <3>4, <3>5 DEF HasDone
  <2> QED BY <2>1, <2>2
<1>14. ASSUME loaded' = deployed'
       PROVE  AllDone'
  <2>1. n = deployed'
    BY <1>1, <1>3
  <2>2. CASE loaded' = loaded
    <3>1. \A x \in StatementsOf(Data[n]) : Held(x)
      BY <1>1, <1>14, <2>1, <2>2 DEF SeedInv, AllDone
    <3> QED BY <1>11, <2>1, <3>1 DEF AllDone
  <2>3. CASE at = Len(Runs[n])
    <3>1. \A j \in 1..Len(Runs[n]) : Held(Runs[n][j])'
      <4> SUFFICES ASSUME NEW j \in 1..Len(Runs[n]) PROVE Held(Runs[n][j])'
        OBVIOUS
      <4>1. CASE j = at
        BY <1>10, <4>1 DEF s
      <4>2. CASE j # at
        <5>1. j \in 1..(at - 1)
          BY <1>4, <2>3, <4>2
        <5> QED BY <1>5, <1>6, <1>11, <5>1
      <4> QED BY <4>1, <4>2
    <3>2. \A x \in StatementsOf(Data[n]) : \E j \in 1..Len(Runs[n]) : x = Runs[n][j]
      BY <1>4 DEF Range
    <3>3. \A x \in StatementsOf(Data[n]) : Held(x)'
      BY <3>1, <3>2
    <3> QED BY <2>1, <3>3 DEF AllDone
  <2> QED BY <1>3, <2>2, <2>3
<1> QED BY <1>12, <1>13, <1>14 DEF SeedInv

\* A new deployment starts with nothing behind it, a stopped run ends.
LEMMA StartsKeep ==
  ASSUME CatInv, SeedInv, NEW r \in Runners, StartSeed(r) \/ BreakSeed(r)
  PROVE  SeedInv'
<1>1. CASE BreakSeed(r)
  <2>1. /\ UNCHANGED <<tables, deployed, loaded>>
        /\ \A q \in Runners : runs'[q] # None => runs'[q] = runs[q]
    BY <1>1 DEF BreakSeed, CatInv, RunsOK
  <2>2. UNCHANGED <<Managed, Shared>> /\ CodesKept /\ Strangers'
    BY <2>1 DEF tables, Managed, Shared, CodesKept, Strangers, SeedInv
  <2> QED BY <2>1, <2>2, Frame DEF tables
<1>2. CASE StartSeed(r)
  <2>1. PICK n \in {deployed, deployed + 1} \cap Releases :
          /\ \A q \in Running : runs[q].release = n
          /\ runs' = [runs EXCEPT ![r] = [release |-> n, at |-> 1]]
          /\ deployed' = n
          /\ UNCHANGED <<tables, loaded>>
    BY <1>2 DEF StartSeed
  <2>2. UNCHANGED <<facts, categories, aliases, codes>>
    BY <2>1 DEF tables
  <2>3. UNCHANGED <<Managed, Shared>>
    BY <2>2 DEF Managed, Shared
  <2>4. \A bank, title : SeedManaged(bank, title)' = SeedManaged(bank, title)
    BY <2>3, SameRows
  <2>5. deployed \in Nat /\ loaded \in 0..deployed
    BY ReleaseNumbers DEF CatInv, RunsOK
  <2>6. Strangers' /\ Titled' /\ \A k \in Releases : NeverBothOf(Data[k])'
    BY <2>1, <2>2, <2>3, <2>4, <2>5 DEF SeedInv, Strangers, Titled, NeverBothOf
  <2>7. /\ runs'[r] = [release |-> n, at |-> 1]
        /\ \A q \in Runners \ {r} : runs'[q] = runs[q]
    BY <2>1 DEF CatInv, RunsOK
  <2>8. CASE n = deployed
    <3>1. \A x : Held(x) => Held(x)'
      BY <2>1, <2>2, <2>3, <2>8, LeftAlone
    <3>2. ASSUME NEW q \in Runners, runs'[q] # None PROVE HasDone(q)'
      <4>1. CASE q = r
        BY <2>1, <2>7, <4>1 DEF HasDone
      <4>2. CASE q # r
        <5>1. runs'[q] = runs[q] /\ runs[q].release = n /\ \A j \in 1..(runs[q].at - 1) : Held(Runs[n][j])
          BY <2>7, <2>8, <3>2, <4>2 DEF SeedInv, HasDone
        <5>2. \A j \in 1..(runs[q].at - 1) : Held(Runs[n][j])'
          BY <3>1, <5>1
        <5> QED BY <2>1, <5>1, <5>2 DEF HasDone
      <4> QED BY <4>1, <4>2
    <3>3. ASSUME loaded' = deployed' PROVE AllDone'
      <4>1. \A x \in StatementsOf(Data[n]) : Held(x)
        BY <2>1, <2>8, <3>3 DEF SeedInv, AllDone
      <4>2. \A x \in StatementsOf(Data[n]) : Held(x)'
        BY <3>1, <4>1
      <4> QED BY <2>1, <4>2 DEF AllDone
    <3> QED BY <2>6, <3>2, <3>3 DEF SeedInv
  <2>9. CASE n = deployed + 1
    <3>1. loaded' # deployed'
      BY <2>1, <2>5, <2>9
    <3>2. ASSUME NEW q \in Runners, runs'[q] # None PROVE HasDone(q)'
      <4>1. CASE q = r
        BY <2>1, <2>7, <4>1 DEF HasDone
      <4>2. CASE q # r
        <5>1. runs[q] # None /\ runs[q].release = deployed
          BY <2>7, <3>2, <4>2 DEF SeedInv, HasDone
        <5>2. runs[q].release = n
          BY <2>1, <5>1 DEF Running
        <5> QED BY <2>5, <2>9, <5>1, <5>2
      <4> QED BY <4>1, <4>2
    <3> QED BY <2>6, <3>1, <3>2 DEF SeedInv
  <2> QED BY <2>1, <2>8, <2>9
<1> QED BY <1>1, <1>2

LEMMA SeedInvInit == ASSUME Init PROVE SeedInv
<1>1. \A c \in categories : c \in Orphans /\ c.custom
  BY OrphansAssumption DEF Init
<1>2. Strangers /\ Titled
  BY <1>1 DEF Strangers, Titled, Managed
<1>3. \A bank, title : SeedManaged(bank, title) = {}
  BY <1>1 DEF SeedManaged, Row
<1>4. \A n \in Releases : NeverBothOf(Data[n])
  BY <1>3 DEF NeverBothOf
<1>5. (\A r \in Runners : runs[r] = None) /\ loaded # deployed
  BY DEF Init
<1> QED BY <1>2, <1>4, <1>5 DEF SeedInv

THEOREM SeedInvariance == Spec => [](CatInv /\ SeedInv)
<1>1. CatInv /\ SeedInv /\ [Next]_vars => SeedInv'
  <2>1. ASSUME CatInv, SeedInv, SeedStep PROVE SeedInv'
    BY <2>1, StepKeeps, StartsKeep DEF SeedStep
  <2>2. ASSUME CatInv, SeedInv, UNCHANGED vars PROVE SeedInv'
    <3>1. UNCHANGED <<tables, runs, deployed, loaded>>
      BY <2>2 DEF vars, rest
    <3>2. UNCHANGED <<Managed, Shared>> /\ CodesKept /\ Strangers'
      BY <2>2, <3>1 DEF tables, Managed, Shared, CodesKept, Strangers, SeedInv
    <3> QED BY <2>2, <3>1, <3>2, Frame DEF tables
  <2> QED BY <2>1, <2>2, UsersLeave, DeskLeaves DEF Next
<1>2. Init => SeedInv
  BY SeedInvInit
<1> QED BY <1>1, <1>2, CatInvariance, PTL DEF Spec

\* "After a completed run the shared data is the release's": whatever stopped, ran
\* beside it, or came before.
THEOREM ReleaseArrives == Spec => []SeedConverges
<1>1. ASSUME CatInv, SeedInv, loaded = deployed
      PROVE  SeedConverges
  <2>1. PICK n \in Releases : n = deployed
    BY <1>1 DEF CatInv, RunsOK
  <2> DEFINE d == Data[n]
  <2>2. d = Dataset /\ \A s \in StatementsOf(d) : Held(s)
    BY <1>1, <2>1 DEF SeedInv, AllDone, Dataset
  <2>3. /\ \A f \in Range(d.programs \o d.canonicals) \cup Range(d.colors) :
             [do |-> "refresh", row |-> f] \in StatementsOf(d)
        /\ \A t \in Range(d.titles) : [do |-> "title", row |-> t] \in StatementsOf(d)
        /\ \A a \in Range(d.aliases) : [do |-> "alias", row |-> a] \in StatementsOf(d)
        /\ \A a \in Range(d.retiredAliases) : [do |-> "retire alias", row |-> a] \in StatementsOf(d)
        /\ \A t \in Range(d.retiredTitles) : [do |-> "retire title", row |-> t] \in StatementsOf(d)
    BY DEF StatementsOf, Do, Base
  <2>4. ASSUME NEW do, NEW x, [do |-> do, row |-> x] \in StatementsOf(d)
        PROVE  /\ do = "refresh" => x.key \in DOMAIN facts /\ facts[x.key] = x.value
               /\ do = "alias" => \E b \in AliasRow(x.bank, x.title, None) : b.slug = x.slug
               /\ do = "retire alias" => AliasRow(x.bank, x.title, None) = {}
               /\ do = "retire title" => SeedManaged(x.bank, x.title) = {}
               /\ do = "title" =>
                    \/ Squatted(x)
                    \/ \E c \in SeedManaged(x.bank, x.title) : c.slug = x.slug /\ c.kind = x.kind
    <3> DEFINE s == [do |-> do, row |-> x]
    <3>1. Held(s) /\ s.do = do /\ s.row = x
      BY <2>2, <2>4
    <3> HIDE DEF s
    <3> QED BY <3>1 DEF Held
  <2>5. Range(d.programs \o d.canonicals \o d.colors) = Range(d.programs \o d.canonicals) \cup Range(d.colors)
    <3> DEFINE p == d.programs
               c == d.canonicals
               k == d.colors
    <3>1. p \in Seq(Range(p)) /\ c \in Seq(Range(c)) /\ k \in Seq(Range(k))
      BY ReleaseAssumption DEF Listed
    <3> HIDE DEF p, c, k
    <3> DEFINE pc == p \o c
               K == Range(k)
    <3>2. pc \in Seq(Range(p) \cup Range(c)) /\ Range(pc) = Range(p) \cup Range(c)
      BY <3>1, JoinedRange
    <3> HIDE DEF pc, K
    <3>4. k \in Seq(K)
      BY <3>1 DEF K
    <3>5. Range(pc \o k) = Range(pc) \cup Range(k)
      BY <3>2, <3>4, JoinedRange
    <3> QED BY <3>5 DEF p, c, k, pc
  <2> HIDE DEF d
  <2> QED BY <2>2, <2>3, <2>4, <2>5 DEF SeedConverges
<1>2. CatInv /\ SeedInv => SeedConverges
  BY <1>1 DEF SeedConverges
<1> QED BY <1>2, SeedInvariance, PTL

\* "If seed writes it, the panel only reads it" (admin): codes that all releases
\* carry say what the newest one says.
THEOREM DictionaryArrives == Spec => []DictionaryIsReleased
<1>1. ASSUME CatInv, SeedInv, loaded = deployed
      PROVE  DictionaryIsReleased
  <2>1. PICK n \in Releases : n = deployed
    BY <1>1 DEF CatInv, RunsOK
  <2> DEFINE s == [do |-> "dictionary", row |-> Data[n].codes]
  <2>2. s \in StatementsOf(Data[n]) /\ s.do = "dictionary" /\ s.row = Data[n].codes
    BY DEF StatementsOf, Do
  <2> HIDE DEF s
  <2>3. Held(s)
    BY <1>1, <2>1, <2>2 DEF SeedInv, AllDone
  <2> QED BY <2>1, <2>2, <2>3 DEF Held, DictionaryIsReleased, Dataset
<1>2. CatInv /\ SeedInv => DictionaryIsReleased
  BY <1>1 DEF DictionaryIsReleased
<1> QED BY <1>2, SeedInvariance, PTL

\* Facts, titles, mappings and codes of a release arrive together, for any releases
\* and whatever stopped, ran beside the seed or was edited in the panel.
THEOREM SharedArrives == Spec => []SharedIsReleased
BY ReleaseArrives, DictionaryArrives, PTL DEF SharedIsReleased

\* "Retired titles go first, so a rename never leaves both spellings behind"
\* (seed.go), in every state of every run.
THEOREM NeverBothShown == Spec => []NeverBothSpellings
<1>1. CatInv /\ SeedInv => NeverBothSpellings
  BY DEF CatInv, RunsOK, SeedInv, NeverBothOf, NeverBothSpellings, Dataset
<1> QED BY <1>1, SeedInvariance, PTL
=============================================================================
