----------------------------- MODULE Snapshots ------------------------------
(***************************************************************************)
(* The import of a bank's document (internal/mcc/snapshot.go and           *)
(* snapshot_import.go): read the state of the bank, plan the difference,   *)
(* apply it in one transaction and keep a journal.  READ COMMITTED: each   *)
(* read of a plan is a moment of its own, and the operator or another      *)
(* import may write in between.                                            *)
(*                                                                         *)
(* The writes of a plan are one step, the commit: a row it touches is      *)
(* locked until then, so what the operator does to that row comes before   *)
(* or after the whole.                                                     *)
(***************************************************************************)
EXTENDS MccStore, Sequences, Bags

CONSTANTS
  Titles,      \* normalized titles
  CatalogOf,   \* the catalog rows of a title
  Sources,     \* registry ids of documents
  Kinds,       \* of exclusions
  Values,      \* of exclusions, each with its condition and of one kind
  BandRun,     \* consecutive unknown codes that read as a range
  Documents,   \* snapshots, see Document
  Imports      \* processes, each of which imports once

\* qualified: the codes with a condition, the last of several entries.  A kind the
\* document does not carry is None.
Document ==
  [source : Sources,
   categories : Seq([title : Titles, mcc : SUBSET Codes,
                     qualified : SUBSET [code : Codes, note : Notes]]),
   exclusions : [Kinds -> Maybe(SUBSET Values)],
   dictionary : SUBSET Codes]

ASSUME SnapshotAssumption ==
  /\ CatalogOf \in [Titles -> SUBSET Cats]
  /\ \A t, u \in Titles : t # u => CatalogOf[t] \cap CatalogOf[u] = {}
  /\ Documents \subseteq Document
  /\ \A d \in Documents : \A n \in DOMAIN d.categories :
       \A p, q \in d.categories[n].qualified : p.code = q.code => p = q
  /\ \A d, e \in Documents : \A k, l \in Kinds :
       k # l /\ d.exclusions[k] # None /\ e.exclusions[l] # None
         => d.exclusions[k] \cap e.exclusions[l] = {}
  /\ BandRun \in Nat \ {0}

VARIABLES
  exclusions,   \* bank_exclusion
  journal,      \* mcc_change, a bag
  runs          \* the note of each import

vars == <<dictionary, membership, points, exclusions, journal, runs>>

Exclusion == [source : Sources, kind : Kinds, value : Values]
Actions   == {"imported", "added", "removed", "category_added", "excluded_imported",
              "excluded_added", "excluded_removed", "code_unknown"}
Change    == [action : Actions, cat : Maybe(Cats), title : Maybe(Titles),
              code : Maybe(Codes), value : Maybe(Values)]

\* what the reads of loadPlanInput return, in the order they are made
Input == [members : SUBSET Link, known : SUBSET Codes, excluded : SUBSET Exclusion,
          titles : SUBSET Titles, unknown : SUBSET Codes]

Nothing == [members |-> {}, known |-> {}, excluded |-> {}, titles |-> {}, unknown |-> {}]

Run == [at : {"idle", "known", "excluded", "titles", "unknown", "apply", "done"},
        doc : Maybe(Documents), in : Input]

TypeOK ==
  /\ StoreTypeOK
  /\ exclusions \subseteq Exclusion
  /\ IsABag(journal) /\ BagToSet(journal) \subseteq Change
  /\ runs \in [Imports -> Run]

Init ==
  /\ StoreInit /\ exclusions = {} /\ journal = EmptyBag
  /\ runs = [i \in Imports |-> [at |-> "idle", doc |-> None, in |-> Nothing]]

(***************************** PlanImport **********************************)

Known(d, in) == in.known \cup d.dictionary

\* the codes of a category; a qualified entry wins over a plain duplicate
Wanted(c) ==
  {[code |-> q.code, note |-> q.note] : q \in c.qualified}
  \cup {[code |-> k, note |-> None] : k \in c.mcc \ {q.code : q \in c.qualified}}

\* codes inside a run of BandRun unknown codes are a range, not codes
Band(a)     == a .. a + BandRun - 1
Isolated(U) == {k \in U : \A a \in U : k \in Band(a) => ~ (Band(a) \subseteq U)}

Rows(d)      == {n \in DOMAIN d.categories : Cardinality(CatalogOf[d.categories[n].title]) = 1}
RowOf(d, n)  == CHOOSE cat \in CatalogOf[d.categories[n].title] : TRUE
Want(d, in, n) == {w \in Wanted(d.categories[n]) : w.code \in Known(d, in)}
Have(d, in, n) == {l \in in.members : l.cat = RowOf(d, n)}

\* ambiguous titles, and titles with codes but without a catalog row
Refused(d) ==
  \E n \in DOMAIN d.categories :
    \/ Cardinality(CatalogOf[d.categories[n].title]) > 1
    \/ CatalogOf[d.categories[n].title] = {} /\ Wanted(d.categories[n]) # {}

Member(d, n, w) == [cat |-> RowOf(d, n), code |-> w.code, note |-> w.note]

\* changes carry the category n of the document they come from
Adds(d, in) ==
  UNION {{[n |-> n, link |-> Member(d, n, w)] :
            w \in {x \in Want(d, in, n) : \A l \in Have(d, in, n) : l.code # x.code}}
         : n \in Rows(d)}

NoteUpdates(d, in) ==
  UNION {{Member(d, n, w) : w \in {x \in Want(d, in, n) :
            \E l \in Have(d, in, n) : l.code = x.code /\ l.note # x.note}} : n \in Rows(d)}

Removes(d, in) ==
  UNION {{[n |-> n, link |-> l] :
            l \in {x \in Have(d, in, n) : \A w \in Want(d, in, n) : w.code # x.code}}
         : n \in Rows(d)}

Baseline(d, in) ==
  {RowOf(d, n) : n \in {m \in Rows(d) : Have(d, in, m) = {} /\ Want(d, in, m) # {}}}

NewTitles(d, in) ==
  {n \in DOMAIN d.categories :
     CatalogOf[d.categories[n].title] = {} /\ d.categories[n].title \notin in.titles}

\* what the bank names and no dictionary knows, told before or not
Unheard(d, in, n) == Isolated({w.code : w \in Wanted(d.categories[n])} \ Known(d, in))

\* mutants: told again at every import; told under each category that names it
UnknownInAgain(d, in, n) == Unheard(d, in, n)

UnknownPerCategory(d, in) ==
  UNION {{[cat |-> RowOf(d, n), code |-> k] : k \in Unheard(d, in, n) \ in.unknown}
         : n \in Rows(d)}

UnknownIn(d, in, n) == Unheard(d, in, n) \ in.unknown

\* once per code, under the first category that names it
UnknownCodes(d, in) ==
  UNION {{[cat |-> RowOf(d, n), code |-> k] :
            k \in UnknownIn(d, in, n)
                    \ UNION {UnknownIn(d, in, m) : m \in {x \in Rows(d) : x < n}}} : n \in Rows(d)}

Carried(d) == {x \in Kinds : d.exclusions[x] # None}

Listed(d)    == {[source |-> d.source, kind |-> x[1], value |-> x[2]] :
                   x \in UNION {{x} \X d.exclusions[x] : x \in Carried(d)}}
Synced(d, in) == {e \in in.excluded : e.kind \in Carried(d)}

ExclusionAdds(d, in)    == Listed(d) \ in.excluded
ExclusionRemoves(d, in) == Synced(d, in) \ Listed(d)

PlanEmpty(d, in) ==
  /\ d.dictionary \subseteq in.known
  /\ Adds(d, in) = {} /\ Removes(d, in) = {} /\ NoteUpdates(d, in) = {}
  /\ NewTitles(d, in) = {} /\ UnknownCodes(d, in) = {}
  /\ ExclusionAdds(d, in) = {} /\ ExclusionRemoves(d, in) = {}

(****************************** applyPlan **********************************)

\* the rows an import reads and writes, as one value
Db == [dictionary |-> dictionary, membership |-> membership, exclusions |-> exclusions,
       journal |-> journal]

SameRow(l, m) == l.cat = m.cat /\ l.code = m.code

\* the inserts meet no row and no missing code, the transaction goes through
Applies(d, in, db) ==
  LET adds  == Adds(d, in)
      links == {a.link : a \in adds} IN
  /\ \A a, b \in adds : SameRow(a.link, b.link) => a = b
  /\ \A l \in links : l.code \in db.dictionary \cup (d.dictionary \ in.known)
  /\ \A l \in links, m \in db.membership : ~ SameRow(l, m)
  /\ ExclusionAdds(d, in) \cap db.exclusions = {}

Blank == [action |-> "removed", cat |-> None, title |-> None, code |-> None, value |-> None]

OfLink(action, l) == [Blank EXCEPT !.action = action, !.cat = l.cat, !.code = l.code]
OfExclusion(action, e) == [Blank EXCEPT !.action = action, !.value = e.value]

\* what is written to the journal: rows, with the category of the document that
\* asks for it (0 for the rest)
Entries(d, in) ==
  LET baseline == Baseline(d, in) IN
  {<<a.n, OfLink(IF a.link.cat \in baseline THEN "imported" ELSE "added", a.link)>>
     : a \in Adds(d, in)}
  \cup {<<x.n, OfLink("removed", x.link)>> : x \in Removes(d, in)}
  \cup {<<0, OfLink("code_unknown", u)>> : u \in UnknownCodes(d, in)}
  \cup {<<n, [Blank EXCEPT !.action = "category_added", !.title = d.categories[n].title]>>
           : n \in NewTitles(d, in)}
  \cup {<<0, OfExclusion(IF \E x \in in.excluded : x.kind = e.kind THEN "excluded_added"
                          ELSE "excluded_imported", e)>> : e \in ExclusionAdds(d, in)}
  \cup {<<0, OfExclusion("excluded_removed", e)>> : e \in ExclusionRemoves(d, in)}

Journaled(d, in) ==
  LET entries == Entries(d, in) IN
  [row \in {e[2] : e \in entries} |-> Cardinality({e \in entries : e[2] = row})]

\* of two updates of one row, either may come last
LastUpdates(d, in) ==
  LET all == NoteUpdates(d, in) IN
  {S \in SUBSET all : \A u \in all : \E l \in S : {m \in S : SameRow(m, u)} = {l}}

WithNotes(links, updates) ==
  {l \in links : \A u \in updates : ~ SameRow(l, u)}
  \cup {u \in updates : \E l \in links : SameRow(l, u)}

\* what the database may be after the plan of d, made from in, is applied to db
After(d, in, db) ==
  LET removes == Removes(d, in)
      links   == {l \in db.membership \cup {a.link : a \in Adds(d, in)} :
                    \A x \in removes : ~ SameRow(l, x.link)} IN
  {[dictionary |-> db.dictionary \cup (d.dictionary \ in.known),
    membership |-> WithNotes(links, updates),
    exclusions |-> (db.exclusions \cup ExclusionAdds(d, in)) \ ExclusionRemoves(d, in),
    journal    |-> db.journal (+) Journaled(d, in)] : updates \in LastUpdates(d, in)}

(*************************** one import, its reads *************************)

Of(d, db) == {e \in db.exclusions : e.source = d.source}
TitlesIn(db)  == {row.title : row \in {x \in BagToSet(db.journal) : x.action = "category_added"}}
UnknownsIn(db) == {row.code : row \in {x \in BagToSet(db.journal) : x.action = "code_unknown"}}

\* all that an import reads, at one moment
Read(d, db) == [members |-> db.membership, known |-> db.dictionary, excluded |-> Of(d, db),
                titles |-> TitlesIn(db), unknown |-> UnknownsIn(db)]

Reads == UNCHANGED <<dictionary, membership, points, exclusions, journal>>

\* the catalog does not change; the first read that matters is the membership
ImportSnapshot(i) ==
  \E d \in Documents :
    /\ runs[i].at = "idle"
    /\ runs' = [runs EXCEPT ![i].at = "known", ![i].doc = d, ![i].in.members = membership]
    /\ Reads

LoadNext(i, from, to, in) ==
  /\ runs[i].at = from
  /\ runs' = [runs EXCEPT ![i].at = to, ![i].in = in]
  /\ Reads

LoadDictionary(i) == LoadNext(i, "known", "excluded", [runs[i].in EXCEPT !.known = dictionary])
LoadExclusions(i) ==
  LoadNext(i, "excluded", "titles", [runs[i].in EXCEPT !.excluded = Of(runs[i].doc, Db)])
LoadTitles(i)   == LoadNext(i, "titles", "unknown", [runs[i].in EXCEPT !.titles = TitlesIn(Db)])
LoadUnknowns(i) == LoadNext(i, "unknown", "apply", [runs[i].in EXCEPT !.unknown = UnknownsIn(Db)])

ApplyPlan(i) ==
  LET d == runs[i].doc  in == runs[i].in IN
  /\ runs[i].at = "apply" /\ ~ Refused(d) /\ Applies(d, in, Db)
  /\ \E db \in After(d, in, Db) :
       /\ dictionary' = db.dictionary /\ membership' = db.membership
       /\ exclusions' = db.exclusions /\ journal' = db.journal
  /\ runs' = [runs EXCEPT ![i].at = "done", ![i].in = Nothing]
  /\ UNCHANGED points

\* a refusal, a failed statement, a dry run, the end of the process: nothing is written
RollBack(i) ==
  /\ runs[i].at \notin {"idle", "done"}
  /\ runs' = [runs EXCEPT ![i].at = "done", ![i].doc = None, ![i].in = Nothing]
  /\ Reads

(**************************** the operator's journal ***********************)

Untouched == UNCHANGED <<exclusions, runs>>

\* a hand-observed change; only the titles matter to an import.  Bound: one row each.
AdminCreateMCCChange(t) ==
  /\ t \notin TitlesIn(Db)
  /\ journal' = journal (+) SetToBag({[Blank EXCEPT !.action = "category_added", !.title = t]})
  /\ UNCHANGED <<dictionary, membership, points>> /\ Untouched

AdminDeleteMCCChange(row) ==
  /\ BagIn(row, journal)
  /\ journal' = journal (-) SetToBag({row})
  /\ UNCHANGED <<dictionary, membership, points>> /\ Untouched

ImportNext ==
  \E i \in Imports :
    \/ ImportSnapshot(i) \/ LoadDictionary(i) \/ LoadExclusions(i) \/ LoadTitles(i)
    \/ LoadUnknowns(i) \/ ApplyPlan(i) \/ RollBack(i)

EditTables ==
  /\ \/ \E k \in Codes : AdminCreateMCC(k) \/ AdminDeleteMCC(k)
     \/ \E cat \in Cats, k \in Codes : \/ \E note \in Maybe(Notes) : AdminUpsertLink(cat, k, note)
                                       \/ AdminDeleteLink(cat, k)
  /\ UNCHANGED journal /\ Untouched

EditJournal ==
  \/ \E t \in Titles : AdminCreateMCCChange(t)
  \/ \E row \in BagToSet(journal) : AdminDeleteMCCChange(row)

Next == ImportNext \/ EditTables \/ EditJournal

Spec == Init /\ [][Next]_vars

(***************************************************************************)

\* "Re-importing an already-applied snapshot is a no-op" (snapshot_import.go):
\* whatever the state an import starts from, once it is applied a plan for the
\* same document is empty.
ReimportEmpty ==
  \A d \in Documents :
    ~ Refused(d) /\ Applies(d, Read(d, Db), Db)
      => \A db \in After(d, Read(d, Db), Db) : PlanEmpty(d, Read(d, db))

\* The same of imports that ran: when all that was applied is one document,
\* there is nothing left for it to plan.
AppliedIsNoOp ==
  \A i \in Imports :
    LET d == runs[i].doc IN
    (/\ runs[i].at = "done" /\ d # None
     /\ \A j \in Imports : runs[j].at = "done" => runs[j].doc \in {d, None})
      => PlanEmpty(d, Read(d, Db))

\* imports one after another, and nothing else
Running    == {i \in Imports : runs[i].at \notin {"idle", "done"}}
OneAtATime == \A i, j \in Running : i = j
SerialSpec == Init /\ [][ImportNext /\ OneAtATime']_vars

Told(news, row) == IF BagIn(row, news) THEN news[row] ELSE 0

\* The journal tells what the tables hold (00010_mcc.sql, 00034, 00035): the codes
\* that came and went make up the membership, the exclusions likewise, and a
\* code no dictionary knows is told once.  For imports one after another, without
\* edits by hand, which are not journaled.
JournalTellsState ==
  LET count(action, row) == Told(journal, [row EXCEPT !.action = action]) IN
  /\ \A cat \in Cats, k \in Codes :
       LET row == [Blank EXCEPT !.cat = cat, !.code = k] IN
       count("imported", row) + count("added", row)
         = count("removed", row) + Cardinality(LinkOf(cat, k))
  /\ \A v \in Values :
       LET row == [Blank EXCEPT !.value = v] IN
       count("excluded_imported", row) + count("excluded_added", row)
         = count("excluded_removed", row) + Cardinality({e \in exclusions : e.value = v})
  /\ \A row \in BagToSet(journal) :
       row.action = "code_unknown" =>
         /\ journal[row] = 1
         /\ \A x \in BagToSet(journal) : x.action = "code_unknown" /\ x.code = row.code => x = row
=============================================================================
