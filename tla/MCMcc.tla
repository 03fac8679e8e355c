------------------------------- MODULE MCMcc --------------------------------
(***************************************************************************)
(* Instances side by side, one of which runs: documents imported one after *)
(* another, two imports at once while the operator edits, points of sale   *)
(* under moderation, and a little of everything.                           *)
(***************************************************************************)
EXTENDS Mcc, TLC

CONSTANTS u1, u2, x1, x2, n1, q1, q2, t1, t2, t3, sa, sb, v1, v2, r1, r2, i1, i2, i3

VARIABLE scene

Catalog == [t \in Titles |-> CASE t = t1 -> {x1} [] t = t2 -> {x2} [] t = t3 -> {}]

Row(t, mcc, qualified) == [title |-> t, mcc |-> mcc, qualified |-> qualified]

Excludes(codes, classes) == [k \in {"mcc", "class"} |-> IF k = "mcc" THEN codes ELSE classes]

\* two editions of one document, and another document of the same bank: codes
\* that come, go and change their note, a range of unknown codes next to a
\* lone one, a title without a catalog row, exclusions of one kind or of both
FirstEdition ==
  [source |-> sa, categories |-> <<Row(t1, {1, 2, 4}, {}), Row(t2, {1, 4}, {})>>,
   exclusions |-> Excludes({v1}, {v2}), dictionary |-> {}]
NextEdition ==
  [source |-> sa, categories |-> <<Row(t1, {2}, {[code |-> 2, note |-> n1]}), Row(t3, {}, {})>>,
   exclusions |-> Excludes({}, None), dictionary |-> {}]
Sibling ==
  [source |-> sb, categories |-> <<Row(t2, {3, 4}, {}), Row(t1, {1, 3}, {})>>,
   exclusions |-> Excludes({v1}, None), dictionary |-> {3}]
Range ==
  [source |-> sb, categories |-> <<Row(t2, {2, 3, 4}, {})>>,
   exclusions |-> Excludes(None, {v2}), dictionary |-> {}]

\* two small documents that meet in code 2
Small ==
  [source |-> sa, categories |-> <<Row(t1, {}, {[code |-> 2, note |-> n1]})>>,
   exclusions |-> Excludes({v1}, None), dictionary |-> {}]
SmallSibling ==
  [source |-> sb, categories |-> <<Row(t1, {2, 3}, {}), Row(t3, {}, {})>>,
   exclusions |-> Excludes({v1}, None), dictionary |-> {3}]

\* a document with two paragraphs under one title
Twice ==
  [source |-> sa, categories |-> <<Row(t1, {1}, {}), Row(t1, {2}, {})>>,
   exclusions |-> Excludes(None, None), dictionary |-> {}]

AllDocuments == {FirstEdition, NextEdition, Sibling, Range, Small, SmallSibling}
TwiceOnly    == {Twice}

\* a scrape of all ids, with a code that may be missing, and a scrape of one
WholeScrape == [p \in PointIds |-> 4]
OneScraped  == [p \in {q1} |-> 3]
Scraped     == {WholeScrape, OneScraped}

Symmetry == Permutations(Reqs) \cup Permutations(PointIds) \cup Permutations(Users)

Moderation == INSTANCE Points WITH Codes <- {4}, Seeded <- {}, Scrapes <- {WholeScrape}

\* a document and a scrape that bring the same code, which the operator may delete
Together == INSTANCE Mcc WITH
  Imports <- {i1}, Documents <- {SmallSibling}, Codes <- {2, 3}, Seeded <- {2},
  Cats <- {}, Titles <- {}, Notes <- {}, PointIds <- {q1}, Scrapes <- {OneScraped}

Overlap == INSTANCE Snapshots WITH
  Imports <- {i1, i2}, Documents <- {Small, SmallSibling}, Codes <- {2, 3},
  Cats <- {x1}, Notes <- {}

OneRequest == \E r \in Reqs : \A q \in Reqs \ {r} : req[q].at = "idle"

\* the journal is edited by hand in a scene of its own
JournalStays == BagToSet(journal) \subseteq BagToSet(journal')

\* the checks of this module treat an admin as a moderator
NoAdmins == roles' \in [Users -> {"user", "moderator"}]

ByHand == (Overlap!ImportNext /\ OneAtATime') \/ Overlap!EditJournal

ScenesInit ==
  /\ scene \in {"serial", "overlap", "by hand", "moderation", "together"}
  /\ dictionary = CASE scene = "moderation" -> {} [] scene = "together" -> {2}
                    [] OTHER -> Seeded
  /\ membership = {} /\ points = {} /\ exclusions = {} /\ journal = EmptyBag
  /\ runs = [i \in Imports |-> [at |-> "idle", doc |-> None, in |-> Nothing]]
  /\ roles = [u \in Users |-> "user"]
  /\ spent = {} /\ req = [r \in Reqs |-> [at |-> "idle"]]
  /\ straight = TRUE

ScenesNext ==
  /\ \/ scene = "serial" /\ ImportNext /\ OneAtATime' /\ UNCHANGED <<roles, spent, req>>
     \/ /\ scene = "overlap" /\ (Overlap!ImportNext \/ Overlap!EditTables)
        /\ UNCHANGED <<roles, spent, req>>
     \/ scene = "by hand" /\ ByHand /\ UNCHANGED <<roles, spent, req>>
     \/ scene = "moderation" /\ Moderation!PointNext /\ NoAdmins
                             /\ UNCHANGED <<exclusions, journal, runs>>
     \/ scene = "together" /\ Together!MccNext /\ NoAdmins /\ OneRequest'
                           /\ JournalStays
  /\ Kept /\ UNCHANGED scene

ScenesSpec == ScenesInit /\ [][ScenesNext]_<<straightVars, scene>>

\* The claim of ReimportEmpty, of imports that ran.
SecondImportIsNoOp == scene = "serial" => AppliedIsNoOp
=============================================================================
