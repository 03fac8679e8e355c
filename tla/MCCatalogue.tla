---------------------------- MODULE MCCatalogue -----------------------------
(***************************************************************************)
(* One bank and four releases. The first two are those of a small bank, for *)
(* the runs of the operator and of the users. Of the last two the second    *)
(* corrects every kind of reference data, renames a title and retires a     *)
(* mapping; they come over a database that no earlier seed has reached, in  *)
(* which a row from before private catalogs is left.                        *)
(***************************************************************************)
EXTENDS Catalogue, TLC

CONSTANTS u1, u2, r1, r2

VARIABLE scene

food  == "food"
fuel  == "fuel"

Fact(key, needs, value) == [key |-> key, needs |-> needs, value |-> value]

Title(title, slug, kind, active) ==
  [bank |-> "bank", title |-> title, slug |-> slug, kind |-> kind, active |-> active]

Alias(title, slug) == [bank |-> "bank", title |-> title, slug |-> slug]

SmallRelease(title, alias, retired, dict) ==
  [banks     |-> <<Fact("bank", {}, None)>>,
   programs  |-> <<>>,
   canonicals |-> <<Fact(food, {}, 1)>>,
   aliases   |-> alias,
   retiredAliases |-> <<>>, retiredTitles |-> retired,
   titles    |-> <<Title(title, food, "regular", TRUE)>>,
   colors    |-> <<>>,
   codes     |-> dict]

Release1 == SmallRelease(1, <<Alias(1, food)>>, <<>>, 5411 :> 1)
Release2 == SmallRelease(3, <<>>, <<[bank |-> "bank", title |-> 1, now |-> 3]>>,
                         (5411 :> 2) @@ (5541 :> 2))

Release3 ==
  [banks     |-> <<Fact("bank", {}, None)>>,
   programs  |-> <<Fact("program", {"bank"}, 1)>>,
   canonicals |-> <<Fact(food, {}, 1)>>,
   aliases   |-> <<Alias(6, food), Alias(2, food)>>,
   retiredAliases |-> <<>>, retiredTitles |-> <<>>,
   titles    |-> <<Title(6, food, "regular", TRUE), Title(2, None, "regular", FALSE)>>,
   colors    |-> <<>>,
   codes     |-> 5411 :> 1]

Release4 ==
  [banks     |-> <<Fact("bank", {}, None)>>,
   programs  |-> <<Fact("program", {"bank"}, 2)>>,
   canonicals |-> <<Fact(food, {}, 1), Fact(fuel, {}, 2)>>,
   aliases   |-> <<Alias(6, fuel)>>,
   retiredAliases |-> <<Alias(2, food)>>,
   retiredTitles |-> <<[bank |-> "bank", title |-> 6, now |-> 7]>>,
   titles    |-> <<Title(7, food, "regular", TRUE), Title(2, fuel, "super", TRUE),
                   Title(4, food, "regular", TRUE)>>,
   colors    |-> <<Fact("bank", {}, "blue")>>,
   codes     |-> (5411 :> 2) @@ (5541 :> 2)]

TheReleases == <<Release1, Release2, Release3, Release4>>

OneRow == {Save(1, "bank", 4, None, None, "regular", TRUE)}
TheOrphans == {[o EXCEPT !.custom = TRUE] : o \in OneRow}

\* 1 and 2 are spellings of one title
TheNormal == [t \in 1..7 |-> IF t = 2 THEN 1 ELSE t]

Entry(title, slug) == [title |-> title, slug |-> slug]

Plain    == {Entry(6, None)}
Typed    == {Entry(2, None), Entry(4, food)}
TheEdits == {[title |-> 5, slug |-> None, active |-> FALSE], [title |-> 5, slug |-> food, active |-> TRUE]}

OneEdit == {[title |-> 5, slug |-> food, active |-> TRUE]}

NoId   == {}
OneId  == {1}
Alone  == {u1}
Single == {r1}
AddNo  == 0
AddSome == 2

Seeding == INSTANCE Catalogue WITH
  Users <- Alone, OfferIds <- NoId, DeskCodes <- NoId, LinkCodes <- NoId

Panel == INSTANCE Catalogue WITH
  Users <- Alone, Runners <- Single, MaxRows <- AddNo

Picking == INSTANCE Catalogue WITH
  Runners <- Single, Orphans <- NoId, Entries <- Typed, Edits <- OneEdit,
  DeskCodes <- NoId, LinkCodes <- NoId, MaxRows <- AddSome

\* users and the operator after the seed of the first release
SeededInit ==
  /\ facts = ("bank" :> None) @@ (food :> 1)
  /\ categories = {Save(1, "bank", 1, None, food, "regular", TRUE)}
  /\ aliases = {[bank |-> "bank", title |-> 1, by |-> None, slug |-> food]}
  /\ codes = Release1.codes /\ links = {} /\ offers = {} /\ nextId = 2
  /\ runs = [r \in Single |-> None]
  /\ deployed = 1 /\ loaded = 1 /\ sidecar = 1
  /\ calls = [w \in Users \cup {Desk} |-> None]

\* the seeds of two releases have stopped before their first statement
UnseededInit ==
  /\ facts = [b \in {o.bank : o \in Orphans} |-> None]
  /\ categories = Orphans
  /\ aliases = {} /\ codes = <<>> /\ links = {} /\ offers = {}
  /\ nextId = Cardinality(Orphans) + 1
  /\ runs = [r \in Runners |-> None]
  /\ deployed = 3 /\ loaded = 0 /\ sidecar = 1
  /\ calls = [w \in Alone \cup {Desk} |-> None]

ScenesInit ==
  \/ scene = "seeding" /\ UnseededInit
  \/ scene = "panel" /\ Panel!Init
  \/ scene = "picking" /\ SeededInit

ScenesNext ==
  /\ \/ scene = "seeding" /\ (Seeding!SeedStep \/ Seeding!UserStep(u1))
     \/ scene = "panel" /\ Panel!Next /\ deployed' <= 2
     \/ scene = "picking" /\ (Picking!DeskStep \/ \E u \in Users : Picking!UserStep(u))
  /\ UNCHANGED scene

ScenesSpec == ScenesInit /\ [][ScenesNext]_<<vars, scene>>

Symmetric == Permutations(Users) \cup Permutations(Runners)
=============================================================================
