----------------------------- MODULE MCViewing ------------------------------
(***************************************************************************)
(* Two accounts and two banks; months of two days. The viewer has a client *)
(* of each bank, the periods of the second one shifted by a day. Two       *)
(* instances side by side, one of which runs: the screens at one glance    *)
(* over rows that come and go, and requests that read while grants,        *)
(* friends and selections change.                                          *)
(***************************************************************************)
EXTENDS Viewing, TLC

CONSTANTS me, friend

VARIABLE scene

\* canonical categories, in the order of their titles
food == 1
fuel == 2
all  == 3

Mine(id, cat, percent, kind) ==
  [id |-> id, selected |-> FALSE, user |-> me, client |-> 1, bank |-> 1, label |-> 1,
   period |-> 1, title |-> id, catalog |-> None, cat |-> cat, percent |-> percent,
   kind |-> kind, currency |-> "rub", from |-> 0, to |-> 1, cap |-> 9,
   override |-> None, limit |-> 1, policy |-> "allowed"]

\* of the second client: points, a limit set by hand
Second(id, cat, percent, kind) ==
  [Mine(id, cat, percent, kind) EXCEPT
     !.client = 2, !.bank = 2, !.label = 2, !.period = 2, !.currency = "points",
     !.from = 1, !.to = 2, !.limit = None, !.override = 1,
     !.policy = "locked_after_first"]

Theirs(id, cat, percent, kind) ==
  [Mine(id, cat, percent, kind) EXCEPT
     !.user = friend, !.client = 3, !.label = 0, !.period = 3, !.policy = "paid"]

TheClients == {[id |-> 1, bank |-> 1], [id |-> 2, bank |-> 2]}

ThePeriods == {[id |-> 1, client |-> 1, from |-> 0, to |-> 1],
               [id |-> 2, client |-> 2, from |-> 1, to |-> 2]}

ThePrograms == <<[type |-> "calendar_month", opensDay |-> 2],
                 [type |-> "quarter", opensDay |-> 1]>>

\* one bank counts the code in its category of food, the other in a row of its own
TheMembers == {[catalog |-> 8, bank |-> 1, cat |-> food],
               [catalog |-> 7, bank |-> 2, cat |-> None]}

TheGrants == {[client |-> 3, friend |-> friend]}

Deal(id, client, bank, cat, percent, from, mentions) ==
  [id |-> id, client |-> client, bank |-> bank, label |-> bank, title |-> id, cat |-> cat,
   percent |-> percent, kind |-> "partner",
   currency |-> IF bank = 1 THEN "rub" ELSE "points",
   from |-> from, to |-> IF bank = 1 THEN None ELSE 2, cap |-> 9, ended |-> FALSE,
   mentions |-> mentions, names |-> {}]

ThePartners ==
  {Deal(11, 1, 1, food, 6, 0, {}), Deal(12, 0, 2, None, 9, None, {food})}

\* a pick with its super and a base rate; a rival; a friend's two rows
FeedOffers ==
  {Mine(1, food, 5, "regular"), Mine(2, food, 2, "super"), Mine(3, all, 1, "regular"),
   [Second(4, food, 7, "regular") EXCEPT !.catalog = 7],
   Theirs(5, food, 7, "regular"),
   [Theirs(6, fuel, None, "regular") EXCEPT !.currency = "unknown"]}

TornOffers ==
  {Mine(1, food, 5, "regular"), Theirs(5, food, 7, "regular")}

EveryScreen == {"overview", "lookup", "board", "browse", "helper"}
NoScreen    == {}
TwoDays     == {1, 2}
ThreeDays   == {1, 2, 3}
OneCategory == {food}

Still == INSTANCE Viewing WITH
  Offers <- FeedOffers, Days <- ThreeDays, Ops <- NoScreen, Shifting <- TRUE
Torn  == INSTANCE Viewing WITH
  Offers <- TornOffers, Days <- TwoDays, Ops <- EveryScreen, Categories <- OneCategory,
  Shifting <- FALSE

ScenesInit ==
  \/ scene = "still" /\ Still!Init
  \/ scene = "torn" /\ Torn!Init

\* nothing that follows an answer changes what is on it: the next step closes it
ScenesNext ==
  /\ \/ scene = "still" /\ Still!Next
     \/ scene = "torn" /\ Torn!Next /\ (Answered => Torn!Close)
  /\ UNCHANGED scene

ScenesSpec == ScenesInit /\ [][ScenesNext]_<<vars, scene>>
=============================================================================
