------------------------------ MODULE MCVision ------------------------------
(***************************************************************************)
(* Four instances side by side, one of which runs: two users who share the *)
(* backend, one job that has it alone, the reading of a single screenshot, *)
(* and the merge of the readings into a draft.                             *)
(***************************************************************************)
EXTENDS MCRecognition, Deadlines, Screenshot, Draft

VARIABLE scene

(* Two titles and what a model may make of an image: the same menu seen whole, in *)
(* part and at other figures, a title listed twice, a granted one, two spins, an  *)
(* illegible figure, a row that is none.                                          *)

fuel == 1
food == 2

Plain(title, percent) ==
  [title |-> title, percent |-> percent, cap |-> Absent, checked |-> FALSE,
   granted |-> FALSE, category |-> TRUE, match |-> Absent]

Menu(rows) ==
  [type |-> "menu", rows |-> rows, framed |-> FALSE, slots |-> Absent, bank |-> Absent]

Picked(row) == [row EXCEPT !.checked = TRUE]

TheScreens ==
  {Menu(<<Plain(fuel, 3), Plain(food, 5)>>),
   Menu(<<Plain(fuel, 3)>>),
   Menu(<<Plain(fuel, 5), [Plain(fuel, 3) EXCEPT !.cap = 7]>>),
   Menu(<<Plain(fuel, Unread), Plain(fuel, 3)>>),
   Menu(<<Plain(fuel, 5), Plain(fuel, 3)>>),
   Menu(<<[Plain(fuel, Unread) EXCEPT !.cap = 2], [Plain(food, 5) EXCEPT !.cap = Unread]>>),
   Menu(<<Plain(fuel, 3), [Plain(fuel, 5) EXCEPT !.granted = TRUE]>>),
   [Menu(<<Plain(fuel, 7)>>) EXCEPT !.type = "wheel"],
   [Menu(<<Plain(food, 5)>>) EXCEPT !.type = "wheel"],
   [Menu(<<Plain(food, 9)>>) EXCEPT !.type = "not_relevant", !.bank = "other"],
   [Menu(<<Picked([Plain(food, 5) EXCEPT !.cap = 1])>>) EXCEPT
      !.type = "summary", !.slots = [count |-> 1, remaining |-> TRUE], !.bank = "mine"],
   [Menu(<<Picked(Plain(food, 120)), [Plain(fuel, 1) EXCEPT !.category = FALSE]>>) EXCEPT
      !.slots = [count |-> 2, remaining |-> FALSE], !.framed = TRUE],
   [Menu(<<Picked(Plain(fuel, 3)), Picked(Plain(food, Absent))>>) EXCEPT
      !.slots = [count |-> 1, remaining |-> TRUE]]}

TheCatalog == {[id |-> 1, title |-> fuel, kind |-> "regular"],
               [id |-> 2, title |-> 3, kind |-> "regular"]}

TheAliases == [t \in {food} |-> 1]

TheNames == {<<"mine", "mine">>, <<"other", "other">>}

Together == INSTANCE Deadlines WITH PerCallTimeout <- 1, LadderRungs <- 1
Alone    == INSTANCE Deadlines WITH Users <- {u1}

ScenesInit ==
  /\ scene \in {"together", "alone", "screenshot", "draft"}
  /\ TimedInit /\ ReadInit /\ DraftInit
  /\ scene # "screenshot" => st = Fresh

ScenesNext ==
  /\ \/ scene = "together" /\ Together!TimedNext /\ UNCHANGED <<st, images, draft>>
     \/ scene = "alone" /\ Alone!TimedNext /\ used' \subseteq {j1} /\ UNCHANGED <<st, images, draft>>
     \/ scene = "screenshot" /\ ReadNext /\ UNCHANGED <<timedVars, images, draft>>
     \/ scene = "draft" /\ DraftNext /\ UNCHANGED <<timedVars, st>>
  /\ UNCHANGED scene

ScenesSpec == ScenesInit /\ [][ScenesNext]_<<timedVars, st, images, draft, scene>>
=============================================================================
