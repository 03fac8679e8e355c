------------------------------- MODULE Draft --------------------------------
(***************************************************************************)
(* The prefill of a new period from screenshots: the images of one job are *)
(* read one by one (runRecognition) and merged into rows (BuildDraft in    *)
(* recognize_domain.go). What the model answers is arbitrary.              *)
(*                                                                         *)
(* A title stands for its normalised form, a figure for the number parsed  *)
(* from it: Absent when there is no text, Unread when it holds no number.  *)
(* Texts shown as they are (subtitle, period, quotes) and the order of the *)
(* rows are left out.                                                      *)
(***************************************************************************)
EXTENDS Integers, FiniteSets, SequencesExt

CONSTANTS
  Absent,        \* no text, no match, no count, no draft yet
  Unread,        \* a text without a number in it
  Screens,       \* what the model can make of one image
  MaxScreens,     \* images of a job
  Catalog,       \* bank_category rows of the bank: [id, title, kind]
  Aliases,       \* bank_category_alias: title -> canonical category
  BankName, OtherBanks,
  Alike          \* [guess, bank] pairs whose names overlap

ASSUME ScreensAssumption ==
  \A s \in Screens :
    /\ s # Absent /\ Len(s.rows) \in Nat /\ DOMAIN s.rows = 1 .. Len(s.rows)
    /\ \A i \in DOMAIN s.rows :
         {s.rows[i].category, s.rows[i].checked, s.rows[i].granted} \subseteq BOOLEAN
    /\ s.slots # Absent => s.slots.count \in Nat /\ s.slots.remaining \in BOOLEAN

VARIABLES
  images,        \* readings so far: [file, screen], no screen when skipped
  draft          \* Absent until the job has read them all

draftVars == <<images, draft>>

(******************************* one reading *******************************)

Legible(figure) == figure \notin {Absent, Unread}

Numbers(figure) == {figure} \ {Absent, Unread}

\* menus, summaries and partial scrolls prefill; a wheel has a rule of its own
Prefills(screen) == screen # Absent /\ screen.type \in {"menu", "summary"}

Wheels(imgs) == {n \in DOMAIN imgs : imgs[n].screen # Absent /\ imgs[n].screen.type = "wheel"}

\* mutant: the first spin is kept
FirstWheel(imgs) == IF Wheels(imgs) = {} THEN {} ELSE {Min(Wheels(imgs))}

\* a re-spin replaces the result
LastWheel(imgs) == IF Wheels(imgs) = {} THEN {} ELSE {Max(Wheels(imgs))}

Reading(n, row, kind, ticked) ==
  [image |-> n, row |-> row, kind |-> kind, ticked |-> ticked]

\* a row under the heading of what is already running is granted, not offered
MenuReadings(n, screen) ==
  IF ~ Prefills(screen) THEN <<>>
  ELSE [i \in DOMAIN screen.rows |->
          LET r == screen.rows[i]
          IN  Reading(n, r, IF r.granted THEN "special" ELSE "regular", r.granted)]

WheelReadings(n, screen) ==
  [i \in DOMAIN screen.rows |-> Reading(n, screen.rows[i], "super", TRUE)]

(********************************* the merge *******************************)

\* one screenshot lists a row once: the same title in the same image at another
\* percent is another offer
SplitsFromSameImage(d, n, percent) ==
  Legible(percent) /\ percent \notin d.percents /\ n \in d.images

Variant(rows, e) ==
  Min({v \in 0..Cardinality({d.key : d \in rows}) :
         ~ \E d \in rows : /\ d.key = [kind |-> e.kind, title |-> e.row.title, variant |-> v]
                           /\ SplitsFromSameImage(d, e.image, e.row.percent)})

Blank(key) ==
  [key |-> key, images |-> {}, match |-> Absent, checked |-> FALSE,
   percents |-> {}, caps |-> {}, rawPercent |-> Absent, rawCap |-> Absent]

FirstOf(old, new) == IF old # Absent THEN old ELSE new

Merge(d, e) ==
  [d EXCEPT !.images     = @ \cup {e.image},
            !.match      = FirstOf(@, e.row.match),
            !.checked    = @ \/ e.ticked \/ e.row.checked,
            !.percents   = @ \cup Numbers(e.row.percent),
            !.caps       = @ \cup Numbers(e.row.cap),
            !.rawPercent = FirstOf(@, e.row.percent),
            !.rawCap     = FirstOf(@, e.row.cap)]

\* what is no category is left out
AddRow(rows, e) ==
  LET key == [kind |-> e.kind, title |-> e.row.title, variant |-> Variant(rows, e)]
      old == {d \in rows : d.key = key}
      d   == IF old = {} THEN Blank(key) ELSE CHOOSE o \in old : TRUE
  IN  IF e.row.category THEN (rows \ old) \cup {Merge(d, e)} ELSE rows

AddAll(rows, readings) == FoldLeft(AddRow, rows, readings)

AddImage(rows, img) == AddAll(rows, MenuReadings(img.number, img.screen))

Menus(imgs) ==
  FoldLeft(AddImage, {}, [n \in DOMAIN imgs |-> [number |-> n, screen |-> imgs[n].screen]])

\* a spin's rows have a kind of their own and meet none of the menus'
Spin(imgs) == UNION {AddAll({}, WheelReadings(n, imgs[n].screen)) : n \in LastWheel(imgs)}

Merged(imgs) == Menus(imgs) \cup Spin(imgs)

(******************************** the draft ********************************)

\* the model's own match first, then the title, then an alias of the bank
MatchCatalog(d) ==
  LET of(title) == {c \in Catalog : c.title = title}
      found == IF of(d.match) # {} THEN of(d.match) ELSE of(d.key.title)
  IN  IF found # {}
      THEN LET c == CHOOSE c \in found : TRUE
           IN  [id |-> c.id, canonical |-> Absent,
                kind |-> IF d.key.kind = "regular" THEN c.kind ELSE d.key.kind]
      ELSE [id |-> Absent, kind |-> d.key.kind,
            canonical |-> IF d.key.title \in DOMAIN Aliases THEN Aliases[d.key.title] ELSE Absent]

Sole(figures) == IF Cardinality(figures) = 1 THEN CHOOSE f \in figures : TRUE ELSE Absent

Conflict(figures) == IF Cardinality(figures) > 1 THEN figures ELSE {}

Repeated(d, rows) ==
  \E e \in rows : e # d /\ e.key.kind = d.key.kind /\ e.key.title = d.key.title

Doubtful(figures, raw) == Cardinality(figures) > 1 \/ (figures = {} /\ raw # Absent)

NeedsReview(d, rows) ==
  \/ Repeated(d, rows)
  \/ Doubtful(d.percents, d.rawPercent) \/ Doubtful(d.caps, d.rawCap)
  \/ Cardinality(d.percents) = 1 /\ \E p \in d.percents : p > 100

RowDTO(d, rows) ==
  [title |-> d.key.title, read |-> d.key.kind, match |-> MatchCatalog(d),
   percent |-> Sole(d.percents), conflictPercents |-> Conflict(d.percents),
   cap |-> Sole(d.caps), conflictCaps |-> Conflict(d.caps),
   checked |-> d.checked, review |-> NeedsReview(d, rows), images |-> d.images]

Checked(screen) == Cardinality({i \in DOMAIN screen.rows : screen.rows[i].checked})

\* mutant: what is left is counted from the rows picked on any screen
SlotsOfJob(n, imgs) ==
  LET s == imgs[n].screen.slots
      read == {m \in DOMAIN imgs : imgs[m].screen # Absent}
  IN  IF s.remaining
      THEN s.count + FoldFunction(LAMBDA a, b : a + b, 0,
                                  [m \in read |-> Checked(imgs[m].screen)])
      ELSE s.count

\* "choose 5 more" states what is left, so the rows picked on that screen add up
SlotsOf(n, imgs) ==
  LET s == imgs[n].screen.slots
  IN  IF s.remaining THEN s.count + Checked(imgs[n].screen) ELSE s.count

Counted(imgs) == {n \in DOMAIN imgs : imgs[n].screen # Absent /\ imgs[n].screen.slots # Absent}

ResolveSlots(imgs) == {SlotsOf(n, imgs) : n \in Counted(imgs)}

Guesses(imgs) == {imgs[n].screen.bank : n \in {m \in DOMAIN imgs : imgs[m].screen # Absent}} \ {Absent}

\* only on positive evidence, and never when a guess confirms the chosen bank
MismatchedBank(guesses) ==
  /\ ~ \E g \in guesses : <<g, BankName>> \in Alike
  /\ \E g \in guesses, b \in OtherBanks : <<g, b>> \in Alike

BuildDraft(imgs) ==
  LET rows  == Merged(imgs)
      menus == {imgs[n].screen : n \in {m \in DOMAIN imgs : Prefills(imgs[m].screen)}}
  IN  [rows       |-> {RowDTO(d, rows) : d \in rows},
       slots      |-> Sole(ResolveSlots(imgs)),
       candidates |-> ResolveSlots(imgs),
       summary    |-> \E s \in menus : s.type = "summary",
       partial    |-> menus # {} /\ ~ \E s \in menus : s.framed,
       otherBank  |-> MismatchedBank(Guesses(imgs))]

(******************************* specification *****************************)

DraftInit == images = <<>> /\ draft = Absent

Add(file, screen) == images' = Append(images, [file |-> file, screen |-> screen])

More == draft = Absent /\ Len(images) < MaxScreens

\* the bytes were seen before in this job
Duplicate == More /\ \E n \in DOMAIN images : Add(images[n].file, Absent) /\ UNCHANGED draft

\* no such file, or not an image the job can decode
Skip == More /\ Add(Len(images) + 1, Absent) /\ UNCHANGED draft

Read(screen) == More /\ Add(Len(images) + 1, screen) /\ UNCHANGED draft

Finish == draft = Absent /\ draft' = BuildDraft(images) /\ UNCHANGED images

DraftNext == Duplicate \/ Skip \/ Finish \/ \E s \in Screens : Read(s)

DraftSpec == DraftInit /\ [][DraftNext]_draftVars

(******************************** properties *******************************)

Built == draft # Absent

\* screens whose rows count: menus, and the spin no later image replaces
InForce(n) ==
  /\ images[n].screen # Absent
  /\ \/ Prefills(images[n].screen)
     \/ images[n].screen.type = "wheel" /\ n = Max(Wheels(images))

RowsRead ==
  UNION {{images[n].screen.rows[i] : i \in DOMAIN images[n].screen.rows} :
           n \in {m \in DOMAIN images : InForce(m)}}

KindRead(n, row) ==
  IF ~ Prefills(images[n].screen) THEN "super"
  ELSE IF row.granted THEN "special" ELSE "regular"

\* The recognizer prefills and never decides: the rows of the draft name exactly
\* the figures on the screens in force, each under its kind and title, those of
\* conflicting screens included; nothing is lost in a merge and nothing of a
\* replaced spin is left.
ExactlyWhatWasRead ==
  Built =>
    LET seen == {x \in (DOMAIN images) \X RowsRead :
                   /\ InForce(x[1]) /\ x[2].category
                   /\ x[2] \in Range(images[x[1]].screen.rows)}
        shown(d) == ({d.percent} \ {Absent}) \cup d.conflictPercents
    IN  /\ {<<d.read, d.title>> : d \in draft.rows}
             = {<<KindRead(x[1], x[2]), x[2].title>> : x \in seen}
        /\ UNION {{<<d.read, d.title, p>> : p \in shown(d)} : d \in draft.rows}
             = {<<KindRead(x[1], x[2]), x[2].title, x[2].percent>> :
                  x \in {y \in seen : Legible(y[2].percent)}}

\* "Everything doubtful is surfaced, never resolved silently", of figures: a row
\* not marked for review carries the percent and the cap of every screen in force
\* that lists its title, and a slot count that of every screen that states one.
NothingResolvedSilently ==
  Built =>
    /\ \A d \in draft.rows :
         ~ d.review =>
           \A n \in DOMAIN images : InForce(n) =>
             \A r \in Range(images[n].screen.rows) :
               r.category /\ r.title = d.title /\ KindRead(n, r) = d.read =>
                 /\ Legible(r.percent) => r.percent = d.percent
                 /\ Legible(r.cap) => r.cap = d.cap
    /\ draft.slots # Absent =>
         \A n \in Counted(images) :
           draft.slots = images[n].screen.slots.count
             + (IF images[n].screen.slots.remaining THEN Checked(images[n].screen) ELSE 0)

\* what the review screen takes without a question, and what it asks about
Settled(d) ==
  [rows  |-> {<<r.read, r.title, r.percent, r.cap, r.checked>> :
                r \in {q \in d.rows : ~ q.review}},
   asked |-> {<<r.read, r.title>> : r \in {q \in d.rows : q.review}},
   rest  |-> <<d.slots, d.candidates, d.summary, d.partial, d.otherBank>>]

\* The same screen exported twice has other bytes and is read twice; "those cost
\* one redundant inference and then collapse in the title merge": the copy changes
\* nothing but the candidates of what is asked about anyway.
TwinsCollapse ==
  Built =>
    \A n \in DOMAIN images : InForce(n) =>
      Settled(BuildDraft(Append(images, images[n]))) = Settled(draft)

Swapped(n) == [images EXCEPT ![n] = images[n + 1], ![n + 1] = images[n]]

\* a screen that lists a title with a percent and again without one a number is in
HalfRead(n) ==
  \E r, q \in Range(images[n].screen.rows) :
    /\ r.category /\ q.category /\ r.title = q.title /\ KindRead(n, r) = KindRead(n, q)
    /\ Legible(r.percent) /\ ~ Legible(q.percent)

\* Screens come in the order they were picked from a gallery. Where no spin
\* replaces another, the order decides nothing but what is asked about anyway, and
\* whether something is when one screen is only half legible.
OrderDecidesNothing ==
  Built /\ Cardinality(Wheels(images)) <= 1 /\ ~ (\E n \in DOMAIN images : InForce(n) /\ HalfRead(n)) =>
    \A n \in DOMAIN images : n + 1 \in DOMAIN images =>
      Settled(BuildDraft(Swapped(n))) = Settled(draft)

\* The recognizer prefills and never decides: the draft holds what the screens in
\* force say, and what they disagree about is asked.
DraftIsWhatWasRead == ExactlyWhatWasRead /\ NothingResolvedSilently

\* Neither the order the screens were picked in nor one exported twice decides
\* anything but what is asked about anyway.
PickingDecidesNothing == TwinsCollapse /\ OrderDecidesNothing
=============================================================================
