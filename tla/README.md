# Sharespences, specified

TLA+ modules of the Sharespences server, TLC configurations that check them on
small instances, and TLAPS proofs for every instance. Every definition is
translated from the source (`internal/`, and where the page decides, `web/src/`); `PROJECT.json` names the lines.

Sharespences keeps track of bank cashback: which categories a bank offers this
month and which of them are picked, offers of partners with their screenshots,
perks such as taxi compensation with dated quotas, and points of sale with their
merchant category codes. Friends may see each other's cashback. It is one Go
process over PostgreSQL with a React client; a second process (the admin
sidecar) works on the same database.

Two facts of the code decide how it has to be modelled.

* **There are almost no transactions.** Queries go through a pool, every
  statement commits by itself under READ COMMITTED, and most operations are
  several statements: read, decide, write. Two requests interleave between any
  two statements, and a request acts on what it has read some statements ago.
  `friends.acceptTx`, `friends.CreateInvite` and the snapshot import open a
  transaction.
* **Part of the promises are constraints of the schema** (an exclusion of
  overlapping periods, unique keys, foreign keys with and without cascade), and
  part are checks in Go. A constraint holds under any interleaving; a check
  holds as long as what it read does.

So a statement is an action, a constraint is a guard or an alternative of it,
and what a request has read stays in its note until it is used.


## 1. Inventory

| Component | State it keeps | Operations | What is hard | What makes it correct |
|---|---|---|---|---|
| **Cashback records** `cashback/service.go`, `domain.go`, `http.go` | `offer_period`, `category_offer`, `selection`, `bank_category_alias`, `partner_offer`, links to attachments | create and delete of periods with their menu rows, selections within slots, slot overrides, partner offers with an activation moment, evidence attached and detached | check-then-insert without locks; multi-statement deletes that stop half way; lists read before they are deleted | periods of a client are disjoint; one selection per row; slots within the limit; nothing dangles; nothing crosses accounts; a screenshot goes with its last record |
| **Bank clients** `server/server.go` | `bank_client`, `card` | create, update, delete | the delete is refused or cascades, table by table | references resolve |
| **Attachments** `attach/attach.go` | `attachment` and a directory of files | upload, reclaim | two stores without a common transaction; crashes | a row always has its file |
| **Recognition** `cashback/recognize.go` | a map of jobs behind a mutex, one goroutine per job | start, poll, run, eviction | the job and its goroutine in step; deadline; panic; eviction inside other users' calls | a user is never locked out; what was polled is not taken back; every job ends |
| **Vision** `vision/recognizer.go` | one semaphore for the process | two passes over an image, an escalation ladder each, one shared retry at a smaller size | retries that multiply; soft and hard failures | bounded calls; rows once read survive |
| **Draft** `cashback/recognize_domain.go` | none | the readings of a job merged into the prefill of a period | screenshots overlap, repeat and contradict each other, in any order | nothing read is lost, nothing doubtful is settled, order decides nothing |
| **Friends** `friends/service.go` | `friend_request`, `friendship`, `friend_invite`, `friend_cashback_share` | send (with auto-accept), accept, decline, cancel, unfriend, links, sharing | mutual requests at once; grants against an ended friendship | acceptance is whole; a grant needs a friend; one live link |
| **Friend rate limiter** `friends/http.go` | a map of buckets behind a mutex | allow, evict | lazy refill, forgetting | forgetting cannot be noticed |
| **Perks** `perks/service.go`, `domain.go` | `perk`, `perk_quota` (two levels), `perk_event`, `perk_snapshot` | CRUD; the counters are derived on every read | a size locked by history; a child judged against a parent read earlier; two screens over different queries | children inside parents; the ledger whole; counters independent of row order; a reading is not contradicted by later news |
| **Points of sale and moderation** `mcc/service.go`, `mcc/import.go`, `admin/http.go` | `point_of_sale` with its origin and status, `mcc`, roles | submit, approve, reject, import of a scrape, the operator's edits | two verdicts on one row; a moderator demoted between the check and the verdict; an import that meets a submission | a verdict stands, who sees a point follows from it |
| **Snapshot import** `mcc/snapshot.go`, `mcc/snapshot_import.go` | `bank_category_mcc`, `bank_exclusion`, the journal `mcc_change` | read, plan, apply | a plan made of reads at five moments; repeated and overlapping imports; edits in between | import twice is import once; the journal adds up to the tables |
| **Ranking and read models** `cashback/service.go`, `cashback/friends.go` | none | overview, lookup, board of a code, friends' offers, entry screen | screens coded apart over queries of their own; up to eight statements behind one answer, while grants and friends change | the screens agree with each other and with what the writers accept; friends only add; nothing is shown that was not shared |
| **Picker catalog** `cashback/service.go`, `db/queries` | `bank_category`, `bank_category_alias` | list, create a private row, pick, suggest a mapping | private rows of all accounts beside the seeded ones; a row picked in one statement and cited in the next | what one account writes is invisible to another; a menu row cites a row its owner can see |
| **Seed** `seed/seed.go`, `seed/mcc.go` | banks, programs, tiers, canonical categories, seeded rows, the dictionary | one run per deployment | a thousand single statements while the app serves; stopped anywhere, run twice, run by two releases | the shared data ends as the release says; users' rows are spared |
| **Accounts and sessions** `auth`, `server/server.go`, `web/src/auth.tsx` | `user`, `sessions` (a library's table); the profile on the page | register, sign in, sign out, ask for the profile | requests of one browser overlap and their answers are lost or reordered; three normal forms of names | served as shown; tokens never change hands; a person is one account |
| **Admin sidecar** `admin` | the same database | edits of roles, dictionary, links, journal, points, private rows | edits between the reads of an import and its writes; a binary of another release than the seed's | what the seed owns is refused; references resolve |
| Web clients, i18n, static hosting, migrations | - | - | - | - |

How they interact: every component writes tables of its own; they meet at
`bank_client` (periods, partner offers, perks and shares refer to it, its delete
is refused or cascades), at `attachment` (records link to it and reclaim it),
and at the backend slot (jobs of all users queue for it). The seed, the picker
and the sidecar meet at `bank_category` and the dictionary. Recognition reads
attachments and writes no table: its draft is returned by polling and comes back
as ordinary create calls.


## 2. Modules

| Module | What it is |
|---|---|
| `CashbackStore` | the tables of cashback, attachments and bank clients, and each SQL statement as an action with the constraints of the schema |
| `CashbackService` | the requests: for each goroutine a note `req[r]` of where it is and what it has read; one action per statement of each handler; `Restart` |
| `Cashback` | what is promised of them |
| `CashbackEvidence` | the same with a history variable: which screenshots were ever linked |
| `CashbackSlots` | the same with three: the periods whose slots or kinds changed, those for which two selections were under way at once, and the selections whose call overrode the check of the date |
| `Ladder`, `Screenshot` | the answer of the model to one call, and the read of one screenshot |
| `Recognition` | the job store, job goroutines, deadlines, the backend slot, time, panics, restarts |
| `Deadlines` | the same with two history variables: the time of the deadline that went by outside the job's calls, and what its calls have left of the budget of a screenshot |
| `Circle` | the abstract promise of friends: who asked whom, who is whose friend, who sees what |
| `Friends` | the four tables and the calls, statement by statement; implements `Circle` |
| `TokenBucket` | the abstract promise of a rate limiter |
| `RateLimit` | the lazy limiter that forgets stale buckets; implements `TokenBucket` |
| `Draft` | the images of a job and `BuildDraft` as operators over what was read on them |
| `Ranking` | the rules of `domain.go`: windows, ranks, supers, winners, availability, calendars |
| `Screens` | the five screens, each an operator over what its request has read |
| `Viewing` | the tables behind the screens and the statements of one request |
| `Accounts` | users, sessions, browsers, and requests statement by statement |
| `Seed` | the statements of a seed run over the tables of reference data |
| `Catalogue` | seed runs, users of the picker and the operator on these tables |
| `Perks` | perks, windows, events and readings, statement by statement |
| `PerkCounters` | the counters and the two screens, derived from the rows of `Perks` |
| `MccStore` | the dictionary, the codes of the catalog's categories and the points of sale, with the operator's edits; shared by the next two |
| `Verdict` | the abstract promise of a point of sale: who sees it in which standing |
| `Points` | submission, moderation, the import of a scrape, roles; implements `Verdict` |
| `Snapshots` | the import of a bank's document: the reads, `PlanImport` and `applyPlan` as operators over them, the journal |
| `Mcc` | the last two on one dictionary, with a history variable: whether imports alone wrote the tables, one after another |
| `*Proofs` | the theorems: `CashbackProofs` (with what a request has checked), `RecognitionProofs` (with the ladder and the draft), `FriendsProofs` (with the limiter), `PerksProofs`, `MccProofs`, `CatalogueProofs`, `AccountsProofs`, `ViewingProofs` (the screens and the ranking) |
| `MC*` | small instances |

Correspondence in `CashbackService` and `Friends`: an operation of one
statement is one action. An operation of several starts with the action named
after it, which models its first read and the early returns behind it, and goes
on with one action for every further statement (`ValidateNewPeriod`,
`InsertPeriod`, ...). A call refused by its first read changes nothing and is
left out. What a statement returns stays in the note (`req[r]`, `calls[g]`) and
may be stale when it is used. A statement that the schema refuses ends the call
(`Abort`): what earlier statements wrote stays. Ids (and clock readings) are
drawn from finite pools and never given twice (`spent`); an instance ends when
its pools are empty, which is why deadlock is not checked. (`catalogue` has no
such end, and there it is.) Queries are mapped to the functions generated from
them in `internal/db`.

`Screens` takes a request's note `n` and returns what the handler would: `own`
rows, the grants and rows `seen` of friends (the overview asks for them twice),
`partners`, the day it took at its start. `Viewing` fills the note one
statement at a time; `Glance` fills it at once. Days, percents and titles are
numbers, a title being its place in the order; a period, its calendar and the
share window are ranges of days, months of `MonthDays`.

`Accounts` writes a name or an address as a word and the way it was typed
(capitals, spaces, leading at-signs); the normal forms fold that. A request
loads its session when it starts and commits what it changed before it answers,
as the library's middleware does; answers may overtake one another or be lost. The
page may ask for the profile at any time (`AskMe`), and that answer names a user too:
the one of the session as it was when asked, however late it comes (`AnswerMe`). An
answer that changes the session makes the page give up the profiles it still waits
for (`Queries`: registration, sign-in and sign-out each clear the query cache).

`Seed` keeps banks, programs, tiers and canonical categories in one table of
facts (a key, the keys it needs, the columns a refresh overwrites), because the
code treats them alike: insert what is missing, refresh the rest. What
`Catalogue` assumes: deployments only go up, two runs overlap only of one
release, an insert that collides ends its run (`BreakSeed`), the app serves while
the seed runs, and the sidecar restarts at any time after the seed of its release
has started. A title that a row of the operator's holds is not refreshed
(`Squatted`); in the run the operator types other titles.

Abstracted everywhere: names, notes, percents, caps, texts and pictures, unless
a property is about them. Days are small numbers, contents of files are tokens.

`Recognition` counts time in ticks and keeps what is left of a timer, so that
the clock needs no bound. `UpdatedAt` becomes an age, counted up to the first
that evicts; that is all the code asks of it. The reader's `select` may take
either branch when slot and deadline are ready together, and so may the model.


## 3. Runs

TLC needs small sets; each run says what it asks. A run with *scenes* holds
several small instances of the same modules side by side: the variable `scene`
is chosen at the start, never changes, and the step is a step of that instance
(`INSTANCE ... WITH` smaller constants). One run then covers questions whose
product would be out of reach. Symmetry permutes ids, and users where nothing
sets one apart; ids of a pool are never compared but for equality. No run with a
liveness property uses symmetry.

| Run | Instance and bounds | Shows |
|---|---|---|
| `scenes` | two goroutines, one client, two periods out of three spans, one menu row, two selections, overrides, restarts; slots, evidence and activation with one request at a time; three rows of a period of one slot with two; two accounts and whatever ties two records (restarts included), and two accounts whose menu is edited, with two | the schema's promises under any interleaving; slots are exceeded only in races, by less than the number of goroutines, or where a limit or a kind has changed; selections are dated inside their period but by override; every unlink path reclaims and a row always has its file; an activation moment stays; links and partner offers stay within an account; a request touches only its own account's rows |
| `evidence_race` | two goroutines, one period, one screenshot | **violation**: finding 1 |
| `jobs` | two users, two jobs of one or two screenshots, one rung; one job alone and one screenshot, two rungs; a draft of four images out of thirteen screens | store and goroutine in step, one call at a time, polling, ends are final, the deadline covers the ladder but for the time lost in the queue, calls bounded, rows survive; the draft is what was read |
| `jobs_end` | two users, one screenshot each or one that is missing, fairness | every job ends |
| `circle` | three users, two goroutines, two friendships, two requests; links of one user; limiter of three callers; one browser with two requests (the profile among them), two accounts, two tokens, four ways to fill the form | the tables keep the promise of `Circle`; acceptance whole; history stays; live links bounded; eviction unseen; served as shown; tokens stay true; a person is one account |
| `invites_race` | two goroutines | **violation**: finding 2 |
| `perks` | two users, two perks, two windows, two goroutines; a pool and its child with two events and a reading | the tree and the ledger, the counters, the readings |
| `size_race` | a pool and its child, two goroutines | **violation**: finding 3 |
| `documents` | six documents of a bank (two editions of one, a sibling, a range, two small ones) over four codes and three titles, three imports in a row; two imports at once, with the operator's edits of the tables, and in a row with edits of the journal; two points, two users, two goroutines; one import, one document, two codes, one point and the operator at once (`Mcc`) | types and keys hold while a code is deleted, linked, submitted and imported at once; a document applied leaves nothing to plan; the journal adds up to the tables; a verdict stands |
| `reimport` | a document with two categories of one title | **violation**: finding 4 |
| `screens` | a viewer with two clients of two banks (shifted periods, a super, a base rate, two partner offers), a friend with two rows, every combination of rows, picks and grants on three days; one request of each of the five kinds over a row of the viewer and a friend's of one category, two days | friends only add, in the feed, a lookup and the board; offered is pickable; screens tell the same; torn answers are harmless, on the browse screen as on the others |
| `catalogue` | two seed runs over two releases and a user; one run, two small releases, a user, the operator and the sidecar's restart; two users and the operator after the seed | the shared data is the release's; no rename shows both spellings; the seed spares users; a menu row cites what its owner sees; accounts are invisible to each other |

Why the bounds are enough. The hazards are of two requests (a reader that acts
on what a writer has changed), so two goroutines interleave in every way the
code can; the one property that counts goroutines, `SlotsAndDates`, is
stated in their number. Two periods, rows or offers of each kind are enough for
one that is deleted while another is used; pools hold one id more than is alive
at a time where a delete followed by a create matters (`circle`: two friendships
of the same pair after one another). Two users are enough for "mine" and "not
mine", three for a friend, a stranger and a requester. Two rungs are a first and a last;
where two users share the backend one rung does, as every rung takes the slot anew;
two screenshots a first, a duplicate and a last. Two events and one reading are
enough for an order of two re-ratings, and `LastRatingCounts` tries every
permutation of them.

A session needs two tokens to be replaced and come back, a race two requests of
one browser; a third token repeats the second. A release is followed by one
other, which changes each kind of reference data once (a fact, a mapping, a
title renamed, a title whose kind and mapping change, a mapping retired, a code)
and meets one row left from before private catalogs. Four screenshots are a
menu, its overlap, a contradiction and a spin; `OrderDecidesNothing` swaps any
two neighbours, so all orders are reached. In the second instance of `screens` the step
after an answer closes it: what follows changes nothing that is on it.

The documents of `documents` differ in what a plan can do to a row: a code that
comes, goes, or changes its note, a lone unknown code and one under two
categories, a range of unknown codes (`BandRun` is 2 there, 10 in the code), a
glossed code, a title without a catalog row, an exclusion that comes, goes, or
whose kind is absent. `JournalTrue` speaks of states up to which imports came in a
row and nobody edited by hand, which is not journaled.

In the scene of `perks` with counters the calls run one after the other
(`OneByOne`), because `ReadingsStand` is a promise to a user who records one thing
after another; `size_race` shows what an overlap does. In `scenes` the
instances `evidence` and `activation` run one request at a time for the same reason: what the code
promises there does not survive overlapping requests (finding 1 and the
activation moment, section 6), and the runs show that it does hold without them.
The instance `slots` is serial too, to reach further: two menu rows change their kind,
are selected, deleted and created again. Two requests for the slots of one period are
in `limit` and, with overrides and restarts, in `menu`.

Fairness. Only `Recognition` states any: a goroutine that can move moves
(`WF(Local(j))`, Go's scheduler is fair to runnable goroutines), a due timer
fires (`WF(TimerFires(j))`, `context.WithTimeout`), and time passes (`WF(Tick)`).
Nobody has to poll, and nothing is assumed of the backend: it may never answer.
`Tick` waits for due timers, and with `SlowLocal = FALSE` for goroutines that
can move: work outside the backend takes no time next to calls of minutes. Only
the theorem `DeadlineCovers` needs that assumption; `JobsEnd` is checked without it.
The other specifications are safety only: HTTP clients owe nothing.


## 4. Properties

The comment above each names the code. Where a run's property has several
parts, each part is a definition of its own with its own comment.

*Cashback.* `TablesConsistent`: `PeriodsDisjoint`, `OneSelectionPerOffer` and
`RowsReferenced`, what the schema backs. `SlotsAndDates`: a period
whose slots and kinds nobody changed is over its limit only if two selections in it
were under way at once, and then by fewer than there are requests; a selection is
dated outside its period only if its call overrode that check.
`EvidenceKept`: `UnlinkedReclaimed` for one request at a time, and `RowHasFile`
through every restart. `TiesStayInside`: `LinksSameOwner` and `PartnerOnOwnClient`.
`ActivationKept`, `OthersUntouched`.

*Recognition.* `StoreInStep`: "running" in the store if and only if the
goroutine exists, through eviction, panic and restart; one of a user, one call
of the backend at a time. `PollMatchesWork`, `EndsStand` (an end is final, and
"done" means that every image was read or has a note why not),
`DeadlineCoversLadder` (the budget of a screenshot, calls x timeout, outlasts the
ladder, and the deadline of the job, images x budget, leaves a screenshot its budget but
for the time lost outside the job's calls), `CallsBounded`, `RowsSurviveSlots`, `JobsEnd`.

*Draft.* `DraftIsWhatWasRead`: the rows name the titles and figures of the
screens in force, all of them and no others (`ExactlyWhatWasRead`), and a row that
is not marked for review carries the figures of every such screen
(`NothingResolvedSilently`). `PickingDecidesNothing`: a screen exported twice
changes nothing but the candidates of what is asked about anyway
(`TwinsCollapse`), and neither does the order of two images where no spin replaces
another (`OrderDecidesNothing`), unless one screen is half legible (section 6).

*Friends.* `KeepsPromise`: refinement of `Circle`, with the pairs of
`friendships`, the pending requests and the shares seen by each viewer as its
state. `AcceptanceIsWhole`, `HistoryStays`, `ShareOnOwnFriendship`,
`InvitesBounded` (at most one live link per overlapping creation),
`EvictionUnseen`: refinement of `TokenBucket`, with the bucket filled to now as
its level.

*Accounts.* `ServedAsShown`: a cookie that opens a session is served as the user
the page shows, whichever sign-ins, sign-outs and questions for the profile raced,
came late or were never answered. `TokensStayTrue`: a token keeps its user, and one that ended
does not come back. `PeopleAreOne`: no two accounts of one normal form
(`OneAccountPerPerson`), and every spelling finds the one (`AnySpellingFinds`).

*Screens.* `FriendsOnlyAdd`: without the friends every row of the feed has the
same own part (`HidingFriendsFallsBack`), own cards, offers, full rows, base rates and
footnotes of a lookup and of the board are the same (`HidingFriendsKeepsAnswers`), and a
friend is shown only if better (`FriendOnlyIfBetter`). `OfferedIsPickable`: the verdict of a screen is the
answer of `CreateSelection`. `ScreensTellTheSame`: feed and lookup name the same
winners, the board accounts for each client once, three queries count the same
slots, a menu is asked for only while it is open and empty. `TornIsHarmless`: an
answer made of several reads shows a friend's row only if it was shared while the
request ran (`ShownWasShared`: cards, full rows and offers, and the chips of the
browse screen, which say no cap of a friend's row anywhere), and everything that stood still is on it
(`SteadyIsShown`). The last is said of a category that the viewer has nothing in with
the exception the code makes: it gets no logos and names one friend's row, the best, so
that any other is on it by being no better.

*Catalogue.* `SharedIsReleased`: after a completed run of the newest release every
fact, title, mapping and code is as it says, whatever ran before or beside.
`NeverBothSpellings`, `SeedSparesUsers`, `CatalogHolds` (keys, and a menu row cites a row
its owner can see), `OthersChangeNothing` (picker, reference data and suggestions
of one account do not change by what another does).

*Perks.* `WindowsWhole`: `ChildInsideParent` and `LedgerWhole`. `CountersTrue`:
`LastRatingCounts` (against a reference that picks the last re-rating, for every
order of the rows) and `ScreensAgree` (overview and history, over different
queries, show one number). `ReadingsStand` (a reading's verdict changes only by an
event dated up to it).

*Points and documents.* `KeepsVerdict`: refinement of `Verdict`, with the
visibility rule of `GetPointOfSale` as its audience. `ReimportEmpty`: in every
state that imports and edits reach, a document applied leaves an empty plan.
`JournalTrue`: the journal's comings minus its goings are the rows of the tables, as
long as imports do not overlap and nobody edits by hand, whatever else goes on.
`MccTypeOK` holds the keys between the tables, and that only a user's submission
has an author.

Type invariants of the other modules are proved (section 5) rather than run.

Every property has a mutant in `PROJECT.json`: a definition with a plausible bug
in the code, kept beside the original and marked `mutant` in a comment, under
which TLC finds the property violated.


## 5. Proofs

TLAPS proves, for all values of the constants that satisfy the named
assumptions (pools of any size, any number of users, goroutines, releases and
documents):

| Module | Theorem | Under |
|---|---|---|
| `CashbackProofs` | `TypeCorrect`, `PeriodsNeverOverlap`, `NothingDangles`, `TablesStayConsistent`, `ServiceImplementsStore`, `TiesNeverCross`, `OthersStayUntouched`, `ContentCanBeRead` | any interleaving, restarts included |
| | `SlotsAndDatesHold` | any interleaving, overrides, limits and kinds that change; the rest is in the property |
| | `SelectionsStayDated` | no call overrides the check of dates (`Backfills \subseteq {FALSE}`) |
| | `OvershootIsBounded`; `OneByOneWithinLimit` | limits and kinds stand (`LimitsFixed`); and one request at a time |
| | `ActivationStays` | one request at a time |
| | `EvidenceStaysKept` | one request at a time, no restart |
| `RecognitionProofs` | `CallsAreBounded`, `RowsAlwaysSurvive`, `StoreStaysInStep`, `PollsMatchWork`, `EndsAlwaysStand` | any answers, panics, evictions and restarts |
| | `JobsReadAsPromised`, `JobsReadSafely`: what a goroutine does with a screenshot is a read of `Screenshot`, so `CallsBounded` and `RowsSurviveSlots` hold in every job | the same |
| | `DraftTellsWhatWasRead`, `PickingNeverDecides` | any number of images and screens of any rows |
| | `BudgetCovers` | any number of users, jobs and screenshots, a ladder of any length, work of any duration |
| | `DeadlineCovers`: no goroutine is past its deadline | one user, and work outside the backend takes no time |
| `FriendsProofs` | `TypeCorrect`, `SharesAreOwn`, `FriendsImplementCircle`, `AcceptedTogether`, `AnswersStay`, `LinksAreBounded`, `LimiterForgetsNothing` | any interleaving |
| `PerksProofs` | `TypeCorrect`, `ChildrenStayInside`, `LedgerStaysWhole`, `WindowsStayWhole`, `CountersStayTrue` | any interleaving |
| | `ReadingsAlwaysStand`, `SizesStayDated` | calls one after the other (`SerialSpec`) |
| `MccProofs` | `PointsTyped`, `PointsImplementVerdict`, `VerdictIsKept`, `MccStaysTyped` | any interleaving |
| | `ReimportStaysEmpty` | a document names a catalog row once (`TitledOnce`) |
| | `JournalStaysTrue` | that; the rest is in the property |
| | `JournalAddsUp` | that, for imports one after another (`SerialSpec`) |
| `CatalogueProofs` | `CatInvariance`, `CatalogAlwaysHolds`, `UsersAreSpared`, `AccountsStayApart`; `SharedArrives`, of `ReleaseArrives` and `DictionaryArrives`; `NeverBothShown` | any interleaving, seeds stopped anywhere |
| `AccountsProofs` | `TypeCorrect`, `ServedIsShown`, `TokensKeep`, `OnePerPerson`, `AnySpelling`, `PeopleStayOne` | any interleaving |
| `ViewingProofs` | `FriendsOnlyEverAdd`, `OfferedIsAlwaysPickable`, `ScreensAlwaysTellTheSame`, `TornAnswersAreHarmless` and their parts, among them `OnlyTheSharedIsShown`, `WhatStoodStillIsShown` | any rows, calendars, grants and interleaving |

The hypotheses in the last column are those under which the runs check the same
properties, and each is needed: without them `SlotsWithinLimit`, `ActivationKept`,
`UnlinkedReclaimed` and `AppliedIsNoOp` fail, which is what section 6 tells.

How the arguments go, and why the properties are not inductive themselves:

* **Cashback, the schema's half.** Every step of `CashbackService` is a statement of
  `CashbackStore` or leaves the tables alone (`ServiceImplementsStore`). The promises
  are then proved of statements only, which is the point: they are kept by the
  schema, whatever the requests believe.
* **Cashback, whose rows these are.** `OwnInv`: keys, tokens, and for links, partner
  offers and notes that both ends are of one account (`LinksMine`, `PartnersMine`,
  `NotesMine`). A note keeps its truth because rows change no owner and ids are not
  given twice (`Aging`): what a request looked up is its own row, or none. From that
  follow `TiesStayInside` and `OthersUntouched`, although most statements carry no
  user condition; `Tokens` says that a file is removed only after its row.
* **What a request has checked.** Dates: a note past the check holds a day inside
  its period or an override (`Dated`). Slots, period by period: the kind and the
  limit a note has read are still so while nobody shifts them (`Told`), and regular
  selections plus notes past the count (`Granted`) exceed the limit by at most n
  (`Bounded`), as each note was granted a slot against a count that misses at most
  the n others: all other requests, or none where no two selections were ever under
  way at once (`Alone`). So n is the number of requests less one for any period that
  `moved` does not hold, and 0 for one that `raced` does not hold either. Activation:
  `Recorded`, the moment read is still the row's. Evidence: `Plan`, whatever lost
  its last record is on the list of the running request, in the order the handler
  will go through.
* **Recognition.** `RecInv`: ids once, jobs and goroutines fit each other
  (`JobsFit`), one running job of a user, one call at a time, and `CallsPaidFor`,
  which ties the rung a goroutine stands on to the calls it has made.
  `EndsAlwaysStand` needs that the images a goroutine has behind it are those its
  batch lists. `Recognition` implements `Screenshot` read by read, with
  the ladder of the goroutine's note as its state (`ReadOf`): between two reads the
  note begins a new one, anywhere else it answers or stutters (`LadderMoves`). `BudgetCovers`: the deadline and the time lost together are at least a whole
  budget for every screenshot behind the one in flight (`Rest`) and what is left of
  the budget of that one, which is at least a timeout for every call it may still make
  (`Spare`, `InTime`). A step that takes no time carries these numbers on
  (`StepInTime`), a tick takes one from the budget or adds one to what is lost
  (`TickInTime`). For one user nothing is lost, since a tick is one of its call.
* **Calls of one screenshot.** `calls <= 3 * LadderRungs` says nothing of the
  ladder in progress. The invariant counts: the calls of ladders behind
  (`Paid`/`Behind`: two at most before the second pass, one more if the image
  was shrunk) plus the rungs of the one in progress. Only one ladder of the two
  passes can restart, because the shrink is remembered across them; that is why
  the bound is three ladders and not four.
* **Draft.** A fold over readings is a chain of steps (`RowByRow`, `ImageByImage`), and
  what each step keeps is `Holds`: keys are unique, every row is drawn from readings of
  its kind and title and has a figure only if one of them has it (`Drawn`), and
  every reading has a row that carries its figures (`Carries`). `Variant` is bounded,
  and exists because among more keys than rows one is free (`FirstVariant`). Kinds
  keep a spin apart from the menus (`ApartHold`). That nothing is settled follows:
  if a title has one row only, all its readings are in it, and if a row has one
  figure, all of them say so (`SoleIs`).
* **Order and copies.** Rows of one title are rows of other images in another order, so
  the merges themselves differ; what is compared is what the form takes and asks
  (`Matches`). In `Holds` a title is split only if it was read with two
  percents (`SplitOver`), which is where a half-legible image would count; then
  both merges ask, and otherwise both have one row, with the same figures
  (`OrderMatches`). The readings of a copy are absorbed: a title of one row keeps that
  row, since its percents are there already, and one of several keeps several
  (`Absorbed`). A copied spin replaces the spin, and its rows are the same but for the
  number of their image, step by step (`Mirrors`).
* **Friends.** `NoteOK`: what a call has read is still true when it writes, or
  no longer matters. Whose client it is does not change. The friendship read by
  `SetSharing` may be gone, but ids are not reused, so a row with that id is that
  friendship and its user is a member. Unique keys (`Keys`) make a pair's pending
  request and friendship single, which the refinement needs: deleting *the*
  friendship ends the pair in `Circle`.
* **Links.** A count of links says nothing of who made them. `Minted` supposes a
  map from links to the goroutines that made them, under which each goroutine has
  one link of a user, and the next call of that goroutine has it on its list to
  delete; then links are fewer than goroutines by counting.
* **Limiter.** A bucket stale enough to be dropped is full (`Rate * Stale >= Burst`,
  which 10/min, 20 and 10 min satisfy), so dropping it leaves `Level` as it is; a
  tick raises `Level` by one refill.
* **Perks.** `Judged`: a child about to be inserted was judged against a row;
  a row that has that id now agrees with that one in all but the size, which the
  judgement does not look at. With the foreign key, which demands that the row
  exists, this keeps children inside parents, although the key does not compare
  dates. `LedgerStaysWhole` needs `ChildrenStayInside`: the cascade of a delete
  goes one level down, and is enough because there are two.
* **Counters.** A fold over the rows is a chain of steps (`FoldExists`), and after `n`
  rows `EffectiveSize` has found the latest re-rating of the first `n` and the sum of
  their extras (`SizeIs`), `Consumed` the sum of their uses (`ConsumedIs`). As each
  row of a set is in the list once, the answer is one of the set (`Balance`), in
  whatever order the list has them, provided two re-ratings are never equal in date
  and id: `Numbered`. The two queries fetch different rows, but the same of each
  window they both show, since a child is of the perk of its parent
  (`ScreensDoAgree`). The answer to a reading is then a function of those rows and
  of the window's size; the size stands because a window with a history is in no
  call about to patch (`Undisturbed`), which holds only while calls do not overlap.
* **Points.** Two moderators, the operator and an import judge one row by
  statements that carry their condition (`WHERE status = ...`), so a stale queue
  or a revoked role does no harm to the row. What the refinement needs of the
  tables is in the type invariant: a point has one row, and an id that was never
  given out has none. `Agree` says when two tables tell the same of a point;
  each statement is shown to leave all but its own points in agreement, and to
  move its own (`Judges`, `Appears`, `Disappears`, `Scraped`). A scrape is a
  `Publish` of the points that had no row, and silent about the others. Documents
  and edits of the dictionary change no standing (`VerdictIsKept`).
* **Documents.** `DocInv`: types, and the journal is of titles and codes. A plan is
  of reads at five moments, so keys are shown of the statements: what a plan adds
  to a table in another state is refused, or is a row the keys allow. For
  `ReimportEmpty` a row of the catalog must answer to one category of the document,
  which is what `TitledOnce` says: then each category has the codes it asks for and
  no other once the plan is applied (`MembersSettled`), and each unknown code is
  told under the first category that names it (`UnknownTold`). The journal adds up because an import that
  runs alone still reads what the tables hold (`Current`), so that each entry it
  writes is one change of one row; exclusions are told by their source (`Sourced`).
  In `Mcc` submissions, verdicts and the dictionary move beside it
  (`JournalStaysTrue`): the codes an import has read may be stale, and `Current`
  says nothing of them, for it is by links and exclusions that a change is journaled.
* **Catalogue.** Rows change neither id nor bank nor owner (`Ages`): what a request
  has seen of the row it picks is true of it as long as there is one, and the
  statement that cites it fails on the foreign key when there is none. A seed writes
  rows without an owner only, the desk what no account owns or what it is asked for;
  what is shown to an account is a function of its rows and of those, which is how
  `AccountsStayApart` goes, action by action. Ids of menu rows are of their account.
* **Where a seed ends.** A statement that meets nothing it builds on does nothing, so
  the sequence is shown to put each after what it refers to, and titles after
  retirements (`RunIsAll`, `Follows`). Then each brings about what it says (`Does`)
  and none undoes what another of the release has (`UndoesNothing`): the invariant
  `SeedInv` is that running seeds are of the newest release, what is behind them
  holds (`HasDone`), and after a completed one all of it does (`AllDone`). Users write
  rows with an owner only and the desk only rows that are not the seed's (`Frame`);
  those hold titles of orphans or of the operator (`Strangers`). A rename shows one
  spelling at a time for every release at once: a run of a later one brings a new
  spelling only after the old one is retired, and what the seed's rows are called is
  a title of a release that has been deployed (`Titled`).
* **Accounts.** `ServedAsShown` is not inductive: it says nothing of tokens on
  their way. `KeptInv` says that a request about to answer carries a token whose
  session, if there is one, is of the user it will show; `FreshInv` that a token
  not yet committed is in no cookie, in no session and in no other request, which
  holds because tokens are never drawn twice; `AskedInv` that a profile on its way is of
  whom the browser is served as, since any answer that changes the cookie makes the page
  give it up; `NotesInv` that a request not yet checked holds a form, `StoreInv` that what ended is not in the store. So a
  late answer can bring back an old cookie but never one that opens another's
  session. That two accounts are never one person needs of the tables only
  `RowsInv`: a row is the normal form of what was typed, and the unique keys
  compare normal forms, however many registrations race.
* **Ranks.** Most of what the screens say is of a first place, so lists must be
  shown to exist: keys of a rank end in what tells two entries apart, hence of two
  one is before the other, and an entry stands at one more than the number of those
  before it (`Below`), which runs through every place by counting. Stacking adds the
  percents of a finite set; that the sum is a number is shown by well-founded
  induction over its parts. The supers of a friend are not added to those of
  the viewer because a client is of one user: cards of either side are stacked apart
  (`StackedApart`; partner offers take no part), so the own part of a ranking is the
  ranking of the own part (`RankedApart`), and friends move nothing of it
  (`AnswersStayWhenFriendsHide`). Periods of a client do not overlap
  (`PeriodsNeverOverlap`), so that on a day each count of slots is of one period,
  over whichever query it goes.
* **Torn answers.** `Asking`: a picture of the friends' rows was taken while the
  request ran, under the grants there were then, which are among those there ever
  were since it began (`TakenSince`), and the shared window only moves forward; entries
  and chips are of rows of such a picture, inside its window (`ChipsFit`). For
  `WhatStoodStillIsShown` the invariant is `Held`: the number of statements left
  tells what has been read, so that the friends read hold the owners of standing
  grants, the grants read hold those, and the first picture holds the rows that
  nothing touches until the second.

Assumptions, each named and in the module that declares the constants; TLC
evaluates them on every run of the module. Pools are disjoint where two are used as
one type, null is no id and no note, and bounds are numbers: `StoreAssumption`,
`NullIsNoId`, `ServiceAssumption`, `FriendsAssumption`, `NoBucketAssumption`,
`RecognitionAssumption`, `NoteAssumption`, `RungsAssumption`, `ScreensAssumption`, `PerksAssumption`,
`MccAssumption`, `PointsAssumption`, `AccountsAssumption`, `CatalogueAssumption`,
`RankingAssumption`.
About the code or its data:

* `OffersAssumption`, `PeriodsAssumption`, `GrantsAssumption`, `ClientsAssumption`: the
  rows of `Viewing` are rows the writers can have left: ids are keys, a period is
  of one client and a client of one user, periods of a client do not overlap.
  `PartnersAssumption`: the id of a row stands for its place in the list that the stable
  sort is given, where the rows of one table come after those of the other.
  `DaysAssumption`, `CategoriesAssumption`, `NullAssumption`: types.
* `RateAssumption`: a stale bucket is full (above).
* `GoroutinesAssumption`: a process has finitely many goroutines, so that links can
  be counted against them.
* `SnapshotAssumption`: titles that differ name different catalog rows
  (`CatalogOf`), a code has one note in a category, and a value of an exclusion is
  of one kind: codes are digits, classes are not.
* `ReleaseAssumption`, `OrphansAssumption`: releases are lists of rows of their
  tables; rows from before private catalogs have an id, a bank and no owner each.
* `SeedDataAssumption`: a release names a row once and does not list what it
  retires, refers to rows of its own, and gives a key one value (`Consistent`; the
  lists of seed.go do). Of several releases: none lists a title that an earlier one
  retired, and a new spelling stands beside the retirement of the old one. The code
  checks neither; a release that breaks the second shows both spellings.

Only model-checked:

* `JobsEnd`: liveness is out of the prover's reach. Every other property of a
  passing run is a theorem.


## 6. Findings and other disagreements

1. `evidence_race`: "every unlink path has to end here" (`reclaimAttachments`),
   but `DeleteOfferPeriod` reclaims the list it read first. A screenshot attached
   in between loses its link and stays, with nothing left to delete it.
2. `invites_race`: "the live link (at most one by construction)", but two
   `CreateInvite` transactions do not see each other's uncommitted row and no
   unique key covers the live links of a user.
3. `size_race`: a size is patched "only while the window has no history", but
   the history is counted in one statement and the size patched in the next.
4. `reimport`: "Re-importing an already-applied snapshot is a no-op"
   (snapshot_import.go), but two categories of a document whose titles normalize
   to one catalog row, which nothing refuses, are each planned as if they were
   alone: the second import removes the codes of both, the third adds them again,
   each with journal rows for changes the bank never made.

Met while modelling. No run is spent on these; the models follow the code.

* `CreateSelection` "enforces invariants 1 and 2 (hard rejects)" (service.go),
  but two calls for the last slot both count before either inserts;
  `SlotsAndDates` says how far this goes. `UpdateCategoryOffer` can also
  turn a selected row regular without counting slots, in calls that do not
  overlap (`moved` in `CashbackSlots` notes the period).
* Of two overlapping updates of a partner offer the second moves the activation
  moment the first recorded (the `activation` scene is serial).
* `CurrencyUnknown` is "never compared with anything" (domain.go), but
  `ComparableOffers` keeps the rows whose currency equals the candidate's, and
  unknown equals unknown; the feed's sort, too, ranks unknown with rubles.
* `RankActiveSelections` wants "entries of ONE canonical category"; the overview
  ranks all selected rows without a canonical category at once, and the board all
  rows of a code, so a super of one category is added to a pick of another.
* The draft surfaces "everything doubtful, never resolved silently", but when two
  screens name different catalog rows for one title the first is taken without a
  question. And after one image split a title into two rows, a scrolled image that
  shows the second is merged into the first: a conflict is reported that no screen
  disagrees about, while the comment at `splitsFromSameImage` calls such overlap no
  disagreement. (`DraftIsWhatWasRead` is about figures, not about catalog rows.)
* A screen exported twice costs "one redundant inference and then collapse[s] in the
  title merge" (recognize.go), but not exactly: after one image split a title, the
  copy of the next adds what that one says to the other row too. Only candidates of
  what is asked anyway change. And a screen that lists a title twice, once without
  a legible percent, makes the order of the images decide whether the title is
  asked about at all: read first, its two rows meet a row that has no figure yet.
* "The caller's own mapping shadows the seeded one" (cashback.sql) holds per
  spelling: with the seeded mapping under another spelling that sorts first,
  `SuggestCanonical` never reaches the own one.
* Retired titles: "MCC memberships cascade and re-land on the new title via the
  seed CSV" (seed.go), but the seed writes no memberships any more (mcc.go), so a
  renamed category has no codes until the next import of its bank's document.
* The comment on `PerCallTimeout` calls hitting it a hard stop of the job, while
  in the slot pass it is a soft failure, as the comment at `Read` says. The job
  deadline counts the wait behind other users' jobs.
* The answer to the start of a recognition reads `job.status` after the
  goroutine was started and without the mutex.
* `CreateQuota` says the foreign key "backstops the same three rules", but dates
  are not among what it compares (the proof shows that nothing is lost by that).
* Sign-in drops the cached answers so that a slow network does not "answer from
  their data" (auth.tsx, `purgeResponseCaches`, of the user before). But a profile
  asked for in the old session may be answered after the purge: the page has given it
  up, the service worker still stores it (vite.config.ts, by URL alone), and the next
  account's question, unanswered for three seconds, gets it. And `qc.clear()` clears one tab:
  another tab of the browser goes on showing the account before.
* Two imports at once that plan the same removal both journal it. The operator's
  approval does not stamp `moderated_at`, which the review stream takes for the
  moment of publication.
* A title of a release that a row from before private catalogs holds stays as
  that row has it: the seed inserts nothing beside it and refreshes only its own.


## 7. Not modelled, and why

* Cards: single statements nothing else reads. The reads of the dashboard, the
  lists of the sidecar and the search of titles and points.
* Of `bank_client` deletes, the perks that refuse one are in `Perks` only as a
  client that is always there: the reference goes one way.
* Password hashing (equality of what was typed), HTTP, JSON, validation of texts,
  i18n, the web clients, static hosting: I/O or data. Migrations run once, before
  the app starts; what they create are the guards of the store modules.
* Of a browser `Accounts` has one tab and what it does with answers: not the cache of the service
  worker, a second tab (section 6), or a reload, which asks for the profile anew. Of the
  other answers a page holds, nothing: they name no account.
* Of the browse screen, friends who granted nothing and granted clients without a period:
  they are listed with nothing under them.
* Prompts, the extraction of JSON and the transport to the model server: the
  model's answer is a free choice among the outcomes the code tells apart.
* `devdata` and the parsing of documents and scrapes (`mcc/snapshot.go`, `mcc/import.go`): text in,
  values out, at the developer's desk.


## 8. Plan

Done: cashback records, recognition with its draft, friends, rate limiter,
perks, points of sale, snapshot import, screens, accounts, seed and catalog; their
safety and action properties proved but for the list at the end of section 5.
What is left:

* Perks and shares in one instance with the delete of a bank client.
