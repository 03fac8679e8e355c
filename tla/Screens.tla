------------------------------ MODULE Screens -------------------------------
(***************************************************************************)
(* What the read endpoints of internal/cashback answer (service.go,        *)
(* friends.go), as functions of what their statements have read:           *)
(*                                                                         *)
(*   n.own       the viewer's menu rows        ListUserOffers              *)
(*   n.seen      the shared picture, once or twice: who granted which      *)
(*               client, the rows of those clients and the server's date   *)
(*               after they were read                       sharedRows     *)
(*   n.partners  the viewer's partner offers   ListPartnerOffersForUser    *)
(*   n.day       the date asked about, n.now the server's date at the end  *)
(*                                                                         *)
(* Icons, names and notes are left out; a cap is kept because a friend     *)
(* must not see it, a title because two rows of one title are one fact.    *)
(***************************************************************************)
EXTENDS Ranking, Functions

CONSTANTS
  AllPurchases,  \* the canonical category of the base rate
  Clients,       \* the viewer's bank clients, in the order of their ids
  Periods,       \* the offer periods of those
  Programs,      \* of each bank: what PendingMenu asks of it
  Members        \* bank_category_mcc rows of the code asked about

(********************************** entries ********************************)

EntryOf(r) ==
  [id |-> r.id, client |-> r.client, bank |-> r.bank, label |-> r.label,
   title |-> r.title, cat |-> r.cat, percent |-> r.percent,
   currency |-> r.currency, kind |-> r.kind, from |-> r.from, to |-> r.to,
   cap |-> r.cap, friend |-> None, regular |-> None, super |-> None,
   verdict |-> None]

PartnerEntryOf(p) ==
  [EntryOf(p) EXCEPT !.from = PartnerPeriod(p).from, !.to = PartnerPeriod(p).to]

\* the entry of a friend's row: named, and without its cap
FriendEntryOf(r, shared) ==
  [EntryOf(r) EXCEPT !.cap = None,
                     !.friend = (CHOOSE g \in shared.grants : g.client = r.client).friend]

\* mutant: granted rows take slots too
SelectedCount(rows, period) ==
  Cardinality({r \in rows : r.period = period /\ r.selected})

RegularCount(rows, period) ==
  Cardinality({r \in rows : r.period = period /\ r.selected /\ r.kind = "regular"})

VerdictOf(r, rows) ==
  AssessAvailability(r.kind, r.policy, RegularCount(rows, r.period),
                     IF r.override # None THEN r.override ELSE r.limit)

\* rows in the menu of the day and not selected; a special is granted, not picked
Offered(rows, day) ==
  {r \in rows : ~ r.selected /\ r.kind # "special" /\ Covers(r, day)}

AvailableOf(r, rows) == [EntryOf(r) EXCEPT !.verdict = VerdictOf(r, rows)]

Selected(rows, cats) == {EntryOf(r) : r \in {s \in rows : s.selected /\ s.cat \in cats}}

(******************************** friends' rows ****************************)

FriendEntriesByCategory(n) ==
  LET shared == n.seen[1]
  IN  {FriendEntryOf(r, shared) :
         r \in {s \in shared.rows : /\ s.selected /\ s.cat # None
                                    /\ Overlaps(s, FriendShareWindow(shared.now))}}

\* the friend's own selections decide what still fits
FriendPickable(shared, n) ==
  {[FriendEntryOf(r, shared) EXCEPT !.verdict = VerdictOf(r, shared.rows)] :
     r \in {s \in Offered(shared.rows, n.day) :
              /\ Overlaps(s, FriendShareWindow(shared.now))
              /\ Pickable(VerdictOf(s, shared.rows))}}

FriendAvailableByCategory(n) ==
  {e \in FriendPickable(n.seen[Len(n.seen)], n) : e.cat # None}

\* browse: what a chip says of a row, which is neither its cap nor its id
FriendOfferView(r) ==
  [title |-> r.title, percent |-> r.percent, kind |-> r.kind, currency |-> r.currency,
   selected |-> r.selected]

ByPercent(S) == Ordered(S, LAMBDA r : <<DescPercent(r.percent), r.id>>)

Chips(S) == [i \in DOMAIN ByPercent(S) |-> FriendOfferView(ByPercent(S)[i])]

\* a client's periods in the window, each with its three groups of chips
FriendClientView(client, rows, now) ==
  LET shown == {r \in rows : r.client = client /\ Overlaps(r, FriendShareWindow(now))}
      chips(period, test(_)) == Chips({r \in shown : r.period = period /\ test(r)})
  IN  {[from     |-> s.from,
        to       |-> s.to,
        selected |-> chips(s.period, LAMBDA r : r.selected /\ r.kind = "regular"),
        granted  |-> chips(s.period, LAMBDA r : r.selected /\ r.kind # "regular"),
        menu     |-> chips(s.period, LAMBDA r : ~ r.selected)] : s \in shown}

FriendsOffers(n) ==
  [g \in n.seen[1].grants |-> FriendClientView(g.client, n.seen[1].rows, n.seen[1].now)]

(********************************** overview *******************************)

First(ranked) == IF ranked = <<>> THEN None ELSE ranked[1]

OfCategory(S, c) == {e \in S : e.cat = c}

\* one logo per bank, and a friend's only when no row there is the viewer's
BankStack(S) ==
  {[bank |-> b, friend |-> \A e \in S : e.bank = b => e.friend # None] :
     b \in {e.bank : e \in S}}

\* rows of a category the viewer or a friend has selected; the base rate is
\* personal and has a row of its own
Chosen(n) ==
  Selected(n.own, {r.cat : r \in n.own} \ {None, AllPurchases})
    \cup {e \in FriendEntriesByCategory(n) : e.cat # AllPurchases}

\* mutant: rows the period can no longer take are offered
AllOffered(n) ==
  {AvailableOf(r, n.own) :
     r \in {s \in Offered(n.own, n.day) : s.cat \notin {None, AllPurchases}}}

CanPick(n) ==
  {AvailableOf(r, n.own) :
     r \in {s \in Offered(n.own, n.day) : /\ s.cat \notin {None, AllPurchases}
                                          /\ Pickable(VerdictOf(s, n.own))}}

CanAskFor(n) == {e \in FriendAvailableByCategory(n) : e.cat # AllPurchases}

Group(n, c) ==
  LET ranked  == RankActiveSelections(n.day, OfCategory(Chosen(n), c))
      best    == FirstOwn(ranked)
      avail   == OfCategory(CanPick(n), c)
      askable == OfCategory(CanAskFor(n), c)
  IN  [cat             |-> c,
       best            |-> best,
       friendBest      |-> FirstFriend(ranked),
       available       |-> IF best = None THEN First(RankAvailable(avail)) ELSE None,
       friendAvailable |-> First(RankAvailable(askable)),
       others          |-> Cardinality({i \in DOMAIN ranked : ranked[i].friend = None})
                             - (IF best = None THEN 0 ELSE 1),
       stack           |-> IF OfCategory(Chosen(n), c) \cup avail = {} THEN {}
                           ELSE BankStack(Range(ranked) \cup avail \cup askable)]

\* the row a group is sorted by
Winner(g) ==
  IF g.friendBest # None THEN g.friendBest
  ELSE IF g.best # None THEN g.best
  ELSE IF g.available # None THEN g.available
  ELSE g.friendAvailable

\* categories selected somewhere, then those only offered, then a friend's
FeedGroups(n) ==
  {g \in {Group(n, c) : c \in {e.cat : e \in Chosen(n) \cup CanPick(n) \cup CanAskFor(n)}} :
     {g.best, g.friendBest, g.available, g.friendAvailable} # {None}}

FeedKey(g) ==
  <<IF Winner(g).currency = "points" THEN 1 ELSE 0, DescPercent(Winner(g).percent), g.cat>>

Feed(n) == Ordered(FeedGroups(n), FeedKey)

\* a bank's own rows, which no canonical category groups
SingleBank(n) == RankActiveSelections(n.day, Selected(n.own, {None}))

\* partner offers not ended by hand
Alive(n) == {p \in n.partners : ~ p.ended}

PartnerFeed(n) == RankActiveSelections(n.day, {PartnerEntryOf(p) : p \in Alive(n)})

\* the selected base rate of each client: what pays when no category does
FallbackEntries(n) ==
  {e \in Selected(n.own, {AllPurchases}) : e.kind = "regular"}

Base(n) == First(RankActiveSelections(n.day, FallbackEntries(n)))

(****************************** the cut by client **************************)

PeriodFills(n, client) ==
  {[from |-> p.from, to |-> p.to, rows |-> Cardinality({r \in n.own : r.period = p.id})] :
     p \in {q \in Periods : q.client = client}}

\* the period a client still has to fill: about today, whatever date is viewed
Pending(n, c) ==
  PendingMenu(n.now, Programs[c.bank].type, Programs[c.bank].opensDay, PeriodFills(n, c.id))

\* a partner offer of the whole bank hangs off the bank's first client
PartnersOf(n, c) ==
  {p \in n.partners :
     \/ p.client = c.id
     \/ /\ p.client = 0 /\ p.bank = c.bank
        /\ \A d \in Clients : d.bank = c.bank => c.id <= d.id}

ClientCut(n, c) ==
  LET active == {r \in n.own : r.client = c.id /\ Covers(r, n.day) /\ r.selected}
  IN  [client   |-> c.id,
       periods  |-> {p \in Periods : p.client = c.id /\ Covers(p, n.day)},
       selected |-> {r.id : r \in {s \in active : s.kind = "regular"}},
       specials |-> {r.id : r \in {s \in active : s.kind # "regular"}},
       partners |-> {<<p.id, PartnerStatus(n.day, p)>> : p \in PartnersOf(n, c)},
       pending  |-> Pending(n, c)]

(*********************************** lookup ********************************)

\* partner offers of the category rank with the cards
LookupRanked(n, c) ==
  RankActiveSelections(n.day,
    Selected(n.own, {c}) \cup OfCategory(FriendEntriesByCategory(n), c)
      \cup OfCategory({PartnerEntryOf(p) : p \in Alive(n)}, c))

LookupOffered(n, c, can) ==
  RankAvailable({AvailableOf(r, n.own) :
                   r \in {s \in Offered(n.own, n.day) :
                            s.cat = c /\ Pickable(VerdictOf(s, n.own)) = can}})

Lookup(n, c) ==
  [ranked    |-> LookupRanked(n, c),
   available |-> LookupOffered(n, c, TRUE),
   blocked   |-> LookupOffered(n, c, FALSE),
   friends   |-> RankAvailable(OfCategory(FriendAvailableByCategory(n), c)),
   fallback  |-> IF c = AllPurchases THEN <<>>
                 ELSE RankActiveSelections(n.day, FallbackEntries(n)),
   footnote  |-> {p.id : p \in {q \in Alive(n) : /\ q.cat = None /\ c \in q.mentions
                                                 /\ Covers(PartnerPeriod(q), n.day)}}]

\* a shop asked for by name
MatchPartnerOffers(n, query) ==
  RankActiveSelections(n.day, {PartnerEntryOf(p) : p \in {q \in Alive(n) : query \in q.names}})

(******************************** lookup by code ***************************)

\* the bank's own category of the code: by catalog row, or by canonical category
\* within the bank
CountsForCode(r) ==
  \E m \in Members : \/ r.catalog # None /\ r.catalog = m.catalog
                     \/ r.cat # None /\ r.bank = m.bank /\ r.cat = m.cat

OnBoard(rows, n) == {r \in rows : CountsForCode(r) /\ Covers(r, n.day)}

BoardOffered(n, can) ==
  {AvailableOf(r, n.own) :
     r \in {s \in OnBoard(n.own, n) : /\ s \in Offered(n.own, n.day)
                                      /\ Pickable(VerdictOf(s, n.own)) = can}}

\* one row for each title of a friend's client, the better one
FriendBest(n) ==
  LET rows == {e \in FriendPickable(n.seen[1], n) :
                 \E r \in n.seen[1].rows : r.id = e.id /\ CountsForCode(r)}
      key(e) == <<DescPercent(e.percent), e.id>>
  IN  {e \in rows : \A f \in rows : f.client = e.client /\ f.title = e.title
                                      => f = e \/ Before(key(e), key(f))}

BoardSelected(n) ==
  {EntryOf(r) : r \in {s \in OnBoard(n.own, n) : s.selected}}
    \cup {FriendEntryOf(r, n.seen[1]) :
            r \in {s \in OnBoard(n.seen[1].rows, n) :
                     s.selected /\ Overlaps(s, FriendShareWindow(n.seen[1].now))}}

\* clients that answer above the base rows; a blocked row is no answer
Covered(n) ==
  {r.client : r \in {s \in OnBoard(n.own, n) :
                       \/ s.selected
                       \/ s.kind # "special" /\ Pickable(VerdictOf(s, n.own))}}

LookupByMCC(n) ==
  [ranked    |-> RankActiveSelections(n.day, BoardSelected(n)),
   available |-> RankAvailable(BoardOffered(n, TRUE)),
   blocked   |-> RankAvailable(BoardOffered(n, FALSE)),
   friends   |-> RankAvailable(FriendBest(n)),
   base      |-> RankActiveSelections(n.day,
                   {e \in FallbackEntries(n) : e.client \notin Covered(n)})]

(***************************** the entry screen ****************************)

\* what the row is compared in: the currency of the first row of its period that
\* the second statement still finds
HelperCurrency(n, period) ==
  IF \E r \in n.own : r.period = period
  THEN (CHOOSE r \in n.own : r.period = period).currency
  ELSE "unknown"

HelperRow(n, row) ==
  [row         |-> row,
   collisions  |-> DetectCollisions(row, {r \in n.own : r.selected}),
   comparisons |-> IF row.cat = None THEN <<>>
                   ELSE ComparableOffers(
                          [row EXCEPT !.currency = HelperCurrency(n, row.period)],
                          {r \in n.own : /\ r.client # row.client /\ r.cat = row.cat
                                         /\ Overlaps(row, r)})]

HelperContext(n) ==
  [rows      |-> {HelperRow(n, r) : r \in n.menu},
   slotsUsed |-> Cardinality({r \in n.menu : r.kind = "regular" /\ r.selected})]
=============================================================================
