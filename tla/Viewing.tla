------------------------------ MODULE Viewing -------------------------------
(***************************************************************************)
(* A viewer asks for screens while rows, selections, grants and friends    *)
(* change. A screen is answered from several statements, one after the     *)
(* other and outside any transaction: each is an action, and what it has   *)
(* read stays in the note of the request.                                  *)
(***************************************************************************)
EXTENDS Screens

CONSTANTS
  Viewer, Others,   \* the viewer and the users who may be friends
  Offers,           \* the menu rows there can be
  PartnerOffers,    \* the viewer's partner offers
  Shareable,        \* [client, friend] of the clients the others can grant
  Days,             \* the days that pass
  Ops, Categories,  \* what is asked, and about what
  Shifting          \* whether rows and partner offers come and go

MenuRow == [id : Nat, selected : BOOLEAN, user : {Viewer} \cup Others, client : Nat, bank : Nat,
        label : Nat, period : Nat, title : Nat, catalog : {None} \cup Nat,
        cat : {None} \cup Nat, percent : {None} \cup Nat,
        kind : {"regular", "special", "super"}, currency : {"rub", "points", "unknown"},
        from : Nat, to : Nat, cap : {None} \cup Nat, override : {None} \cup Nat,
        limit : {None} \cup Nat,
        policy : {"allowed", "paid", "locked_after_first", "unknown"}]

PartnerRow ==
  [id : Nat, client : Nat, bank : Nat, label : Nat, title : Nat, cat : {None} \cup Nat,
   percent : {None} \cup Nat, kind : {"partner"}, currency : {"rub", "points", "unknown"},
   from : {None} \cup Nat, to : {None} \cup Nat, cap : {None} \cup Nat,
   ended : BOOLEAN, mentions : SUBSET Nat, names : SUBSET STRING]

\* a row as the screens compare and show it
Entry ==
  [id : Nat, client : Nat, bank : Nat, label : Nat, title : Nat, cat : {None} \cup Nat,
   percent : {None} \cup Int, currency : {"rub", "points", "unknown"},
   kind : {"regular", "special", "super", "partner"}, from : Nat, to : Nat,
   cap : {None} \cup Nat, friend : {None} \cup Others, regular : {None} \cup Int,
   super : {None} \cup Int,
   verdict : {None, "free", "paid", "locked", "slots_full", "unknown"}]

\* null is no row
ASSUME NullAssumption == None \notin Entry

\* a period is of a client, and a client of a user
ASSUME OffersAssumption ==
  /\ IsFiniteSet(Offers) /\ Offers \subseteq MenuRow
  /\ \A o, p \in Offers :
       /\ o.id = p.id => o = p
       /\ o.period = p.period => o.client = p.client
       /\ o.client = p.client => o.user = p.user /\ o.bank = p.bank /\ o.label = p.label

ASSUME GrantsAssumption ==
  /\ Viewer \notin Others /\ None \notin Others
  /\ Shareable \subseteq [client : Nat, friend : Others]
  /\ \A s, t \in Shareable : s.client = t.client => s = t
  /\ \A s \in Shareable, o \in Offers : o.client = s.client => o.user = s.friend

\* the viewer's clients; periods of one client do not overlap
ASSUME ClientsAssumption ==
  \A c \in Clients, o \in Offers : o.client = c.id => o.user = Viewer

ASSUME PeriodsAssumption ==
  /\ Periods \subseteq [id : Nat, client : Nat, from : Nat, to : Nat]
  /\ \A p, q \in Periods : p.id = q.id \/ (p.client = q.client /\ Overlaps(p, q)) => p = q
  /\ \A o \in Offers : o.user = Viewer => \E p \in Periods : p.id = o.period
  /\ \A p \in Periods, o \in Offers :
       o.period = p.id => /\ o.user = Viewer /\ o.client = p.client
                          /\ o.from = p.from /\ o.to = p.to

\* rows of two tables arrive one after the other
ASSUME PartnersAssumption ==
  /\ IsFiniteSet(PartnerOffers) /\ PartnerOffers \subseteq PartnerRow
  /\ \A p \in PartnerOffers :
       /\ \A q \in PartnerOffers : p.id = q.id => p = q
       /\ \A o \in Offers : p.id # o.id

ASSUME DaysAssumption == Days \subseteq Nat /\ Days # {}

ASSUME CategoriesAssumption == Categories \subseteq Nat

VARIABLES
  menu,      \* category_offer: ids
  picked,    \* selection: ids
  ended,     \* partner offers ended by hand
  friends,   \* friendship with the viewer
  shares,    \* friend_cashback_share: [client, friend]
  today,
  given,     \* history: the grants their owners want to be there
  ask        \* the request in progress

tables == <<menu, picked, ended, friends, shares, today, given>>

vars == <<tables, ask>>

(******************************* statements ********************************)

Row(o) == [o EXCEPT !.selected = o.id \in picked]

ListUserOffers == {Row(o) : o \in {x \in Offers : x.id \in menu /\ x.user = Viewer}}

ListOffersForClients(clients) ==
  {Row(o) : o \in {x \in Offers : x.id \in menu /\ x.client \in clients}}

ListOffersForPeriod(period) ==
  {Row(o) : o \in {x \in Offers : x.id \in menu /\ x.period = period}}

ListPartnerOffersForUser ==
  {[p EXCEPT !.ended = p.id \in ended] : p \in PartnerOffers}

ListFriendsForUser == friends

ListSharedWithViewer == shares

(********************************* requests ********************************)

\* what each endpoint reads, in order
Shared == <<"friends", "shares", "rows">>

Reads(op) ==
  CASE op = "overview" -> <<"own">> \o Shared \o Shared \o <<"partners">>
    [] op = "lookup"   -> <<"own">> \o Shared \o <<"partners">> \o Shared
    [] op = "board"    -> <<"own">> \o Shared
    [] op = "browse"   -> Shared
    [] op = "helper"   -> <<"period", "own">>

Idle ==
  [op |-> None, cat |-> None, day |-> None, now |-> None, todo |-> <<>>, own |-> {},
   menu |-> {}, names |-> {}, grants |-> {}, seen |-> <<>>, partners |-> {},
   began |-> None, ever |-> {}, steady |-> {}, moved |-> {}]

Answered == ask.op # None /\ ask.todo = <<>>

Ask(op, cat, day) ==
  /\ ask = Idle
  /\ ask' = [Idle EXCEPT !.op = op, !.cat = cat, !.day = day, !.now = today,
                         !.todo = Reads(op), !.began = today, !.ever = given,
                         !.steady = given]
  /\ UNCHANGED tables

AskOverview(day)      == Ask("overview", None, day)
AskLookup(c, day)     == Ask("lookup", c, day)
AskBoard(day)         == Ask("board", None, day)
AskFriends            == Ask("browse", None, None)
AskHelper(period)     == Ask("helper", period, None)

Reading(what) == ask.todo # <<>> /\ ask.todo[1] = what

ReadOwn ==
  /\ Reading("own")
  /\ ask' = [ask EXCEPT !.own = ListUserOffers, !.todo = Tail(@)]
  /\ UNCHANGED tables

ReadPeriod ==
  /\ Reading("period")
  /\ ask' = [ask EXCEPT !.menu = ListOffersForPeriod(ask.cat), !.todo = Tail(@)]
  /\ UNCHANGED tables

ReadPartners ==
  /\ Reading("partners")
  /\ ask' = [ask EXCEPT !.partners = ListPartnerOffersForUser, !.now = today,
                        !.todo = Tail(@)]
  /\ UNCHANGED tables

ReadFriends ==
  /\ Reading("friends")
  /\ ask' = [ask EXCEPT !.names = ListFriendsForUser, !.todo = Tail(@)]
  /\ UNCHANGED tables

\* grants of whom the first statement did not name are dropped
ReadShares ==
  /\ Reading("shares")
  /\ ask' = [ask EXCEPT
               !.grants = {s \in ListSharedWithViewer : s.friend \in ask.names},
               !.todo = Tail(@)]
  /\ UNCHANGED tables

\* the window is counted from now, except on the browse screen, which is given
\* the moment it was asked for
ReadRows ==
  /\ Reading("rows")
  /\ ask' = [ask EXCEPT
               !.seen = Append(@, [grants |-> ask.grants,
                                   rows   |-> ListOffersForClients({s.client : s \in ask.grants}),
                                   now    |-> IF ask.op = "browse" THEN ask.now ELSE today]),
               !.todo = Tail(@)]
  /\ UNCHANGED tables

Close ==
  /\ Answered
  /\ ask' = Idle
  /\ UNCHANGED tables

(********************************** writers ********************************)

\* the request in progress remembers what changed under it
Noticing(rows) ==
  ask' = IF ask = Idle \/ Answered THEN ask
         ELSE [ask EXCEPT !.ever = @ \cup given', !.steady = @ \cap given',
                          !.moved = @ \cup rows]

EnterRow(o) ==
  /\ Shifting /\ o.id \notin menu
  /\ menu' = menu \cup {o.id}
  /\ UNCHANGED <<picked, ended, friends, shares, today, given>>
  /\ Noticing({o.id})

DeleteRow(o) ==
  /\ Shifting /\ o.id \in menu
  /\ menu' = menu \ {o.id}
  /\ picked' = picked \ {o.id}
  /\ UNCHANGED <<ended, friends, shares, today, given>>
  /\ Noticing({o.id})

\* ValidateSelection, with the count of CountRegularSelectionsInPeriod
CanSelect(o, day) ==
  LET limit == IF o.override # None THEN o.override ELSE o.limit
      taken == {x \in Offers : /\ x.period = o.period /\ x.id \in picked
                              /\ x.kind = "regular"}
  IN  /\ o.id \notin picked
      /\ Covers(o, day)
      /\ ~ (o.kind = "regular" /\ limit # None /\ Cardinality(taken) >= limit)

Pick(o) ==
  /\ o.id \in menu
  /\ CanSelect(o, today)
  /\ picked' = picked \cup {o.id}
  /\ UNCHANGED <<menu, ended, friends, shares, today, given>>
  /\ Noticing({o.id})

Unpick(o) ==
  /\ o.id \in picked
  /\ picked' = picked \ {o.id}
  /\ UNCHANGED <<menu, ended, friends, shares, today, given>>
  /\ Noticing({o.id})

EndOrReopen(p) ==
  /\ Shifting
  /\ ended' = IF p.id \in ended THEN ended \ {p.id} ELSE ended \cup {p.id}
  /\ UNCHANGED <<menu, picked, friends, shares, today, given>>
  /\ Noticing({})

Grant(s) ==
  /\ s.friend \in friends
  /\ shares' = shares \cup {s}
  /\ given' = given \cup {s}
  /\ UNCHANGED <<menu, picked, ended, friends, today>>
  /\ Noticing({})

Revoke(s) ==
  /\ s \in shares
  /\ shares' = shares \ {s}
  /\ given' = given \ {s}
  /\ UNCHANGED <<menu, picked, ended, friends, today>>
  /\ Noticing({})

Befriend(u) ==
  /\ u \notin friends
  /\ friends' = friends \cup {u}
  /\ UNCHANGED <<menu, picked, ended, shares, today, given>>
  /\ Noticing({})

\* mutant: the grants outlive the friendship
Outlive(u) == shares

\* the grants of a friendship go with it (on delete cascade)
Cascade(u) == {s \in shares : s.friend # u}

Unfriend(u) ==
  /\ u \in friends
  /\ friends' = friends \ {u}
  /\ shares' = Cascade(u)
  /\ given' = {s \in given : s.friend # u}
  /\ UNCHANGED <<menu, picked, ended, today>>
  /\ Noticing({})

Midnight ==
  /\ today + 1 \in Days
  /\ today' = today + 1
  /\ UNCHANGED <<menu, picked, ended, friends, shares, given>>
  /\ Noticing({})

(******************************* specification *****************************)

Init ==
  /\ menu = IF Shifting THEN {} ELSE {o.id : o \in Offers}
  /\ picked = {} /\ ended = {} /\ friends = {} /\ shares = {} /\ given = {}
  /\ today = Min(Days)
  /\ ask = Idle

Request ==
  \/ \E day \in Days : \/ "overview" \in Ops /\ AskOverview(day)
                       \/ "board" \in Ops /\ AskBoard(day)
                       \/ "lookup" \in Ops /\ \E c \in Categories : AskLookup(c, day)
  \/ "browse" \in Ops /\ AskFriends
  \/ "helper" \in Ops /\ \E p \in Periods : AskHelper(p.id)
  \/ ReadOwn \/ ReadPeriod \/ ReadPartners
  \/ ReadFriends \/ ReadShares \/ ReadRows \/ Close

Write ==
  \/ \E o \in Offers : EnterRow(o) \/ DeleteRow(o) \/ Pick(o) \/ Unpick(o)
  \/ \E p \in PartnerOffers : EndOrReopen(p)
  \/ \E s \in Shareable : Grant(s) \/ Revoke(s)
  \/ \E u \in Others : Befriend(u) \/ Unfriend(u)
  \/ Midnight

Next == Request \/ Write

Spec == Init /\ [][Next]_vars

(******************************* at one glance *****************************)

\* what a request would read if nothing moved under it
Picture ==
  LET grants == {s \in shares : s.friend \in friends}
  IN  [grants |-> grants, rows |-> ListOffersForClients({s.client : s \in grants}),
       now |-> today]

Glance(day) ==
  [Idle EXCEPT !.day = day, !.now = today, !.own = ListUserOffers,
               !.seen = <<Picture>>, !.partners = ListPartnerOffersForUser]

WithoutFriends(n) == [n EXCEPT !.seen = <<[grants |-> {}, rows |-> {}, now |-> n.now]>>]

OwnPart(g) ==
  <<g.cat, g.best, g.available, g.others, {b.bank : b \in {l \in g.stack : ~ l.friend}}>>

HasOwnPart(g) == g.best # None \/ g.available # None

\* SplitFeedWinner: "hiding friends (or a friend revoking the share) falls the
\* row back to the own winner instead of dropping it". Whatever friends share,
\* the viewer's own part of every row of the feed is the same without them.
HidingFriendsFallsBack ==
  \A day \in Days :
    LET n == Glance(day)
    IN  {OwnPart(g) : g \in {h \in FeedGroups(n) : HasOwnPart(h)}}
          = {OwnPart(g) : g \in FeedGroups(WithoutFriends(n))}

\* the viewer's own part of a lookup or a board
OwnAnswer(a) ==
  [a EXCEPT !.ranked = {e \in Range(@) : e.friend = None}, !.friends = <<>>]

\* The same of a category looked up and of the board of a code: what friends share
\* changes none of the viewer's own rows there, nor what is offered, full or a base.
HidingFriendsKeepsAnswers ==
  \A day \in Days :
    LET n == Glance(day)
        w == WithoutFriends(n)
    IN  /\ \A c \in Categories : OwnAnswer(Lookup(n, c)) = OwnAnswer(Lookup(w, c))
        /\ OwnAnswer(LookupByMCC(n)) = OwnAnswer(LookupByMCC(w))

\* Friends-sharing invariant 7: nobody is sent to a friend for nothing. A friend
\* is shown beside an own card only with a better currency group or percent,
\* supers stacked on either side included.
FriendOnlyIfBetter ==
  \A day \in Days : \A g \in FeedGroups(Glance(day)) :
    g.friendBest # None /\ g.best # None =>
      Before(<<CurrencyOrder(g.friendBest.currency), DescPercent(g.friendBest.percent)>>,
             <<CurrencyOrder(g.best.currency), DescPercent(g.best.percent)>>)

\* the first of a list that passes the test
Leading(ranked, Test(_)) ==
  LET passing == {i \in DOMAIN ranked : Test(ranked[i])}
  IN  IF passing = {} THEN None ELSE ranked[Min(passing)]

LeadingCard(ranked) == Leading(ranked, LAMBDA e : e.kind # "partner")

LeadingOwnCard(ranked) ==
  Leading(ranked, LAMBDA e : e.kind # "partner" /\ e.friend = None)

\* The feed and the lookup of a category are coded apart, and the lookup ranks the
\* viewer's partner offers too. Over the same rows both name the same first card of
\* the viewer's, and a friend's when it is the first of all cards; they offer the
\* same row when there is none.
FeedAgreesWithLookup ==
  \A day \in Days, c \in Categories \ {AllPurchases} :
    LET n == Glance(day)  g == Group(n, c)  l == Lookup(n, c)
        first == LeadingCard(l.ranked)
    IN  /\ g.best = LeadingOwnCard(l.ranked)
        /\ g.friendBest = IF first # None /\ first.friend # None THEN first ELSE None
        /\ g.available = IF g.best = None THEN First(l.available) ELSE None
        /\ g.friendAvailable = First(l.friends)

\* A row the screens offer can be selected today, by the viewer or by the friend
\* whose it is, and one they call full cannot: the verdict counts slots from the
\* rows it has read, CreateSelection by a query.
VerdictHolds ==
  LET n == Glance(today)  offer(e) == CHOOSE o \in Offers : o.id = e.id
  IN  /\ \A e \in CanPick(n) \cup FriendPickable(Picture, n) : CanSelect(offer(e), today)
      /\ \A r \in Offered(n.own, today) :
           VerdictOf(r, n.own) = "slots_full" => ~ CanSelect(offer(r), today)

ClientsOf(ranked) == {e.client : e \in Range(ranked)}

\* The board of a code answers for each client once: by its category, picked or
\* still to be picked, or else by its base rate. A category that can no longer
\* be picked takes nobody's base rate away.
BoardAccountsForClients ==
  \A day \in Days :
    LET n == Glance(day)
        board == LookupByMCC(n)
        above == {e.client : e \in {f \in Range(board.ranked) : f.friend = None}}
                   \cup ClientsOf(board.available)
        base  == ClientsOf(RankActiveSelections(day, FallbackEntries(n)))
    IN  ClientsOf(board.base) = base \ above

\* The entry screen, the cut by client and CreateSelection count the slots of a
\* period from three queries, to one number.
SlotsAgree ==
  \A c \in Clients, p \in Periods :
    p.client = c.id /\ Covers(p, today) =>
      LET n == [Glance(today) EXCEPT !.menu = ListOffersForPeriod(p.id)]
      IN  /\ HelperContext(n).slotsUsed = Cardinality(ClientCut(n, c).selected)
          /\ HelperContext(n).slotsUsed = RegularCount(n.own, p.id)

\* PendingMenu asks for a period that is not over and of which nothing is
\* recorded, under any shift between the bank's periods and the calendar.
PendingIsOpenAndEmpty ==
  \A c \in Clients :
    LET p == Pending(Glance(today), c)
    IN  p # None => /\ p.to >= today
                    /\ \A o \in Offers :
                         o.id \in menu /\ o.client = c.id => ~ Overlaps(o, p)

(****************************** torn answers *******************************)

FriendsAmong(ranked) == {e \in Range(ranked) : e.friend # None}

\* entries of friends' rows on the screen that was asked for
EntriesShown ==
  CASE ask.op = "overview" ->
         UNION {{g.friendBest, g.friendAvailable} \ {None} : g \in FeedGroups(ask)}
    [] ask.op = "lookup" ->
         FriendsAmong(Lookup(ask, ask.cat).ranked) \cup Range(Lookup(ask, ask.cat).friends)
    [] ask.op = "board" ->
         FriendsAmong(LookupByMCC(ask).ranked) \cup Range(LookupByMCC(ask).friends)
    [] OTHER -> {}

ChipsOf(view) == Range(view.selected) \cup Range(view.granted) \cup Range(view.menu)

\* the chips under grant g on the browse screen, in the dates of their period
ChipsUnder(g) ==
  UNION {{[client |-> g.client, friend |-> g.friend, from |-> v.from, to |-> v.to, said |-> c] :
            c \in ChipsOf(v)} : v \in FriendsOffers(ask)[g]}

\* every friend's row on the screen: of which grant and dates, and what is said of it
FriendsShown ==
  {[client |-> e.client, friend |-> e.friend, from |-> e.from, to |-> e.to, said |-> e] :
     e \in EntriesShown}
    \cup IF ask.op = "browse" THEN UNION {ChipsUnder(g) : g \in ask.seen[1].grants} ELSE {}

NoCapIn(said) == "cap" \in DOMAIN said => said.cap = None

\* Friends-sharing invariants 4 and 8, through three reads of which each may be
\* older than the next: a screen, the one of chips included, shows a friend's row
\* only if that friend had granted the client while it was being made, only inside
\* the shared window, and says nothing of its cap.
ShownWasShared ==
  Answered =>
    \A e \in FriendsShown :
      /\ [client |-> e.client, friend |-> e.friend] \in ask.ever
      /\ e.to >= ask.began /\ e.from <= FriendShareWindow(today).to
      /\ NoCapIn(e.said)

\* friends' rows that nothing touched while the overview was made
Steady ==
  {r \in ask.seen[Len(ask.seen)].rows :
     /\ [client |-> r.client, friend |-> r.user] \in ask.steady
     /\ \A o \in Offers : o.period = r.period => o.id \notin ask.moved}

\* The overview reads the friends twice, so it can mix two moments; what stood
\* still is on it, once: a friend's row that is picked, or can be, has its bank's
\* logo in the row of its category. Where nobody picked the category and the viewer
\* cannot there are no logos, and one friend's row is named that is no worse. No row
\* is both picked and to be picked.
SteadyIsShown ==
  Answered /\ ask.op = "overview" =>
    \A r \in Steady :
      LET verdict == VerdictOf(r, ask.seen[Len(ask.seen)].rows)
          groups  == {g \in FeedGroups(ask) : g.cat = r.cat}
          worth(e, v) == <<VerdictOrder(v), CurrencyOrder(e.currency), DescPercent(e.percent)>>
          named(g) ==
            LET e == g.friendAvailable
            IN  \/ r.bank \in {b.bank : b \in g.stack}
                \/ /\ g.stack = {} /\ ~ r.selected /\ e # None
                   /\ ~ Before(worth(r, verdict), worth(e, e.verdict))
      IN  /\ (/\ r.cat \notin {None, AllPurchases}
              /\ Covers(r, ask.day)
              /\ Overlaps(r, FriendShareWindow(today)) /\ Overlaps(r, FriendShareWindow(ask.began))
              /\ r.selected \/ (r.kind # "special" /\ Pickable(verdict)))
             => \E g \in groups : named(g)
          /\ \A g \in groups :
               g.friendBest # None /\ g.friendAvailable # None
                 => {g.friendBest.id, g.friendAvailable.id} # {r.id}

(******************************* what screens say **************************)

\* What friends share comes on top of the viewer's own cards and never instead, in the
\* feed, in a lookup and on a board.
FriendsOnlyAdd == HidingFriendsFallsBack /\ HidingFriendsKeepsAnswers /\ FriendOnlyIfBetter

\* What a screen offers can be selected, and what it calls full cannot.
OfferedIsPickable == VerdictHolds

\* Screens that are coded apart, over queries of their own, tell the same.
ScreensTellTheSame ==
  /\ FeedAgreesWithLookup /\ BoardAccountsForClients
  /\ SlotsAgree /\ PendingIsOpenAndEmpty

\* A screen made of several reads shows nothing it must not, and leaves out nothing
\* that stood still.
TornIsHarmless == ShownWasShared /\ SteadyIsShown
=============================================================================
