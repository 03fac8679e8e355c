------------------------------ MODULE Ranking -------------------------------
(***************************************************************************)
(* The rules of internal/cashback/domain.go by which menu rows are         *)
(* compared, ranked, offered and shown: no state, only functions of rows.  *)
(*                                                                         *)
(* A day is a number and a month is MonthDays of them. Banks and labels    *)
(* are numbers, in the order of their names. The statements that read rows *)
(* have no ORDER BY: the order of ids stands for the order they arrive in, *)
(* which only decides between rows that every rule finds equal.            *)
(***************************************************************************)
EXTENDS Integers, FiniteSets, Sequences, FiniteSetsExt

CONSTANTS
  None,        \* null
  MonthDays,   \* days of a month
  LastDay      \* the calendar's far edge

ASSUME RankingAssumption ==
  None \notin Int /\ MonthDays \in Nat \ {0} /\ LastDay \in Nat

(********************************** dates **********************************)

Covers(range, day) == range.from <= day /\ day <= range.to

Overlaps(r, s) == r.from <= s.to /\ s.from <= r.to

MonthOf(day) == day \div MonthDays

DayOfMonth(day) == (day % MonthDays) + 1

\* today and what is left of this month and the next
FriendShareWindow(now) ==
  [from |-> now, to |-> (MonthOf(now) + 2) * MonthDays - 1]

\* only the types with a calendar rule have an answer
PeriodRangeAt(day, type) ==
  LET months == CASE type = "calendar_month" -> 1 [] type = "quarter" -> 3 [] OTHER -> None
      length == months * MonthDays
      first  == (day \div length) * length
  IN  IF months = None THEN None ELSE [from |-> first, to |-> first + length - 1]

\* fills are the recorded periods with the number of their menu rows
IsFilled(range, fills) == \E f \in fills : f.rows > 0 /\ Overlaps(f, range)

SelectionOpen(now, range, opensDay) ==
  /\ opensDay # None
  /\ DayOfMonth(range.to) >= opensDay
  /\ DayOfMonth(now) >= opensDay
  /\ MonthOf(now) = MonthOf(range.to)

PendingMenu(now, type, opensDay, fills) ==
  LET current == PeriodRangeAt(now, type)
      next    == PeriodRangeAt(current.to + 1, type)
  IN  IF current = None THEN None
      ELSE IF ~ IsFilled(current, fills) THEN current
      ELSE IF SelectionOpen(now, current, opensDay) /\ ~ IsFilled(next, fills) THEN next
      ELSE None

PartnerPeriod(p) ==
  [from |-> IF p.from = None THEN 0 ELSE p.from,
   to   |-> IF p.to = None THEN LastDay ELSE p.to]

PartnerStatus(now, p) ==
  IF p.ended THEN "ended"
  ELSE IF p.from # None /\ now < p.from THEN "scheduled"
  ELSE IF p.to # None /\ now > p.to THEN "expired"
  ELSE "active"

(********************************** order **********************************)

CurrencyOrder(currency) ==
  CASE currency = "rub" -> 0 [] currency = "points" -> 1 [] OTHER -> 2

\* cmpPercentDesc as a sort key: the higher first, an unknown one last
DescPercent(percent) == IF percent = None THEN 1 ELSE 0 - percent

Before(key, other) ==
  \E i \in DOMAIN key : /\ key[i] < other[i]
                        /\ \A j \in 1..(i - 1) : key[j] = other[j]

\* the elements of S in the order of their keys, which tell all of them apart
Ordered(S, Key(_)) ==
  [i \in 1..Cardinality(S) |->
     CHOOSE e \in S : Cardinality({f \in S : Before(Key(f), Key(e))}) = i - 1]

RankKey(e) ==
  <<CurrencyOrder(e.currency), DescPercent(e.percent),
    IF e.friend = None THEN 0 ELSE 1, e.bank, e.label, e.id>>

(********************************** rank ***********************************)

Paying(S, kind, client) ==
  {e \in S : e.kind = kind /\ e.client = client /\ e.percent # None}

\* a client's best pick, which its supers are stacked onto
IsPick(S, e) ==
  /\ e \in Paying(S, "regular", e.client)
  /\ \A f \in Paying(S, "regular", e.client) :
       Before(<<DescPercent(e.percent), e.id>>, <<DescPercent(f.percent), f.id>>) \/ e = f

Stacked(e, supers) ==
  LET bonus == MapThenSumSet(LAMBDA f : f.percent, supers)
  IN  [e EXCEPT !.percent = @ + bonus, !.regular = e.percent, !.super = bonus]

StackSupers(S) ==
  {IF IsPick(S, e) /\ Paying(S, "super", e.client) # {}
   THEN Stacked(e, Paying(S, "super", e.client))
   ELSE e :
     e \in {f \in S : ~ (/\ f \in Paying(S, "super", f.client)
                         /\ Paying(S, "regular", f.client) # {})}}

RankActiveSelections(day, S) ==
  Ordered(StackSupers({e \in S : Covers(e, day)}), RankKey)

\* mutant: the viewer's best only when it is the best of all
FirstIfOwn(ranked) ==
  IF ranked # <<>> /\ ranked[1].friend = None THEN ranked[1] ELSE None

\* a friend is shown when first, the viewer's own best in any case
FirstOwn(ranked) ==
  IF \E i \in DOMAIN ranked : ranked[i].friend = None
  THEN ranked[Min({i \in DOMAIN ranked : ranked[i].friend = None})]
  ELSE None

FirstFriend(ranked) ==
  IF ranked # <<>> /\ ranked[1].friend # None THEN ranked[1] ELSE None

(***************************** menu rows to pick ***************************)

\* count: the regular selections of the row's period
AssessAvailability(kind, policy, count, limit) ==
  CASE kind = "super" -> "free"
    [] kind # "super" /\ limit # None /\ count >= limit -> "slots_full"
    [] OTHER ->
         CASE policy = "allowed" -> "free"
           [] policy = "paid" -> "paid"
           [] policy = "locked_after_first" -> IF count > 0 THEN "locked" ELSE "free"
           [] OTHER -> "unknown"

Pickable(verdict) == verdict \notin {"slots_full", "locked"}

VerdictOrder(verdict) ==
  CASE verdict = "free" -> 0 [] verdict = "paid" -> 1 [] verdict = "unknown" -> 2
    [] OTHER -> 3

RankAvailable(S) ==
  Ordered(S, LAMBDA a : <<VerdictOrder(a.verdict), CurrencyOrder(a.currency),
                          DescPercent(a.percent), a.bank, a.label, a.id>>)

(***************************** the entry screen ****************************)

\* warnings: the same category selected at another client of the same person
DetectCollisions(row, others) ==
  {o \in others : /\ row.cat # None /\ row.kind = "regular"
                  /\ o.kind = "regular" /\ o.cat = row.cat
                  /\ o.client # row.client /\ Overlaps(row, o)}

ComparableOffers(row, pool) ==
  Ordered({o \in pool : /\ row.kind = "regular" /\ o.kind = "regular"
                        /\ o.id # row.id /\ o.currency = row.currency},
          LAMBDA o : <<DescPercent(o.percent), o.bank, o.label, o.id>>)
=============================================================================
