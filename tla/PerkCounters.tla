---------------------------- MODULE PerkCounters ----------------------------
(***************************************************************************)
(* The counters of internal/perks/domain.go, derived on every read from    *)
(* the rows the queries return, and what the two screens make of them.     *)
(***************************************************************************)
EXTENDS Perks, SequencesExt

ParentOf(id) == (CHOOSE q \in quotas : q.id = id).parent

\* the order of the queries: event_date, id
Earlier(d, e) == d.date < e.date \/ (d.date = e.date /\ d.id < e.id)

Ledger(E) ==
  CHOOSE L \in SetToSeqs(E) : \A i, j \in DOMAIN L : i < j => Earlier(L[i], L[j])

\* mutant: no cutoff
Always(date, asOf) == TRUE

OnOrBefore(date, asOf) == date <= asOf

\* mutant: the last row read wins a tie of days
TakesOverLast(acc, e) == acc.id = 0 \/ e.date >= acc.at

\* whether a re-rating takes over from the one found so far
TakesOver(acc, e) == acc.id = 0 \/ e.date > acc.at \/ (e.date = acc.at /\ e.id > acc.id)

EffectiveSize(q, L, asOf) ==
  LET Step(acc, e) ==
        IF e.quota # q.id \/ ~ OnOrBefore(e.date, asOf) THEN acc
        ELSE IF e.kind = "resize" /\ TakesOver(acc, e)
             THEN [acc EXCEPT !.size = e.qty, !.at = e.date, !.id = e.id]
        ELSE IF e.kind \in {"grant", "adjust"} THEN [acc EXCEPT !.extra = @ + e.qty]
        ELSE acc
      end == FoldLeft(Step, [size |-> q.size, at |-> 0, id |-> 0, extra |-> 0], L)
  IN  end.size + end.extra

Consumed(q, L, asOf) ==
  FoldLeft(LAMBDA n, e : IF /\ e.kind = "use" /\ OnOrBefore(e.date, asOf)
                            /\ q.id \in {e.quota, ParentOf(e.quota)}
                         THEN n + e.qty ELSE n, 0, L)

Remaining(q, L, asOf) == EffectiveSize(q, L, asOf) - Consumed(q, L, asOf)

(******************************* the screens *******************************)

Covers(w, d) == w.start <= d /\ d <= w.end

\* ListActivePerkQuotasForUser: the running windows, and the parents of those
Active(u, d) ==
  {q \in QuotasOf(u) : \/ Covers(q.window, d)
                       \/ \E c \in quotas : c.parent = q.id /\ Covers(c.window, d)}

\* ListPerkEventsForQuotaTree: of the listed windows and of their children
TreeEvents(Q) == {e \in events : \E q \in Q : q.id \in {e.quota, ParentOf(e.quota)}}

\* PV-01: what is left of each running window
Overview(u, d) ==
  LET Q == Active(u, d) L == Ledger(TreeEvents(Q)) IN [q \in Q |-> Remaining(q, L, d)]

\* PV-02: what is left of each window of the perk
PerkHistory(p, d) ==
  LET Q == {q \in quotas : q.perk = p}
      L == Ledger({e \in events : \E q \in Q : q.id = e.quota})
  IN  [q \in Q |-> Remaining(q, L, d)]

\* CheckSnapshot: the ledger's number for the day of the reading, 0 when they agree
Delta(s) ==
  s.remaining - Remaining(CHOOSE q \in quotas : q.id = s.quota, Ledger(events), s.on)

(******************************* properties ********************************)

\* The size of a window is its last re-rating by date, rows of one day in insert
\* order, plus every grant and adjust on it: in whatever order the rows come.
LastRatingCounts ==
  \A q \in quotas, d \in Days :
    LET own == {e \in events : e.quota = q.id /\ e.date <= d}
        ratings == {e \in own : e.kind = "resize"}
        rated == IF ratings = {} THEN q.size
                 ELSE (CHOOSE e \in ratings : \A f \in ratings \ {e} : Earlier(f, e)).qty
        extra == MapThenSumSet(LAMBDA e : e.qty, {e \in own : e.kind \in {"grant", "adjust"}})
    IN  \A L \in SetToSeqs(events) : EffectiveSize(q, L, d) = rated + extra

\* The overview reads the events of the running windows and their children, the
\* history those of the whole perk: they show the same number for the same window,
\* a pool's uses in months long closed included.
ScreensAgree ==
  \A u \in Users, d \in Days : \A q \in Active(u, d) :
    Overview(u, d)[q] = PerkHistory(q.perk, d)[q]

\* What a counter says depends on the ledger alone, not on the order its rows come
\* in nor on the query that fetched them.
CountersTrue == LastRatingCounts /\ ScreensAgree

\* a call that has begun goes on before anything else happens
OneByOne == \A g \in Goroutines : calls[g] # None => calls'[g] # calls[g]

SerialSpec == Init /\ [][Next /\ OneByOne]_vars

\* "A use recorded after the reading is not a disagreement, it is simply later
\* news", and a size with history changes by a dated resize only (invariant 5): what
\* the ledger answers to a reading changes only by an event dated up to that reading
\* that is recorded or deleted on its window, or is a use on a child of it.
ReadingsStand ==
  [][\A s \in snapshots \cap snapshots' : Delta(s)' # Delta(s) =>
       \/ \E e \in events' \ events : e.date <= s.on /\
            (e.quota = s.quota \/ (e.kind = "use" /\ ParentOf(e.quota)' = s.quota))
       \/ \E e \in events \ events' : e.date <= s.on /\
            (e.quota = s.quota \/ (e.kind = "use" /\ ParentOf(e.quota) = s.quota))]_vars
=============================================================================
