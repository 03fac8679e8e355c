---------------------------- MODULE CashbackSlots ----------------------------
(***************************************************************************)
(* Cashback with three history variables: what the check of CreateSelection *)
(* does not see.  Its slots and dates are promises up to these.            *)
(***************************************************************************)
EXTENDS Cashback

VARIABLES
  moved,   \* periods whose slot count, or the kind of a row of which, changed
  raced,   \* periods for which two selections were under way at once
  waived   \* selections whose call overrode the check of the date

slotsVars == <<vars, moved, raced, waived>>

\* a tier, an override, or the kind of a menu row
Shifts(p) ==
  \/ \E x \in periods, y \in periods' : x.id = p /\ y.id = p /\ EffectiveMax(p)' # EffectiveMax(p)
  \/ \E x \in offers, y \in offers' : x.id = y.id /\ x.period = p /\ x.kind # y.kind

Selects(r, p) == req[r].op = "CreateSelection" /\ req[r].target = p

Waives(r) == In(r, "CreateSelection", "insert") /\ req[r].seen.backfill /\ req'[r] # req[r]

Noted ==
  /\ moved' = moved \cup {p \in PeriodIds : Shifts(p)}
  /\ raced' = raced \cup {p \in PeriodIds :
                 \E r, q \in Reqs : r # q /\ Selects(r, p)' /\ Selects(q, p)'}
  /\ waived' = waived \cup {s.id : s \in {x \in selections' \ selections :
                                           \E r \in Reqs : Waives(r)}}

SlotsInit == Init /\ moved = {} /\ raced = {} /\ waived = {}
SlotsNext == Next /\ Noted
SlotsSpec == SlotsInit /\ [][SlotsNext]_slotsVars

\* Invariants 1 and 2 (domain.go ErrSlotsExhausted, ErrOutsidePeriod), which
\* CreateSelection checks against what it has read: a period is over its slots only
\* if calls for it raced, and then by fewer than there are requests, or if somebody
\* moved the slots or a row's kind; a day is outside the period only by override.
SlotsAndDates ==
  /\ \A p \in periods : p.id \notin moved /\ EffectiveMax(p.id) # None =>
       LET taken == Cardinality(RegularSelections(p.id)) IN
       /\ taken < EffectiveMax(p.id) + Cardinality(Reqs)
       /\ p.id \notin raced => taken <= EffectiveMax(p.id)
  /\ \A s \in selections, o \in offers, p \in periods :
       s.offer = o.id /\ o.period = p.id /\ s.id \notin waived => Contains(p, s.day)
==============================================================================
