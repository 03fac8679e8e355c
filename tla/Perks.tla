------------------------------- MODULE Perks --------------------------------
(***************************************************************************)
(* The perks module (internal/perks): perks, their dated windows (at most  *)
(* two levels), and the ledger of events and readings of each window.  A   *)
(* call of one statement is one action; CreateQuota of a child window and  *)
(* UpdateQuota read first, and what they have read stays in their note.    *)
(* Names, units and notes are left out but for the unique name.            *)
(***************************************************************************)
EXTENDS Integers, FiniteSets

CONSTANTS
  Users,
  Clients, Owner,  \* bank clients and bank_client.user_id
  Names,
  PerkIds, QuotaIds,
  MaxEvents,       \* events and snapshots an instance may record
  MaxSnapshots,
  Days, Sizes, Quantities,
  Goroutines,      \* that serve requests
  None

ASSUME PerksAssumption ==
  /\ Owner \in [Clients -> Users]
  /\ Days \subseteq Nat /\ Sizes \subseteq Int /\ Quantities \subseteq Int
  /\ {MaxEvents, MaxSnapshots} \subseteq Nat
  /\ None \notin QuotaIds

VARIABLES
  perks,         \* perk
  quotas,        \* perk_quota
  events,        \* perk_event
  snapshots,     \* perk_snapshot
  spent,         \* ids of perks and quotas that were given out
  recorded,      \* the identity columns of events and snapshots
  calls          \* the note of the call each goroutine is in, or None

tables == <<perks, quotas, events, snapshots, spent, recorded>>
vars   == <<tables, calls>>

Kinds == {"use", "grant", "resize", "adjust"}

Window == [start : Days, end : Days]

\* ValidateEventQty, and the check of the column
ValidQty(kind, qty) ==
  \/ kind \in {"use", "grant"} /\ qty > 0
  \/ kind = "resize" /\ qty >= 0
  \/ kind = "adjust" /\ qty # 0

Perk     == [id : PerkIds, client : Clients, name : Names]
Quota    == [id : QuotaIds, perk : PerkIds, parent : QuotaIds \cup {None},
             window : Window, size : Nat]
Event    == [id : 1 .. MaxEvents, quota : QuotaIds, kind : Kinds, qty : Int, date : Days]
Snapshot == [id : 1 .. MaxSnapshots, quota : QuotaIds, on : Days, remaining : Nat]

\* at: the statement the call is about to run
Note == [at : {"insert"}, user : Users, quota : Quota]
          \cup [at : {"count", "patch"}, user : Users, id : QuotaIds, size : Nat]

Init ==
  /\ perks = {} /\ quotas = {} /\ events = {} /\ snapshots = {} /\ spent = {}
  /\ recorded = [events |-> 0, snapshots |-> 0]
  /\ calls = [g \in Goroutines |-> None]

(********************************* lookups *********************************)

PerksOf(u) == {p \in perks : Owner[p.client] = u}

QuotasOf(u) == {q \in quotas : \E p \in PerksOf(u) : p.id = q.perk}

Within(w, outer) == outer.start <= w.start /\ w.end <= outer.end

ValidWindow(w) == w.start <= w.end

\* mutant: a child may leave its parent's window
ValidChildAnywhere(q, parent) == parent.parent = None /\ parent.perk = q.perk

ValidateChild(q, parent) ==
  /\ parent.parent = None
  /\ parent.perk = q.perk
  /\ Within(q.window, parent.window)

\* perk_quota_parent_fkey: the parent is a root of the same perk
Nests(q) ==
  q.parent = None \/ \E p \in quotas : p.id = q.parent /\ p.parent = None /\ p.perk = q.perk

HasWindows(p) == \E q \in quotas : q.perk = p.id

(********************************** perks **********************************)

\* unique (bank_client_id, name)
NameFree(c, n) == ~ \E p \in perks : p.client = c /\ p.name = n

CreatePerk(u) ==
  \E id \in PerkIds \ spent, c \in Clients, n \in Names :
    /\ Owner[c] = u /\ NameFree(c, n)
    /\ perks' = perks \cup {[id |-> id, client |-> c, name |-> n]}
    /\ spent' = spent \cup {id}
    /\ UNCHANGED <<quotas, events, snapshots, recorded, calls>>

UpdatePerk(u) ==
  \E p \in PerksOf(u), n \in Names :
    /\ NameFree(p.client, n)
    /\ perks' = (perks \ {p}) \cup {[p EXCEPT !.name = n]}
    /\ UNCHANGED <<quotas, events, snapshots, spent, recorded, calls>>

\* perk_quota.perk_id does not cascade: ErrPerkHasQuotas
DeletePerk(u) ==
  \E p \in PerksOf(u) :
    /\ ~ HasWindows(p)
    /\ perks' = perks \ {p}
    /\ UNCHANGED <<quotas, events, snapshots, spent, recorded, calls>>

(********************************* windows *********************************)

Free(g) == calls[g] = None
At(g, s) == calls[g] # None /\ calls[g].at = s
Goto(g, n) == calls' = [calls EXCEPT ![g] = n]
Return(g) == calls' = [calls EXCEPT ![g] = None]

Opens(id, p, parent, w, size) ==
  [id |-> id, perk |-> p, parent |-> parent, window |-> w, size |-> size]

\* CreatePerkQuota: the perk is the user's, the foreign key holds
Insertable(u, q) == (\E p \in PerksOf(u) : p.id = q.perk) /\ Nests(q)

InsertQuota(u, q) ==
  /\ Insertable(u, q) /\ q.id \notin spent
  /\ quotas' = quotas \cup {q}
  /\ spent' = spent \cup {q.id}

CreateQuota(u) ==
  \E id \in QuotaIds, p \in PerkIds, w \in Window, size \in Sizes :
    /\ ValidWindow(w) /\ size >= 0
    /\ InsertQuota(u, Opens(id, p, None, w, size))
    /\ UNCHANGED <<perks, events, snapshots, recorded, calls>>

\* CreateQuota with a parent: its row is read and judged first
ReadParent(g, u) ==
  \E id \in QuotaIds \ spent, p \in PerkIds, w \in Window, size \in Sizes, parent \in QuotasOf(u) :
    LET q == Opens(id, p, parent.id, w, size) IN
    /\ Free(g)
    /\ ValidWindow(w) /\ size >= 0
    /\ ValidateChild(q, parent)
    /\ Goto(g, [at |-> "insert", user |-> u, quota |-> q])
    /\ UNCHANGED tables

InsertChild(g) ==
  /\ At(g, "insert")
  /\ LET n == calls[g] IN
     \/ /\ InsertQuota(n.user, n.quota)
        /\ UNCHANGED <<perks, events, snapshots, recorded>>
     \/ ~ (Insertable(n.user, n.quota) /\ n.quota.id \notin spent) /\ UNCHANGED tables
  /\ Return(g)

\* UpdateQuota with a size; without one it only changes the note
UpdateQuota(g, u) ==
  \E q \in QuotasOf(u), size \in Sizes :
    /\ Free(g) /\ size >= 0
    /\ Goto(g, [at |-> "count", user |-> u, id |-> q.id, size |-> size])
    /\ UNCHANGED tables

HasHistory(id) == (\E e \in events : e.quota = id) \/ \E s \in snapshots : s.quota = id

\* mutant: the readings are not counted
CountEventsOnly(g) ==
  /\ At(g, "count")
  /\ IF \E e \in events : e.quota = calls[g].id THEN Return(g)
     ELSE Goto(g, [calls[g] EXCEPT !.at = "patch"])
  /\ UNCHANGED tables

\* CountPerkQuotaHistory: ErrSizeLocked once anything is recorded
CountHistory(g) ==
  /\ At(g, "count")
  /\ IF HasHistory(calls[g].id) THEN Return(g)
     ELSE Goto(g, [calls[g] EXCEPT !.at = "patch"])
  /\ UNCHANGED tables

\* UpdatePerkQuotaForUser, or no row
PatchSize(g) ==
  /\ At(g, "patch")
  /\ LET Q == {q \in QuotasOf(calls[g].user) : q.id = calls[g].id} IN
     quotas' = (quotas \ Q) \cup {[q EXCEPT !.size = calls[g].size] : q \in Q}
  /\ Return(g)
  /\ UNCHANGED <<perks, events, snapshots, spent, recorded>>

Kept(S, gone) == {x \in S : ~ \E c \in gone : c.id = x.quota}

\* perk_quota_parent_fkey cascades
Gone(q) == {c \in quotas : q.id \in {c.id, c.parent}}

\* the cascades take child windows, events and readings along
DeleteQuota(u) ==
  \E q \in QuotasOf(u) :
    /\ quotas' = quotas \ Gone(q)
    /\ events' = Kept(events, Gone(q))
    /\ snapshots' = Kept(snapshots, Gone(q))
    /\ UNCHANGED <<perks, spent, recorded, calls>>

(******************************** the ledger *******************************)

CreateEvent(u) ==
  \E q \in QuotasOf(u), kind \in Kinds, qty \in Quantities, d \in Days :
    /\ ValidQty(kind, qty)
    /\ recorded.events < MaxEvents
    /\ recorded' = [recorded EXCEPT !.events = @ + 1]
    /\ events' = events \cup {[id |-> recorded.events + 1, quota |-> q.id, kind |-> kind,
                               qty |-> qty, date |-> d]}
    /\ UNCHANGED <<perks, quotas, snapshots, spent, calls>>

OwnRows(u, S) == {x \in S : \E q \in QuotasOf(u) : q.id = x.quota}

DeleteEvent(u) ==
  \E e \in OwnRows(u, events) :
    /\ events' = events \ {e}
    /\ UNCHANGED <<perks, quotas, snapshots, spent, recorded, calls>>

CreateSnapshot(u) ==
  \E q \in QuotasOf(u), d \in Days, n \in Quantities :
    /\ n >= 0
    /\ recorded.snapshots < MaxSnapshots
    /\ recorded' = [recorded EXCEPT !.snapshots = @ + 1]
    /\ snapshots' = snapshots \cup {[id |-> recorded.snapshots + 1, quota |-> q.id, on |-> d,
                                     remaining |-> n]}
    /\ UNCHANGED <<perks, quotas, events, spent, calls>>

DeleteSnapshot(u) ==
  \E s \in OwnRows(u, snapshots) :
    /\ snapshots' = snapshots \ {s}
    /\ UNCHANGED <<perks, quotas, events, spent, recorded, calls>>

Next ==
  \/ \E u \in Users :
       \/ CreatePerk(u) \/ UpdatePerk(u) \/ DeletePerk(u)
       \/ CreateQuota(u) \/ DeleteQuota(u)
       \/ CreateEvent(u) \/ DeleteEvent(u) \/ CreateSnapshot(u) \/ DeleteSnapshot(u)
       \/ \E g \in Goroutines : ReadParent(g, u) \/ UpdateQuota(g, u)
  \/ \E g \in Goroutines : InsertChild(g) \/ CountHistory(g) \/ PatchSize(g)

Spec == Init /\ [][Next]_vars

(******************************* properties ********************************)

\* Every table holds rows of its kind, and a call only what it was given or read.
TypeOK ==
  /\ perks \subseteq Perk
  /\ quotas \subseteq Quota
  /\ events \subseteq Event /\ \A e \in events : e.kind = "adjust" => e.qty # 0
  /\ snapshots \subseteq Snapshot
  /\ spent \subseteq PerkIds \cup QuotaIds
  /\ recorded \in [events : 0 .. MaxEvents, snapshots : 0 .. MaxSnapshots]
  /\ calls \in [Goroutines -> Note \cup {None}]

\* Invariant 2 (domain.go ValidateChild): a child window lies inside a window of
\* the same perk that is a root, in every state, although its parent is judged in a
\* statement before the insert and the foreign key says nothing of dates.
ChildInsideParent ==
  \A q \in quotas : q.parent # None =>
    \E p \in quotas :
      /\ p.id = q.parent /\ p.perk = q.perk /\ p.parent = None
      /\ p.window.start <= q.window.start /\ q.window.end <= p.window.end

\* Invariant 6: the manual ledger goes with its window or row by row, never because
\* something above it went: no event, reading or window is left without its owner.
LedgerWhole ==
  /\ \A q \in quotas : \E p \in perks : p.id = q.perk
  /\ \A q \in quotas : q.parent = None \/ \E p \in quotas : p.id = q.parent
  /\ \A e \in events : \E q \in quotas : q.id = e.quota
  /\ \A s \in snapshots : \E q \in quotas : q.id = s.quota

\* Children inside their pools and nothing without its owner, through deletes that
\* cascade while another call has judged the pool or looked up the window.
WindowsWhole == ChildInsideParent /\ LedgerWhole

\* service.go:177 "once anything has been recorded against it, the size is a dated
\* fact and changes through a resize event": no call changes it then (invariant 5).
SizeIsDated ==
  [][\A q \in quotas, r \in quotas' : q.id = r.id /\ HasHistory(q.id) => r.size = q.size]_vars
=============================================================================
