----------------------------- MODULE PerksProofs ----------------------------
(***************************************************************************)
(* The shape of the perks tables and the counters derived from them, for   *)
(* any number of users, windows, events and concurrent calls.              *)
(***************************************************************************)
EXTENDS PerkCounters, FiniteSetTheorems, WellFoundedInduction, TLAPS

TablesOK ==
  /\ perks \subseteq Perk
  /\ quotas \subseteq Quota
  /\ events \subseteq Event /\ \A e \in events : e.kind = "adjust" => e.qty # 0
  /\ snapshots \subseteq Snapshot
  /\ spent \subseteq PerkIds \cup QuotaIds
  /\ recorded \in [events : 0 .. MaxEvents, snapshots : 0 .. MaxSnapshots]

CallsOK == calls \in [Goroutines -> Note \cup {None}]

\* Ids are given out once.
Ids ==
  /\ \A q \in quotas : q.id \in spent
  /\ \A q, r \in quotas : q.id = r.id => q = r

\* What a call was told of the parent is true of the row with that id, if there is
\* one: it had that id when it was read, and no other row will.
Judged(n, Q, S) ==
  n.at = "insert" /\ n.quota.parent # None =>
    /\ n.quota.parent \in S
    /\ \A p \in Q : p.id = n.quota.parent => ValidateChild(n.quota, p)

NotesOK == \A g \in Goroutines : calls[g] # None => Judged(calls[g], quotas, spent)

Tree == Ids /\ ChildInsideParent /\ NotesOK

IInv == TablesOK /\ CallsOK /\ Tree /\ LedgerWhole

\* A row may become another that is the same but for its size.
Same(q, p) == q.id = p.id /\ q.perk = p.perk /\ q.parent = p.parent /\ q.window = p.window

\* No id is given out again, and a row changes its size at most.
Aging ==
  /\ spent \subseteq spent'
  /\ \A q \in quotas' : q.id \notin spent \/ \E p \in quotas : Same(q, p)

(********************************** typing *********************************)

LEMMA TypeOKParts == TypeOK <=> TablesOK /\ CallsOK
  BY DEF TypeOK, TablesOK, CallsOK

LEMMA NoteOf ==
  ASSUME CallsOK, NEW g \in Goroutines, NEW s, At(g, s)
  PROVE  /\ s = "insert" => calls[g].user \in Users /\ calls[g].quota \in Quota
         /\ s \in {"count", "patch"} =>
              calls[g].user \in Users /\ calls[g].id \in QuotaIds /\ calls[g].size \in Nat
<1>1. calls[g] \in Note /\ calls[g].at = s
  BY DEF CallsOK, At
<1>2. QED
  BY <1>1 DEF Note

LEMMA OpensTyped ==
  ASSUME NEW id \in QuotaIds, NEW p \in PerkIds, NEW parent \in QuotaIds \cup {None},
         NEW w \in Window, NEW size \in Nat
  PROVE  /\ Opens(id, p, parent, w, size) \in Quota
         /\ Opens(id, p, parent, w, size).id = id
         /\ Opens(id, p, parent, w, size).parent = parent
  BY DEF Opens, Quota

LEMMA InsertQuotaTyped ==
  ASSUME TablesOK, NEW u, NEW q \in Quota, InsertQuota(u, q),
         UNCHANGED <<perks, events, snapshots, recorded>>
  PROVE  TablesOK'
<1>1. quotas' \subseteq Quota /\ spent' \subseteq PerkIds \cup QuotaIds
  BY DEF TablesOK, InsertQuota, Quota
<1>2. QED
  BY <1>1 DEF TablesOK

LEMMA Going ==
  ASSUME CallsOK, NEW g \in Goroutines, NEW n \in Note, Goto(g, n)
  PROVE  CallsOK'
  BY DEF CallsOK, Goto

LEMMA Returning ==
  ASSUME CallsOK, NEW g \in Goroutines, Return(g)
  PROVE  CallsOK'
  BY DEF CallsOK, Return

LEMMA Initially == Init => IInv
<1> SUFFICES ASSUME Init PROVE IInv
  OBVIOUS
<1>1. recorded \in [events : 0 .. MaxEvents, snapshots : 0 .. MaxSnapshots]
  BY PerksAssumption DEF Init
<1>2. TablesOK /\ CallsOK
  BY <1>1 DEF Init, TablesOK, CallsOK
<1>3. Tree /\ LedgerWhole
  BY DEF Init, Tree, Ids, ChildInsideParent, NotesOK, LedgerWhole
<1>4. QED
  BY <1>2, <1>3 DEF IInv

LEMMA StepTyped ==
  ASSUME TablesOK, CallsOK, Next
  PROVE  TablesOK' /\ CallsOK'
<1>1. ASSUME NEW u \in Users, CreatePerk(u)
      PROVE  TablesOK' /\ CallsOK'
  <2>1. PICK id \in PerkIds \ spent, c \in Clients, n \in Names :
          /\ perks' = perks \cup {[id |-> id, client |-> c, name |-> n]}
          /\ spent' = spent \cup {id}
    BY <1>1 DEF CreatePerk
  <2>2. [id |-> id, client |-> c, name |-> n] \in Perk
    BY DEF Perk
  <2>3. QED
    BY <1>1, <2>1, <2>2 DEF CreatePerk, TablesOK, CallsOK
<1>2. ASSUME NEW u \in Users, UpdatePerk(u)
      PROVE  TablesOK' /\ CallsOK'
  <2>1. PICK p \in PerksOf(u), n \in Names : perks' = (perks \ {p}) \cup {[p EXCEPT !.name = n]}
    BY <1>2 DEF UpdatePerk
  <2>2. [p EXCEPT !.name = n] \in Perk
    BY DEF PerksOf, TablesOK, Perk
  <2>3. QED
    BY <1>2, <2>1, <2>2 DEF UpdatePerk, TablesOK, CallsOK
<1>3. ASSUME NEW u \in Users, DeletePerk(u)
      PROVE  TablesOK' /\ CallsOK'
  BY <1>3 DEF DeletePerk, TablesOK, CallsOK
<1>4. ASSUME NEW u \in Users, CreateQuota(u)
      PROVE  TablesOK' /\ CallsOK'
  <2>1. PICK id \in QuotaIds, p \in PerkIds, w \in Window, size \in Sizes :
          /\ size >= 0
          /\ InsertQuota(u, Opens(id, p, None, w, size))
          /\ UNCHANGED <<perks, events, snapshots, recorded, calls>>
    BY <1>4 DEF CreateQuota
  <2>2. Opens(id, p, None, w, size) \in Quota
    BY <2>1, OpensTyped, PerksAssumption
  <2>3. TablesOK'
    BY <2>1, <2>2, InsertQuotaTyped
  <2>4. QED
    BY <2>1, <2>3 DEF CallsOK
<1>5. ASSUME NEW u \in Users, DeleteQuota(u)
      PROVE  TablesOK' /\ CallsOK'
  BY <1>5 DEF DeleteQuota, Kept, TablesOK, CallsOK
<1>6. ASSUME NEW u \in Users, CreateEvent(u)
      PROVE  TablesOK' /\ CallsOK'
  <2>1. PICK q \in QuotasOf(u), kind \in Kinds, qty \in Quantities, d \in Days :
          /\ ValidQty(kind, qty)
          /\ recorded.events < MaxEvents
          /\ recorded' = [recorded EXCEPT !.events = @ + 1]
          /\ events' = events \cup {[id |-> recorded.events + 1, quota |-> q.id, kind |-> kind,
                                     qty |-> qty, date |-> d]}
    BY <1>6 DEF CreateEvent
  <2>2. /\ recorded.events + 1 \in 1 .. MaxEvents
        /\ recorded' \in [events : 0 .. MaxEvents, snapshots : 0 .. MaxSnapshots]
    BY <2>1, PerksAssumption DEF TablesOK
  <2>3. q.id \in QuotaIds /\ qty \in Int
    BY PerksAssumption DEF QuotasOf, TablesOK, Quota
  <2> DEFINE e == [id |-> recorded.events + 1, quota |-> q.id, kind |-> kind,
                   qty |-> qty, date |-> d]
  <2>4. e \in Event
    BY <2>2, <2>3 DEF Event
  <2>5. e.kind = "adjust" => e.qty # 0
    BY <2>1 DEF ValidQty
  <2> HIDE DEF e
  <2>6. events' = events \cup {e}
    BY <2>1 DEF e
  <2>7. QED
    BY <1>6, <2>2, <2>4, <2>5, <2>6 DEF CreateEvent, TablesOK, CallsOK
<1>7. ASSUME NEW u \in Users, DeleteEvent(u)
      PROVE  TablesOK' /\ CallsOK'
  BY <1>7 DEF DeleteEvent, TablesOK, CallsOK
<1>8. ASSUME NEW u \in Users, CreateSnapshot(u)
      PROVE  TablesOK' /\ CallsOK'
  <2>1. PICK q \in QuotasOf(u), d \in Days, n \in Quantities :
          /\ n >= 0
          /\ recorded.snapshots < MaxSnapshots
          /\ recorded' = [recorded EXCEPT !.snapshots = @ + 1]
          /\ snapshots' = snapshots \cup {[id |-> recorded.snapshots + 1, quota |-> q.id, on |-> d,
                                           remaining |-> n]}
    BY <1>8 DEF CreateSnapshot
  <2>2. /\ recorded.snapshots + 1 \in 1 .. MaxSnapshots
        /\ recorded' \in [events : 0 .. MaxEvents, snapshots : 0 .. MaxSnapshots]
    BY <2>1, PerksAssumption DEF TablesOK
  <2>3. q.id \in QuotaIds /\ n \in Nat
    BY <2>1, PerksAssumption DEF QuotasOf, TablesOK, Quota
  <2>4. [id |-> recorded.snapshots + 1, quota |-> q.id, on |-> d, remaining |-> n] \in Snapshot
    BY <2>2, <2>3 DEF Snapshot
  <2>5. QED
    BY <1>8, <2>1, <2>2, <2>4 DEF CreateSnapshot, TablesOK, CallsOK
<1>9. ASSUME NEW u \in Users, DeleteSnapshot(u)
      PROVE  TablesOK' /\ CallsOK'
  BY <1>9 DEF DeleteSnapshot, TablesOK, CallsOK
<1>10. ASSUME UNCHANGED tables
       PROVE  TablesOK'
  BY <1>10 DEF tables, TablesOK
<1>11. ASSUME NEW u \in Users, NEW g \in Goroutines, ReadParent(g, u)
       PROVE  TablesOK' /\ CallsOK'
  <2>1. PICK id \in QuotaIds, p \in PerkIds, w \in Window, size \in Sizes, parent \in QuotasOf(u) :
          /\ size >= 0
          /\ Goto(g, [at |-> "insert", user |-> u, quota |-> Opens(id, p, parent.id, w, size)])
    BY <1>11 DEF ReadParent
  <2>2. parent.id \in QuotaIds
    BY DEF QuotasOf, TablesOK, Quota
  <2>3. Opens(id, p, parent.id, w, size) \in Quota
    BY <2>1, <2>2, OpensTyped, PerksAssumption
  <2>4. [at |-> "insert", user |-> u, quota |-> Opens(id, p, parent.id, w, size)] \in Note
    BY <2>3 DEF Note
  <2>5. QED
    BY <1>10, <1>11, <2>1, <2>4, Going DEF ReadParent
<1>12. ASSUME NEW u \in Users, NEW g \in Goroutines, UpdateQuota(g, u)
       PROVE  TablesOK' /\ CallsOK'
  <2>1. PICK q \in QuotasOf(u), size \in Sizes :
          size >= 0 /\ Goto(g, [at |-> "count", user |-> u, id |-> q.id, size |-> size])
    BY <1>12 DEF UpdateQuota
  <2>2. [at |-> "count", user |-> u, id |-> q.id, size |-> size] \in Note
    BY <2>1, PerksAssumption DEF QuotasOf, TablesOK, Quota, Note
  <2>3. QED
    BY <1>10, <1>12, <2>1, <2>2, Going DEF UpdateQuota
<1>13. ASSUME NEW g \in Goroutines, InsertChild(g)
       PROVE  TablesOK' /\ CallsOK'
  <2>1. calls[g].quota \in Quota
    BY <1>13, NoteOf DEF InsertChild
  <2>2. TablesOK'
    BY <1>10, <1>13, <2>1, InsertQuotaTyped DEF InsertChild
  <2>3. QED
    BY <1>13, <2>2, Returning DEF InsertChild
<1>14. ASSUME NEW g \in Goroutines, CountHistory(g)
       PROVE  TablesOK' /\ CallsOK'
  <2>1. calls[g] \in Note /\ calls[g].at = "count"
    BY <1>14 DEF CountHistory, At, CallsOK
  <2>2. [calls[g] EXCEPT !.at = "patch"] \in Note
    BY <2>1 DEF Note
  <2>3. QED
    BY <1>10, <1>14, <2>2, Going, Returning DEF CountHistory
<1>15. ASSUME NEW g \in Goroutines, PatchSize(g)
       PROVE  TablesOK' /\ CallsOK'
  <2>1. calls[g].size \in Nat
    BY <1>15, NoteOf DEF PatchSize
  <2>2. \A q \in quotas : [q EXCEPT !.size = calls[g].size] \in Quota
    BY <2>1 DEF TablesOK, Quota
  <2>3. quotas' \subseteq Quota
    BY <1>15, <2>2 DEF PatchSize, QuotasOf, TablesOK
  <2>4. QED
    BY <1>15, <2>3, Returning DEF PatchSize, TablesOK
<1>16. QED
  BY <1>1, <1>2, <1>3, <1>4, <1>5, <1>6, <1>7, <1>8, <1>9, <1>11, <1>12, <1>13, <1>14, <1>15
  DEF Next

\* The tables and the notes keep their types for any number of users and calls.
THEOREM TypeCorrect == Spec => []TypeOK
<1>1. Init => TablesOK /\ CallsOK
  BY Initially DEF IInv
<1>2. TablesOK /\ CallsOK /\ [Next]_vars => (TablesOK /\ CallsOK)'
  <2>1. UNCHANGED vars /\ TablesOK /\ CallsOK => (TablesOK /\ CallsOK)'
    BY DEF vars, tables, TablesOK, CallsOK
  <2>2. QED
    BY <2>1, StepTyped
<1>3. TablesOK /\ CallsOK => TypeOK
  BY TypeOKParts
<1>4. QED
  BY <1>1, <1>2, <1>3, PTL DEF Spec

(*********************************** tree **********************************)

LEMMA JudgedAges ==
  ASSUME Aging, NEW n, Judged(n, quotas, spent)
  PROVE  Judged(n, quotas', spent')
<1> SUFFICES ASSUME n.at = "insert", n.quota.parent # None
             PROVE  /\ n.quota.parent \in spent'
                    /\ \A p \in quotas' : p.id = n.quota.parent => ValidateChild(n.quota, p)
  BY DEF Judged
<1>1. n.quota.parent \in spent
  BY DEF Judged
<1>2. ASSUME NEW p \in quotas', p.id = n.quota.parent
      PROVE  ValidateChild(n.quota, p)
  <2>1. PICK r \in quotas : Same(p, r)
    BY <1>1, <1>2 DEF Aging
  <2>2. ValidateChild(n.quota, r)
    BY <1>2, <2>1 DEF Judged, Same
  <2>3. QED
    BY <2>1, <2>2 DEF ValidateChild, Same
<1>3. QED
  BY <1>1, <1>2 DEF Aging

LEMMA NotesAge ==
  ASSUME Aging, NotesOK, UNCHANGED calls
  PROVE  NotesOK'
  BY JudgedAges DEF NotesOK

LEMMA NoteTaken ==
  ASSUME CallsOK, Aging, NotesOK, NEW g \in Goroutines, NEW n,
         (Goto(g, n) /\ Judged(n, quotas', spent')) \/ Return(g)
  PROVE  NotesOK'
<1> SUFFICES ASSUME NEW h \in Goroutines, calls'[h] # None
             PROVE  Judged(calls'[h], quotas', spent')
  BY DEF NotesOK
<1>1. CASE h = g
  BY <1>1 DEF Goto, Return, CallsOK
<1>2. CASE h # g
  <2>1. calls'[h] = calls[h]
    BY <1>2 DEF Goto, Return, CallsOK
  <2>2. QED
    BY <2>1, JudgedAges DEF NotesOK
<1>3. QED
  BY <1>1, <1>2

\* Nothing ages when the windows do not change.
LEMMA NothingAges ==
  ASSUME spent \subseteq spent', UNCHANGED quotas
  PROVE  Aging /\ (Ids => Ids') /\ (ChildInsideParent => ChildInsideParent')
  BY DEF Aging, Ids, ChildInsideParent, Same

\* A window goes in only under a parent that was judged.
LEMMA InsertKeepsTree ==
  ASSUME Ids, ChildInsideParent, NEW u, NEW q, InsertQuota(u, q),
         \A p \in quotas : p.id = q.parent => ValidateChild(q, p)
  PROVE  Aging /\ Ids' /\ ChildInsideParent'
<1>1. quotas' = quotas \cup {q} /\ spent' = spent \cup {q.id} /\ q.id \notin spent
  BY DEF InsertQuota
<1>2. Aging
  BY <1>1 DEF Aging, Same
<1>3. Ids'
  BY <1>1 DEF Ids
<1>4. q.parent # None =>
        \E p \in quotas :
          /\ p.id = q.parent /\ p.perk = q.perk /\ p.parent = None
          /\ p.window.start <= q.window.start /\ q.window.end <= p.window.end
  BY DEF InsertQuota, Insertable, Nests, ValidateChild, Within
<1>5. ChildInsideParent'
  BY <1>1, <1>4 DEF ChildInsideParent
<1>6. QED
  BY <1>2, <1>3, <1>5

LEMMA DeleteKeepsTree ==
  ASSUME TablesOK, Ids, ChildInsideParent, NEW u, DeleteQuota(u)
  PROVE  Aging /\ Ids' /\ ChildInsideParent'
<1>1. PICK q \in QuotasOf(u) : quotas' = quotas \ Gone(q)
  BY DEF DeleteQuota
<1>2. spent' = spent /\ quotas' \subseteq quotas
  BY <1>1 DEF DeleteQuota
<1>3. Aging /\ Ids'
  BY <1>2 DEF Aging, Same, Ids
<1>4. ASSUME NEW c \in quotas', c.parent # None
      PROVE  \E p \in quotas' :
               /\ p.id = c.parent /\ p.perk = c.perk /\ p.parent = None
               /\ p.window.start <= c.window.start /\ c.window.end <= p.window.end
  <2>1. PICK p \in quotas :
          /\ p.id = c.parent /\ p.perk = c.perk /\ p.parent = None
          /\ p.window.start <= c.window.start /\ c.window.end <= p.window.end
    BY <1>2, <1>4 DEF ChildInsideParent
  <2>2. q.id # c.parent /\ q.id # None
    BY <1>1, <1>2, PerksAssumption DEF Gone, QuotasOf, TablesOK, Quota
  <2>3. p \in quotas'
    BY <1>1, <2>1, <2>2 DEF Gone
  <2>4. QED
    BY <2>1, <2>3
<1>5. QED
  BY <1>3, <1>4 DEF ChildInsideParent

LEMMA PatchKeepsTree ==
  ASSUME TablesOK, Ids, ChildInsideParent, NEW g \in Goroutines, PatchSize(g)
  PROVE  Aging /\ Ids' /\ ChildInsideParent'
<1> DEFINE Q == {q \in QuotasOf(calls[g].user) : q.id = calls[g].id}
           P == {[q EXCEPT !.size = calls[g].size] : q \in Q}
<1>1. quotas' = (quotas \ Q) \cup P /\ spent' = spent
  BY DEF PatchSize
<1>2. Q \subseteq quotas
  BY DEF QuotasOf
<1>3. \A q \in P : \E p \in Q : Same(q, p)
  BY <1>2 DEF TablesOK, Quota, Same
<1>4. ASSUME NEW p \in Q
      PROVE  \E q \in P : Same(q, p)
  <2>1. [p EXCEPT !.size = calls[g].size] \in P
    OBVIOUS
  <2>2. Same([p EXCEPT !.size = calls[g].size], p)
    BY <1>2 DEF TablesOK, Quota, Same
  <2>3. QED
    BY <2>1, <2>2
<1>5. \A q, r \in P : q = r
  BY <1>2 DEF Ids
<1>6. \A q \in quotas \ Q : Same(q, q)
  BY DEF Same
<1>7. \A q \in Q : q.id = calls[g].id
  OBVIOUS
<1> HIDE DEF Q, P
<1>8. \A q \in quotas' : \E p \in quotas : Same(q, p)
  BY <1>1, <1>2, <1>3, <1>6
<1>9. \A p \in quotas : \E q \in quotas' : Same(q, p)
  BY <1>1, <1>4, <1>6
<1>10. Aging
  BY <1>1, <1>8 DEF Aging
<1>11. ASSUME NEW q \in quotas', NEW r \in quotas', q.id = r.id
       PROVE  q = r
  <2>1. CASE q \in P /\ r \in P
    BY <1>5, <2>1
  <2>2. CASE q \notin P /\ r \notin P
    BY <1>1, <1>11, <2>2 DEF Ids
  <2>3. ASSUME NEW x \in P, NEW y \in quotas \ Q, x.id = y.id
        PROVE  FALSE
    <3>1. PICK p \in Q : Same(x, p)
      BY <1>3
    <3>2. p = y
      BY <1>2, <2>3, <3>1 DEF Ids, Same
    <3>3. QED
      BY <3>2
  <2>4. QED
    BY <1>1, <1>11, <2>1, <2>2, <2>3
<1>12. Ids'
  BY <1>1, <1>8, <1>11 DEF Ids, Same
<1>13. ASSUME NEW c \in quotas', c.parent # None
       PROVE  \E p \in quotas' :
                /\ p.id = c.parent /\ p.perk = c.perk /\ p.parent = None
                /\ p.window.start <= c.window.start /\ c.window.end <= p.window.end
  <2>1. PICK d \in quotas : Same(c, d)
    BY <1>8
  <2>2. PICK p \in quotas :
          /\ p.id = d.parent /\ p.perk = d.perk /\ p.parent = None
          /\ p.window.start <= d.window.start /\ d.window.end <= p.window.end
    BY <1>13, <2>1 DEF ChildInsideParent, Same
  <2>3. PICK r \in quotas' : Same(r, p)
    BY <1>9
  <2>4. QED
    BY <2>1, <2>2, <2>3 DEF Same
<1>14. QED
  BY <1>10, <1>12, <1>13 DEF ChildInsideParent

\* Deciding on a parent is reading its row.
LEMMA ReadingJudges ==
  ASSUME Ids, NEW g \in Goroutines, NEW u, ReadParent(g, u), UNCHANGED tables
  PROVE  \E n : Goto(g, n) /\ Judged(n, quotas', spent')
<1>1. PICK id \in QuotaIds \ spent, p \in PerkIds, w \in Window, size \in Sizes,
           parent \in QuotasOf(u) :
        /\ ValidateChild(Opens(id, p, parent.id, w, size), parent)
        /\ Goto(g, [at |-> "insert", user |-> u, quota |-> Opens(id, p, parent.id, w, size)])
  BY DEF ReadParent
<1> DEFINE q == Opens(id, p, parent.id, w, size)
<1>2. q.parent = parent.id
  BY DEF Opens
<1>3. parent \in quotas
  BY DEF QuotasOf
<1>4. ValidateChild(q, parent) /\ Goto(g, [at |-> "insert", user |-> u, quota |-> q])
  BY <1>1
<1> HIDE DEF q
<1>5. \A r \in quotas : r.id = q.parent => r = parent
  BY <1>2, <1>3 DEF Ids
<1>6. q.parent \in spent
  BY <1>2, <1>3 DEF Ids
<1>7. Judged([at |-> "insert", user |-> u, quota |-> q], quotas', spent')
  BY <1>4, <1>5, <1>6 DEF Judged, tables
<1>8. QED
  BY <1>4, <1>7

LEMMA StepKeepsTree ==
  ASSUME TablesOK, CallsOK, Tree, Next
  PROVE  Tree'
<1> USE DEF Tree
<1>1. ASSUME spent \subseteq spent', UNCHANGED <<quotas, calls>>
      PROVE  Tree'
  BY <1>1, NothingAges, NotesAge
<1>2. ASSUME NEW u \in Users,
             \/ CreatePerk(u) \/ UpdatePerk(u) \/ DeletePerk(u)
             \/ CreateEvent(u) \/ DeleteEvent(u) \/ CreateSnapshot(u) \/ DeleteSnapshot(u)
      PROVE  Tree'
  BY <1>1, <1>2
  DEF CreatePerk, UpdatePerk, DeletePerk, CreateEvent, DeleteEvent, CreateSnapshot, DeleteSnapshot
<1>3. ASSUME NEW u \in Users, CreateQuota(u)
      PROVE  Tree'
  <2>1. PICK id \in QuotaIds, p \in PerkIds, w \in Window, size \in Sizes :
          InsertQuota(u, Opens(id, p, None, w, size)) /\ UNCHANGED calls
    BY <1>3 DEF CreateQuota
  <2>2. Opens(id, p, None, w, size).parent = None
    BY DEF Opens
  <2>3. \A r \in quotas : r.id # None
    BY PerksAssumption DEF TablesOK, Quota
  <2>4. QED
    BY <2>1, <2>2, <2>3, InsertKeepsTree, NotesAge
<1>4. ASSUME NEW u \in Users, DeleteQuota(u)
      PROVE  Tree'
  BY <1>4, DeleteKeepsTree, NotesAge DEF DeleteQuota
<1>5. ASSUME NEW u \in Users, NEW g \in Goroutines, ReadParent(g, u)
      PROVE  Tree'
  <2>1. UNCHANGED tables
    BY <1>5 DEF ReadParent
  <2>2. PICK n : Goto(g, n) /\ Judged(n, quotas', spent')
    BY <1>5, <2>1, ReadingJudges
  <2>3. Aging /\ Ids' /\ ChildInsideParent'
    BY <2>1, NothingAges DEF tables
  <2>4. QED
    BY <2>2, <2>3, NoteTaken
<1>6. ASSUME NEW u \in Users, NEW g \in Goroutines, UpdateQuota(g, u)
      PROVE  Tree'
  <2>1. PICK n : n.at = "count" /\ Goto(g, n)
    BY <1>6 DEF UpdateQuota
  <2>2. Judged(n, quotas', spent')
    BY <2>1 DEF Judged
  <2>3. Aging /\ Ids' /\ ChildInsideParent'
    BY <1>6, NothingAges DEF tables, UpdateQuota
  <2>4. QED
    BY <2>1, <2>2, <2>3, NoteTaken
<1>7. ASSUME NEW g \in Goroutines, InsertChild(g)
      PROVE  Tree'
  <2>1. At(g, "insert") /\ Return(g)
    BY <1>7 DEF InsertChild
  <2>2. CASE UNCHANGED tables
    <3>1. Aging /\ Ids' /\ ChildInsideParent'
      BY <2>2, NothingAges DEF tables
    <3>2. QED
      BY <2>1, <3>1, NoteTaken
  <2>3. CASE InsertQuota(calls[g].user, calls[g].quota)
    <3>1. \A p \in quotas : p.id = calls[g].quota.parent => ValidateChild(calls[g].quota, p)
      <4>1. \A r \in quotas : r.id # None
        BY PerksAssumption DEF TablesOK, Quota
      <4>2. QED
        BY <2>1, <4>1 DEF At, NotesOK, Judged
    <3>2. Aging /\ Ids' /\ ChildInsideParent'
      BY <2>3, <3>1, InsertKeepsTree
    <3>3. QED
      BY <2>1, <3>2, NoteTaken
  <2>4. QED
    BY <1>7, <2>2, <2>3 DEF InsertChild
<1>8. ASSUME NEW g \in Goroutines, CountHistory(g)
      PROVE  Tree'
  <2>1. UNCHANGED tables /\ At(g, "count")
    BY <1>8 DEF CountHistory
  <2>2. Aging /\ Ids' /\ ChildInsideParent'
    BY <2>1, NothingAges DEF tables
  <2>3. CASE Return(g)
    BY <2>2, <2>3, NoteTaken
  <2>4. CASE Goto(g, [calls[g] EXCEPT !.at = "patch"])
    <3>1. calls[g] \in Note /\ calls[g].at = "count"
      BY <2>1 DEF At, CallsOK
    <3>2. [calls[g] EXCEPT !.at = "patch"].at = "patch"
      BY <3>1 DEF Note
    <3>3. Judged([calls[g] EXCEPT !.at = "patch"], quotas', spent')
      BY <3>2 DEF Judged
    <3>4. QED
      BY <2>2, <2>4, <3>3, NoteTaken
  <2>5. QED
    BY <1>8, <2>3, <2>4 DEF CountHistory
<1>9. ASSUME NEW g \in Goroutines, PatchSize(g)
      PROVE  Tree'
  <2>1. Aging /\ Ids' /\ ChildInsideParent'
    BY <1>9, PatchKeepsTree
  <2>2. QED
    BY <1>9, <2>1, NoteTaken DEF PatchSize
<1>10. QED
  BY <1>2, <1>3, <1>4, <1>5, <1>6, <1>7, <1>8, <1>9 DEF Next

(********************************** ledger *********************************)

LEMMA WholeInsert ==
  ASSUME NEW u, NEW q, InsertQuota(u, q), UNCHANGED <<perks, events, snapshots>>, LedgerWhole
  PROVE  LedgerWhole'
  BY DEF InsertQuota, Insertable, PerksOf, Nests, LedgerWhole

LEMMA WholeDelete ==
  ASSUME TablesOK, ChildInsideParent, NEW u, DeleteQuota(u), LedgerWhole
  PROVE  LedgerWhole'
<1>1. PICK q \in QuotasOf(u) :
        /\ quotas' = quotas \ Gone(q)
        /\ events' = Kept(events, Gone(q)) /\ snapshots' = Kept(snapshots, Gone(q))
  BY DEF DeleteQuota
<1>2. perks' = perks
  BY DEF DeleteQuota
<1>3. ASSUME NEW c \in quotas'
      PROVE  /\ \E p \in perks : p.id = c.perk
             /\ c.parent = None \/ \E p \in quotas' : p.id = c.parent
  <2>1. c \in quotas /\ q.id # c.id /\ q.id # c.parent
    BY <1>1 DEF Gone
  <2>2. CASE c.parent = None
    BY <2>1, <2>2 DEF LedgerWhole
  <2>3. CASE c.parent # None
    <3>1. PICK p \in quotas : p.id = c.parent /\ p.parent = None
      BY <2>1, <2>3 DEF ChildInsideParent
    <3>2. q.id # None
      BY PerksAssumption DEF QuotasOf, TablesOK, Quota
    <3>3. p \in quotas'
      BY <1>1, <2>1, <3>1, <3>2 DEF Gone
    <3>4. QED
      BY <2>1, <3>1, <3>3 DEF LedgerWhole
  <2>4. QED
    BY <2>2, <2>3
<1>4. ASSUME NEW x \in events' \cup snapshots'
      PROVE  \E c \in quotas' : c.id = x.quota
  <2>1. x \in events \cup snapshots /\ \A c \in Gone(q) : c.id # x.quota
    BY <1>1, <1>4 DEF Kept
  <2>2. PICK c \in quotas : c.id = x.quota
    BY <2>1 DEF LedgerWhole
  <2>3. QED
    BY <1>1, <2>1, <2>2
<1>5. QED
  BY <1>2, <1>3, <1>4 DEF LedgerWhole

LEMMA StepKeepsLedger ==
  ASSUME TablesOK, Tree, LedgerWhole, Next
  PROVE  LedgerWhole'
<1>1. ASSUME NEW u \in Users, CreatePerk(u)
      PROVE  LedgerWhole'
  BY <1>1 DEF CreatePerk, LedgerWhole
<1>2. ASSUME NEW u \in Users, UpdatePerk(u)
      PROVE  LedgerWhole'
  <2>1. PICK p \in PerksOf(u), n \in Names :
          /\ perks' = (perks \ {p}) \cup {[p EXCEPT !.name = n]}
          /\ UNCHANGED <<quotas, events, snapshots>>
    BY <1>2 DEF UpdatePerk
  <2>2. [p EXCEPT !.name = n].id = p.id
    BY DEF PerksOf, TablesOK, Perk
  <2>3. QED
    BY <2>1, <2>2 DEF LedgerWhole
<1>3. ASSUME NEW u \in Users, DeletePerk(u)
      PROVE  LedgerWhole'
  BY <1>3 DEF DeletePerk, HasWindows, LedgerWhole
<1>4. ASSUME NEW u \in Users, CreateQuota(u)
      PROVE  LedgerWhole'
  BY <1>4, WholeInsert DEF CreateQuota
<1>5. ASSUME NEW u \in Users, DeleteQuota(u)
      PROVE  LedgerWhole'
  BY <1>5, WholeDelete DEF Tree
<1>6. ASSUME NEW u \in Users, CreateEvent(u)
      PROVE  LedgerWhole'
  <2>1. PICK q \in QuotasOf(u), kind \in Kinds, qty \in Quantities, d \in Days :
          events' = events \cup {[id |-> recorded.events + 1, quota |-> q.id, kind |-> kind,
                                  qty |-> qty, date |-> d]}
    BY <1>6 DEF CreateEvent
  <2>2. \A e \in events' : e \in events \/ e.quota = q.id
    BY <2>1
  <2>3. QED
    BY <1>6, <2>2 DEF CreateEvent, QuotasOf, LedgerWhole
<1>7. ASSUME NEW u \in Users, DeleteEvent(u)
      PROVE  LedgerWhole'
  BY <1>7 DEF DeleteEvent, LedgerWhole
<1>8. ASSUME NEW u \in Users, CreateSnapshot(u)
      PROVE  LedgerWhole'
  <2>1. PICK q \in QuotasOf(u), d \in Days, n \in Quantities :
          snapshots' = snapshots \cup {[id |-> recorded.snapshots + 1, quota |-> q.id, on |-> d,
                                        remaining |-> n]}
    BY <1>8 DEF CreateSnapshot
  <2>2. \A s \in snapshots' : s \in snapshots \/ s.quota = q.id
    BY <2>1
  <2>3. QED
    BY <1>8, <2>2 DEF CreateSnapshot, QuotasOf, LedgerWhole
<1>9. ASSUME NEW u \in Users, DeleteSnapshot(u)
      PROVE  LedgerWhole'
  BY <1>9 DEF DeleteSnapshot, LedgerWhole
<1>10. ASSUME UNCHANGED tables
       PROVE  LedgerWhole'
  BY <1>10 DEF tables, LedgerWhole
<1>11. ASSUME NEW u \in Users, NEW g \in Goroutines, ReadParent(g, u) \/ UpdateQuota(g, u)
       PROVE  LedgerWhole'
  BY <1>10, <1>11 DEF ReadParent, UpdateQuota
<1>12. ASSUME NEW g \in Goroutines, InsertChild(g)
       PROVE  LedgerWhole'
  BY <1>10, <1>12, WholeInsert DEF InsertChild
<1>13. ASSUME NEW g \in Goroutines, CountHistory(g)
       PROVE  LedgerWhole'
  BY <1>10, <1>13 DEF CountHistory
<1>14. ASSUME NEW g \in Goroutines, PatchSize(g)
       PROVE  LedgerWhole'
  <2> DEFINE Q == {q \in QuotasOf(calls[g].user) : q.id = calls[g].id}
             P == {[q EXCEPT !.size = calls[g].size] : q \in Q}
  <2>1. quotas' = (quotas \ Q) \cup P /\ UNCHANGED <<perks, events, snapshots>>
    BY <1>14 DEF PatchSize
  <2>2. Q \subseteq quotas
    BY DEF QuotasOf
  <2>3. ASSUME NEW q \in Q
        PROVE  Same([q EXCEPT !.size = calls[g].size], q)
    BY <2>2 DEF TablesOK, Quota, Same
  <2>4. \A q \in P : \E p \in Q : Same(q, p)
    BY <2>3
  <2>5. \A p \in Q : \E q \in P : Same(q, p)
    BY <2>3
  <2> HIDE DEF Q, P
  <2>6. \A q \in quotas' : \E p \in quotas : Same(q, p)
    BY <2>1, <2>2, <2>4 DEF Same
  <2>7. \A p \in quotas : \E q \in quotas' : Same(q, p)
    BY <2>1, <2>5 DEF Same
  <2>8. QED
    BY <2>1, <2>6, <2>7 DEF LedgerWhole, Same
<1>15. QED
  BY <1>1, <1>2, <1>3, <1>4, <1>5, <1>6, <1>7, <1>8, <1>9, <1>11, <1>12, <1>13, <1>14 DEF Next

LEMMA Inductive == Spec => []IInv
<1>1. IInv /\ [Next]_vars => IInv'
  <2>1. UNCHANGED vars /\ IInv => IInv'
    BY DEF vars, tables, IInv, TablesOK, CallsOK, Tree, Ids, ChildInsideParent, NotesOK, Judged,
           LedgerWhole
  <2>2. QED
    BY <2>1, StepTyped, StepKeepsTree, StepKeepsLedger DEF IInv
<1>2. QED
  BY Initially, <1>1, PTL DEF Spec

\* Invariant 2 under any interleaving: the parent was judged in an earlier
\* statement, and its dates and level cannot have changed since.
THEOREM ChildrenStayInside == Spec => []ChildInsideParent
<1>1. IInv => ChildInsideParent
  BY DEF IInv, Tree
<1>2. QED
  BY Inductive, <1>1, PTL

\* Invariant 6 in every state: nothing of the ledger is left without its window,
\* and no window without its perk.
THEOREM LedgerStaysWhole == Spec => []LedgerWhole
<1>1. IInv => LedgerWhole
  BY DEF IInv
<1>2. QED
  BY Inductive, <1>1, PTL

\* Every window stays inside its pool and nothing is ever left without its owner.
THEOREM WindowsStayWhole == Spec => []WindowsWhole
BY ChildrenStayInside, LedgerStaysWhole, PTL DEF WindowsWhole

(********************************* numbers *********************************)

\* A set that has 0 and with every number the next is all of them.
LEMMA Steps ==
  ASSUME NEW N \in SUBSET Nat, 0 \in N, \A n \in N : n + 1 \in N
  PROVE  N = Nat
<1> SUFFICES ASSUME Nat \ N # {} PROVE FALSE
  OBVIOUS
<1> DEFINE R == OpToRel(<, Nat)
<1>1. IsWellFoundedOn(R, Nat)
  BY NatLessThanWellFounded
<1>2. \A m, n \in Nat : m < n => <<m, n>> \in R
  BY DEF OpToRel
<1> HIDE DEF R
<1>3. PICK x \in Nat \ N : \A m \in Nat \ N : ~ (<<m, x>> \in R)
  BY <1>1, WFMin
<1>4. x \in Nat /\ x # 0
  BY <1>3
<1>5. x - 1 \in Nat /\ (x - 1) + 1 = x /\ x - 1 < x
  BY <1>4
<1> QED BY <1>2, <1>3, <1>5

LEMMA Highest ==
  ASSUME NEW s \in SUBSET Nat, NEW k \in s, \A i \in s : i <= k
  PROVE  Max(s) = k
<1>1. \A x \in s : (\A y \in s : x >= y) <=> x = k
  OBVIOUS
<1>2. (CHOOSE x \in s : \A y \in s : x >= y) = k
  BY <1>1
<1> QED BY <1>2 DEF Max

\* A set of numbers of 1..n that is not empty has its highest in it.
LEMMA TopIsIn ==
  ASSUME NEW n \in Nat, NEW s \in SUBSET (1..n), s # {}
  PROVE  Max(s) \in s
<1> DEFINE N == {m \in Nat : \A t \in SUBSET (1..m) : t # {} => Max(t) \in t}
<1>1. 0 \in N
  <2>1. 1..0 = {}
    OBVIOUS
  <2> QED BY <2>1
<1>2. ASSUME NEW m \in N PROVE m + 1 \in N
  <2>0. m \in Nat
    OBVIOUS
  <2>1. ASSUME NEW t \in SUBSET (1..(m + 1)), t # {} PROVE Max(t) \in t
    <3>1. CASE m + 1 \in t
      <4>1. t \in SUBSET Nat /\ \A i \in t : i <= m + 1
        BY <2>0
      <4> QED BY <3>1, <4>1, Highest
    <3>2. CASE m + 1 \notin t
      <4>1. t \in SUBSET (1..m)
        BY <2>0, <3>2
      <4> QED BY <2>1, <4>1
    <3> QED BY <3>1, <3>2
  <2> QED BY <2>0, <2>1
<1>3. N = Nat
  <2>1. N \in SUBSET Nat
    OBVIOUS
  <2> HIDE DEF N
  <2> QED BY <1>1, <1>2, <2>1, Steps
<1> QED BY <1>3

(********************************** folds **********************************)

\* f carries the fold of F over the parts of 1..n, from the left
Carries(f, n, base, F) ==
  \A s \in SUBSET (1..n) :
    f[s] = IF s = {} THEN base ELSE F[<<f[s \ {Max(s)}], Max(s)>>]

\* The function a fold is defined by exists: one of the parts of 1..n gives one of the
\* parts of 1..n+1.
LEMMA FoldExists ==
  ASSUME NEW m \in Nat, NEW A, NEW base \in A, NEW F \in [A \X (1..m) -> A]
  PROVE  \E f \in [SUBSET (1..m) -> A] : Carries(f, m, base, F)
<1> DEFINE N == {n \in Nat : n <= m => \E f \in [SUBSET (1..n) -> A] : Carries(f, n, base, F)}
<1>1. 0 \in N
  <2> DEFINE f == [s \in SUBSET (1..0) |-> base]
  <2>1. 1..0 = {}
    OBVIOUS
  <2>2. \A s \in SUBSET (1..0) : s = {}
    BY <2>1
  <2>3. f \in [SUBSET (1..0) -> A] /\ Carries(f, 0, base, F)
    BY <2>2 DEF Carries
  <2> QED BY <2>3
<1>2. ASSUME NEW n \in N PROVE n + 1 \in N
  <2>0. n \in Nat /\ n + 1 \in Nat
    OBVIOUS
  <2> SUFFICES ASSUME n + 1 <= m
               PROVE  \E f \in [SUBSET (1..(n + 1)) -> A] : Carries(f, n + 1, base, F)
    BY <2>0
  <2>1. n \in Nat /\ n <= m /\ n + 1 \in 1..m
    OBVIOUS
  <2>2. PICK f \in [SUBSET (1..n) -> A] : Carries(f, n, base, F)
    BY <2>1
  <2> DEFINE k == n + 1
             g == [s \in SUBSET (1..k) |-> IF k \in s THEN F[<<f[s \ {k}], k>>] ELSE f[s]]
  <2>3. \A s \in SUBSET (1..k) : s \ {k} \in SUBSET (1..n) /\ (k \notin s => s \in SUBSET (1..n))
    BY <2>1
  <2>4. g \in [SUBSET (1..k) -> A]
    BY <2>1, <2>3
  <2>5. ASSUME NEW s \in SUBSET (1..k)
        PROVE  g[s] = IF s = {} THEN base ELSE F[<<g[s \ {Max(s)}], Max(s)>>]
    <3>1. CASE k \in s
      <4>1. Max(s) = k
        BY <2>1, <3>1, Highest
      <4>2. s \ {k} \in SUBSET (1..k) /\ k \notin s \ {k}
        OBVIOUS
      <4>3. g[s \ {k}] = f[s \ {k}]
        BY <4>2
      <4> QED BY <3>1, <4>1, <4>3
    <3>2. CASE k \notin s
      <4>1. s \in SUBSET (1..n) /\ g[s] = f[s]
        BY <2>3, <3>2
      <4>2. s \ {Max(s)} \in SUBSET (1..k) /\ k \notin s \ {Max(s)}
        BY <3>2
      <4>3. g[s \ {Max(s)}] = f[s \ {Max(s)}]
        BY <4>2
      <4> QED BY <2>2, <4>1, <4>3 DEF Carries
    <3> QED BY <3>1, <3>2
  <2>6. Carries(g, k, base, F)
    BY <2>5 DEF Carries
  <2> HIDE DEF g
  <2> QED BY <2>4, <2>6
<1>3. N = Nat
  <2>1. N \in SUBSET Nat
    OBVIOUS
  <2> HIDE DEF N
  <2> QED BY <1>1, <1>2, <2>1, Steps
<1>4. m \in N /\ m <= m
  <2> HIDE DEF N
  <2> QED BY <1>3
<1> QED BY <1>4

Acc == [size : Int, at : Nat, id : Nat, extra : Int]

Unrated(q) == [size |-> q.size, at |-> 0, id |-> 0, extra |-> 0]

\* one row of the ledger (Step in EffectiveSize)
Rate(q, asOf, acc, e) ==
  IF e.quota # q.id \/ ~ OnOrBefore(e.date, asOf) THEN acc
  ELSE IF e.kind = "resize" /\ TakesOver(acc, e)
       THEN [acc EXCEPT !.size = e.qty, !.at = e.date, !.id = e.id]
  ELSE IF e.kind \in {"grant", "adjust"} THEN [acc EXCEPT !.extra = @ + e.qty]
  ELSE acc

Rates(f, q, L, d) ==
  f = [s \in SUBSET (DOMAIN L) |->
         IF s = {} THEN Unrated(q) ELSE Rate(q, d, f[s \ {Max(s)}], L[Max(s)])]

LEMMA SizeIsFold ==
  ASSUME NEW q, NEW L, NEW d
  PROVE  LET f == CHOOSE f : Rates(f, q, L, d) IN
         EffectiveSize(q, L, d) = f[DOMAIN L].size + f[DOMAIN L].extra
BY DEF EffectiveSize, FoldLeft, MapThenFoldSet, Rates, Rate, Unrated

\* one row of the ledger (the step of Consumed)
Use(q, asOf, n, e) ==
  IF /\ e.kind = "use" /\ OnOrBefore(e.date, asOf)
     /\ q.id \in {e.quota, ParentOf(e.quota)}
  THEN n + e.qty ELSE n

Uses(f, q, L, d) ==
  f = [s \in SUBSET (DOMAIN L) |->
         IF s = {} THEN 0 ELSE Use(q, d, f[s \ {Max(s)}], L[Max(s)])]

LEMMA ConsumedIsFold ==
  ASSUME NEW q, NEW L, NEW d
  PROVE  LET f == CHOOSE f : Uses(f, q, L, d) IN
         Consumed(q, L, d) = f[DOMAIN L]
BY DEF Consumed, FoldLeft, MapThenFoldSet, Uses, Use

(******************************** quantities *******************************)

Qty(S) == MapThenSumSet(LAMBDA e : e.qty, S)

Quantified(S) == IsFiniteSet(S) /\ \A e \in S : e.qty \in Int

AnyOf(s) == CHOOSE e \in s : TRUE

QtySums(f, S) ==
  f = [s \in SUBSET S |-> IF s = {} THEN 0 ELSE AnyOf(s).qty + f[s \ {AnyOf(s)}]]

\* f adds up, whichever element is taken first
AddsUp(f, S) ==
  /\ f \in [SUBSET S -> Int] /\ f[{}] = 0
  /\ \A s \in SUBSET S : \A e \in s : f[s] = e.qty + f[s \ {e}]

LEMMA SizeOfPart ==
  ASSUME NEW S, IsFiniteSet(S), NEW s \in SUBSET S
  PROVE  /\ Cardinality(s) \in Nat /\ (Cardinality(s) = 0 => s = {})
         /\ \A e \in s : /\ s \ {e} \in SUBSET S
                         /\ Cardinality(s \ {e}) = Cardinality(s) - 1
<1>1. IsFiniteSet(s)
  BY FS_Subset
<1> QED BY <1>1, FS_CardinalityType, FS_EmptySet, FS_RemoveElement

\* A sum over a finite set exists and does not depend on the order.
LEMMA SumExists ==
  ASSUME NEW S, Quantified(S)
  PROVE  \E f : AddsUp(f, S)
<1> DEFINE Upto(f, n) == \A s \in SUBSET S : Cardinality(s) <= n =>
                           \A e \in s : f[s] = e.qty + f[s \ {e}]
           N == {n \in Nat : \E f \in [SUBSET S -> Int] : f[{}] = 0 /\ Upto(f, n)}
<1>0. IsFiniteSet(S) /\ \A e \in S : e.qty \in Int
  BY DEF Quantified
<1>1. \A s \in SUBSET S :
        /\ Cardinality(s) \in Nat /\ (Cardinality(s) = 0 => s = {})
        /\ \A e \in s : s \ {e} \in SUBSET S /\ Cardinality(s \ {e}) = Cardinality(s) - 1
  BY <1>0, SizeOfPart
<1>2. 0 \in N
  <2> DEFINE f == [s \in SUBSET S |-> 0]
  <2>1. f \in [SUBSET S -> Int] /\ f[{}] = 0
    OBVIOUS
  <2>2. Upto(f, 0)
    BY <1>1
  <2> HIDE DEF f, Upto
  <2> QED BY <2>1, <2>2
<1>3. ASSUME NEW n \in N PROVE n + 1 \in N
  <2>1. PICK f \in [SUBSET S -> Int] : f[{}] = 0 /\ Upto(f, n)
    OBVIOUS
  <2> DEFINE g == [s \in SUBSET S |-> IF Cardinality(s) <= n THEN f[s]
                                      ELSE AnyOf(s).qty + f[s \ {AnyOf(s)}]]
  <2>2. n \in Nat /\ n + 1 \in Nat /\ Cardinality({}) = 0 /\ 0 <= n
    BY FS_EmptySet
  <2>3. \A s \in SUBSET S : ~ (Cardinality(s) <= n) => AnyOf(s) \in s
    BY <2>2 DEF AnyOf
  <2>4. g \in [SUBSET S -> Int]
    BY <1>0, <1>1, <2>3
  <2>5. g[{}] = 0
    BY <2>1, <2>2
  <2>6. ASSUME NEW s \in SUBSET S, Cardinality(s) <= n + 1, NEW e \in s
        PROVE  g[s] = e.qty + g[s \ {e}]
    <3>1. /\ s \ {e} \in SUBSET S /\ Cardinality(s \ {e}) = Cardinality(s) - 1
          /\ Cardinality(s) \in Nat /\ Cardinality(s \ {e}) <= n
      BY <1>1, <2>2, <2>6
    <3>2. g[s \ {e}] = f[s \ {e}]
      BY <3>1
    <3>3. CASE Cardinality(s) <= n
      BY <2>1, <3>2, <3>3
    <3>4. CASE ~ (Cardinality(s) <= n)
      <4> DEFINE c == AnyOf(s)
      <4>1. c \in s /\ g[s] = c.qty + f[s \ {c}]
        BY <2>3, <3>4
      <4>2. CASE c = e
        BY <3>2, <4>1, <4>2
      <4>3. CASE c # e
        <5> HIDE DEF c
        <5>1. /\ s \ {c} \in SUBSET S /\ Cardinality(s \ {c}) <= n
              /\ e \in s \ {c} /\ c \in s \ {e}
              /\ (s \ {c}) \ {e} = (s \ {e}) \ {c}
          BY <1>1, <2>2, <2>6, <4>1, <4>3
        <5>2. f[s \ {c}] = e.qty + f[(s \ {c}) \ {e}]
          BY <2>1, <5>1
        <5>3. f[s \ {e}] = c.qty + f[(s \ {e}) \ {c}]
          BY <2>1, <3>1, <5>1
        <5>4. e.qty \in Int /\ c.qty \in Int /\ f[(s \ {c}) \ {e}] \in Int
          BY <1>0, <2>1, <4>1, <5>1
        <5>5. c.qty + (e.qty + f[(s \ {c}) \ {e}]) = e.qty + (c.qty + f[(s \ {c}) \ {e}])
          BY <5>4
        <5> HIDE DEF g
        <5> QED BY <3>2, <4>1, <5>1, <5>2, <5>3, <5>5
      <4> QED BY <4>2, <4>3
    <3> QED BY <3>3, <3>4
  <2>7. Upto(g, n + 1)
    BY <2>6
  <2> HIDE DEF g, Upto
  <2> QED BY <2>2, <2>4, <2>5, <2>7
<1>4. Cardinality(S) \in N
  <2>1. N = Nat
    <3>1. N \in SUBSET Nat
      OBVIOUS
    <3> HIDE DEF N
    <3> QED BY <1>2, <1>3, <3>1, Steps
  <2> HIDE DEF N
  <2> QED BY <1>1, <2>1
<1>5. PICK f \in [SUBSET S -> Int] : f[{}] = 0 /\ Upto(f, Cardinality(S))
  BY <1>4
<1>6. \A s \in SUBSET S : Cardinality(s) <= Cardinality(S)
  BY <1>0, FS_Subset
<1>7. AddsUp(f, S)
  BY <1>5, <1>6 DEF AddsUp
<1> QED BY <1>7

LEMMA QtyIsSum ==
  ASSUME NEW S, Quantified(S), NEW f, AddsUp(f, S), NEW S0 \in SUBSET S
  PROVE  Qty(S0) = f[S0]
<1> DEFINE g == CHOOSE g : QtySums(g, S0)
           r == [s \in SUBSET S0 |-> f[s]]
           N == {n \in Nat : \A s \in SUBSET S0 : Cardinality(s) <= n => g[s] = f[s]}
<1>1. Qty(S0) = g[S0]
  BY DEF Qty, MapThenSumSet, MapThenFoldSet, QtySums, AnyOf
<1>2. \A s \in SUBSET S0 : s # {} => AnyOf(s) \in s /\ s \ {AnyOf(s)} \in SUBSET S0
  BY DEF AnyOf
<1>3. QtySums(r, S0)
  <2>1. \A s \in SUBSET S0 :
          r[s] = IF s = {} THEN 0 ELSE AnyOf(s).qty + r[s \ {AnyOf(s)}]
    BY <1>2 DEF AddsUp
  <2> QED BY <2>1 DEF QtySums
<1>4. QtySums(g, S0)
  BY <1>3
<1> HIDE DEF g, r
<1>5. \A s \in SUBSET S0 : g[s] = IF s = {} THEN 0 ELSE AnyOf(s).qty + g[s \ {AnyOf(s)}]
  BY <1>4 DEF QtySums
<1>6. IsFiniteSet(S0)
  BY FS_Subset DEF Quantified
<1>7. \A s \in SUBSET S0 :
        /\ Cardinality(s) \in Nat /\ (Cardinality(s) = 0 => s = {})
        /\ \A e \in s : s \ {e} \in SUBSET S0 /\ Cardinality(s \ {e}) = Cardinality(s) - 1
  BY <1>6, SizeOfPart
<1>8. 0 \in N
  <2>1. \A s \in SUBSET S0 : Cardinality(s) <= 0 => s = {}
    BY <1>7
  <2>2. g[{}] = f[{}]
    BY <1>5 DEF AddsUp
  <2> QED BY <2>1, <2>2
<1>9. ASSUME NEW n \in N PROVE n + 1 \in N
  <2>1. ASSUME NEW s \in SUBSET S0, Cardinality(s) <= n + 1 PROVE g[s] = f[s]
    <3>1. CASE s = {}
      BY <1>5, <3>1 DEF AddsUp
    <3>2. CASE s # {}
      <4>1. AnyOf(s) \in s /\ s \ {AnyOf(s)} \in SUBSET S0 /\ Cardinality(s \ {AnyOf(s)}) <= n
        BY <1>2, <1>7, <2>1, <3>2
      <4>2. g[s \ {AnyOf(s)}] = f[s \ {AnyOf(s)}]
        BY <4>1
      <4>3. f[s] = AnyOf(s).qty + f[s \ {AnyOf(s)}]
        BY <4>1 DEF AddsUp
      <4> QED BY <1>5, <3>2, <4>2, <4>3
    <3> QED BY <3>1, <3>2
  <2> QED BY <2>1
<1>10. Cardinality(S0) \in N
  <2>1. N \in SUBSET Nat
    OBVIOUS
  <2> HIDE DEF N
  <2>2. N = Nat
    BY <1>8, <1>9, <2>1, Steps
  <2> QED BY <1>7, <2>2
<1> QED BY <1>1, <1>7, <1>10

\* One more row adds its quantity.
LEMMA AddQty ==
  ASSUME NEW S, Quantified(S), NEW e, e.qty \in Int, e \notin S
  PROVE  Qty(S) \in Int /\ Qty(S \cup {e}) = Qty(S) + e.qty
<1> DEFINE T == S \cup {e}
<1>1. Quantified(T)
  BY FS_AddElement DEF Quantified
<1> HIDE DEF T
<1>2. PICK f : AddsUp(f, T)
  BY <1>1, SumExists
<1>3. S \in SUBSET T /\ T \in SUBSET T /\ e \in T /\ T \ {e} = S
  BY DEF T
<1>4. Qty(S) = f[S] /\ Qty(T) = f[T]
  BY <1>1, <1>2, <1>3, QtyIsSum
<1>5. f[T] = e.qty + f[S] /\ f[S] \in Int
  BY <1>2, <1>3 DEF AddsUp
<1> QED BY <1>4, <1>5 DEF T

LEMMA NoQty == Qty({}) = 0
<1>1. Quantified({})
  BY FS_EmptySet DEF Quantified
<1>2. PICK f : AddsUp(f, {})
  BY <1>1, SumExists
<1>3. Qty({}) = f[{}]
  BY <1>1, <1>2, QtyIsSum
<1> QED BY <1>2, <1>3 DEF AddsUp

(********************************* counters ********************************)

\* rows of the ledger, each there once
Booked(E) ==
  /\ IsFiniteSet(E) /\ E \subseteq Event
  /\ \A e, f \in E : e.id = f.id => e = f

LEMMA EventTyped ==
  ASSUME NEW e \in Event
  PROVE  e.id \in Nat /\ e.id # 0 /\ e.qty \in Int /\ e.date \in Nat
<1>1. MaxEvents \in Nat /\ Days \subseteq Nat
  BY PerksAssumption
<1>2. e.id \in 1 .. MaxEvents /\ e.qty \in Int /\ e.date \in Days
  BY DEF Event
<1>3. e.date \in Nat
  BY <1>1, <1>2
<1>4. \A i \in 1 .. MaxEvents : i \in Nat /\ i # 0
  BY <1>1
<1> QED BY <1>2, <1>3, <1>4

LEMMA ListOf ==
  ASSUME NEW E, IsFiniteSet(E), NEW L \in SetToSeqs(E)
  PROVE  /\ Cardinality(E) \in Nat
         /\ L \in [1..Cardinality(E) -> E] /\ DOMAIN L = 1..Cardinality(E)
         /\ \A i, j \in 1..Cardinality(E) : L[i] = L[j] => i = j
         /\ \A e \in E : \E i \in 1..Cardinality(E) : L[i] = e
<1> DEFINE n == Cardinality(E)
<1>1. n \in Nat
  BY FS_CardinalityType
<1>2. L \in [1..n -> E] /\ \A i, j \in 1..n : i # j => L[i] # L[j]
  BY DEF SetToSeqs
<1> HIDE DEF n
<1>3. L \in Injection(1..n, E)
  BY <1>2 DEF Injection, IsInjective
<1>4. IsFiniteSet(1..n) /\ Cardinality(1..n) = n
  BY <1>1, FS_Interval
<1>5. L \in Surjection(1..n, E)
  BY <1>3, <1>4, FS_Injection DEF n
<1>6. \A e \in E : \E i \in 1..n : L[i] = e
  BY <1>5 DEF Surjection
<1> QED BY <1>1, <1>2, <1>6 DEF n

LEMMA RateTyped ==
  ASSUME NEW q, NEW d, NEW acc \in Acc, NEW e \in Event
  PROVE  Rate(q, d, acc, e) \in Acc
<1>1. e.id \in Nat /\ e.qty \in Int /\ e.date \in Nat
  BY EventTyped
<1>2. [acc EXCEPT !.size = e.qty, !.at = e.date, !.id = e.id] \in Acc
  BY <1>1 DEF Acc
<1>3. [acc EXCEPT !.extra = @ + e.qty] \in Acc
  BY <1>1 DEF Acc
<1> QED BY <1>2, <1>3 DEF Rate

\* The parts 1..k of a fold are its steps.
LEMMA Prefix ==
  ASSUME NEW n \in Nat, NEW k \in 1..n
  PROVE  /\ 1..k \in SUBSET (1..n) /\ 1..k # {} /\ Max(1..k) = k
         /\ (1..k) \ {Max(1..k)} = 1..(k - 1)
<1>1. Max(1..k) = k
  <2>1. 1..k \in SUBSET Nat /\ k \in 1..k /\ \A i \in 1..k : i <= k
    OBVIOUS
  <2> QED BY <2>1, Highest
<1> QED BY <1>1

\* h is what EffectiveSize has found after each of n rows
RatedInSteps(h, q, L, d, n) ==
  /\ h[0] = Unrated(q)
  /\ \A k \in 1..n : h[k] = Rate(q, d, h[k - 1], L[k])
  /\ EffectiveSize(q, L, d) = h[n].size + h[n].extra

\* The size is computed row by row.
LEMMA Rating ==
  ASSUME NEW q, q.size \in Int, NEW d, NEW n \in Nat, NEW L \in [1..n -> Event]
  PROVE  \E h \in [0..n -> Acc] : RatedInSteps(h, q, L, d, n)
<1> DEFINE F == [x \in Acc \X (1..n) |-> Rate(q, d, x[1], L[x[2]])]
           f == CHOOSE f : Rates(f, q, L, d)
<1>1. Unrated(q) \in Acc /\ DOMAIN L = 1..n
  BY DEF Unrated, Acc
<1>2. F \in [Acc \X (1..n) -> Acc]
  BY RateTyped
<1>3. PICK g \in [SUBSET (1..n) -> Acc] : Carries(g, n, Unrated(q), F)
  BY <1>1, <1>2, FoldExists
<1>4. Rates(g, q, L, d)
  <2>1. ASSUME NEW s \in SUBSET (1..n)
        PROVE  g[s] = IF s = {} THEN Unrated(q) ELSE Rate(q, d, g[s \ {Max(s)}], L[Max(s)])
    <3>1. CASE s = {}
      BY <1>3, <3>1 DEF Carries
    <3>2. CASE s # {}
      <4>1. Max(s) \in 1..n /\ s \ {Max(s)} \in SUBSET (1..n)
        BY <3>2, TopIsIn
      <4>2. g[s \ {Max(s)}] \in Acc
        BY <1>3, <4>1
      <4>3. g[s] = F[<<g[s \ {Max(s)}], Max(s)>>]
        BY <1>3, <3>2 DEF Carries
      <4> QED BY <3>2, <4>1, <4>2, <4>3
    <3> QED BY <3>1, <3>2
  <2> QED BY <1>1, <2>1 DEF Rates
<1>5. Rates(f, q, L, d)
  BY <1>4
<1>6. EffectiveSize(q, L, d) = f[1..n].size + f[1..n].extra
  BY <1>1, SizeIsFold
<1> HIDE DEF f
<1>7. \A s \in SUBSET (1..n) :
        f[s] = IF s = {} THEN Unrated(q) ELSE Rate(q, d, f[s \ {Max(s)}], L[Max(s)])
  BY <1>1, <1>5 DEF Rates
<1> DEFINE h == [k \in 0..n |-> f[1..k]]
           N == {k \in Nat : k <= n => f[1..k] \in Acc}
<1>8. f[1..0] = Unrated(q)
  <2>1. 1..0 = {} /\ 1..0 \in SUBSET (1..n)
    OBVIOUS
  <2> QED BY <1>7, <2>1
<1>9. \A k \in 1..n : f[1..k] = Rate(q, d, f[1..(k - 1)], L[k])
  BY <1>7, Prefix
<1>10. N = Nat
  <2>1. N \in SUBSET Nat
    OBVIOUS
  <2>2. 0 \in N
    BY <1>1, <1>8
  <2>3. ASSUME NEW k \in N PROVE k + 1 \in N
    <3>1. k \in Nat /\ k + 1 \in Nat /\ (k + 1) - 1 = k
      OBVIOUS
    <3>2. CASE k + 1 <= n
      <4>1. k + 1 \in 1..n /\ f[1..k] \in Acc
        BY <3>1, <3>2
      <4>2. f[1..(k + 1)] = Rate(q, d, f[1..k], L[k + 1])
        BY <1>9, <3>1, <4>1
      <4> QED BY <3>1, <4>1, <4>2, RateTyped
    <3> QED BY <3>1, <3>2
  <2> HIDE DEF N
  <2> QED BY <2>1, <2>2, <2>3, Steps
<1>11. h \in [0..n -> Acc]
  BY <1>10
<1>12. \A k \in 1..n : h[k] = Rate(q, d, h[k - 1], L[k])
  BY <1>9
<1>13. h[0] = Unrated(q) /\ h[n] = f[1..n]
  BY <1>8
<1> HIDE DEF h
<1> QED BY <1>6, <1>11, <1>12, <1>13 DEF RatedInSteps

\* h is what Consumed has counted after each of n rows
UsedInSteps(h, q, L, d, n) ==
  /\ h[0] = 0
  /\ \A k \in 1..n : h[k] = Use(q, d, h[k - 1], L[k])
  /\ Consumed(q, L, d) = h[n]

\* So is what is used up.
LEMMA Using ==
  ASSUME NEW q, NEW d, NEW n \in Nat, NEW L \in [1..n -> Event]
  PROVE  \E h \in [0..n -> Int] : UsedInSteps(h, q, L, d, n)
<1> DEFINE F == [x \in Int \X (1..n) |-> Use(q, d, x[1], L[x[2]])]
           f == CHOOSE f : Uses(f, q, L, d)
<1>1. DOMAIN L = 1..n
  OBVIOUS
<1>0. \A i \in Int, e \in Event : Use(q, d, i, e) \in Int
  BY EventTyped DEF Use
<1>2. F \in [Int \X (1..n) -> Int]
  BY <1>0
<1>3. PICK g \in [SUBSET (1..n) -> Int] : Carries(g, n, 0, F)
  <2>1. 0 \in Int
    OBVIOUS
  <2> HIDE DEF F
  <2> QED BY <1>2, <2>1, FoldExists
<1>4. Uses(g, q, L, d)
  <2>1. ASSUME NEW s \in SUBSET (1..n)
        PROVE  g[s] = IF s = {} THEN 0 ELSE Use(q, d, g[s \ {Max(s)}], L[Max(s)])
    <3>1. CASE s = {}
      BY <1>3, <3>1 DEF Carries
    <3>2. CASE s # {}
      <4>1. Max(s) \in 1..n /\ s \ {Max(s)} \in SUBSET (1..n)
        BY <3>2, TopIsIn
      <4>2. g[s \ {Max(s)}] \in Int
        BY <1>3, <4>1
      <4>3. g[s] = F[<<g[s \ {Max(s)}], Max(s)>>]
        BY <1>3, <3>2 DEF Carries
      <4> QED BY <3>2, <4>1, <4>2, <4>3
    <3> QED BY <3>1, <3>2
  <2> QED BY <1>1, <2>1 DEF Uses
<1>5. Uses(f, q, L, d)
  BY <1>4
<1>6. Consumed(q, L, d) = f[1..n]
  BY <1>1, ConsumedIsFold
<1> HIDE DEF f
<1>7. \A s \in SUBSET (1..n) :
        f[s] = IF s = {} THEN 0 ELSE Use(q, d, f[s \ {Max(s)}], L[Max(s)])
  BY <1>1, <1>5 DEF Uses
<1> DEFINE h == [k \in 0..n |-> f[1..k]]
           N == {k \in Nat : k <= n => f[1..k] \in Int}
<1>8. f[1..0] = 0
  <2>1. 1..0 = {} /\ 1..0 \in SUBSET (1..n)
    OBVIOUS
  <2> QED BY <1>7, <2>1
<1>9. \A k \in 1..n : f[1..k] = Use(q, d, f[1..(k - 1)], L[k])
  BY <1>7, Prefix
<1>10. N = Nat
  <2>1. N \in SUBSET Nat
    OBVIOUS
  <2>2. 0 \in N
    BY <1>8
  <2>3. ASSUME NEW k \in N PROVE k + 1 \in N
    <3>1. k \in Nat /\ k + 1 \in Nat /\ (k + 1) - 1 = k
      OBVIOUS
    <3>2. CASE k + 1 <= n
      <4>1. k + 1 \in 1..n /\ f[1..k] \in Int
        BY <3>1, <3>2
      <4>2. f[1..(k + 1)] = Use(q, d, f[1..k], L[k + 1])
        BY <1>9, <3>1, <4>1
      <4> QED BY <1>0, <3>1, <4>1, <4>2
    <3> QED BY <3>1, <3>2
  <2> HIDE DEF N
  <2> QED BY <2>1, <2>2, <2>3, Steps
<1>11. h \in [0..n -> Int]
  BY <1>10
<1>12. \A k \in 1..n : h[k] = Use(q, d, h[k - 1], L[k])
  BY <1>9
<1>13. h[0] = 0 /\ h[n] = f[1..n]
  BY <1>8
<1> HIDE DEF h
<1> QED BY <1>6, <1>11, <1>12, <1>13 DEF UsedInSteps

(*************************** counters from sets ****************************)

\* the first k rows
First(L, k) == {L[i] : i \in 1..k}

\* The first k rows are one more than the first k - 1.
LEMMA OneMore ==
  ASSUME NEW E, Booked(E), NEW L \in SetToSeqs(E), NEW k \in 1..Cardinality(E)
  PROVE  /\ First(L, k) = First(L, k - 1) \cup {L[k]}
         /\ L[k] \in Event /\ L[k] \notin First(L, k - 1)
         /\ Booked(First(L, k)) /\ Booked(First(L, k - 1))
<1>1. /\ Cardinality(E) \in Nat /\ L \in [1..Cardinality(E) -> E]
      /\ \A i, j \in 1..Cardinality(E) : L[i] = L[j] => i = j
  BY ListOf DEF Booked
<1>2. 1..k = (1..(k - 1)) \cup {k} /\ 1..k \subseteq 1..Cardinality(E) /\ k \notin 1..(k - 1)
  BY <1>1
<1>3. First(L, k) = First(L, k - 1) \cup {L[k]} /\ L[k] \notin First(L, k - 1)
  BY <1>1, <1>2 DEF First
<1>4. First(L, k) \in SUBSET E /\ First(L, k - 1) \in SUBSET E
  BY <1>1, <1>2 DEF First
<1>5. \A S \in SUBSET E : Booked(S)
  BY FS_Subset DEF Booked
<1>6. L[k] \in E
  BY <1>1
<1> QED BY <1>3, <1>4, <1>5, <1>6 DEF Booked

\* All of them are the rows, and none of them is no row.
LEMMA AllRows ==
  ASSUME NEW E, Booked(E), NEW L \in SetToSeqs(E)
  PROVE  First(L, Cardinality(E)) = E /\ First(L, 0) = {} /\ L \in [1..Cardinality(E) -> Event]
<1>1. /\ Cardinality(E) \in Nat /\ L \in [1..Cardinality(E) -> E]
      /\ \A e \in E : \E i \in 1..Cardinality(E) : L[i] = e
  BY ListOf DEF Booked
<1>2. E \subseteq Event
  BY DEF Booked
<1>3. 1..0 = {}
  OBVIOUS
<1> QED BY <1>1, <1>2, <1>3 DEF First

UsesOf(q, E, d) ==
  {e \in E : /\ e.kind = "use" /\ e.date <= d
             /\ q.id \in {e.quota, ParentOf(e.quota)}}

LEMMA BookedQty ==
  ASSUME NEW E, Booked(E), NEW S \in SUBSET E
  PROVE  Quantified(S)
BY FS_Subset, EventTyped DEF Booked, Quantified

\* What is used up is the sum of the uses, in whatever order the rows come.
LEMMA ConsumedIs ==
  ASSUME NEW q, NEW d, NEW E, Booked(E), NEW L \in SetToSeqs(E)
  PROVE  Consumed(q, L, d) = Qty(UsesOf(q, E, d))
<1> DEFINE n == Cardinality(E)
<1>1. n \in Nat
  BY ListOf DEF Booked
<1> HIDE DEF n
<1>0. PICK h \in [0..n -> Int] : UsedInSteps(h, q, L, d, n)
  <2>1. L \in [1..n -> Event]
    BY AllRows DEF n
  <2> QED BY <1>1, <2>1, Using
<1> USE DEF n
<1>2. /\ h[0] = 0
      /\ \A k \in 1..n : h[k] = Use(q, d, h[k - 1], L[k])
      /\ Consumed(q, L, d) = h[n]
  BY <1>0 DEF UsedInSteps
<1> DEFINE N == {k \in Nat : k <= n => h[k] = Qty(UsesOf(q, First(L, k), d))}
<1>3. 0 \in N
  <2>1. UsesOf(q, First(L, 0), d) = {}
    BY AllRows DEF UsesOf
  <2> QED BY <1>2, <2>1, NoQty
<1>4. ASSUME NEW k \in N PROVE k + 1 \in N
  <2>1. k \in Nat /\ k + 1 \in Nat /\ (k + 1) - 1 = k
    OBVIOUS
  <2>2. CASE k + 1 <= n
    <3> DEFINE e == L[k + 1]
               U == UsesOf(q, First(L, k), d)
               V == UsesOf(q, First(L, k + 1), d)
    <3>1. k + 1 \in 1..n /\ h[k] = Qty(U) /\ h[k + 1] = Use(q, d, h[k], e)
      BY <1>1, <1>2, <2>1, <2>2
    <3>2. /\ First(L, k + 1) = First(L, k) \cup {e} /\ e \in Event /\ e \notin First(L, k)
          /\ Booked(First(L, k + 1)) /\ Booked(First(L, k))
      BY <2>1, <3>1, OneMore
    <3> HIDE DEF e
    <3>3. U \in SUBSET First(L, k)
      BY DEF UsesOf
    <3>4. Quantified(U) /\ e.qty \in Int /\ e \notin U
      BY <3>2, <3>3, BookedQty, EventTyped
    <3>5. CASE e.kind = "use" /\ e.date <= d /\ q.id \in {e.quota, ParentOf(e.quota)}
      <4>1. V = U \cup {e}
        BY <3>2, <3>5 DEF UsesOf
      <4>2. Qty(V) = Qty(U) + e.qty
        BY <3>4, <4>1, AddQty
      <4> QED BY <2>1, <3>1, <3>5, <4>2 DEF Use, OnOrBefore
    <3>6. CASE ~ (e.kind = "use" /\ e.date <= d /\ q.id \in {e.quota, ParentOf(e.quota)})
      <4>1. V = U
        BY <3>2, <3>6 DEF UsesOf
      <4> QED BY <2>1, <3>1, <3>6, <4>1 DEF Use, OnOrBefore
    <3> QED BY <3>5, <3>6
  <2> QED BY <2>1, <2>2
<1>5. N = Nat
  <2>1. N \in SUBSET Nat
    OBVIOUS
  <2> HIDE DEF N
  <2> QED BY <1>3, <1>4, <2>1, Steps
<1>6. h[n] = Qty(UsesOf(q, First(L, n), d))
  BY <1>1, <1>5
<1> QED BY <1>2, <1>6, AllRows

Own(q, E, d) == {e \in E : e.quota = q.id /\ e.date <= d}

Ratings(O) == {e \in O : e.kind = "resize"}

Extras(O) == {e \in O : e.kind \in {"grant", "adjust"}}

IsLatest(e, R) == e \in R /\ \A f \in R \ {e} : Earlier(f, e)

\* what EffectiveSize has found after the rows O of the window
Found(acc, q, O) ==
  /\ acc.extra = Qty(Extras(O))
  /\ \/ Ratings(O) = {} /\ acc.id = 0 /\ acc.size = q.size
     \/ \E e \in Ratings(O) :
          /\ IsLatest(e, Ratings(O))
          /\ acc.size = e.qty /\ acc.at = e.date /\ acc.id = e.id

\* A row that is none of the window's, or comes after the day, changes nothing; a
\* re-rating takes over exactly if it is the latest so far.
LEMMA RateFinds ==
  ASSUME NEW q, NEW d, NEW E, Booked(E), NEW e \in Event, e \notin E, Booked(E \cup {e}),
         NEW acc \in Acc, Found(acc, q, Own(q, E, d))
  PROVE  Found(Rate(q, d, acc, e), q, Own(q, E \cup {e}, d))
<1> DEFINE O == Own(q, E, d)
           P == Own(q, E \cup {e}, d)
           r == Rate(q, d, acc, e)
<1>0. /\ \A f \in E \cup {e} : f.id \in Nat /\ f.id # 0 /\ f.qty \in Int /\ f.date \in Nat
      /\ \A f \in E : f.id # e.id
  BY EventTyped DEF Booked
<1>1. O \in SUBSET E /\ e \notin O
  BY DEF Own
<1>2. CASE e.quota # q.id \/ ~ (e.date <= d)
  <2>1. P = O
    BY <1>2 DEF Own
  <2>2. r = acc
    BY <1>2 DEF Rate, OnOrBefore
  <2> QED BY <2>1, <2>2
<1>3. CASE e.quota = q.id /\ e.date <= d
  <2>1. P = O \cup {e}
    BY <1>3 DEF Own
  <2>2. Quantified(Extras(O)) /\ e \notin Extras(O)
    <3>1. Extras(O) \in SUBSET E
      BY <1>1 DEF Extras
    <3> QED BY <1>1, <3>1, BookedQty DEF Extras
  <2> HIDE DEF O, P
  <2>3. CASE e.kind = "resize"
    <3>1. Ratings(P) = Ratings(O) \cup {e} /\ Extras(P) = Extras(O)
      BY <2>1, <2>3 DEF Ratings, Extras
    <3>2. CASE TakesOver(acc, e)
      <4>1. r.size = e.qty /\ r.at = e.date /\ r.id = e.id /\ r.extra = acc.extra
        BY <1>3, <2>3, <3>2 DEF Rate, OnOrBefore, Acc
      <4>2. ASSUME NEW f \in Ratings(O) PROVE Earlier(f, e)
        <5>1. PICK g \in Ratings(O) :
                IsLatest(g, Ratings(O)) /\ acc.at = g.date /\ acc.id = g.id
          BY DEF Found, O
        <5>2. g \in E /\ f \in E
          BY <1>1, <5>1 DEF Ratings
        <5>3. Earlier(g, e)
          BY <1>0, <3>2, <5>1, <5>2 DEF TakesOver, Earlier
        <5>4. f = g \/ Earlier(f, g)
          BY <5>1 DEF IsLatest
        <5> QED BY <1>0, <5>2, <5>3, <5>4 DEF Earlier
      <4>3. IsLatest(e, Ratings(P))
        BY <3>1, <4>2 DEF IsLatest
      <4> QED BY <3>1, <4>1, <4>3 DEF Found, O, P, r, IsLatest
    <3>3. CASE ~ TakesOver(acc, e)
      <4>1. r = acc
        BY <1>3, <2>3, <3>3 DEF Rate, OnOrBefore
      <4>2. acc.id # 0
        BY <3>3 DEF TakesOver
      <4>3. PICK g \in Ratings(O) :
              /\ IsLatest(g, Ratings(O))
              /\ acc.size = g.qty /\ acc.at = g.date /\ acc.id = g.id
        BY <4>2 DEF Found, O
      <4>4. g \in E /\ g # e
        BY <1>1, <4>3 DEF Ratings
      <4>5. Earlier(e, g)
        BY <1>0, <3>3, <4>3, <4>4 DEF TakesOver, Earlier
      <4>6. IsLatest(g, Ratings(P))
        BY <3>1, <4>3, <4>5 DEF IsLatest
      <4>7. acc.extra = Qty(Extras(O))
        BY DEF Found, O
      <4> QED BY <3>1, <4>1, <4>3, <4>6, <4>7 DEF Found, P, r, IsLatest
    <3> QED BY <3>2, <3>3
  <2>4. CASE e.kind \in {"grant", "adjust"}
    <3>1. Ratings(P) = Ratings(O) /\ Extras(P) = Extras(O) \cup {e}
      BY <2>1, <2>4 DEF Ratings, Extras
    <3>2. Qty(Extras(P)) = Qty(Extras(O)) + e.qty
      BY <1>0, <2>2, <3>1, AddQty
    <3>3. r.size = acc.size /\ r.at = acc.at /\ r.id = acc.id /\ r.extra = acc.extra + e.qty
      BY <1>3, <2>4 DEF Rate, OnOrBefore, Acc
    <3> QED BY <3>1, <3>2, <3>3 DEF Found, O, P, r
  <2>5. CASE e.kind = "use"
    <3>1. Ratings(P) = Ratings(O) /\ Extras(P) = Extras(O)
      BY <2>1, <2>5 DEF Ratings, Extras
    <3>2. r = acc
      BY <1>3, <2>5 DEF Rate, OnOrBefore
    <3> QED BY <3>1, <3>2 DEF Found, O, P, r
  <2> QED BY <2>3, <2>4, <2>5 DEF Event, Kinds
<1> QED BY <1>2, <1>3

\* the size that the latest of the re-ratings gives
Rated(q, R) == IF R = {} THEN q.size ELSE (CHOOSE e \in R : \A f \in R \ {e} : Earlier(f, e)).qty

LEMMA LatestIsOne ==
  ASSUME NEW E, Booked(E), NEW R \in SUBSET E, NEW q, NEW e, IsLatest(e, R)
  PROVE  Rated(q, R) = e.qty
<1>1. \A f \in R : f.id \in Nat /\ f.date \in Nat
  BY EventTyped DEF Booked
<1>2. \A f, g \in R : ~ (Earlier(f, g) /\ Earlier(g, f))
  BY <1>1 DEF Earlier
<1>3. \A f \in R : (\A g \in R \ {f} : Earlier(g, f)) => f = e
  BY <1>2 DEF IsLatest
<1>4. (CHOOSE f \in R : \A g \in R \ {f} : Earlier(g, f)) = e
  BY <1>3 DEF IsLatest
<1> QED BY <1>4 DEF Rated, IsLatest

\* A size is the last re-rating, or the window's own, plus grants and adjusts, in
\* whatever order the rows come.
LEMMA SizeIs ==
  ASSUME NEW q, q.size \in Int, NEW d, NEW E, Booked(E), NEW L \in SetToSeqs(E)
  PROVE  EffectiveSize(q, L, d)
           = Rated(q, Ratings(Own(q, E, d))) + Qty(Extras(Own(q, E, d)))
<1> DEFINE n == Cardinality(E)
<1>1. n \in Nat /\ L \in [1..n -> Event]
  BY ListOf, AllRows DEF Booked
<1> HIDE DEF n
<1>0. PICK h \in [0..n -> Acc] : RatedInSteps(h, q, L, d, n)
  BY <1>1, Rating
<1> USE DEF n
<1>2. /\ h[0] = Unrated(q)
      /\ \A k \in 1..n : h[k] = Rate(q, d, h[k - 1], L[k])
      /\ EffectiveSize(q, L, d) = h[n].size + h[n].extra
  BY <1>0 DEF RatedInSteps
<1> DEFINE N == {k \in Nat : k <= n => Found(h[k], q, Own(q, First(L, k), d))}
<1>3. 0 \in N
  <2>1. Ratings(Own(q, First(L, 0), d)) = {} /\ Extras(Own(q, First(L, 0), d)) = {}
    BY AllRows DEF Own, Ratings, Extras
  <2>2. /\ h[0].extra = 0 /\ h[0].id = 0 /\ h[0].size = q.size
    BY <1>2 DEF Unrated
  <2>3. Found(h[0], q, Own(q, First(L, 0), d))
    BY <2>1, <2>2, NoQty DEF Found
  <2> QED BY <2>3
<1>4. ASSUME NEW k \in N PROVE k + 1 \in N
  <2>1. k \in Nat /\ k + 1 \in Nat /\ (k + 1) - 1 = k
    OBVIOUS
  <2>2. CASE k + 1 <= n
    <3>1. /\ k + 1 \in 1..n /\ k \in 0..n /\ Found(h[k], q, Own(q, First(L, k), d))
          /\ h[k + 1] = Rate(q, d, h[k], L[k + 1])
      BY <1>1, <1>2, <2>1, <2>2
    <3>2. /\ First(L, k + 1) = First(L, k) \cup {L[k + 1]}
          /\ L[k + 1] \in Event /\ L[k + 1] \notin First(L, k)
          /\ Booked(First(L, k + 1)) /\ Booked(First(L, k))
      BY <2>1, <3>1, OneMore
    <3>3. h[k] \in Acc
      BY <1>2, <3>1
    <3>4. Found(h[k + 1], q, Own(q, First(L, k + 1), d))
      BY <3>1, <3>2, <3>3, RateFinds
    <3> QED BY <2>1, <3>4
  <2> QED BY <2>1, <2>2
<1>5. N = Nat
  <2>1. N \in SUBSET Nat
    OBVIOUS
  <2> HIDE DEF N
  <2> QED BY <1>3, <1>4, <2>1, Steps
<1>6. Found(h[n], q, Own(q, E, d))
  <2>1. Found(h[n], q, Own(q, First(L, n), d))
    BY <1>1, <1>5
  <2> QED BY <2>1, AllRows
<1>7. Ratings(Own(q, E, d)) \in SUBSET E
  BY DEF Ratings, Own
<1>8. h[n].size = Rated(q, Ratings(Own(q, E, d)))
  BY <1>6, <1>7, LatestIsOne DEF Found, Rated
<1>9. h[n].extra = Qty(Extras(Own(q, E, d)))
  BY <1>6 DEF Found
<1> QED BY <1>2, <1>8, <1>9

\* Rows that are there once have a latest one, and can be put in order.
LEMMA HasLatest ==
  ASSUME NEW E, Booked(E), E # {}
  PROVE  \E e : IsLatest(e, E)
<1> DEFINE N == {n \in Nat : \A S \in SUBSET E :
                   S # {} /\ Cardinality(S) <= n => \E e : IsLatest(e, S)}
<1>0. /\ IsFiniteSet(E) /\ \A e \in E : e.id \in Nat /\ e.date \in Nat
      /\ \A e, f \in E : e.id = f.id => e = f
  BY EventTyped DEF Booked
<1>1. \A S \in SUBSET E :
        /\ Cardinality(S) \in Nat /\ (Cardinality(S) = 0 => S = {})
        /\ \A e \in S : S \ {e} \in SUBSET E /\ Cardinality(S \ {e}) = Cardinality(S) - 1
  BY <1>0, SizeOfPart
<1>2. 0 \in N
  <2>1. \A S \in SUBSET E : Cardinality(S) <= 0 => S = {}
    BY <1>1
  <2> QED BY <2>1
<1>3. ASSUME NEW n \in N PROVE n + 1 \in N
  <2>0. n \in Nat
    OBVIOUS
  <2>1. ASSUME NEW S \in SUBSET E, S # {}, Cardinality(S) <= n + 1
        PROVE  \E e : IsLatest(e, S)
    <3>1. PICK x \in S : TRUE
      BY <2>1
    <3>2. CASE S \ {x} = {}
      <4>1. IsLatest(x, S)
        BY <3>1, <3>2 DEF IsLatest
      <4> QED BY <4>1
    <3>3. CASE S \ {x} # {}
      <4>1. S \ {x} \in SUBSET E /\ Cardinality(S \ {x}) <= n
        BY <1>1, <2>0, <2>1, <3>1
      <4>2. PICK y : IsLatest(y, S \ {x})
        BY <3>3, <4>1
      <4>3. x \in E /\ y \in E /\ x # y /\ S \subseteq E
        BY <3>1, <4>2 DEF IsLatest
      <4>4. CASE Earlier(x, y)
        <5>1. IsLatest(y, S)
          BY <4>2, <4>4 DEF IsLatest
        <5> QED BY <5>1
      <4>5. CASE ~ Earlier(x, y)
        <5>1. Earlier(y, x)
          BY <1>0, <4>3, <4>5 DEF Earlier
        <5>2. \A f \in S \ {x} : Earlier(f, x)
          BY <1>0, <4>2, <4>3, <5>1 DEF Earlier, IsLatest
        <5>3. IsLatest(x, S)
          BY <3>1, <5>2 DEF IsLatest
        <5> QED BY <5>3
      <4> QED BY <4>4, <4>5
    <3> QED BY <3>2, <3>3
  <2> QED BY <2>0, <2>1
<1>4. N = Nat
  <2>1. N \in SUBSET Nat
    OBVIOUS
  <2> HIDE DEF N
  <2> QED BY <1>2, <1>3, <2>1, Steps
<1>5. Cardinality(E) \in N /\ Cardinality(E) <= Cardinality(E)
  BY <1>1, <1>4
<1> QED BY <1>5

InOrder(L) == \A i, j \in DOMAIN L : i < j => Earlier(L[i], L[j])

LEMMA CanBeOrdered ==
  ASSUME NEW E, Booked(E)
  PROVE  \E L \in SetToSeqs(E) : InOrder(L)
<1> DEFINE N == {n \in Nat : \A S \in SUBSET E :
                   Cardinality(S) = n => \E L \in SetToSeqs(S) : InOrder(L)}
<1>0. IsFiniteSet(E) /\ \A S \in SUBSET E : Booked(S)
  BY FS_Subset DEF Booked
<1>1. \A S \in SUBSET E :
        /\ Cardinality(S) \in Nat /\ (Cardinality(S) = 0 => S = {})
        /\ \A e \in S : S \ {e} \in SUBSET E /\ Cardinality(S \ {e}) = Cardinality(S) - 1
  BY <1>0, SizeOfPart
<1>2. 0 \in N
  <2>1. ASSUME NEW S \in SUBSET E, Cardinality(S) = 0
        PROVE  \E L \in SetToSeqs(S) : InOrder(L)
    <3> DEFINE L == [i \in 1..0 |-> i]
    <3>1. 1..0 = {}
      OBVIOUS
    <3>2. L \in [1..0 -> S]
      BY <3>1
    <3>3. L \in SetToSeqs(S)
      BY <2>1, <3>1, <3>2 DEF SetToSeqs
    <3>4. InOrder(L)
      BY <3>1 DEF InOrder
    <3> HIDE DEF L
    <3> QED BY <3>3, <3>4
  <2> QED BY <2>1
<1>3. ASSUME NEW n \in N PROVE n + 1 \in N
  <2>0. n \in Nat /\ n + 1 \in Nat
    OBVIOUS
  <2>1. ASSUME NEW S \in SUBSET E, Cardinality(S) = n + 1
        PROVE  \E L \in SetToSeqs(S) : InOrder(L)
    <3>1. S # {} /\ Booked(S)
      BY <1>0, <2>0, <2>1, FS_EmptySet
    <3>2. PICK e : IsLatest(e, S)
      BY <3>1, HasLatest
    <3>3. e \in S /\ S \ {e} \in SUBSET E /\ Cardinality(S \ {e}) = n
      BY <1>1, <2>0, <2>1, <3>2 DEF IsLatest
    <3>4. PICK K \in SetToSeqs(S \ {e}) : InOrder(K)
      BY <3>3
    <3>5. /\ K \in [1..n -> S \ {e}] /\ DOMAIN K = 1..n
          /\ \A i, j \in 1..n : i # j => K[i] # K[j]
      BY <3>3 DEF SetToSeqs
    <3> DEFINE L == [i \in 1..(n + 1) |-> IF i = n + 1 THEN e ELSE K[i]]
    <3>6. \A i \in 1..(n + 1) : i = n + 1 \/ i \in 1..n
      BY <2>0
    <3>7. /\ L \in [1..(n + 1) -> S] /\ DOMAIN L = 1..(n + 1)
          /\ L[n + 1] = e /\ \A i \in 1..n : L[i] = K[i]
      BY <2>0, <3>3, <3>5, <3>6
    <3> HIDE DEF L
    <3>8. \A i \in 1..n : L[i] \in S /\ L[i] # e /\ Earlier(L[i], e)
      BY <3>2, <3>5, <3>7 DEF IsLatest
    <3>9. \A i, j \in 1..(n + 1) : i # j => L[i] # L[j]
      BY <3>5, <3>6, <3>7, <3>8
    <3>10. L \in SetToSeqs(S)
      BY <2>1, <3>7, <3>9 DEF SetToSeqs
    <3>11. ASSUME NEW i \in 1..(n + 1), NEW j \in 1..(n + 1), i < j
           PROVE  Earlier(L[i], L[j])
      <4>1. i \in 1..n
        BY <2>0, <3>11
      <4>2. CASE j = n + 1
        BY <3>7, <3>8, <4>1, <4>2
      <4>3. CASE j # n + 1
        <5>1. j \in 1..n
          BY <3>6, <4>3
        <5> QED BY <3>4, <3>5, <3>7, <3>11, <4>1, <5>1 DEF InOrder
      <4> QED BY <4>2, <4>3
    <3>12. InOrder(L)
      BY <3>7, <3>11 DEF InOrder
    <3> QED BY <3>10, <3>12
  <2> QED BY <2>0, <2>1
<1>4. N = Nat
  <2>1. N \in SUBSET Nat
    OBVIOUS
  <2> HIDE DEF N
  <2> QED BY <1>2, <1>3, <2>1, Steps
<1>5. Cardinality(E) \in N
  BY <1>1, <1>4
<1> QED BY <1>5

LEMMA LedgerLists ==
  ASSUME NEW E, Booked(E)
  PROVE  Ledger(E) \in SetToSeqs(E)
BY CanBeOrdered DEF Ledger, InOrder

\* what a window has on a day, from sets
Balance(q, E, d) ==
  (Rated(q, Ratings(Own(q, E, d))) + Qty(Extras(Own(q, E, d)))) - Qty(UsesOf(q, E, d))

\* The counter is a matter of which rows there are.
LEMMA RemainingIs ==
  \A q, E, d : Booked(E) /\ q.size \in Int => Remaining(q, Ledger(E), d) = Balance(q, E, d)
<1> SUFFICES ASSUME NEW q, NEW E, NEW d, Booked(E), q.size \in Int
             PROVE  Remaining(q, Ledger(E), d) = Balance(q, E, d)
  OBVIOUS
<1>1. Ledger(E) \in SetToSeqs(E)
  BY LedgerLists
<1>2. Consumed(q, Ledger(E), d) = Qty(UsesOf(q, E, d))
  BY <1>1, ConsumedIs
<1>3. EffectiveSize(q, Ledger(E), d)
        = Rated(q, Ratings(Own(q, E, d))) + Qty(Extras(Own(q, E, d)))
  BY <1>1, SizeIs
<1> QED BY <1>2, <1>3 DEF Remaining, Balance

(****************************** what they show *****************************)

\* Events carry the number they were recorded under.
Numbered ==
  /\ \A e \in events : e.id <= recorded.events
  /\ \A e, f \in events : e.id = f.id => e = f

LEMMA StepKeepsNumbers ==
  ASSUME TablesOK, Numbered, Next
  PROVE  Numbered'
<1>1. ASSUME events' \subseteq events, recorded'.events = recorded.events
      PROVE  Numbered'
  BY <1>1 DEF Numbered
<1>2. ASSUME NEW u \in Users,
             \/ CreatePerk(u) \/ UpdatePerk(u) \/ DeletePerk(u)
             \/ CreateQuota(u) \/ DeleteQuota(u) \/ DeleteEvent(u) \/ DeleteSnapshot(u)
      PROVE  Numbered'
  BY <1>1, <1>2 DEF CreatePerk, UpdatePerk, DeletePerk, CreateQuota, DeleteQuota, Kept, DeleteEvent,
                    DeleteSnapshot
<1>3. ASSUME NEW u \in Users, CreateEvent(u)
      PROVE  Numbered'
  <2>1. PICK e : e.id = recorded.events + 1 /\ events' = events \cup {e}
    BY <1>3 DEF CreateEvent
  <2>2. recorded.events \in Nat /\ recorded'.events = recorded.events + 1
    BY <1>3 DEF CreateEvent, TablesOK
  <2>3. \A f \in events : f.id \in Nat
    BY EventTyped DEF TablesOK
  <2> QED BY <2>1, <2>2, <2>3 DEF Numbered
<1>4. ASSUME NEW u \in Users, CreateSnapshot(u)
      PROVE  Numbered'
  BY <1>1, <1>4 DEF CreateSnapshot, TablesOK
<1>5. ASSUME NEW g \in Goroutines,
             \/ \E u \in Users : ReadParent(g, u) \/ UpdateQuota(g, u)
             \/ InsertChild(g) \/ CountHistory(g) \/ PatchSize(g)
      PROVE  Numbered'
  BY <1>1, <1>5 DEF ReadParent, UpdateQuota, InsertChild, CountHistory, PatchSize, tables
<1> QED BY <1>2, <1>3, <1>4, <1>5 DEF Next

LEMMA StepInductive ==
  ASSUME IInv, Numbered, [Next]_vars
  PROVE  IInv' /\ Numbered'
<1>1. CASE UNCHANGED vars
  BY <1>1 DEF vars, tables, IInv, TablesOK, CallsOK, Tree, Ids, ChildInsideParent, NotesOK, Judged,
              LedgerWhole, Numbered
<1>2. CASE Next
  BY <1>2, StepTyped, StepKeepsTree, StepKeepsLedger, StepKeepsNumbers DEF IInv
<1> QED BY <1>1, <1>2

\* The table of events is a set of rows that are there once.
LEMMA EventsBooked ==
  TablesOK /\ Numbered => Booked(events)
<1> SUFFICES ASSUME TablesOK, Numbered PROVE Booked(events)
  OBVIOUS
<1> DEFINE f == [e \in events |-> e.id]
<1>1. events \subseteq Event /\ MaxEvents \in Nat
  BY PerksAssumption DEF TablesOK
<1>2. f \in [events -> 1..MaxEvents] /\ \A d, e \in events : f[d] = f[e] => d = e
  BY <1>1 DEF Event, Numbered
<1> HIDE DEF f
<1>3. f \in Injection(events, 1..MaxEvents)
  BY <1>2 DEF Injection, IsInjective
<1>4. IsFiniteSet(1..MaxEvents)
  BY <1>1, FS_Interval
<1>5. IsFiniteSet(events)
  BY <1>3, <1>4, FS_Injection
<1> QED BY <1>1, <1>5 DEF Booked, Numbered

LEMMA QuotaIsOne ==
  ASSUME Ids, NEW q \in quotas
  PROVE  (CHOOSE p \in quotas : p.id = q.id) = q /\ ParentOf(q.id) = q.parent
BY DEF Ids, ParentOf

LEMMA RatingCounts ==
  ASSUME TablesOK, Numbered
  PROVE  LastRatingCounts
<1> SUFFICES ASSUME NEW q \in quotas, NEW d \in Days, NEW L \in SetToSeqs(events)
             PROVE  EffectiveSize(q, L, d)
                      = Rated(q, Ratings(Own(q, events, d))) + Qty(Extras(Own(q, events, d)))
  BY DEF LastRatingCounts, Rated, Ratings, Extras, Own, Qty
<1>1. q.size \in Int
  BY DEF TablesOK, Quota
<1> QED BY <1>1, EventsBooked, SizeIs

LEMMA ScreensDoAgree ==
  ASSUME TablesOK, Tree, LedgerWhole, Numbered
  PROVE  ScreensAgree
<1> SUFFICES ASSUME NEW u \in Users, NEW d \in Days, NEW q \in Active(u, d)
             PROVE  Overview(u, d)[q] = PerkHistory(q.perk, d)[q]
  BY DEF ScreensAgree
<1> DEFINE E1 == TreeEvents(Active(u, d))
           Q2 == {p \in quotas : p.perk = q.perk}
           E2 == {e \in events : \E p \in Q2 : p.id = e.quota}
<1>1. q \in quotas /\ q.size \in Int /\ q.id # None
  BY PerksAssumption DEF Active, QuotasOf, TablesOK, Quota
<1>2. E1 \in SUBSET events /\ E2 \in SUBSET events
  BY DEF TreeEvents
<1>3. \A E \in SUBSET events : Booked(E)
  BY EventsBooked, FS_Subset DEF Booked
<1>4. Own(q, E1, d) = Own(q, events, d) /\ UsesOf(q, E1, d) = UsesOf(q, events, d)
  BY DEF Own, UsesOf, TreeEvents
<1>5. Own(q, E2, d) = Own(q, events, d)
  BY <1>1 DEF Own
<1>6. ASSUME NEW e \in events, ParentOf(e.quota) = q.id
      PROVE  e \in E2
  <2>1. PICK c \in quotas : c.id = e.quota
    BY DEF LedgerWhole
  <2>2. c.parent = q.id
    BY <1>6, <2>1, QuotaIsOne DEF Tree
  <2>3. PICK p \in quotas : p.id = c.parent /\ p.perk = c.perk
    BY <1>1, <2>2 DEF Tree, ChildInsideParent
  <2>4. p = q
    BY <1>1, <2>2, <2>3 DEF Tree, Ids
  <2> QED BY <2>1, <2>3, <2>4
<1>7. UsesOf(q, E2, d) = UsesOf(q, events, d)
  BY <1>1, <1>6 DEF UsesOf
<1>8. Overview(u, d)[q] = Remaining(q, Ledger(E1), d)
  BY DEF Overview
<1>9. PerkHistory(q.perk, d)[q] = Remaining(q, Ledger(E2), d)
  BY <1>1 DEF PerkHistory
<1> HIDE DEF E1, E2, Q2
<1>10. Remaining(q, Ledger(E1), d) = Balance(q, E1, d)
  BY <1>1, <1>2, <1>3, RemainingIs
<1>11. Remaining(q, Ledger(E2), d) = Balance(q, E2, d)
  BY <1>1, <1>2, <1>3, RemainingIs
<1>12. Balance(q, E1, d) = Balance(q, E2, d)
  BY <1>4, <1>5, <1>7 DEF Balance
<1> QED BY <1>8, <1>9, <1>10, <1>11, <1>12

\* A counter is what its ledger says, whatever order the rows are read in and
\* whichever query has fetched them, for any number of windows, events and calls.
THEOREM CountersStayTrue == Spec => []CountersTrue
<1>1. Init => IInv /\ Numbered
  BY Initially DEF Init, Numbered
<1>2. IInv /\ Numbered /\ [Next]_vars => (IInv /\ Numbered)'
  BY StepInductive
<1>3. IInv /\ Numbered => CountersTrue
  BY RatingCounts, ScreensDoAgree DEF CountersTrue, IInv
<1> QED BY <1>1, <1>2, <1>3, PTL DEF Spec

(******************************** readings *********************************)

\* One call at a time: between a count of the history and the patch nothing is recorded.
Undisturbed ==
  \A g \in Goroutines :
    calls[g] # None /\ calls[g].at = "patch" => ~ HasHistory(calls[g].id)

LEMMA CountingFinds ==
  ASSUME CallsOK, Undisturbed, Next, OneByOne
  PROVE  Undisturbed'
<1> SUFFICES ASSUME NEW g \in Goroutines, calls'[g] # None, calls'[g].at = "patch"
             PROVE  ~ (\/ \E e \in events' : e.quota = calls'[g].id
                       \/ \E s \in snapshots' : s.quota = calls'[g].id)
  BY DEF Undisturbed, HasHistory
<1>1. calls'[g] # calls[g]
  BY DEF OneByOne
<1>2. ASSUME NEW h \in Goroutines, NEW n, Goto(h, n) \/ Return(h)
      PROVE  h = g /\ (Goto(h, n) => calls'[g] = n) /\ ~ Return(h)
  BY <1>1, <1>2 DEF Goto, Return, CallsOK
<1>3. ~ UNCHANGED calls
  BY <1>1
<1>4. ASSUME NEW h \in Goroutines, NEW u \in Users, ReadParent(h, u) \/ UpdateQuota(h, u)
      PROVE  FALSE
  <2>1. CASE ReadParent(h, u)
    <3>1. PICK id, p, parent, w, size :
            Goto(h, [at |-> "insert", user |-> u, quota |-> Opens(id, p, parent.id, w, size)])
      BY <2>1 DEF ReadParent
    <3> QED BY <1>2, <3>1
  <2>2. CASE UpdateQuota(h, u)
    <3>1. PICK q, size : Goto(h, [at |-> "count", user |-> u, id |-> q.id, size |-> size])
      BY <2>2 DEF UpdateQuota
    <3> QED BY <1>2, <3>1
  <2> QED BY <1>4, <2>1, <2>2
<1>5. ASSUME NEW h \in Goroutines, InsertChild(h) \/ PatchSize(h)
      PROVE  FALSE
  BY <1>2, <1>5 DEF InsertChild, PatchSize
<1>6. PICK h \in Goroutines : CountHistory(h)
  <2>1. ASSUME NEW u \in Users,
               \/ CreatePerk(u) \/ UpdatePerk(u) \/ DeletePerk(u)
               \/ CreateQuota(u) \/ DeleteQuota(u)
               \/ CreateEvent(u) \/ DeleteEvent(u) \/ CreateSnapshot(u) \/ DeleteSnapshot(u)
        PROVE  FALSE
    BY <1>3, <2>1
    DEF CreatePerk, UpdatePerk, DeletePerk, CreateQuota, DeleteQuota, CreateEvent, DeleteEvent,
        CreateSnapshot, DeleteSnapshot
  <2> QED BY <1>4, <1>5, <2>1 DEF Next
<1>7. h = g /\ Goto(h, [calls[h] EXCEPT !.at = "patch"]) /\ ~ HasHistory(calls[h].id)
      /\ At(h, "count") /\ UNCHANGED tables
  BY <1>2, <1>6 DEF CountHistory
<1>8. calls'[g] = [calls[h] EXCEPT !.at = "patch"]
  BY <1>2, <1>7
<1>9. calls[h] \in Note
  BY <1>7 DEF At, CallsOK
<1>10. [calls[h] EXCEPT !.at = "patch"].id = calls[h].id
  BY <1>7, <1>9 DEF Note, At
<1> QED BY <1>7, <1>8, <1>10 DEF HasHistory, tables

\* A row keeps its parent, and with a history all of itself.
LEMMA RowsStand ==
  ASSUME TablesOK, CallsOK, Tree, Undisturbed, Next,
         NEW q \in quotas, NEW r \in quotas', q.id = r.id
  PROVE  q.parent = r.parent /\ (HasHistory(q.id) => r = q)
<1> USE DEF Tree
<1>1. ASSUME \A p \in quotas' : p \in quotas \/ p.id \notin spent
      PROVE  r = q
  BY <1>1 DEF Ids
<1>2. ASSUME NEW u \in Users,
             \/ CreatePerk(u) \/ UpdatePerk(u) \/ DeletePerk(u) \/ DeleteQuota(u)
             \/ CreateEvent(u) \/ DeleteEvent(u) \/ CreateSnapshot(u) \/ DeleteSnapshot(u)
      PROVE  r = q
  BY <1>1, <1>2
  DEF CreatePerk, UpdatePerk, DeletePerk, DeleteQuota, CreateEvent, DeleteEvent, CreateSnapshot,
      DeleteSnapshot
<1>3. ASSUME NEW u, NEW n, InsertQuota(u, n)
      PROVE  r = q
  BY <1>1, <1>3 DEF InsertQuota
<1>4. ASSUME NEW u \in Users, CreateQuota(u)
      PROVE  r = q
  BY <1>3, <1>4 DEF CreateQuota
<1>5. ASSUME NEW g \in Goroutines,
             \/ \E u \in Users : ReadParent(g, u) \/ UpdateQuota(g, u)
             \/ CountHistory(g)
      PROVE  r = q
  BY <1>1, <1>5 DEF ReadParent, UpdateQuota, CountHistory, tables
<1>6. ASSUME NEW g \in Goroutines, InsertChild(g)
      PROVE  r = q
  BY <1>1, <1>3, <1>6 DEF InsertChild, tables
<1>7. ASSUME NEW g \in Goroutines, PatchSize(g)
      PROVE  q.parent = r.parent /\ (HasHistory(q.id) => r = q)
  <2>1. /\ Aging /\ Ids'
        /\ calls[g] # None /\ calls[g].at = "patch"
    BY <1>7, PatchKeepsTree DEF PatchSize, At
  <2>2. PICK p \in quotas : Same(r, p)
    BY <2>1 DEF Aging, Ids
  <2>3. q.parent = r.parent
    BY <2>2 DEF Ids, Same
  <2>4. ASSUME HasHistory(q.id)
        PROVE  r = q
    <3>1. q.id # calls[g].id
      BY <2>1, <2>4 DEF Undisturbed
    <3>2. q \in quotas'
      BY <1>7, <3>1 DEF PatchSize
    <3> QED BY <2>1, <3>2 DEF Ids
  <2> QED BY <2>3, <2>4
<1> QED BY <1>2, <1>4, <1>5, <1>6, <1>7 DEF Next

LEMMA DeltaIs ==
  IInv /\ Numbered =>
    \A s \in snapshots :
      Delta(s) = s.remaining - Balance(CHOOSE q \in quotas : q.id = s.quota, events, s.on)
<1> SUFFICES ASSUME IInv, Numbered, NEW s \in snapshots
             PROVE  Delta(s) = s.remaining
                      - Balance(CHOOSE q \in quotas : q.id = s.quota, events, s.on)
  OBVIOUS
<1> DEFINE q == CHOOSE p \in quotas : p.id = s.quota
<1>1. q \in quotas
  BY DEF IInv, LedgerWhole
<1> HIDE DEF q
<1>2. q.size \in Int /\ Booked(events)
  BY <1>1, EventsBooked DEF IInv, TablesOK, Quota
<1>3. Remaining(q, Ledger(events), s.on) = Balance(q, events, s.on)
  BY <1>2, RemainingIs
<1> QED BY <1>3 DEF Delta, q

LEMMA DeltaIsNext ==
  (IInv /\ Numbered =>
     \A s \in snapshots :
       Delta(s) = s.remaining - Balance(CHOOSE q \in quotas : q.id = s.quota, events, s.on))'
BY DeltaIs, PTL

\* An answer to a reading moves only with the rows it is an answer from.
LEMMA AnswerStands ==
  ASSUME IInv, Numbered, IInv', Numbered', Undisturbed, [Next]_vars,
         NEW s \in snapshots, s \in snapshots',
         \A e \in events' \ events :
           ~ (e.date <= s.on /\
                (e.quota = s.quota \/ (e.kind = "use" /\ ParentOf(e.quota)' = s.quota))),
         \A e \in events \ events' :
           ~ (e.date <= s.on /\
                (e.quota = s.quota \/ (e.kind = "use" /\ ParentOf(e.quota) = s.quota)))
  PROVE  Delta(s)' = Delta(s)
<1>1. PICK q \in quotas : q.id = s.quota
  BY DEF IInv, LedgerWhole
<1>2. PICK r \in quotas' : r.id = s.quota
  BY DEF IInv, LedgerWhole
<1>3. \A p \in quotas, o \in quotas' : p.id = o.id =>
        p.parent = o.parent /\ (HasHistory(p.id) => o = p)
  <2>1. CASE UNCHANGED vars
    BY <2>1 DEF vars, tables, IInv, Tree, Ids
  <2>2. CASE Next
    BY <2>2, RowsStand DEF IInv
  <2> QED BY <2>1, <2>2
<1>4. r = q
  BY <1>1, <1>2, <1>3 DEF HasHistory
<1>5. \A p \in quotas : (CHOOSE o \in quotas : o.id = p.id) = p
  BY DEF IInv, Tree, Ids
<1>6. \A p \in quotas' : (CHOOSE o \in quotas' : o.id = p.id) = p
  BY DEF IInv, Tree, Ids
<1> DEFINE P(id) == (CHOOSE o \in quotas' : o.id = id).parent
<1>7. \A e \in events \cap events' : P(e.quota) = ParentOf(e.quota)
  <2> SUFFICES ASSUME NEW e \in events, e \in events' PROVE P(e.quota) = ParentOf(e.quota)
    OBVIOUS
  <2>1. PICK c \in quotas : c.id = e.quota
    BY DEF IInv, LedgerWhole
  <2>2. PICK o \in quotas' : o.id = e.quota
    BY DEF IInv, LedgerWhole
  <2> QED BY <1>3, <1>5, <1>6, <2>1, <2>2 DEF ParentOf
<1> DEFINE V == {e \in events' : /\ e.kind = "use" /\ e.date <= s.on
                                 /\ q.id \in {e.quota, P(e.quota)}}
<1>8. Own(q, events', s.on) = Own(q, events, s.on)
  BY <1>1 DEF Own
<1>9. V = UsesOf(q, events, s.on)
  <2>1. ASSUME NEW e \in events' \ events
        PROVE  ~ (e.kind = "use" /\ e.date <= s.on /\ q.id \in {e.quota, P(e.quota)})
    BY <1>1 DEF ParentOf
  <2>2. ASSUME NEW e \in events \ events'
        PROVE  ~ (e.kind = "use" /\ e.date <= s.on /\ q.id \in {e.quota, ParentOf(e.quota)})
    BY <1>1
  <2> HIDE DEF P
  <2> QED BY <1>7, <2>1, <2>2 DEF UsesOf
<1>10. Delta(s) = s.remaining - Balance(q, events, s.on)
  BY <1>1, <1>5, DeltaIs
<1>11. Delta(s)' = s.remaining
         - ((Rated(r, Ratings(Own(r, events', s.on))) + Qty(Extras(Own(r, events', s.on)))) - Qty(V))
  BY <1>2, <1>4, <1>6, DeltaIsNext DEF Balance, UsesOf, ParentOf
<1> QED BY <1>4, <1>8, <1>9, <1>10, <1>11 DEF Balance

LEMMA SerialInductive ==
  ASSUME IInv, Numbered, Undisturbed, [Next /\ OneByOne]_vars
  PROVE  IInv' /\ Numbered' /\ Undisturbed'
<1>1. CASE UNCHANGED vars
  BY <1>1, StepInductive DEF Undisturbed, HasHistory, vars, tables
<1>2. CASE Next /\ OneByOne
  BY <1>2, StepInductive, CountingFinds DEF IInv
<1> QED BY <1>1, <1>2

LEMMA SerialInit == Init => IInv /\ Numbered /\ Undisturbed
BY Initially DEF Init, Numbered, Undisturbed

\* The answer to a reading changes with an event dated up to it only, recorded or
\* deleted on its window, or a use on a child: later news is no disagreement. For calls
\* that do not overlap; where they do a patched size slips in.
THEOREM ReadingsAlwaysStand == SerialSpec => ReadingsStand
<1> DEFINE Moved(s) ==
             \/ \E e \in events' \ events : e.date <= s.on /\
                  (e.quota = s.quota \/ (e.kind = "use" /\ ParentOf(e.quota)' = s.quota))
             \/ \E e \in events \ events' : e.date <= s.on /\
                  (e.quota = s.quota \/ (e.kind = "use" /\ ParentOf(e.quota) = s.quota))
           Stand == \A s \in snapshots \cap snapshots' : Delta(s)' # Delta(s) => Moved(s)
<1>1. IInv /\ Numbered /\ Undisturbed /\ [Next /\ OneByOne]_vars
        => (IInv /\ Numbered /\ Undisturbed)'
  BY SerialInductive
<1>2. IInv /\ Numbered /\ Undisturbed /\ [Next /\ OneByOne]_vars => [Stand]_vars
  <2> SUFFICES ASSUME IInv, Numbered, Undisturbed, [Next /\ OneByOne]_vars,
                      NEW s \in snapshots, s \in snapshots', ~ Moved(s)
               PROVE  Delta(s)' = Delta(s)
    OBVIOUS
  <2>1. IInv' /\ Numbered' /\ [Next]_vars
    BY SerialInductive
  <2> QED BY <2>1, AnswerStands
<1> QED BY SerialInit, <1>1, <1>2, PTL DEF SerialSpec, ReadingsStand

\* Once anything is recorded against a window its size is a dated fact, for calls that
\* do not overlap.
THEOREM SizesStayDated == SerialSpec => SizeIsDated
<1>1. IInv /\ Numbered /\ Undisturbed /\ [Next /\ OneByOne]_vars
        => (IInv /\ Numbered /\ Undisturbed)'
  BY SerialInductive
<1>2. IInv /\ Numbered /\ Undisturbed /\ [Next /\ OneByOne]_vars
        => [\A q \in quotas, r \in quotas' : q.id = r.id /\ HasHistory(q.id) => r.size = q.size]_vars
  BY RowsStand DEF IInv
<1> QED BY SerialInit, <1>1, <1>2, PTL DEF SerialSpec, SizeIsDated
=============================================================================
