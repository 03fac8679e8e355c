----------------------------- MODULE MccProofs ------------------------------
(***************************************************************************)
(* Proofs about the MCC module, for any number of users, points, documents,*)
(* categories, codes and processes.                                        *)
(*                                                                         *)
(* Points of sale: a point has one row and an id never given out has none; *)
(* then a statement changes the standing of the points whose rows it       *)
(* changes, and of no other.                                               *)
(*                                                                         *)
(* Documents: a plan is applied to tables that may have changed since it   *)
(* was made, and the keys hold all the same; once it is applied to the     *)
(* tables it was made of, each category has the codes it asks for and the  *)
(* journal has told what it had to tell, so that nothing is left to plan.  *)
(* Imports one after another read what the tables hold: then each entry of *)
(* the journal is one change of one row.                                   *)
(***************************************************************************)
EXTENDS Mcc, FiniteSetTheorems, WellFoundedInduction, TLAPS

(****************************** points of sale *****************************)

Keyed(pts) == \A p, q \in pts : p.id = q.id => p = q

(************************** the type invariant *****************************)

LEMMA InitTypes == PointInit => PointTypeOK
  BY PointsAssumption, MccAssumption
  DEF PointInit, PointTypeOK, StoreInit, StoreTypeOK, KeysHold, Idle, Note

\* A step that leaves the tables alone keeps what is said of them.
LEMMA BeginTypes ==
  ASSUME PointTypeOK, NEW r \in Reqs, NEW note \in Note, Begin(r, note)
  PROVE  PointTypeOK'
  BY DEF PointTypeOK, StoreTypeOK, KeysHold, Begin, tables

LEMMA NotesKept ==
  ASSUME PointTypeOK, NEW r \in Reqs, Finish(r)
  PROVE  req' \in [Reqs -> Note]
  BY DEF PointTypeOK, Finish, Note

\* Rows replaced by well-formed rows of ids that were given out.
LEMMA RowsReplaced ==
  ASSUME PointTypeOK, NEW old, NEW new, Replace(old, new), old \subseteq points,
         new \subseteq Point, Keyed(new),
         \A p \in new : \A q \in points : p.id = q.id => q \in old,
         \A p \in new : p.code \in Maybe(dictionary),
         \A p \in new : p.origin = "user_manual" <=> p.author # None,
         \A p \in new : p.id \in spent', spent \subseteq spent',
         UNCHANGED <<dictionary, membership>>
  PROVE  /\ StoreTypeOK'
         /\ \A p \in points' : p.id \in spent' /\ (p.origin = "user_manual" <=> p.author # None)
  BY DEF PointTypeOK, StoreTypeOK, KeysHold, Replace, Keyed

\* A verdict changes the status of the rows it is given, and nothing else.
LEMMA JudgedRows ==
  ASSUME PointTypeOK, NEW rows \in SUBSET points, NEW status \in {"approved", "rejected"},
         Replace(rows, {Judged(p, status) : p \in rows}),
         UNCHANGED <<dictionary, membership, spent>>
  PROVE  /\ StoreTypeOK'
         /\ \A p \in points' : p.id \in spent' /\ (p.origin = "user_manual" <=> p.author # None)
<1> DEFINE new == {Judged(p, status) : p \in rows}
<1>1. \A p \in rows : /\ Judged(p, status) \in Point
                      /\ Judged(p, status).id = p.id /\ Judged(p, status).code = p.code
                      /\ Judged(p, status).origin = p.origin /\ Judged(p, status).author = p.author
  BY DEF PointTypeOK, StoreTypeOK, Judged, Point
<1>2. Keyed(new)
  BY <1>1 DEF PointTypeOK, StoreTypeOK, KeysHold, Keyed
<1>3. /\ new \subseteq Point
      /\ \A p \in new : \A q \in points : p.id = q.id => q \in rows
      /\ \A p \in new : p.code \in Maybe(dictionary)
      /\ \A p \in new : p.origin = "user_manual" <=> p.author # None
      /\ \A p \in new : p.id \in spent'
  BY <1>1 DEF PointTypeOK, StoreTypeOK, KeysHold
<1>4. Replace(rows, new) /\ spent \subseteq spent' /\ rows \subseteq points
  OBVIOUS
<1> QED
  BY <1>2, <1>3, <1>4, RowsReplaced

\* A new row under an id that was never given out.
LEMMA RowAdded ==
  ASSUME PointTypeOK, NEW row \in Point, row.id \notin spent, row.code \in Maybe(dictionary),
         row.origin = "user_manual" <=> row.author # None,
         Replace({}, {row}), spent' = spent \cup {row.id},
         UNCHANGED <<dictionary, membership>>
  PROVE  /\ StoreTypeOK'
         /\ \A p \in points' : p.id \in spent' /\ (p.origin = "user_manual" <=> p.author # None)
<1>1. \A q \in points : row.id # q.id
  BY DEF PointTypeOK
<1> QED
  BY <1>1, RowsReplaced DEF Keyed

\* The rows of an id under another code.
LEMMA RowsRecoded ==
  ASSUME PointTypeOK, NEW id \in PointIds, NEW k \in Maybe(dictionary),
         Replace(PointOf(id), {[p EXCEPT !.code = k] : p \in PointOf(id)}),
         UNCHANGED <<dictionary, membership, spent>>
  PROVE  /\ StoreTypeOK'
         /\ \A p \in points' : p.id \in spent' /\ (p.origin = "user_manual" <=> p.author # None)
<1> DEFINE new == {[p EXCEPT !.code = k] : p \in PointOf(id)}
<1>1. \A p \in PointOf(id) :
        LET q == [p EXCEPT !.code = k] IN
        /\ q \in Point /\ q.id = p.id /\ q.code = k
        /\ q.origin = p.origin /\ q.author = p.author
  BY DEF PointTypeOK, StoreTypeOK, Point, PointOf, Maybe
<1>2. Keyed(new)
  BY <1>1 DEF PointTypeOK, StoreTypeOK, KeysHold, Keyed, PointOf
<1>3. ASSUME NEW q \in new
      PROVE  /\ q \in Point /\ q.code \in Maybe(dictionary) /\ q.id \in spent'
             /\ (q.origin = "user_manual" <=> q.author # None)
             /\ \A p \in points : q.id = p.id => p \in PointOf(id)
  <2>1. PICK p \in PointOf(id) : q = [p EXCEPT !.code = k]
    OBVIOUS
  <2>2. p \in points /\ p.id = id
    BY DEF PointOf
  <2> QED
    BY <1>1, <2>1, <2>2 DEF PointTypeOK, PointOf
<1>4. Replace(PointOf(id), new) /\ spent \subseteq spent' /\ PointOf(id) \subseteq points
  BY DEF PointOf
<1> QED
  BY <1>2, <1>3, <1>4, RowsReplaced

\* The rows of a scrape: one per id, new or recoded.
LEMMA UpsertedRows ==
  ASSUME PointTypeOK, NEW f \in Scrapes, NEW ids \in SUBSET DOMAIN f,
         \A id \in ids : f[id] \in dictionary,
         Replace({p \in points : p.id \in ids}, UNION {Upserted(id, f[id]) : id \in ids}),
         spent' = spent \cup ids, UNCHANGED <<dictionary, membership>>
  PROVE  /\ StoreTypeOK'
         /\ \A p \in points' : p.id \in spent' /\ (p.origin = "user_manual" <=> p.author # None)
<1> DEFINE old == {p \in points : p.id \in ids}
           new == UNION {Upserted(id, f[id]) : id \in ids}
<1>1. ASSUME NEW id \in ids, NEW q \in Upserted(id, f[id])
      PROVE  /\ q \in Point /\ q.id = id /\ q.code = f[id]
             /\ q.origin = "user_manual" <=> q.author # None
             /\ \A x \in Upserted(id, f[id]) : x = q
  <2>1. id \in PointIds /\ f[id] \in Codes
    BY PointsAssumption
  <2>2. CASE PointOf(id) = {}
    BY <1>1, <2>1, <2>2 DEF Upserted, Point, Origins, Maybe
  <2>3. CASE PointOf(id) # {}
    <3>1. PICK p \in PointOf(id) : q = [p EXCEPT !.code = f[id]]
      BY <1>1, <2>3 DEF Upserted
    <3>2. \A x \in PointOf(id) : x = p
      BY DEF PointTypeOK, StoreTypeOK, KeysHold, PointOf
    <3>3. p \in Point /\ p.id = id /\ (p.origin = "user_manual" <=> p.author # None)
      BY DEF PointTypeOK, StoreTypeOK, PointOf
    <3>4. \A x \in Upserted(id, f[id]) : x = q
      BY <2>3, <3>1, <3>2 DEF Upserted
    <3> QED
      BY <2>1, <3>1, <3>3, <3>4 DEF Point, Maybe
  <2> QED
    BY <2>2, <2>3
<1>2. Keyed(new)
  BY <1>1 DEF Keyed
<1>3. /\ new \subseteq Point
      /\ \A p \in new : \A q \in points : p.id = q.id => q \in old
      /\ \A p \in new : p.code \in Maybe(dictionary)
      /\ \A p \in new : p.origin = "user_manual" <=> p.author # None
      /\ \A p \in new : p.id \in spent'
  BY <1>1 DEF Maybe
<1>4. Replace(old, new) /\ spent \subseteq spent' /\ old \subseteq points
  OBVIOUS
<1> QED
  BY <1>2, <1>3, <1>4, RowsReplaced

\* The dictionary grows, or loses a code that nothing refers to.
LEMMA CodesEdited ==
  ASSUME PointTypeOK, NEW k \in Codes, AdminCreateMCC(k) \/ AdminDeleteMCC(k),
         UNCHANGED <<roles, spent, req>>
  PROVE  PointTypeOK'
<1>1. CASE AdminCreateMCC(k)
  BY <1>1 DEF AdminCreateMCC, PointTypeOK, StoreTypeOK, KeysHold, Maybe
<1>2. CASE AdminDeleteMCC(k)
  BY <1>2, MccAssumption DEF AdminDeleteMCC, PointTypeOK, StoreTypeOK, KeysHold, Maybe, Link
<1> QED
  BY <1>1, <1>2

LEMMA NextTypes ==
  ASSUME PointTypeOK, [PointNext]_pointVars
  PROVE  PointTypeOK'
<1> DEFINE RowsOK == /\ StoreTypeOK'
                     /\ \A p \in points' :
                          p.id \in spent' /\ (p.origin = "user_manual" <=> p.author # None)
<1>1. ASSUME NEW r \in Reqs, CreatePoint(r)
      PROVE  PointTypeOK'
  <2>1. PICK u \in Users, k \in dictionary : Begin(r, [at |-> "insert", user |-> u, code |-> k])
    BY <1>1 DEF CreatePoint
  <2>2. [at |-> "insert", user |-> u, code |-> k] \in Note
    BY DEF Note, PointTypeOK, StoreTypeOK
  <2> QED
    BY <2>1, <2>2, BeginTypes
<1>2. ASSUME NEW r \in Reqs, CreateUserPointOfSale(r)
      PROVE  PointTypeOK'
  <2>1. req[r] \in [at : {"insert"}, user : Users, code : Codes]
    BY <1>2 DEF CreateUserPointOfSale, PointTypeOK, Note, Idle
  <2>2. req' \in [Reqs -> Note] /\ roles' = roles
    BY <1>2, NotesKept DEF CreateUserPointOfSale
  <2>3. CASE UNCHANGED <<points, spent>>
    BY <1>2, <2>2, <2>3 DEF CreateUserPointOfSale, PointTypeOK, StoreTypeOK, KeysHold
  <2>4. CASE req[r].code \in dictionary /\ ~ UNCHANGED <<points, spent>>
    <3> DEFINE Row(id) == [id |-> id, author |-> req[r].user, origin |-> "user_manual",
                           status |-> "pending", code |-> req[r].code]
    <3>1. PICK id \in PointIds \ spent : Replace({}, {Row(id)}) /\ spent' = spent \cup {id}
      BY <1>2, <2>4 DEF CreateUserPointOfSale
    <3>2. /\ Row(id) \in Point /\ Row(id).id = id /\ Row(id).code \in Maybe(dictionary)
          /\ Row(id).origin = "user_manual" /\ Row(id).author # None
      BY <2>1, <2>4, MccAssumption DEF Point, Origins, Maybe
    <3>3. RowsOK
      BY <1>2, <3>1, <3>2, RowAdded DEF CreateUserPointOfSale
    <3> QED
      BY <2>2, <3>1, <3>3 DEF PointTypeOK
  <2> QED
    BY <1>2, <2>3, <2>4 DEF CreateUserPointOfSale
<1>3. ASSUME NEW r \in Reqs, ModerationApprove(r) \/ ModerationReject(r)
      PROVE  PointTypeOK'
  <2>1. PICK verdict \in {"approve", "reject"}, id \in PointIds :
          Begin(r, [at |-> verdict, point |-> id])
    BY <1>3 DEF ModerationApprove, ModerationReject, Moderate
  <2>2. [at |-> verdict, point |-> id] \in Note
    BY DEF Note
  <2> QED
    BY <2>1, <2>2, BeginTypes
<1>4. ASSUME NEW r \in Reqs, ModerationApprovePOS(r)
      PROVE  PointTypeOK'
  <2>1. PICK rows \in SUBSET points : Replace(rows, {Judged(p, "approved") : p \in rows})
    BY <1>4 DEF ModerationApprovePOS, PointOf
  <2>2. RowsOK
    BY <1>4, <2>1, JudgedRows DEF ModerationApprovePOS
  <2> QED
    BY <1>4, <2>2, NotesKept DEF ModerationApprovePOS, PointTypeOK
<1>5. ASSUME NEW r \in Reqs, ModerationRejectPOS(r)
      PROVE  PointTypeOK'
  <2>1. PICK rows \in SUBSET points : Replace(rows, {Judged(p, "rejected") : p \in rows})
    BY <1>5 DEF ModerationRejectPOS, PointOf
  <2>2. RowsOK
    BY <1>5, <2>1, JudgedRows DEF ModerationRejectPOS
  <2> QED
    BY <1>5, <2>2, NotesKept DEF ModerationRejectPOS, PointTypeOK
<1>6. ASSUME NEW r \in Reqs, ImportPointsOfSale(r)
      PROVE  PointTypeOK'
  <2>1. PICK f \in Scrapes : Begin(r, [at |-> "upsert", file |-> f, known |-> dictionary])
    BY <1>6 DEF ImportPointsOfSale
  <2>2. [at |-> "upsert", file |-> f, known |-> dictionary] \in Note
    BY DEF Note, PointTypeOK, StoreTypeOK
  <2> QED
    BY <2>1, <2>2, BeginTypes
<1>7. ASSUME NEW r \in Reqs, UpsertPoints(r)
      PROVE  PointTypeOK'
  <2> DEFINE f   == req[r].file
             ids == {id \in DOMAIN f : f[id] \in req[r].known}
  <2>1. f \in Scrapes
    BY <1>7 DEF UpsertPoints, PointTypeOK, Note, Idle
  <2>2. req' \in [Reqs -> Note] /\ roles' = roles /\ UNCHANGED <<dictionary, membership>>
    BY <1>7, NotesKept DEF UpsertPoints
  <2>3. CASE UNCHANGED <<points, spent>>
    BY <2>2, <2>3 DEF PointTypeOK, StoreTypeOK, KeysHold
  <2>4. CASE /\ \A id \in ids : f[id] \in dictionary
             /\ Replace({p \in points : p.id \in ids}, UNION {Upserted(id, f[id]) : id \in ids})
             /\ spent' = spent \cup ids
    <3>1. RowsOK
      BY <2>1, <2>2, <2>4, UpsertedRows
    <3>2. spent' \subseteq PointIds
      BY <2>1, <2>4, PointsAssumption DEF PointTypeOK
    <3> QED
      BY <2>2, <3>1, <3>2 DEF PointTypeOK
  <2> QED
    BY <1>7, <2>3, <2>4 DEF UpsertPoints
<1>8. ASSUME NEW u \in Users, NEW role \in Roles, AdminSetUserRole(u, role)
      PROVE  PointTypeOK'
  BY <1>8 DEF AdminSetUserRole, PointTypeOK, StoreTypeOK, KeysHold, tables
<1>9. ASSUME NEW id \in PointIds, AdminApprovePOS(id)
      PROVE  PointTypeOK'
  <2>1. PICK rows \in SUBSET points : Replace(rows, {Judged(p, "approved") : p \in rows})
    BY <1>9 DEF AdminApprovePOS, PointOf
  <2>2. RowsOK
    BY <1>9, <2>1, JudgedRows DEF AdminApprovePOS
  <2> QED
    BY <1>9, <2>2 DEF AdminApprovePOS, PointTypeOK
<1>10. ASSUME NEW id \in PointIds, NEW k \in Maybe(Codes), AdminCreatePOS(id, k)
       PROVE  PointTypeOK'
  <2> DEFINE row == [id |-> id, author |-> None, origin |-> "admin", status |-> "approved",
                     code |-> k]
  <2>1. row \in Point /\ row.id = id /\ row.code = k /\ row.author = None /\ row.origin = "admin"
    BY DEF Point, Origins, Maybe
  <2>2. Replace({}, {row}) /\ spent' = spent \cup {id} /\ id \notin spent /\ k \in Maybe(dictionary)
    BY <1>10 DEF AdminCreatePOS
  <2>3. RowsOK
    BY <1>10, <2>1, <2>2, RowAdded DEF AdminCreatePOS
  <2> QED
    BY <1>10, <2>2, <2>3 DEF AdminCreatePOS, PointTypeOK
<1>11. ASSUME NEW id \in PointIds, NEW k \in Maybe(Codes), AdminUpdatePOS(id, k)
       PROVE  PointTypeOK'
  <2>1. RowsOK
    BY <1>11, RowsRecoded DEF AdminUpdatePOS
  <2> QED
    BY <1>11, <2>1 DEF AdminUpdatePOS, PointTypeOK
<1>12. ASSUME NEW id \in PointIds, AdminDeletePOS(id)
       PROVE  PointTypeOK'
  BY <1>12 DEF AdminDeletePOS, Replace, PointTypeOK, StoreTypeOK, KeysHold
<1>13. ASSUME NEW k \in Codes, AdminCreateMCC(k) \/ AdminDeleteMCC(k),
              UNCHANGED <<roles, spent, req>>
       PROVE  PointTypeOK'
  BY <1>13, CodesEdited
<1>14. CASE Restart
  BY <1>14 DEF Restart, PointTypeOK, StoreTypeOK, KeysHold, Note, tables
<1>15. CASE UNCHANGED pointVars
  BY <1>15 DEF pointVars, tables, PointTypeOK, StoreTypeOK, KeysHold
<1> QED
  BY <1>1, <1>2, <1>3, <1>4, <1>5, <1>6, <1>7, <1>8, <1>9, <1>10, <1>11, <1>12, <1>13, <1>14,
     <1>15 DEF PointNext

\* The tables keep their types and keys, and only a submission has an author,
\* whichever moderators, operators and imports act at the same time.
THEOREM PointsTyped == PointSpec => []PointTypeOK
  BY InitTypes, NextTypes, PTL DEF PointSpec

(***************************** the refinement ******************************)

Stand(status) ==
  CASE status = "pending"  -> "pending"
    [] status = "approved" -> "public"
    [] status = "rejected" -> "withdrawn"

Viewers(p) == {u \in Users : Sees(u, p)}

LEMMA RowDecides ==
  ASSUME NEW pts, Keyed(pts), NEW p \in pts
  PROVE  StandingIn(pts, p.id) = Stand(p.status) /\ AudienceIn(pts, p.id) = Viewers(p)
<1>1. \A q \in pts : q.id = p.id => q = p
  BY DEF Keyed
<1>2. (CHOOSE q \in pts : q.id = p.id) = p
  BY <1>1
<1>3. {q \in pts : q.id = p.id} = {p}
  BY <1>1
<1> QED
  BY <1>2, <1>3 DEF StandingIn, AudienceIn, Stand, Viewers

LEMMA NoRow ==
  ASSUME NEW pts, NEW id, \A p \in pts : p.id # id
  PROVE  StandingIn(pts, id) = "absent" /\ AudienceIn(pts, id) = {}
  BY DEF StandingIn, AudienceIn

\* two tables agree on the status and the author of a point
Agree(old, new, id) ==
  /\ \A p \in old : p.id = id =>
       \E q \in new : q.id = id /\ q.status = p.status /\ q.author = p.author
  /\ (\A p \in old : p.id # id) => \A q \in new : q.id # id

LEMMA SameWord ==
  ASSUME NEW old, NEW new, Keyed(old), Keyed(new), NEW id, Agree(old, new, id)
  PROVE  StandingIn(new, id) = StandingIn(old, id) /\ AudienceIn(new, id) = AudienceIn(old, id)
<1>1. CASE \A p \in old : p.id # id
  BY <1>1, NoRow DEF Agree
<1>2. ASSUME NEW p \in old, p.id = id
      PROVE  /\ StandingIn(new, id) = StandingIn(old, id)
             /\ AudienceIn(new, id) = AudienceIn(old, id)
  <2>1. PICK q \in new : q.id = id /\ q.status = p.status /\ q.author = p.author
    BY <1>2 DEF Agree
  <2>2. Viewers(p) = Viewers(q)
    BY <2>1 DEF Viewers, Sees
  <2> QED
    BY <1>2, <2>1, <2>2, RowDecides
<1> QED
  BY <1>1, <1>2

\* Rows whose status and author stay, under ids that had one: a stutter.
LEMMA Stutters ==
  ASSUME PointTypeOK, PointTypeOK',
         \A id \in PointIds : Agree(points, points', id)
  PROVE  UNCHANGED <<standing, audience>>
<1>1. Keyed(points) /\ Keyed(points')
  BY DEF PointTypeOK, StoreTypeOK, KeysHold, Keyed
<1>2. \A id \in PointIds : /\ StandingIn(points', id) = StandingIn(points, id)
                           /\ AudienceIn(points', id) = AudienceIn(points, id)
  BY <1>1, SameWord
<1> QED
  BY <1>2 DEF standing, audience

\* The rows of S, all of one standing, get another; the rest is as it was.
LEMMA Moves ==
  ASSUME PointTypeOK, PointTypeOK', NEW S \in SUBSET PointIds, S # {}, NEW from, NEW to, NEW who,
         \A id \in S : StandingIn(points, id) \in from,
         \A id \in S : StandingIn(points', id) = to /\ AudienceIn(points', id) = who,
         \A id \in PointIds \ S : Agree(points, points', id)
  PROVE  Promise!Stands(S, from, to, who)
<1>1. Keyed(points) /\ Keyed(points')
  BY DEF PointTypeOK, StoreTypeOK, KeysHold, Keyed
<1>2. \A id \in PointIds \ S : /\ StandingIn(points', id) = StandingIn(points, id)
                               /\ AudienceIn(points', id) = AudienceIn(points, id)
  BY <1>1, SameWord
<1> QED
  BY <1>2 DEF Promise!Stands, standing, audience
\* A point whose rows are not touched.
LEMMA Elsewhere ==
  ASSUME NEW old, NEW new, Replace(old, new), NEW id,
         \A p \in old : p.id # id, \A p \in new : p.id # id
  PROVE  Agree(points, points', id)
  BY DEF Replace, Agree

\* A verdict of the moderation: on the row as it is, or on nothing.
LEMMA Judges ==
  ASSUME PointTypeOK, PointTypeOK', NEW id \in PointIds, NEW rows \in SUBSET PointOf(id),
         NEW status \in {"approved", "rejected"}, NEW from,
         \A p \in rows : Stand(p.status) \in from,
         Replace(rows, {Judged(p, status) : p \in rows})
  PROVE  \/ UNCHANGED <<standing, audience>>
         \/ Promise!Stands({id}, from, Stand(status), IF status = "approved" THEN Users ELSE {})
<1>1. CASE rows = {}
  <2>1. points' = points
    BY <1>1 DEF Replace
  <2> QED
    BY <2>1 DEF standing, audience
<1>2. ASSUME NEW p \in rows
      PROVE  Promise!Stands({id}, from, Stand(status), IF status = "approved" THEN Users ELSE {})
  <2> DEFINE q == Judged(p, status)
  <2>1. Keyed(points) /\ Keyed(points') /\ p \in points /\ p.id = id /\ p \in Point
    BY DEF PointTypeOK, StoreTypeOK, KeysHold, Keyed, PointOf
  <2>2. q.id = id /\ q.status = status
    BY <2>1 DEF Judged, Point
  <2>3. q \in points'
    BY DEF Replace
  <2>4. StandingIn(points, id) \in from
    BY <2>1, RowDecides
  <2>5. StandingIn(points', id) = Stand(status) /\ AudienceIn(points', id) = Viewers(q)
    BY <2>1, <2>2, <2>3, RowDecides
  <2>6. Viewers(q) = IF status = "approved" THEN Users ELSE {}
    BY <2>2 DEF Viewers, Sees
  <2>7. \A x \in rows : x.id = id /\ Judged(x, status).id = id
    BY DEF PointOf, Judged, PointTypeOK, StoreTypeOK, Point
  <2>8. \A i \in PointIds \ {id} : Agree(points, points', i)
    BY <2>7, Elsewhere
  <2> QED
    BY <2>4, <2>5, <2>6, <2>8, Moves
<1> QED
  BY <1>1, <1>2

\* A new row under a new id.
LEMMA Appears ==
  ASSUME PointTypeOK, PointTypeOK', NEW id \in PointIds \ spent, NEW row, row.id = id,
         Replace({}, {row})
  PROVE  Promise!Stands({id}, {"absent"}, Stand(row.status), Viewers(row))
<1>1. Keyed(points) /\ Keyed(points') /\ row \in points' /\ \A p \in points : p.id # id
  BY DEF PointTypeOK, StoreTypeOK, KeysHold, Keyed, Replace
<1>2. StandingIn(points, id) = "absent"
  BY <1>1, NoRow
<1>3. StandingIn(points', id) = Stand(row.status) /\ AudienceIn(points', id) = Viewers(row)
  BY <1>1, RowDecides
<1>4. \A i \in PointIds \ {id} : Agree(points, points', i)
  BY Elsewhere
<1> QED
  BY <1>2, <1>3, <1>4, Moves

\* A row goes.
LEMMA Disappears ==
  ASSUME PointTypeOK, PointTypeOK', NEW id \in PointIds, PointOf(id) # {}, Replace(PointOf(id), {})
  PROVE  Promise!Erase(id)
<1>1. PICK p \in points : p.id = id
  BY DEF PointOf
<1>2. p.status \in {"pending", "approved", "rejected"}
  BY DEF PointTypeOK, StoreTypeOK, Point
<1>3. StandingIn(points, id) \in Promise!Standings \ {"absent"}
  <2>1. StandingIn(points, id) = Stand(p.status)
    BY <1>1, RowDecides DEF PointTypeOK, StoreTypeOK, KeysHold, Keyed
  <2> QED
    BY <1>2, <2>1 DEF Stand, Promise!Standings
<1>4. StandingIn(points', id) = "absent" /\ AudienceIn(points', id) = {}
  <2>1. \A q \in points' : q.id # id
    BY DEF Replace, PointOf
  <2> QED
    BY <2>1, NoRow
<1>5. \A i \in PointIds \ {id} : Agree(points, points', i)
  BY Elsewhere DEF PointOf
<1> QED
  BY <1>3, <1>4, <1>5, Moves DEF Promise!Erase

\* A scrape publishes the points it is the first to name, and recodes the rest.
LEMMA Scraped ==
  ASSUME PointTypeOK, PointTypeOK', NEW f \in Scrapes, NEW ids \in SUBSET DOMAIN f,
         Replace({p \in points : p.id \in ids}, UNION {Upserted(id, f[id]) : id \in ids})
  PROVE  UNCHANGED <<standing, audience>> \/ \E S \in SUBSET PointIds : Promise!Publish(S)
<1> DEFINE S == {id \in ids : PointOf(id) = {}}
<1>1. S \in SUBSET PointIds
  BY PointsAssumption
<1>2. \A id \in PointIds \ S : Agree(points, points', id)
  <2> TAKE id \in PointIds \ S
  <2>1. CASE id \in ids
    <3>1. PICK p \in PointOf(id) : TRUE
      BY <2>1
    <3>2. p \in points /\ p.id = id /\ p \in Point /\ \A x \in points : x.id = id => x = p
      BY DEF PointOf, PointTypeOK, StoreTypeOK, KeysHold
    <3> DEFINE q == [p EXCEPT !.code = f[id]]
    <3>3. q.id = id /\ q.status = p.status /\ q.author = p.author
      BY <3>2 DEF Point
    <3>4. q \in Upserted(id, f[id])
      BY DEF Upserted
    <3>5. q \in points'
      BY <2>1, <3>4 DEF Replace
    <3> QED
      BY <3>2, <3>3, <3>5 DEF Agree
  <2>2. CASE id \notin ids
    <3>1. \A i \in ids : \A q \in Upserted(i, f[i]) : q.id = i
      BY DEF Upserted, PointOf, PointTypeOK, StoreTypeOK, Point
    <3> QED
      BY <2>2, <3>1, Elsewhere
  <2> QED
    BY <2>1, <2>2
<1>3. CASE S = {}
  BY <1>2, <1>3, Stutters
<1>4. CASE S # {}
  <2>1. \A id \in S : StandingIn(points, id) = "absent"
    BY NoRow DEF PointOf
  <2>2. ASSUME NEW id \in S
        PROVE  StandingIn(points', id) = "public" /\ AudienceIn(points', id) = Users
    <3> DEFINE q == [id |-> id, author |-> None, origin |-> "mcc_codes", status |-> "approved",
                     code |-> f[id]]
    <3>1. q \in Upserted(id, f[id])
      BY DEF Upserted
    <3>2. q \in points' /\ Keyed(points')
      BY <3>1 DEF Replace, PointTypeOK, StoreTypeOK, KeysHold, Keyed
    <3>3. StandingIn(points', q.id) = Stand(q.status) /\ AudienceIn(points', q.id) = Viewers(q)
      BY <3>2, RowDecides
    <3>4. Stand(q.status) = "public" /\ Viewers(q) = Users
      BY DEF Stand, Viewers, Sees
    <3> QED
      BY <3>3, <3>4
  <2>3. Promise!Publish(S)
    BY <1>1, <1>2, <1>4, <2>1, <2>2, Moves DEF Promise!Publish
  <2> QED
    BY <1>1, <2>3
<1> QED
  BY <1>3, <1>4

\* Every step of the code is a step of the promise, or none.
LEMMA StepKeeps ==
  ASSUME PointTypeOK, PointTypeOK', [PointNext]_pointVars
  PROVE  [Promise!Next]_<<standing, audience>>
<1>1. ASSUME points' = points
      PROVE  UNCHANGED <<standing, audience>>
  BY <1>1 DEF standing, audience
<1>2. ASSUME NEW r \in Reqs, CreateUserPointOfSale(r)
      PROVE  [Promise!Next]_<<standing, audience>>
  <2>1. req[r] \in [at : {"insert"}, user : Users, code : Codes]
    BY <1>2 DEF CreateUserPointOfSale, PointTypeOK, Note, Idle
  <2> DEFINE Row(id) == [id |-> id, author |-> req[r].user, origin |-> "user_manual",
                         status |-> "pending", code |-> req[r].code]
  <2>2. CASE \E id \in PointIds \ spent : Replace({}, {Row(id)})
    <3>1. PICK id \in PointIds \ spent : Replace({}, {Row(id)})
      BY <2>2
    <3>2. Stand(Row(id).status) = "pending" /\ Viewers(Row(id)) = {req[r].user}
      BY <2>1 DEF Stand, Viewers, Sees
    <3>3. Row(id).id = id
      OBVIOUS
    <3>4. Promise!Stands({id}, {"absent"}, Stand(Row(id).status), Viewers(Row(id)))
      BY <3>1, <3>3, Appears
    <3>5. Promise!Submit(id, req[r].user)
      BY <3>2, <3>4 DEF Promise!Submit
    <3> QED
      BY <2>1, <3>5 DEF Promise!Next
  <2>3. CASE points' = points
    BY <1>1, <2>3
  <2> QED
    BY <1>2, <2>2, <2>3 DEF CreateUserPointOfSale
<1>3. ASSUME NEW id \in PointIds,
             LET rows == {p \in PointOf(id) : Approvable(p)} IN
             Replace(rows, {Judged(p, "approved") : p \in rows})
      PROVE  [Promise!Next]_<<standing, audience>>
  <2> DEFINE rows == {p \in PointOf(id) : Approvable(p)}
  <2>1. \A p \in rows : Stand(p.status) \in {"pending"}
    BY DEF Approvable, Stand
  <2>2. \/ UNCHANGED <<standing, audience>>
        \/ Promise!Stands({id}, {"pending"}, Stand("approved"), Users)
    BY <1>3, <2>1, Judges
  <2>3. Stand("approved") = "public"
    BY DEF Stand
  <2> QED
    BY <2>2, <2>3 DEF Promise!Next, Promise!Approve
<1>4. ASSUME NEW id \in PointIds,
             LET rows == {p \in PointOf(id) : Rejectable(p)} IN
             Replace(rows, {Judged(p, "rejected") : p \in rows})
      PROVE  [Promise!Next]_<<standing, audience>>
  <2> DEFINE rows == {p \in PointOf(id) : Rejectable(p)}
  <2>1. \A p \in rows : Stand(p.status) \in {"pending", "public"}
    BY DEF Rejectable, Stand
  <2>2. \/ UNCHANGED <<standing, audience>>
        \/ Promise!Stands({id}, {"pending", "public"}, Stand("rejected"), {})
    BY <1>4, <2>1, Judges
  <2>3. Stand("rejected") = "withdrawn"
    BY DEF Stand
  <2> QED
    BY <2>2, <2>3 DEF Promise!Next, Promise!Withdraw
<1>5. ASSUME NEW r \in Reqs, ModerationApprovePOS(r) \/ ModerationRejectPOS(r)
      PROVE  [Promise!Next]_<<standing, audience>>
  <2>1. req[r].point \in PointIds
    BY <1>5 DEF ModerationApprovePOS, ModerationRejectPOS, PointTypeOK, Note, Idle
  <2> QED
    BY <1>3, <1>4, <1>5, <2>1 DEF ModerationApprovePOS, ModerationRejectPOS
<1>6. ASSUME NEW r \in Reqs, UpsertPoints(r)
      PROVE  [Promise!Next]_<<standing, audience>>
  <2> DEFINE f   == req[r].file
             ids == {id \in DOMAIN f : f[id] \in req[r].known}
  <2>1. f \in Scrapes
    BY <1>6 DEF UpsertPoints, PointTypeOK, Note, Idle
  <2>2. CASE Replace({p \in points : p.id \in ids}, UNION {Upserted(id, f[id]) : id \in ids})
    <3>1. UNCHANGED <<standing, audience>> \/ \E S \in SUBSET PointIds : Promise!Publish(S)
      BY <2>1, <2>2, Scraped
    <3> QED
      BY <3>1 DEF Promise!Next
  <2>3. CASE points' = points
    BY <1>1, <2>3
  <2> QED
    BY <1>6, <2>2, <2>3 DEF UpsertPoints
<1>7. ASSUME NEW id \in PointIds, NEW k \in Maybe(Codes), AdminCreatePOS(id, k)
      PROVE  [Promise!Next]_<<standing, audience>>
  <2> DEFINE row == [id |-> id, author |-> None, origin |-> "admin", status |-> "approved",
                     code |-> k]
  <2>1. Stand(row.status) = "public" /\ Viewers(row) = Users /\ row.id = id
    BY DEF Stand, Viewers, Sees
  <2>2. Promise!Stands({id}, {"absent"}, Stand(row.status), Viewers(row))
    BY <1>7, <2>1, Appears DEF AdminCreatePOS
  <2>3. Promise!Publish({id})
    BY <2>1, <2>2 DEF Promise!Publish
  <2> QED
    BY <2>3 DEF Promise!Next
<1>8. ASSUME NEW id \in PointIds, NEW k \in Maybe(Codes), AdminUpdatePOS(id, k)
      PROVE  [Promise!Next]_<<standing, audience>>
  <2>1. \A p \in PointOf(id) : LET q == [p EXCEPT !.code = k] IN
          q.id = p.id /\ q.status = p.status /\ q.author = p.author /\ p.id = id
    BY DEF PointOf, PointTypeOK, StoreTypeOK, Point
  <2>2. \A i \in PointIds : Agree(points, points', i)
    BY <1>8, <2>1 DEF AdminUpdatePOS, Replace, PointOf, Agree
  <2> QED
    BY <2>2, Stutters
<1>9. ASSUME NEW id \in PointIds, AdminDeletePOS(id)
      PROVE  [Promise!Next]_<<standing, audience>>
  BY <1>9, Disappears DEF AdminDeletePOS, Promise!Next
<1>10. ASSUME NEW id \in PointIds, AdminApprovePOS(id)
       PROVE  [Promise!Next]_<<standing, audience>>
  BY <1>3, <1>10 DEF AdminApprovePOS
<1>11. ASSUME NEW r \in Reqs,
              \/ CreatePoint(r) \/ ModerationApprove(r) \/ ModerationReject(r)
              \/ ImportPointsOfSale(r)
       PROVE  UNCHANGED <<standing, audience>>
  BY <1>1, <1>11
     DEF CreatePoint, ModerationApprove, ModerationReject, Moderate, ImportPointsOfSale, Begin,
         tables
<1>12. ASSUME NEW k \in Codes, AdminCreateMCC(k) \/ AdminDeleteMCC(k)
       PROVE  UNCHANGED <<standing, audience>>
  BY <1>1, <1>12 DEF AdminCreateMCC, AdminDeleteMCC
<1>13. ASSUME NEW u \in Users, NEW role \in Roles, AdminSetUserRole(u, role)
       PROVE  UNCHANGED <<standing, audience>>
  BY <1>1, <1>13 DEF AdminSetUserRole, tables
<1>14. CASE Restart \/ UNCHANGED pointVars
  BY <1>1, <1>14 DEF Restart, pointVars, tables
<1> QED
  BY <1>2, <1>5, <1>6, <1>7, <1>8, <1>9, <1>10, <1>11, <1>12, <1>13, <1>14 DEF PointNext

LEMMA InitKeeps ==
  ASSUME PointInit
  PROVE  Promise!Init
  BY NoRow DEF PointInit, StoreInit, standing, audience, Promise!Init

\* Moderators, the operator, users and imports, interleaved statement by
\* statement, implement the verdict: a submission is its author's alone, and
\* what was withdrawn never comes back.
THEOREM PointsImplementVerdict == PointSpec => KeepsVerdict
<1>1. PointInit => Promise!Init
  BY InitKeeps
<1>2. PointTypeOK /\ PointTypeOK' /\ [PointNext]_pointVars => [Promise!Next]_(Promise!vars)
  BY StepKeeps DEF Promise!vars
<1>3. QED
  BY <1>1, <1>2, PointsTyped, PTL DEF PointSpec, KeepsVerdict, Promise!Spec

(**************************** documents of a bank **************************)

(************************ what a document asks for *************************)

LEMMA Documented ==
  ASSUME NEW d \in Documents
  PROVE  /\ d.source \in Sources /\ d.dictionary \subseteq Codes
         /\ d.exclusions \in [Kinds -> Maybe(SUBSET Values)]
         /\ DOMAIN d.categories = 1..Len(d.categories) /\ Len(d.categories) \in Nat
         /\ \A n \in DOMAIN d.categories :
              /\ d.categories[n].title \in Titles /\ d.categories[n].mcc \subseteq Codes
              /\ d.categories[n].qualified \subseteq [code : Codes, note : Notes]
              /\ \A p, q \in d.categories[n].qualified : p.code = q.code => p = q
<1>1. d \in Document
  BY SnapshotAssumption
<1> DEFINE Category == [title : Titles, mcc : SUBSET Codes,
                       qualified : SUBSET [code : Codes, note : Notes]]
           cats == d.categories
<1>2. /\ d.source \in Sources /\ d.dictionary \subseteq Codes
      /\ d.exclusions \in [Kinds -> Maybe(SUBSET Values)]
      /\ cats \in Seq(Category)
  BY <1>1 DEF Document
<1>3. \A n \in DOMAIN cats : \A p, q \in cats[n].qualified : p.code = q.code => p = q
  BY SnapshotAssumption
<1> HIDE DEF cats
<1>4. /\ DOMAIN cats = 1..Len(cats) /\ Len(cats) \in Nat
      /\ \A n \in DOMAIN cats : cats[n] \in Category
  <2> HIDE DEF Category
  <2> QED BY <1>2
<1>5. \A n \in DOMAIN cats : /\ cats[n].title \in Titles /\ cats[n].mcc \subseteq Codes
                             /\ cats[n].qualified \subseteq [code : Codes, note : Notes]
  BY <1>4
<1> HIDE DEF Category
<1> QED BY <1>2, <1>3, <1>4, <1>5 DEF cats

\* A category asks for a code once, with one condition.
LEMMA WantedOnce ==
  ASSUME NEW d \in Documents, NEW n \in DOMAIN d.categories
  PROVE  /\ Wanted(d.categories[n]) \subseteq [code : Codes, note : Maybe(Notes)]
         /\ \A w, x \in Wanted(d.categories[n]) : w.code = x.code => w = x
<1> DEFINE c == d.categories[n]
<1>1. /\ c.mcc \subseteq Codes /\ c.qualified \subseteq [code : Codes, note : Notes]
      /\ \A p, q \in c.qualified : p.code = q.code => p = q
  BY Documented
<1> HIDE DEF c
<1>2. Wanted(c) \subseteq [code : Codes, note : Maybe(Notes)]
  BY <1>1 DEF Wanted, Maybe
<1>3. \A w, x \in Wanted(c) : w.code = x.code => w = x
  BY <1>1 DEF Wanted
<1> QED BY <1>2, <1>3 DEF c

\* A catalog row belongs to one title.
LEMMA RowTitles ==
  ASSUME NEW d \in Documents
  PROVE  /\ Rows(d) \subseteq DOMAIN d.categories
         /\ \A n \in Rows(d) : /\ CatalogOf[d.categories[n].title] # {}
                               /\ RowOf(d, n) \in Cats
         /\ \A m, n \in Rows(d) : RowOf(d, m) = RowOf(d, n) =>
              d.categories[m].title = d.categories[n].title
<1>1. Rows(d) \subseteq DOMAIN d.categories
  BY DEF Rows
<1>2. \A n \in Rows(d) : /\ CatalogOf[d.categories[n].title] # {}
                         /\ d.categories[n].title \in Titles
  <2>1. \A n \in Rows(d) : d.categories[n].title \in Titles
    BY <1>1, Documented
  <2>2. \A n \in Rows(d) : Cardinality(CatalogOf[d.categories[n].title]) = 1
    BY DEF Rows
  <2>3. Cardinality({}) # 1
    BY FS_EmptySet
  <2> QED BY <2>1, <2>2, <2>3
<1>3. \A n \in Rows(d) : RowOf(d, n) \in CatalogOf[d.categories[n].title]
  BY <1>2 DEF RowOf
<1>4. \A n \in Rows(d) : RowOf(d, n) \in Cats
  BY <1>2, <1>3, SnapshotAssumption
<1>5. \A m, n \in Rows(d) : RowOf(d, m) = RowOf(d, n) =>
        d.categories[m].title = d.categories[n].title
  BY <1>2, <1>3, SnapshotAssumption
<1> QED BY <1>1, <1>2, <1>4, <1>5

(********************************* the plan ********************************)

LEMMA AddsAre ==
  ASSUME NEW d, NEW in, NEW a
  PROVE  a \in Adds(d, in) <=>
           \E n \in Rows(d) : \E w \in Want(d, in, n) :
             (\A l \in Have(d, in, n) : l.code # w.code) /\ a = [n |-> n, link |-> Member(d, n, w)]
  BY DEF Adds

LEMMA RemovesAre ==
  ASSUME NEW d, NEW in, NEW x
  PROVE  x \in Removes(d, in) <=>
           \E n \in Rows(d) : \E l \in Have(d, in, n) :
             (\A w \in Want(d, in, n) : w.code # l.code) /\ x = [n |-> n, link |-> l]
  BY DEF Removes

LEMMA NoteUpdatesAre ==
  ASSUME NEW d, NEW in, NEW u
  PROVE  u \in NoteUpdates(d, in) <=>
           \E n \in Rows(d) : \E w \in Want(d, in, n) :
             (\E l \in Have(d, in, n) : l.code = w.code /\ l.note # w.note) /\ u = Member(d, n, w)
  BY DEF NoteUpdates

LEMMA UnknownCodesAre ==
  ASSUME NEW d, NEW in, NEW u
  PROVE  u \in UnknownCodes(d, in) <=>
           \E n \in Rows(d) : \E k \in UnknownIn(d, in, n) :
             (\A m \in Rows(d) : m < n => k \notin UnknownIn(d, in, m))
               /\ u = [cat |-> RowOf(d, n), code |-> k]
<1>1. \A n \in Rows(d) : \A k : k \in UnknownIn(d, in, n)
              \ UNION {UnknownIn(d, in, m) : m \in {x \in Rows(d) : x < n}}
        <=> k \in UnknownIn(d, in, n) /\ \A m \in Rows(d) : m < n => k \notin UnknownIn(d, in, m)
  OBVIOUS
<1> QED BY <1>1 DEF UnknownCodes

\* A wanted code, as a row of its category.
LEMMA Members ==
  ASSUME NEW d \in Documents, NEW in, NEW n \in Rows(d), NEW w \in Want(d, in, n)
  PROVE  /\ w \in [code : Codes, note : Maybe(Notes)] /\ w \in Wanted(d.categories[n])
         /\ Member(d, n, w) \in Link /\ w.code \in Known(d, in)
         /\ Member(d, n, w).cat = RowOf(d, n) /\ Member(d, n, w).code = w.code
         /\ Member(d, n, w).note = w.note
<1>1. w \in Wanted(d.categories[n]) /\ w.code \in Known(d, in)
  BY DEF Want
<1>2. w \in [code : Codes, note : Maybe(Notes)]
  BY <1>1, WantedOnce, RowTitles
<1>3. RowOf(d, n) \in Cats
  BY RowTitles
<1> QED BY <1>1, <1>2, <1>3 DEF Member, Link

LEMMA PlanTypes ==
  ASSUME NEW d \in Documents, NEW in \in Input
  PROVE  /\ \A a \in Adds(d, in) : /\ a.n \in DOMAIN d.categories /\ a.link \in Link
                                   /\ a.link.code \in Known(d, in)
         /\ NoteUpdates(d, in) \subseteq Link
         /\ \A x \in Removes(d, in) : x.n \in DOMAIN d.categories /\ x.link \in Link
         /\ \A u \in UnknownCodes(d, in) : u.cat \in Cats /\ u.code \in Codes
         /\ ExclusionAdds(d, in) \subseteq Exclusion
         /\ ExclusionRemoves(d, in) \subseteq Exclusion
         /\ \A e \in ExclusionAdds(d, in) : e.source = d.source
<1>1. \A a \in Adds(d, in) : /\ a.n \in DOMAIN d.categories /\ a.link \in Link
                             /\ a.link.code \in Known(d, in)
  BY AddsAre, Members, RowTitles
<1>2. NoteUpdates(d, in) \subseteq Link
  BY NoteUpdatesAre, Members
<1>3. \A x \in Removes(d, in) : x.n \in DOMAIN d.categories /\ x.link \in Link
  <2>1. \A n : Have(d, in, n) \subseteq Link
    BY DEF Have, Input
  <2> QED BY <2>1, RemovesAre, RowTitles
<1>4. \A u \in UnknownCodes(d, in) : u.cat \in Cats /\ u.code \in Codes
  <2>1. \A n \in Rows(d) : UnknownIn(d, in, n) \subseteq Codes
    BY WantedOnce, RowTitles DEF UnknownIn, Unheard, Isolated
  <2> QED BY <2>1, UnknownCodesAre, RowTitles
<1>5. Listed(d) \subseteq Exclusion /\ \A e \in Listed(d) : e.source = d.source
  <2>1. /\ d.source \in Sources /\ d.exclusions \in [Kinds -> Maybe(SUBSET Values)]
    BY Documented
  <2>2. \A k \in Carried(d) : k \in Kinds /\ d.exclusions[k] \subseteq Values
    BY <2>1 DEF Carried, Maybe
  <2> QED BY <2>1, <2>2 DEF Listed, Exclusion
<1>6. ExclusionAdds(d, in) \subseteq Exclusion /\ \A e \in ExclusionAdds(d, in) : e.source = d.source
  BY <1>5 DEF ExclusionAdds
<1>7. ExclusionRemoves(d, in) \subseteq Exclusion
  BY DEF ExclusionRemoves, Synced, Input
<1> QED BY <1>1, <1>2, <1>3, <1>4, <1>6, <1>7

(******************************** the journal ******************************)

\* A row of the journal that an import reads again says what it is about.
Tells(row) ==
  /\ row.action = "category_added" => row.title \in Titles
  /\ row.action = "code_unknown" => row.code \in Codes

LEMMA LinkTold ==
  ASSUME NEW cat \in Cats, NEW code \in Codes, NEW l, l.cat = cat, l.code = code,
         NEW action \in Actions, action # "category_added"
  PROVE  OfLink(action, l) \in Change /\ Tells(OfLink(action, l))
  BY DEF OfLink, Blank, Change, Actions, Maybe, Tells

LEMMA ExclusionTold ==
  ASSUME NEW e \in Exclusion, NEW action \in Actions \ {"category_added", "code_unknown"}
  PROVE  OfExclusion(action, e) \in Change /\ Tells(OfExclusion(action, e))
  BY DEF OfExclusion, Blank, Change, Actions, Maybe, Tells, Exclusion

LEMMA TitleTold ==
  ASSUME NEW t \in Titles
  PROVE  /\ [Blank EXCEPT !.action = "category_added", !.title = t] \in Change
         /\ Tells([Blank EXCEPT !.action = "category_added", !.title = t])
  BY DEF Blank, Change, Actions, Maybe, Tells

LEMMA EntriesTyped ==
  ASSUME NEW d \in Documents, NEW in \in Input, NEW e \in Entries(d, in)
  PROVE  /\ e = <<e[1], e[2]>> /\ e[1] \in 0..Len(d.categories)
         /\ e[2] \in Change /\ Tells(e[2])
<1>1. DOMAIN d.categories \subseteq 0..Len(d.categories) /\ 0 \in 0..Len(d.categories)
  BY Documented
<1>2. CASE \E a \in Adds(d, in), action \in {"imported", "added"} :
             e = <<a.n, OfLink(action, a.link)>>
  <2> PICK a \in Adds(d, in), action \in {"imported", "added"} :
             e = <<a.n, OfLink(action, a.link)>>
    BY <1>2
  <2>1. a.n \in DOMAIN d.categories /\ a.link.cat \in Cats /\ a.link.code \in Codes
    BY PlanTypes DEF Link
  <2> QED BY <1>1, <2>1, LinkTold DEF Actions
<1>3. CASE \E x \in Removes(d, in) : e = <<x.n, OfLink("removed", x.link)>>
  <2> PICK x \in Removes(d, in) : e = <<x.n, OfLink("removed", x.link)>>
    BY <1>3
  <2>1. x.n \in DOMAIN d.categories /\ x.link.cat \in Cats /\ x.link.code \in Codes
    BY PlanTypes DEF Link
  <2> QED BY <1>1, <2>1, LinkTold DEF Actions
<1>4. CASE \E u \in UnknownCodes(d, in) : e = <<0, OfLink("code_unknown", u)>>
  BY <1>1, <1>4, PlanTypes, LinkTold DEF Actions
<1>5. CASE \E n \in NewTitles(d, in) :
             e = <<n, [Blank EXCEPT !.action = "category_added", !.title = d.categories[n].title]>>
  <2> PICK n \in NewTitles(d, in) :
             e = <<n, [Blank EXCEPT !.action = "category_added", !.title = d.categories[n].title]>>
    BY <1>5
  <2>1. n \in DOMAIN d.categories /\ d.categories[n].title \in Titles
    BY Documented DEF NewTitles
  <2> QED BY <1>1, <2>1, TitleTold
<1>6. CASE \E x \in ExclusionAdds(d, in), action \in {"excluded_added", "excluded_imported"} :
             e = <<0, OfExclusion(action, x)>>
  BY <1>1, <1>6, PlanTypes, ExclusionTold DEF Actions
<1>7. CASE \E x \in ExclusionRemoves(d, in) : e = <<0, OfExclusion("excluded_removed", x)>>
  BY <1>1, <1>7, PlanTypes, ExclusionTold DEF Actions
<1> QED BY <1>2, <1>3, <1>4, <1>5, <1>6, <1>7 DEF Entries

\* An entry stands for one or several categories that ask for it, never for none.
LEMMA JournaledBag ==
  ASSUME NEW d \in Documents, NEW in \in Input
  PROVE  /\ IsABag(Journaled(d, in))
         /\ BagToSet(Journaled(d, in)) = {e[2] : e \in Entries(d, in)}
<1> DEFINE es      == Entries(d, in)
           Of2(row) == {e \in es : e[2] = row}
<1>1. IsFiniteSet(0..Len(d.categories))
  BY Documented, FS_Interval
<1>2. ASSUME NEW row \in {e[2] : e \in es}
      PROVE  Cardinality(Of2(row)) \in {n \in Nat : n > 0}
  <2>1. Of2(row) \subseteq (0..Len(d.categories)) \X {row}
    BY EntriesTyped
  <2>2. IsFiniteSet((0..Len(d.categories)) \X {row})
    BY <1>1, FS_Product, FS_Singleton
  <2>3. IsFiniteSet(Of2(row))
    BY <2>1, <2>2, FS_Subset
  <2>4. Of2(row) # {}
    BY <1>2
  <2> HIDE DEF Of2
  <2> QED BY <2>3, <2>4, FS_EmptySet, FS_CardinalityType
<1>3. Journaled(d, in) = [row \in {e[2] : e \in es} |-> Cardinality(Of2(row))]
  BY DEF Journaled
<1> HIDE DEF es, Of2
<1>4. Journaled(d, in) \in [{e[2] : e \in es} -> {n \in Nat : n > 0}]
  BY <1>2, <1>3
<1> QED BY <1>3, <1>4 DEF IsABag, BagToSet, es

LEMMA BagSum ==
  ASSUME NEW b, IsABag(b), NEW c, IsABag(c)
  PROVE  IsABag(b (+) c) /\ BagToSet(b (+) c) = BagToSet(b) \cup BagToSet(c)
  BY DEF IsABag, BagToSet, (+)

LEMMA BagDifference ==
  ASSUME NEW b, IsABag(b), NEW S
  PROVE  IsABag(b (-) SetToBag(S)) /\ BagToSet(b (-) SetToBag(S)) \subseteq BagToSet(b)
  BY DEF IsABag, BagToSet, (-), SetToBag

LEMMA BagOfSet ==
  ASSUME NEW S
  PROVE  IsABag(SetToBag(S)) /\ BagToSet(SetToBag(S)) = S
  BY DEF IsABag, BagToSet, SetToBag

(************************* the types of an import **************************)

\* What an import reads is what it may read: the journal is read for titles and
\* codes, and a plan is made for a document.
DocInv ==
  /\ TypeOK
  /\ \A row \in BagToSet(journal) : Tells(row)
  /\ \A i \in Imports : runs[i].at \notin {"idle", "done"} => runs[i].doc \in Documents

LEMMA AfterIs ==
  ASSUME NEW d, NEW in, NEW db, NEW res \in After(d, in, db)
  PROVE  /\ res.dictionary = db.dictionary \cup (d.dictionary \ in.known)
         /\ res.exclusions = (db.exclusions \cup ExclusionAdds(d, in)) \ ExclusionRemoves(d, in)
         /\ res.journal = db.journal (+) Journaled(d, in)
         /\ \E updates \in LastUpdates(d, in) :
              res.membership =
                WithNotes({l \in db.membership \cup {a.link : a \in Adds(d, in)} :
                             \A x \in Removes(d, in) : ~ SameRow(l, x.link)}, updates)
<1> DEFINE links == {l \in db.membership \cup {a.link : a \in Adds(d, in)} :
                       \A x \in Removes(d, in) : ~ SameRow(l, x.link)}
<1>1. PICK updates \in LastUpdates(d, in) :
        res = [dictionary |-> db.dictionary \cup (d.dictionary \ in.known),
               membership |-> WithNotes(links, updates),
               exclusions |-> (db.exclusions \cup ExclusionAdds(d, in)) \ ExclusionRemoves(d, in),
               journal    |-> db.journal (+) Journaled(d, in)]
  BY Zenon DEF After
<1> HIDE DEF links
<1>2. /\ res.dictionary = db.dictionary \cup (d.dictionary \ in.known)
      /\ res.membership = WithNotes(links, updates)
      /\ res.exclusions = (db.exclusions \cup ExclusionAdds(d, in)) \ ExclusionRemoves(d, in)
      /\ res.journal = db.journal (+) Journaled(d, in)
  BY <1>1
<1> QED BY <1>2 DEF links

\* links after a commit: those the plan keeps and adds, with the notes it sets
LEMMA LinksApplied ==
  ASSUME NEW d \in Documents, NEW in \in Input, NEW db, db.membership \subseteq Link,
         \A l, m \in db.membership : l.cat = m.cat /\ l.code = m.code => l = m,
         \A l \in db.membership : l.code \in db.dictionary,
         Applies(d, in, db), NEW res \in After(d, in, db)
  PROVE  /\ res.membership \subseteq Link
         /\ \A l, m \in res.membership : l.cat = m.cat /\ l.code = m.code => l = m
         /\ \A l \in res.membership : l.code \in res.dictionary
<1> DEFINE added == {a.link : a \in Adds(d, in)}
           links == {l \in db.membership \cup added : \A x \in Removes(d, in) : ~ SameRow(l, x.link)}
<1>0. /\ res.dictionary = db.dictionary \cup (d.dictionary \ in.known)
      /\ \E updates \in LastUpdates(d, in) : res.membership = WithNotes(links, updates)
  BY AfterIs
<1>1. PICK updates \in LastUpdates(d, in) : res.membership = WithNotes(links, updates)
  BY <1>0
<1>2. /\ \A l, m \in added : SameRow(l, m) => l = m
      /\ \A l \in added : l.code \in res.dictionary
      /\ \A l \in added, m \in db.membership : ~ SameRow(l, m)
  BY <1>0 DEF Applies
<1>3. added \subseteq Link
  BY PlanTypes
<1>4. /\ links \subseteq Link
      /\ \A l, m \in links : SameRow(l, m) => l = m
      /\ \A l \in links : l.code \in res.dictionary
  <2> HIDE DEF added
  <2> QED BY <1>0, <1>2, <1>3 DEF SameRow
<1>5. /\ updates \subseteq Link
      /\ \A u, v \in updates : SameRow(u, v) => u = v
  BY PlanTypes DEF LastUpdates, SameRow
<1> HIDE DEF links
<1>6. \A l \in res.membership :
        \/ l \in links /\ \A u \in updates : ~ SameRow(l, u)
        \/ l \in updates /\ \E m \in links : SameRow(m, l)
  BY <1>1 DEF WithNotes
<1>7. \A l, m \in res.membership : SameRow(l, m) => l = m
  BY <1>4, <1>5, <1>6 DEF SameRow
<1>8. \A l \in res.membership : l \in Link /\ l.code \in res.dictionary
  BY <1>4, <1>5, <1>6 DEF SameRow
<1> QED BY <1>7, <1>8 DEF SameRow

LEMMA CommitTypes ==
  ASSUME DocInv, NEW d \in Documents, NEW in \in Input, Applies(d, in, Db),
         NEW db \in After(d, in, Db)
  PROVE  /\ db.dictionary \subseteq Codes /\ dictionary \subseteq db.dictionary
         /\ db.membership \subseteq Link
         /\ \A l, m \in db.membership : l.cat = m.cat /\ l.code = m.code => l = m
         /\ \A l \in db.membership : l.code \in db.dictionary
         /\ db.exclusions \subseteq Exclusion
         /\ IsABag(db.journal) /\ BagToSet(db.journal) \subseteq Change
         /\ \A row \in BagToSet(db.journal) : Tells(row)
<1>1. /\ Db.membership = membership /\ Db.dictionary = dictionary
      /\ Db.exclusions = exclusions /\ Db.journal = journal
  BY DEF Db
<1>2. /\ membership \subseteq Link /\ dictionary \subseteq Codes
      /\ \A l, m \in membership : l.cat = m.cat /\ l.code = m.code => l = m
      /\ \A l \in membership : l.code \in dictionary
      /\ exclusions \subseteq Exclusion
      /\ IsABag(journal) /\ BagToSet(journal) \subseteq Change
      /\ \A row \in BagToSet(journal) : Tells(row)
  BY DEF DocInv, TypeOK, StoreTypeOK, KeysHold
<1>3. /\ db.membership \subseteq Link
      /\ \A l, m \in db.membership : l.cat = m.cat /\ l.code = m.code => l = m
      /\ \A l \in db.membership : l.code \in db.dictionary
  BY <1>1, <1>2, LinksApplied
<1>4. /\ db.dictionary = dictionary \cup (d.dictionary \ in.known)
      /\ db.exclusions = (exclusions \cup ExclusionAdds(d, in)) \ ExclusionRemoves(d, in)
      /\ db.journal = journal (+) Journaled(d, in)
  BY <1>1, AfterIs
<1>5. db.dictionary \subseteq Codes /\ dictionary \subseteq db.dictionary
  BY <1>2, <1>4, Documented
<1>6. db.exclusions \subseteq Exclusion
  BY <1>2, <1>4, PlanTypes
<1>7. /\ IsABag(db.journal)
      /\ BagToSet(db.journal) = BagToSet(journal) \cup {e[2] : e \in Entries(d, in)}
  BY <1>2, <1>4, JournaledBag, BagSum
<1>8. /\ BagToSet(db.journal) \subseteq Change
      /\ \A row \in BagToSet(db.journal) : Tells(row)
  BY <1>2, <1>7, EntriesTyped
<1> QED BY <1>3, <1>5, <1>6, <1>7, <1>8

\* What a read returns.
LEMMA ReadTypes ==
  ASSUME DocInv, NEW d
  PROVE  /\ Of(d, Db) \subseteq Exclusion /\ membership \subseteq Link /\ dictionary \subseteq Codes
         /\ TitlesIn(Db) \subseteq Titles /\ UnknownsIn(Db) \subseteq Codes
         /\ Read(d, Db) \in Input
<1>1. /\ Of(d, Db) \subseteq Exclusion /\ membership \subseteq Link /\ dictionary \subseteq Codes
  BY DEF DocInv, TypeOK, StoreTypeOK, Of, Db
<1>2. TitlesIn(Db) \subseteq Titles /\ UnknownsIn(Db) \subseteq Codes
  BY DEF DocInv, TitlesIn, UnknownsIn, Db, Tells
<1>3. Read(d, Db) \in Input
  BY <1>1, <1>2 DEF Read, Input, Db
<1> QED BY <1>1, <1>2, <1>3

LEMMA DocInit == Init => DocInv
<1> SUFFICES ASSUME Init PROVE DocInv
  OBVIOUS
<1>1. StoreTypeOK
  BY MccAssumption DEF Init, StoreInit, StoreTypeOK, KeysHold
<1>2. IsABag(journal) /\ BagToSet(journal) = {}
  BY BagOfSet DEF Init, EmptyBag
<1>3. runs \in [Imports -> Run]
  BY DEF Init, Run, Nothing, Input, Maybe
<1> QED BY <1>1, <1>2, <1>3 DEF Init, DocInv, TypeOK

\* A step of one import keeps the notes of all.
LEMMA NoteKept ==
  ASSUME DocInv, NEW i \in Imports, NEW note \in Run,
         runs' = [runs EXCEPT ![i] = note],
         note.at \notin {"idle", "done"} => note.doc \in Documents
  PROVE  /\ runs' \in [Imports -> Run]
         /\ \A j \in Imports : runs'[j].at \notin {"idle", "done"} => runs'[j].doc \in Documents
  BY DEF DocInv, TypeOK

LEMMA ReadsKeep ==
  ASSUME DocInv, Reads, runs' \in [Imports -> Run],
         \A j \in Imports : runs'[j].at \notin {"idle", "done"} => runs'[j].doc \in Documents
  PROVE  DocInv'
  BY DEF DocInv, TypeOK, StoreTypeOK, KeysHold, Reads

LEMMA LoadKeeps ==
  ASSUME DocInv, NEW i \in Imports, NEW in \in Input,
         NEW from \in {"known", "excluded", "titles", "unknown"},
         NEW to \in {"excluded", "titles", "unknown", "apply"},
         LoadNext(i, from, to, in)
  PROVE  DocInv'
<1> DEFINE note == [runs[i] EXCEPT !.at = to, !.in = in]
<1>1. runs[i] \in Run /\ runs[i].doc \in Documents
  BY DEF DocInv, TypeOK, LoadNext
<1>2. note \in Run /\ note.doc \in Documents
  BY <1>1 DEF Run, Maybe
<1>3. runs' = [runs EXCEPT ![i] = note] /\ Reads
  BY DEF LoadNext
<1> HIDE DEF note
<1> QED BY <1>2, <1>3, NoteKept, ReadsKeep

LEMMA ImportKeeps == ASSUME DocInv, ImportNext PROVE DocInv'
<1> PICK i \in Imports :
      \/ ImportSnapshot(i) \/ LoadDictionary(i) \/ LoadExclusions(i) \/ LoadTitles(i)
      \/ LoadUnknowns(i) \/ ApplyPlan(i) \/ RollBack(i)
  BY DEF ImportNext
<1>1. runs[i] \in Run /\ runs \in [Imports -> Run] /\ runs[i].in \in Input
  BY DEF DocInv, TypeOK, Run
<1>2. CASE ImportSnapshot(i)
  <2> PICK d \in Documents :
        /\ runs' = [runs EXCEPT ![i].at = "known", ![i].doc = d, ![i].in.members = membership]
        /\ Reads
    BY <1>2 DEF ImportSnapshot
  <2> DEFINE note == [runs[i] EXCEPT !.at = "known", !.doc = d, !.in.members = membership]
  <2>1. note \in Run /\ note.doc \in Documents
    BY <1>1, ReadTypes DEF Run, Input, Maybe
  <2>2. runs' = [runs EXCEPT ![i] = note]
    BY <1>1
  <2> HIDE DEF note
  <2> QED BY <2>1, <2>2, NoteKept, ReadsKeep
<1>3. CASE LoadDictionary(i)
  <2>1. [runs[i].in EXCEPT !.known = dictionary] \in Input
    BY <1>1, ReadTypes DEF Input
  <2> QED BY <1>3, <2>1, LoadKeeps DEF LoadDictionary
<1>4. CASE LoadExclusions(i)
  <2>1. [runs[i].in EXCEPT !.excluded = Of(runs[i].doc, Db)] \in Input
    BY <1>1, ReadTypes DEF Input
  <2> QED BY <1>4, <2>1, LoadKeeps DEF LoadExclusions
<1>5. CASE LoadTitles(i)
  <2>1. [runs[i].in EXCEPT !.titles = TitlesIn(Db)] \in Input
    BY <1>1, ReadTypes DEF Input
  <2> QED BY <1>5, <2>1, LoadKeeps DEF LoadTitles
<1>6. CASE LoadUnknowns(i)
  <2>1. [runs[i].in EXCEPT !.unknown = UnknownsIn(Db)] \in Input
    BY <1>1, ReadTypes DEF Input
  <2> QED BY <1>6, <2>1, LoadKeeps DEF LoadUnknowns
<1>7. CASE ApplyPlan(i)
  <2> DEFINE d == runs[i].doc
             note == [runs[i] EXCEPT !.at = "done", !.in = Nothing]
  <2>1. d \in Documents
    BY <1>7 DEF ApplyPlan, DocInv
  <2>2. PICK db \in After(d, runs[i].in, Db) :
          /\ dictionary' = db.dictionary /\ membership' = db.membership
          /\ exclusions' = db.exclusions /\ journal' = db.journal
    BY <1>7 DEF ApplyPlan
  <2>3. Applies(d, runs[i].in, Db) /\ UNCHANGED points /\ runs' = [runs EXCEPT ![i] = note]
    BY <1>7, <1>1 DEF ApplyPlan
  <2>4. note \in Run /\ note.at = "done"
    BY <1>1 DEF Run, Nothing, Input
  <2> HIDE DEF d, note
  <2>5. /\ runs' \in [Imports -> Run]
        /\ \A j \in Imports : runs'[j].at \notin {"idle", "done"} => runs'[j].doc \in Documents
    BY <2>3, <2>4, NoteKept
  <2>6. /\ dictionary' \subseteq Codes /\ dictionary \subseteq dictionary'
        /\ membership' \subseteq Link
        /\ \A l, m \in membership' : l.cat = m.cat /\ l.code = m.code => l = m
        /\ \A l \in membership' : l.code \in dictionary'
        /\ exclusions' \subseteq Exclusion
        /\ IsABag(journal') /\ BagToSet(journal') \subseteq Change
        /\ \A row \in BagToSet(journal') : Tells(row)
    BY <1>1, <2>1, <2>2, <2>3, CommitTypes
  <2>7. StoreTypeOK'
    BY <2>3, <2>6 DEF DocInv, TypeOK, StoreTypeOK, KeysHold, Maybe
  <2> QED BY <2>5, <2>6, <2>7 DEF DocInv, TypeOK
<1>8. CASE RollBack(i)
  <2> DEFINE note == [runs[i] EXCEPT !.at = "done", !.doc = None, !.in = Nothing]
  <2>1. note \in Run /\ note.at = "done"
    BY <1>1 DEF Run, Nothing, Input, Maybe
  <2>2. runs' = [runs EXCEPT ![i] = note] /\ Reads
    BY <1>1, <1>8 DEF RollBack
  <2> HIDE DEF note
  <2> QED BY <2>1, <2>2, NoteKept, ReadsKeep
<1> QED BY <1>2, <1>3, <1>4, <1>5, <1>6, <1>7, <1>8

LEMMA EditsKeep == ASSUME DocInv, EditTables \/ EditJournal PROVE DocInv'
<1> USE DEF DocInv, TypeOK, Untouched
<1>1. CASE EditTables
  <2>1. StoreTypeOK' /\ UNCHANGED <<journal, exclusions, runs>>
    BY <1>1 DEF EditTables, AdminCreateMCC, AdminDeleteMCC, AdminUpsertLink, AdminDeleteLink,
         StoreTypeOK, KeysHold, LinkOf, Link, Maybe
  <2> QED BY <2>1
<1>2. CASE \E t \in Titles : AdminCreateMCCChange(t)
  <2> PICK t \in Titles : AdminCreateMCCChange(t)
    BY <1>2
  <2> DEFINE row == [Blank EXCEPT !.action = "category_added", !.title = t]
  <2>1. /\ journal' = journal (+) SetToBag({row})
        /\ UNCHANGED <<dictionary, membership, points, exclusions, runs>>
    BY DEF AdminCreateMCCChange
  <2>2. row \in Change /\ Tells(row)
    BY TitleTold
  <2> HIDE DEF row
  <2>3. IsABag(journal') /\ BagToSet(journal') = BagToSet(journal) \cup {row}
    BY <2>1, BagSum, BagOfSet
  <2> QED BY <2>1, <2>2, <2>3 DEF StoreTypeOK, KeysHold
<1>3. CASE \E row \in BagToSet(journal) : AdminDeleteMCCChange(row)
  <2>1. /\ IsABag(journal') /\ BagToSet(journal') \subseteq BagToSet(journal)
        /\ UNCHANGED <<dictionary, membership, points, exclusions, runs>>
    BY <1>3, BagDifference DEF AdminDeleteMCCChange
  <2> QED BY <2>1 DEF StoreTypeOK, KeysHold
<1> QED BY <1>1, <1>2, <1>3 DEF EditJournal

(************************** importing once more ****************************)

\* No catalog row is named by two categories of one document.
TitledOnce ==
  \A d \in Documents : \A m, n \in Rows(d) : d.categories[m].title = d.categories[n].title => m = n

LEMMA Least ==
  ASSUME NEW T \in SUBSET Nat, T # {}
  PROVE  \E n \in T : \A m \in T : n <= m
<1> DEFINE R == OpToRel(<, Nat)
<1>1. IsWellFoundedOn(R, Nat)
  BY NatLessThanWellFounded
<1>2. \A m, n \in Nat : m < n => <<m, n>> \in R
  BY DEF OpToRel
<1> HIDE DEF R
<1>3. PICK n \in T : \A m \in T : ~ (<<m, n>> \in R)
  BY <1>1, WFMin
<1>4. \A m \in T : ~ (m < n)
  BY <1>2, <1>3
<1> QED BY <1>3, <1>4

\* The codes the plan tells are all it has not told: each under the first category.
LEMMA UnknownTold ==
  ASSUME NEW d \in Documents, NEW in, NEW n \in Rows(d), NEW k \in UnknownIn(d, in, n)
  PROVE  \E u \in UnknownCodes(d, in) : u.code = k
<1> DEFINE T == {m \in Rows(d) : k \in UnknownIn(d, in, m)}
<1>1. Rows(d) \subseteq Nat
  BY RowTitles, Documented
<1>2. PICK m \in T : \A x \in T : m <= x
  <2>1. T \in SUBSET Nat /\ T # {}
    BY <1>1
  <2> HIDE DEF T
  <2> QED BY <2>1, Least
<1>3. \A x \in Rows(d) : x < m => k \notin UnknownIn(d, in, x)
  BY <1>1, <1>2
<1>4. [cat |-> RowOf(d, m), code |-> k] \in UnknownCodes(d, in)
  BY <1>2, <1>3, UnknownCodesAre
<1> QED BY <1>4

\* Once a plan is applied, each category has the codes it asks for, with their
\* notes, and no other: a row of the catalog answers to one category only.
LEMMA MembersSettled ==
  ASSUME NEW d \in Documents, \A m, n \in Rows(d) : d.categories[m].title = d.categories[n].title => m = n,
         NEW in, NEW nx, NEW db, NEW res \in After(d, in, db), in.members = db.membership,
         nx.members = res.membership, Known(d, nx) = Known(d, in)
  PROVE  Adds(d, nx) = {} /\ Removes(d, nx) = {} /\ NoteUpdates(d, nx) = {}
<1> DEFINE links == {l \in db.membership \cup {a.link : a \in Adds(d, in)} :
                       \A x \in Removes(d, in) : ~ SameRow(l, x.link)}
<1>1. PICK updates \in LastUpdates(d, in) : res.membership = WithNotes(links, updates)
  <2>1. /\ res.dictionary = db.dictionary \cup (d.dictionary \ in.known)
        /\ \E updates \in LastUpdates(d, in) : res.membership = WithNotes(links, updates)
    BY AfterIs
  <2> QED BY <2>1
<1>2. /\ updates \subseteq NoteUpdates(d, in)
      /\ \A u \in NoteUpdates(d, in) : \E l \in updates : SameRow(l, u)
  BY DEF LastUpdates
<1>3. \A m, n \in Rows(d) : RowOf(d, m) = RowOf(d, n) => m = n
  BY RowTitles
<1>4. \A n \in Rows(d) : Want(d, nx, n) = Want(d, in, n)
  BY DEF Want
<1>5. \A n \in Rows(d) : \A w, x : w \in Want(d, in, n) /\ x \in Want(d, in, n) /\ w.code = x.code => w = x
  BY WantedOnce, RowTitles DEF Want
<1>6. \A n \in Rows(d) : \A l : l \in Have(d, in, n) <=> l \in db.membership /\ l.cat = RowOf(d, n)
  BY DEF Have
<1>7. \A n \in Rows(d) : \A l : l \in Have(d, nx, n) <=> l \in res.membership /\ l.cat = RowOf(d, n)
  BY DEF Have
<1>8. \A l : l \in links <=>
        /\ l \in db.membership \/ \E a \in Adds(d, in) : l = a.link
        /\ \A x \in Removes(d, in) : ~ SameRow(l, x.link)
  OBVIOUS
<1>9. \A l : l \in res.membership <=>
        \/ l \in links /\ \A u \in updates : ~ SameRow(l, u)
        \/ l \in updates /\ \E m \in links : SameRow(m, l)
  BY <1>1 DEF WithNotes
<1> HIDE DEF links
\* what a row of a category may be after the commit
<1>10. ASSUME NEW n \in Rows(d), NEW l \in links, l.cat = RowOf(d, n)
       PROVE  \E w \in Want(d, in, n) : w.code = l.code
  <2>1. CASE l \in db.membership
    <3> SUFFICES ASSUME \A w \in Want(d, in, n) : w.code # l.code PROVE FALSE
      OBVIOUS
    <3>1. [n |-> n, link |-> l] \in Removes(d, in)
      BY <1>6, <1>10, <2>1, RemovesAre
    <3>2. SameRow(l, [n |-> n, link |-> l].link)
      BY DEF SameRow
    <3> QED BY <1>8, <1>10, <3>1, <3>2
  <2>2. CASE \E a \in Adds(d, in) : l = a.link
    <3> PICK m \in Rows(d) : \E w \in Want(d, in, m) : l = Member(d, m, w)
      BY <2>2, AddsAre
    <3> PICK w \in Want(d, in, m) : l = Member(d, m, w)
      OBVIOUS
    <3>1. l.cat = RowOf(d, m) /\ l.code = w.code
      BY Members
    <3> QED BY <1>3, <1>10, <3>1
  <2> QED BY <1>8, <1>10, <2>1, <2>2
<1>11. ASSUME NEW n \in Rows(d), NEW u \in updates, u.cat = RowOf(d, n)
       PROVE  \E w \in Want(d, in, n) : w.code = u.code /\ w.note = u.note
  <2> PICK m \in Rows(d) : \E w \in Want(d, in, m) : u = Member(d, m, w)
    BY <1>2, NoteUpdatesAre
  <2> PICK w \in Want(d, in, m) : u = Member(d, m, w)
    OBVIOUS
  <2>1. u.cat = RowOf(d, m) /\ u.code = w.code /\ u.note = w.note
    BY Members
  <2> QED BY <1>3, <1>11, <2>1
\* a wanted code has a link before the notes are set
<1>12. ASSUME NEW n \in Rows(d), NEW w \in Want(d, in, n)
       PROVE  \E l \in links : l.cat = RowOf(d, n) /\ l.code = w.code
  <2>1. ASSUME NEW l, l.cat = RowOf(d, n), l.code = w.code, NEW x \in Removes(d, in)
        PROVE  ~ SameRow(l, x.link)
    <3> PICK m \in Rows(d) : \E y \in Have(d, in, m) :
          (\A v \in Want(d, in, m) : v.code # y.code) /\ x = [n |-> m, link |-> y]
      BY <2>1, RemovesAre
    <3> PICK y \in Have(d, in, m) :
          (\A v \in Want(d, in, m) : v.code # y.code) /\ x = [n |-> m, link |-> y]
      OBVIOUS
    <3>1. y.cat = RowOf(d, m) /\ x.link = y
      BY <1>6
    <3> QED BY <1>3, <2>1, <3>1 DEF SameRow
  <2>2. CASE \E l \in Have(d, in, n) : l.code = w.code
    BY <1>6, <1>8, <2>1, <2>2
  <2>3. CASE \A l \in Have(d, in, n) : l.code # w.code
    <3>1. [n |-> n, link |-> Member(d, n, w)] \in Adds(d, in)
      BY <2>3, AddsAre
    <3>2. Member(d, n, w).cat = RowOf(d, n) /\ Member(d, n, w).code = w.code
      BY Members
    <3>3. \E a \in Adds(d, in) : Member(d, n, w) = a.link
      BY <3>1
    <3> QED BY <1>8, <2>1, <3>2, <3>3
  <2> QED BY <2>2, <2>3
<1>13. Adds(d, nx) = {}
  <2> SUFFICES ASSUME NEW n \in Rows(d), NEW w \in Want(d, in, n)
               PROVE  \E l \in Have(d, nx, n) : l.code = w.code
    BY <1>4, AddsAre
  <2> PICK l \in links : l.cat = RowOf(d, n) /\ l.code = w.code
    BY <1>12
  <2>1. CASE \A u \in updates : ~ SameRow(l, u)
    BY <1>7, <1>9, <2>1
  <2>2. CASE \E u \in updates : SameRow(l, u)
    BY <1>7, <1>9, <2>2 DEF SameRow
  <2> QED BY <2>1, <2>2
<1>14. Removes(d, nx) = {}
  <2> SUFFICES ASSUME NEW n \in Rows(d), NEW l \in Have(d, nx, n)
               PROVE  \E w \in Want(d, in, n) : w.code = l.code
    BY <1>4, RemovesAre
  <2> QED BY <1>7, <1>9, <1>10, <1>11
<1>15. NoteUpdates(d, nx) = {}
  <2> SUFFICES ASSUME NEW n \in Rows(d), NEW w \in Want(d, in, n), NEW l \in Have(d, nx, n),
                      l.code = w.code
               PROVE  l.note = w.note
    BY <1>4, NoteUpdatesAre
  <2>1. l \in res.membership /\ l.cat = RowOf(d, n)
    BY <1>7
  <2>2. CASE l \in updates
    BY <1>5, <1>11, <2>1, <2>2
  <2>3. CASE l \in links /\ \A u \in updates : ~ SameRow(l, u)
    <3>1. CASE l \in db.membership
      <4> SUFFICES ASSUME l.note # w.note PROVE FALSE
        OBVIOUS
      <4>1. Member(d, n, w) \in NoteUpdates(d, in)
        BY <1>6, <2>1, <3>1, NoteUpdatesAre
      <4>2. SameRow(l, Member(d, n, w))
        BY <2>1, Members DEF SameRow
      <4>3. PICK u \in updates : SameRow(u, Member(d, n, w))
        BY <1>2, <4>1
      <4> QED BY <2>3, <4>2, <4>3 DEF SameRow
    <3>2. CASE \E a \in Adds(d, in) : l = a.link
      <4> PICK m \in Rows(d) : \E x \in Want(d, in, m) : l = Member(d, m, x)
        BY <3>2, AddsAre
      <4> PICK x \in Want(d, in, m) : l = Member(d, m, x)
        OBVIOUS
      <4>1. l.cat = RowOf(d, m) /\ l.code = x.code /\ l.note = x.note
        BY Members
      <4> QED BY <1>3, <1>5, <2>1, <4>1
    <3> QED BY <1>8, <2>3, <3>1, <3>2
  <2> QED BY <1>9, <2>1, <2>2, <2>3
<1> QED BY <1>13, <1>14, <1>15

LEMMA NothingLeft ==
  ASSUME DocInv, NEW d \in Documents,
         \A m, n \in Rows(d) : d.categories[m].title = d.categories[n].title => m = n,
         NEW db \in After(d, Read(d, Db), Db)
  PROVE  PlanEmpty(d, Read(d, db))
<1> DEFINE in == Read(d, Db)
           nx == Read(d, db)
<1>1. /\ in.members = membership /\ in.known = dictionary /\ in.excluded = Of(d, Db)
      /\ in.titles = TitlesIn(Db) /\ in.unknown = UnknownsIn(Db) /\ in \in Input
  BY ReadTypes DEF Read, Db
<1>2. /\ nx.members = db.membership /\ nx.known = db.dictionary /\ nx.excluded = Of(d, db)
      /\ nx.titles = TitlesIn(db) /\ nx.unknown = UnknownsIn(db)
  BY DEF Read
<1>3. db \in After(d, in, Db)
  OBVIOUS
<1>4. /\ Db.membership = membership /\ Db.dictionary = dictionary
      /\ Db.exclusions = exclusions /\ Db.journal = journal
  BY DEF Db
<1> HIDE DEF in, nx
<1>5. /\ db.dictionary = dictionary \cup (d.dictionary \ in.known)
      /\ db.exclusions = (exclusions \cup ExclusionAdds(d, in)) \ ExclusionRemoves(d, in)
      /\ db.journal = journal (+) Journaled(d, in)
  BY <1>3, <1>4, AfterIs
<1>6. d.dictionary \subseteq nx.known /\ Known(d, nx) = Known(d, in)
  BY <1>1, <1>2, <1>5 DEF Known
<1>7. Adds(d, nx) = {} /\ Removes(d, nx) = {} /\ NoteUpdates(d, nx) = {}
  BY <1>1, <1>2, <1>3, <1>4, <1>6, MembersSettled
\* what the journal has told stays told, and what the plan tells is told
<1>8. /\ BagToSet(journal) \subseteq BagToSet(db.journal)
      /\ \A e \in Entries(d, in) : e[2] \in BagToSet(db.journal)
  BY <1>1, <1>5, JournaledBag, BagSum DEF DocInv, TypeOK
<1>9. NewTitles(d, nx) = {}
  <2> SUFFICES ASSUME NEW n \in DOMAIN d.categories, CatalogOf[d.categories[n].title] = {}
               PROVE  d.categories[n].title \in TitlesIn(db)
    BY <1>2 DEF NewTitles
  <2> DEFINE row == [Blank EXCEPT !.action = "category_added", !.title = d.categories[n].title]
  <2>1. row.action = "category_added" /\ row.title = d.categories[n].title
    BY DEF Blank
  <2>2. CASE n \in NewTitles(d, in)
    <3>1. <<n, row>> \in Entries(d, in)
      BY <2>2 DEF Entries
    <3> HIDE DEF row
    <3>2. row \in BagToSet(db.journal)
      BY <1>8, <3>1
    <3> QED BY <2>1, <3>2 DEF TitlesIn
  <2>3. CASE n \notin NewTitles(d, in)
    BY <1>1, <1>4, <1>8, <2>3 DEF NewTitles, TitlesIn
  <2> QED BY <2>2, <2>3
<1>10. UnknownCodes(d, nx) = {}
  <2> SUFFICES ASSUME NEW n \in Rows(d), NEW k \in Unheard(d, in, n)
               PROVE  k \in UnknownsIn(db)
    <3>1. \A n \in Rows(d) : Unheard(d, nx, n) = Unheard(d, in, n)
      BY <1>6 DEF Unheard
    <3>2. \A n \in Rows(d) : UnknownIn(d, nx, n) = {}
      BY <1>2, <3>1 DEF UnknownIn
    <3> QED BY <3>2, UnknownCodesAre
  <2>1. CASE k \in UnknownsIn(Db)
    BY <1>4, <1>8, <2>1 DEF UnknownsIn
  <2>2. CASE k \notin UnknownsIn(Db)
    <3>1. k \in UnknownIn(d, in, n)
      BY <1>1, <2>2 DEF UnknownIn
    <3>2. PICK u \in UnknownCodes(d, in) : u.code = k
      BY <3>1, UnknownTold
    <3> DEFINE row == OfLink("code_unknown", u)
    <3>3. <<0, row>> \in Entries(d, in)
      BY DEF Entries
    <3>4. row.action = "code_unknown" /\ row.code = k
      BY <3>2 DEF OfLink, Blank
    <3> HIDE DEF row
    <3>5. row \in BagToSet(db.journal)
      BY <1>8, <3>3
    <3> QED BY <3>4, <3>5 DEF UnknownsIn
  <2> QED BY <2>1, <2>2
<1>11. \A e \in Listed(d) : e.source = d.source
  BY DEF Listed
<1>12. ExclusionAdds(d, nx) = {} /\ ExclusionRemoves(d, nx) = {}
  BY <1>1, <1>2, <1>4, <1>5, <1>11 DEF ExclusionAdds, ExclusionRemoves, Synced, Of
<1>13. PlanEmpty(d, nx)
  BY <1>6, <1>7, <1>9, <1>10, <1>12 DEF PlanEmpty
<1> QED BY <1>13 DEF nx

LEMMA Emptied == ASSUME DocInv, TitledOnce PROVE ReimportEmpty
  BY NothingLeft DEF ReimportEmpty, TitledOnce

(********************************* together ********************************)

MccInv == DocInv /\ PointTypeOK

LEMMA MccStarts == MccInit => MccInv
BY DocInit, InitTypes DEF MccInit, MccInv

LEMMA MccSteps == ASSUME MccInv, [MccNext]_mccVars PROVE MccInv'
<1>1. CASE ImportNext /\ UNCHANGED <<roles, spent, req>>
  <2>1. DocInv'
    BY <1>1, ImportKeeps DEF MccInv
  <2>2. UNCHANGED points
    BY <1>1 DEF ImportNext, ImportSnapshot, LoadDictionary, LoadExclusions, LoadTitles,
         LoadUnknowns, LoadNext, ApplyPlan, RollBack, Reads
  <2> QED BY <1>1, <2>1, <2>2 DEF MccInv, DocInv, TypeOK, PointTypeOK
<1>2. CASE (EditTables \/ EditJournal) /\ UNCHANGED <<roles, spent, req>>
  <2>1. DocInv'
    BY <1>2, EditsKeep DEF MccInv
  <2>2. UNCHANGED points
    BY <1>2 DEF EditTables, EditJournal, AdminCreateMCC, AdminDeleteMCC, AdminUpsertLink,
         AdminDeleteLink, AdminCreateMCCChange, AdminDeleteMCCChange
  <2> QED BY <1>2, <2>1, <2>2 DEF MccInv, DocInv, TypeOK, PointTypeOK
<1>3. CASE PointNext /\ UNCHANGED <<exclusions, journal, runs>>
  <2>1. PointTypeOK'
    BY <1>3, NextTypes DEF MccInv
  <2> QED BY <1>3, <2>1 DEF MccInv, DocInv, TypeOK, PointTypeOK
<1>4. CASE UNCHANGED mccVars
  BY <1>4 DEF mccVars, vars, MccInv, DocInv, TypeOK, PointTypeOK, StoreTypeOK, KeysHold
<1> QED BY <1>1, <1>2, <1>3, <1>4 DEF MccNext, Next

LEMMA MccInvariance == MccSpec => []MccInv
<1>1. MccInv /\ [MccNext]_mccVars => MccInv'
  BY MccSteps
<1> QED BY <1>1, MccStarts, PTL DEF MccSpec

\* The values the tables and the notes hold, and the keys between the tables, while
\* documents, scrapes, submissions, verdicts and the operator change them: a plan
\* made of reads of five moments is refused or keeps every key.
THEOREM MccStaysTyped == MccSpec => []MccTypeOK
<1>1. MccInv => MccTypeOK
  BY DEF MccInv, DocInv, MccTypeOK
<1> QED BY <1>1, MccInvariance, PTL

\* "Re-importing an already-applied snapshot is a no-op" (snapshot_import.go), from
\* every state the module reaches, for documents that name a catalog row once.
THEOREM ReimportStaysEmpty == ASSUME TitledOnce PROVE MccSpec => []ReimportEmpty
<1>1. MccInv => ReimportEmpty
  BY Emptied DEF MccInv
<1> QED BY <1>1, MccInvariance, PTL

\* Documents and the operator's edits of codes change nothing that anybody sees of a
\* point, so the verdict stands in the module as a whole.
THEOREM VerdictIsKept == MccSpec => KeepsVerdict
<1>1. MccInit => Promise!Init
  BY InitKeeps DEF MccInit
<1>2. MccInv /\ MccInv' /\ [MccNext]_mccVars => [Promise!Next]_(Promise!vars)
  <2> SUFFICES ASSUME MccInv, MccInv', [MccNext]_mccVars PROVE [Promise!Next]_(Promise!vars)
    OBVIOUS
  <2>1. CASE PointNext /\ UNCHANGED <<exclusions, journal, runs>>
    BY <2>1, StepKeeps DEF MccInv, Promise!vars
  <2>2. CASE Next /\ UNCHANGED <<roles, spent, req>>
    <3>1. UNCHANGED points
      BY <2>2 DEF Next, ImportNext, ImportSnapshot, LoadDictionary, LoadExclusions, LoadTitles,
           LoadUnknowns, LoadNext, ApplyPlan, RollBack, Reads, EditTables, EditJournal,
           AdminCreateMCC, AdminDeleteMCC, AdminUpsertLink, AdminDeleteLink,
           AdminCreateMCCChange, AdminDeleteMCCChange
    <3> QED BY <3>1 DEF standing, audience, Promise!vars
  <2>3. CASE UNCHANGED mccVars
    BY <2>3 DEF mccVars, vars, standing, audience, Promise!vars
  <2> QED BY <2>1, <2>2, <2>3 DEF MccNext
<1>3. QED
  BY <1>1, <1>2, MccInvariance, PTL DEF MccSpec, KeepsVerdict, Promise!Spec

(********************* what the journal adds up to *************************)

\* Imports one after another: what an import has read of links, exclusions and the
\* journal is what the tables hold.  Codes come and go with submissions and scrapes.
Current(i) ==
  LET at == runs[i].at  in == runs[i].in IN
  at \notin {"idle", "done"} =>
    /\ in.members = membership
    /\ at \in {"titles", "unknown", "apply"} => in.excluded = Of(runs[i].doc, Db)
    /\ at \in {"unknown", "apply"} => in.titles = TitlesIn(Db)
    /\ at = "apply" => in.unknown = UnknownsIn(Db)

SerialInv == DocInv /\ OneAtATime /\ \A i \in Imports : Current(i)

LEMMA LoadAdvances ==
  ASSUME SerialInv, NEW i \in Imports, NEW from, NEW to, NEW in, LoadNext(i, from, to, in)
  PROVE  /\ runs'[i].at = to /\ runs'[i].in = in /\ runs'[i].doc = runs[i].doc
         /\ \A j \in Imports \ {i} : runs'[j] = runs[j]
         /\ Db' = Db /\ membership' = membership /\ dictionary' = dictionary
  BY DEF SerialInv, DocInv, TypeOK, LoadNext, Reads, Run, Db

LEMMA Undisturbed ==
  ASSUME SerialInv, NEW i \in Imports,
         \A j \in Imports \ {i} : runs'[j] = runs[j],
         Db' = Db /\ membership' = membership /\ dictionary' = dictionary,
         Current(i)'
  PROVE  \A j \in Imports : Current(j)'
<1> SUFFICES ASSUME NEW j \in Imports \ {i} PROVE Current(j)'
  OBVIOUS
<1>1. runs'[j] = runs[j] /\ Current(j)
  BY DEF SerialInv
<1>2. TitlesIn(Db)' = TitlesIn(Db) /\ UnknownsIn(Db)' = UnknownsIn(Db)
  BY DEF TitlesIn, UnknownsIn
<1>3. Of(runs[j].doc, Db)' = Of(runs[j].doc, Db)
  BY <1>1 DEF Of
<1> QED BY <1>1, <1>2, <1>3 DEF Current

LEMMA SerialInit == Init => SerialInv
<1> SUFFICES ASSUME Init PROVE SerialInv
  OBVIOUS
<1>1. \A i \in Imports : runs[i].at = "idle"
  BY DEF Init
<1>2. OneAtATime
  BY <1>1 DEF OneAtATime, Running
<1> QED BY <1>1, <1>2, DocInit DEF SerialInv, Current

LEMMA SerialSteps == ASSUME SerialInv, ImportNext, OneAtATime' PROVE SerialInv'
<1>1. DocInv'
  BY ImportKeeps DEF SerialInv
<1> SUFFICES \A i \in Imports : Current(i)'
  BY <1>1 DEF SerialInv
<1> PICK i \in Imports :
      \/ ImportSnapshot(i) \/ LoadDictionary(i) \/ LoadExclusions(i) \/ LoadTitles(i)
      \/ LoadUnknowns(i) \/ ApplyPlan(i) \/ RollBack(i)
  BY DEF ImportNext
<1>2. runs \in [Imports -> Run] /\ runs[i].in \in Input /\ Current(i)
  BY DEF SerialInv, DocInv, TypeOK, Run
<1>3. CASE ImportSnapshot(i)
  <2>1. /\ runs'[i].at = "known" /\ runs'[i].in.members = membership
        /\ \A j \in Imports \ {i} : runs'[j] = runs[j]
        /\ Db' = Db /\ membership' = membership /\ dictionary' = dictionary
    <3> PICK d \in Documents :
          runs' = [runs EXCEPT ![i].at = "known", ![i].doc = d, ![i].in.members = membership]
      BY <1>3 DEF ImportSnapshot
    <3>1. /\ runs'[i].at = "known" /\ runs'[i].in.members = membership
          /\ \A j \in Imports \ {i} : runs'[j] = runs[j]
      BY <1>2 DEF Run, Input
    <3>2. Db' = Db /\ membership' = membership /\ dictionary' = dictionary
      BY <1>3 DEF ImportSnapshot, Reads, Db
    <3> QED BY <3>1, <3>2
  <2>2. Current(i)'
    BY <2>1 DEF Current
  <2> QED BY <2>1, <2>2, Undisturbed
<1>4. CASE LoadDictionary(i)
  <2> DEFINE in == [runs[i].in EXCEPT !.known = dictionary]
  <2>1. LoadNext(i, "known", "excluded", in)
    BY <1>4 DEF LoadDictionary
  <2>2. runs[i].at = "known"
    BY <2>1 DEF LoadNext
  <2>3. in.members = membership
    BY <1>2, <2>2 DEF Current, Input
  <2> HIDE DEF in
  <2>4. Current(i)'
    BY <2>1, <2>3, LoadAdvances DEF Current
  <2> QED BY <2>1, <2>4, LoadAdvances, Undisturbed
<1>5. CASE LoadExclusions(i)
  <2> DEFINE in == [runs[i].in EXCEPT !.excluded = Of(runs[i].doc, Db)]
  <2>1. LoadNext(i, "excluded", "titles", in)
    BY <1>5 DEF LoadExclusions
  <2>2. runs[i].at = "excluded"
    BY <2>1 DEF LoadNext
  <2>3. in.members = membership /\ in.excluded = Of(runs[i].doc, Db)
    BY <1>2, <2>2 DEF Current, Input
  <2> HIDE DEF in
  <2>4. Current(i)'
    <3>1. Of(runs[i].doc, Db)' = Of(runs[i].doc, Db)
      BY <2>1, LoadAdvances DEF Of
    <3> QED BY <2>1, <2>3, <3>1, LoadAdvances DEF Current
  <2> QED BY <2>1, <2>4, LoadAdvances, Undisturbed
<1>6. CASE LoadTitles(i)
  <2> DEFINE in == [runs[i].in EXCEPT !.titles = TitlesIn(Db)]
  <2>1. LoadNext(i, "titles", "unknown", in)
    BY <1>6 DEF LoadTitles
  <2>2. runs[i].at = "titles"
    BY <2>1 DEF LoadNext
  <2>3. /\ in.members = membership /\ in.excluded = Of(runs[i].doc, Db)
        /\ in.titles = TitlesIn(Db)
    BY <1>2, <2>2 DEF Current, Input
  <2> HIDE DEF in
  <2>4. Current(i)'
    <3>1. Of(runs[i].doc, Db)' = Of(runs[i].doc, Db) /\ TitlesIn(Db)' = TitlesIn(Db)
      BY <2>1, LoadAdvances DEF Of, TitlesIn
    <3> QED BY <2>1, <2>3, <3>1, LoadAdvances DEF Current
  <2> QED BY <2>1, <2>4, LoadAdvances, Undisturbed
<1>7. CASE LoadUnknowns(i)
  <2> DEFINE in == [runs[i].in EXCEPT !.unknown = UnknownsIn(Db)]
  <2>1. LoadNext(i, "unknown", "apply", in)
    BY <1>7 DEF LoadUnknowns
  <2>2. runs[i].at = "unknown"
    BY <2>1 DEF LoadNext
  <2>3. /\ in.members = membership /\ in.excluded = Of(runs[i].doc, Db)
        /\ in.titles = TitlesIn(Db) /\ in.unknown = UnknownsIn(Db)
    BY <1>2, <2>2 DEF Current, Input
  <2> HIDE DEF in
  <2>4. Current(i)'
    <3>1. /\ Of(runs[i].doc, Db)' = Of(runs[i].doc, Db) /\ TitlesIn(Db)' = TitlesIn(Db)
          /\ UnknownsIn(Db)' = UnknownsIn(Db)
      BY <2>1, LoadAdvances DEF Of, TitlesIn, UnknownsIn
    <3> QED BY <2>1, <2>3, <3>1, LoadAdvances DEF Current
  <2> QED BY <2>1, <2>4, LoadAdvances, Undisturbed
<1>8. CASE ApplyPlan(i)
  <2>1. runs[i].at = "apply" /\ runs'[i].at = "done" /\ \A j \in Imports \ {i} : runs'[j] = runs[j]
    BY <1>2, <1>8 DEF ApplyPlan, Run
  <2>2. \A j \in Imports \ {i} : runs[j].at \in {"idle", "done"}
    BY <2>1 DEF SerialInv, OneAtATime, Running
  <2> QED BY <2>1, <2>2 DEF Current
<1>9. CASE RollBack(i)
  <2>1. /\ runs'[i].at = "done"
        /\ \A j \in Imports \ {i} : runs'[j] = runs[j]
        /\ Db' = Db /\ membership' = membership /\ dictionary' = dictionary
    BY <1>2, <1>9 DEF RollBack, Reads, Run, Db
  <2>2. Current(i)'
    BY <2>1 DEF Current
  <2> QED BY <2>1, <2>2, Undisturbed
<1> QED BY <1>3, <1>4, <1>5, <1>6, <1>7, <1>8, <1>9

(********************************* the sums ********************************)

LEMMA ToldSum ==
  ASSUME NEW b, IsABag(b), NEW c, IsABag(c), NEW row
  PROVE  /\ Told(b, row) \in Nat /\ Told(c, row) \in Nat
         /\ Told(b (+) c, row) = Told(b, row) + Told(c, row)
         /\ row \in BagToSet(b) => b[row] = Told(b, row) /\ Told(b, row) > 0
         /\ row \notin BagToSet(b) => Told(b, row) = 0
  BY DEF IsABag, BagToSet, BagIn, (+), Told

\* A row nobody asks for is not written, a row one category asks for is written once.
LEMMA ToldByNone ==
  ASSUME NEW d \in Documents, NEW in \in Input, NEW row, \A e \in Entries(d, in) : e[2] # row
  PROVE  Told(Journaled(d, in), row) = 0
<1>1. row \notin BagToSet(Journaled(d, in))
  BY JournaledBag
<1> QED BY <1>1 DEF Told, BagIn

LEMMA ToldByOne ==
  ASSUME NEW d \in Documents, NEW in \in Input, NEW row, NEW f \in Entries(d, in), f[2] = row,
         \A e \in Entries(d, in) : e[2] = row => e = f
  PROVE  Told(Journaled(d, in), row) = 1
<1>1. row \in BagToSet(Journaled(d, in))
  BY JournaledBag
<1>2. {e \in Entries(d, in) : e[2] = row} = {f}
  OBVIOUS
<1>3. row \in {e[2] : e \in Entries(d, in)}
  OBVIOUS
<1>4. Journaled(d, in)[row] = Cardinality({e \in Entries(d, in) : e[2] = row})
  BY <1>3 DEF Journaled
<1>5. Journaled(d, in)[row] = 1
  BY <1>2, <1>4, FS_Singleton
<1> QED BY <1>1, <1>5 DEF Told, BagIn

LEMMA RowFields ==
  ASSUME NEW action, NEW l
  PROVE  /\ OfLink(action, l).action = action /\ OfExclusion(action, l).action = action
         /\ OfLink(action, l).cat = l.cat /\ OfLink(action, l).code = l.code
         /\ OfExclusion(action, l).value = l.value
         /\ \A m : l.cat = m.cat /\ l.code = m.code => OfLink(action, l) = OfLink(action, m)
         /\ \A m : l.value = m.value => OfExclusion(action, l) = OfExclusion(action, m)
  BY DEF OfLink, OfExclusion, Blank

\* The entries of a plan, by their actions.
First(d, in, l)     == IF l.cat \in Baseline(d, in) THEN "imported" ELSE "added"
Opening(d, in, e)   == IF \E x \in in.excluded : x.kind = e.kind THEN "excluded_added"
                       ELSE "excluded_imported"

LEMMA EntriesAre ==
  ASSUME NEW d, NEW in, NEW e \in Entries(d, in)
  PROVE  \/ \E a \in Adds(d, in) : e = <<a.n, OfLink(First(d, in, a.link), a.link)>>
         \/ \E x \in Removes(d, in) : e = <<x.n, OfLink("removed", x.link)>>
         \/ \E u \in UnknownCodes(d, in) : e = <<0, OfLink("code_unknown", u)>>
         \/ e[2].action = "category_added"
         \/ \E x \in ExclusionAdds(d, in) : e = <<0, OfExclusion(Opening(d, in, x), x)>>
         \/ \E x \in ExclusionRemoves(d, in) : e = <<0, OfExclusion("excluded_removed", x)>>
<1>1. ASSUME NEW n, e = <<n, [Blank EXCEPT !.action = "category_added", !.title = d.categories[n].title]>>
      PROVE  e[2].action = "category_added"
  BY <1>1 DEF Blank
<1> QED BY <1>1 DEF Entries, First, Opening

LEMMA EntriesMade ==
  ASSUME NEW d, NEW in
  PROVE  /\ \A a \in Adds(d, in) : <<a.n, OfLink(First(d, in, a.link), a.link)>> \in Entries(d, in)
         /\ \A x \in Removes(d, in) : <<x.n, OfLink("removed", x.link)>> \in Entries(d, in)
         /\ \A u \in UnknownCodes(d, in) : <<0, OfLink("code_unknown", u)>> \in Entries(d, in)
         /\ \A x \in ExclusionAdds(d, in) :
              <<0, OfExclusion(Opening(d, in, x), x)>> \in Entries(d, in)
         /\ \A x \in ExclusionRemoves(d, in) :
              <<0, OfExclusion("excluded_removed", x)>> \in Entries(d, in)
  BY DEF Entries, First, Opening

(************************ the codes of a category **************************)

Has(links, cat, k) == \E l \in links : l.cat = cat /\ l.code = k

LEMMA LinkCount ==
  ASSUME NEW links, \A l, m \in links : l.cat = m.cat /\ l.code = m.code => l = m,
         NEW cat, NEW k
  PROVE  Cardinality({l \in links : l.cat = cat /\ l.code = k})
           = IF Has(links, cat, k) THEN 1 ELSE 0
<1>1. CASE Has(links, cat, k)
  <2> PICK l \in links : l.cat = cat /\ l.code = k
    BY <1>1 DEF Has
  <2>1. {m \in links : m.cat = cat /\ m.code = k} = {l}
    OBVIOUS
  <2> QED BY <1>1, <2>1, FS_Singleton
<1>2. CASE ~ Has(links, cat, k)
  <2>1. {m \in links : m.cat = cat /\ m.code = k} = {}
    BY <1>2 DEF Has
  <2> QED BY <1>2, <2>1, FS_EmptySet
<1> QED BY <1>1, <1>2

Added(d, in, cat, k)   == \E a \in Adds(d, in) : a.link.cat = cat /\ a.link.code = k
Removed(d, in, cat, k) == \E x \in Removes(d, in) : x.link.cat = cat /\ x.link.code = k

LinkRow(action, cat, k) == OfLink(action, [cat |-> cat, code |-> k])

LEMMA LinkRowIs ==
  ASSUME NEW action, NEW cat, NEW k
  PROVE  /\ LinkRow(action, cat, k) =
              [[Blank EXCEPT !.cat = cat, !.code = k] EXCEPT !.action = action]
         /\ LinkRow(action, cat, k).action = action
  BY DEF LinkRow, OfLink, Blank

LEMMA IsLinkRow ==
  ASSUME NEW action, NEW cat, NEW k, NEW b, NEW l
  PROVE  OfLink(b, l) = LinkRow(action, cat, k) <=> b = action /\ l.cat = cat /\ l.code = k
  BY DEF LinkRow, OfLink, Blank

LEMMA ToldAs ==
  ASSUME NEW d \in Documents, NEW in \in Input, NEW row
  PROVE  /\ (\A e \in Entries(d, in) : e[2] # row) => Told(Journaled(d, in), row) = 0
         /\ \A f \in Entries(d, in) :
              f[2] = row /\ (\A e \in Entries(d, in) : e[2] = row => e = f)
                => Told(Journaled(d, in), row) = 1
  BY ToldByNone, ToldByOne

\* A code that comes is told once, imported or added; one that goes is told once.
LEMMA LinkNews ==
  ASSUME NEW d \in Documents, NEW in \in Input, NEW cat, NEW k,
         \A m, n \in Rows(d) : d.categories[m].title = d.categories[n].title => m = n
  PROVE  /\ Told(Journaled(d, in), LinkRow("imported", cat, k))
              + Told(Journaled(d, in), LinkRow("added", cat, k))
                = IF Added(d, in, cat, k) THEN 1 ELSE 0
         /\ Told(Journaled(d, in), LinkRow("removed", cat, k))
                = IF Removed(d, in, cat, k) THEN 1 ELSE 0
<1>1. \A m, n \in Rows(d) : RowOf(d, m) = RowOf(d, n) => m = n
  BY RowTitles
<1>2. \A a, b \in Adds(d, in) : a.link.cat = b.link.cat => a.n = b.n
  <2>1. \A a \in Adds(d, in) : a.n \in Rows(d) /\ a.link.cat = RowOf(d, a.n)
    BY AddsAre, Members
  <2> QED BY <1>1, <2>1
<1>3. \A x, y \in Removes(d, in) : x.link.cat = y.link.cat => x.n = y.n
  <2>1. \A x \in Removes(d, in) : x.n \in Rows(d) /\ x.link.cat = RowOf(d, x.n)
    BY RemovesAre DEF Have
  <2> QED BY <1>1, <2>1
<1>4. \A e \in Entries(d, in) : e[2].action \in {"imported", "added"} =>
        \E a \in Adds(d, in) : e = <<a.n, OfLink(First(d, in, a.link), a.link)>>
  BY EntriesAre, RowFields DEF Opening
<1>5. \A e \in Entries(d, in) : e[2].action = "removed" =>
        \E x \in Removes(d, in) : e = <<x.n, OfLink("removed", x.link)>>
  BY EntriesAre, RowFields DEF Opening, First
<1>6. \A action : LinkRow(action, cat, k).action = action
  BY LinkRowIs
<1>7. \A action \in {"imported", "added"}, e \in Entries(d, in) :
        e[2] = LinkRow(action, cat, k) =>
          \E a \in Adds(d, in) : /\ e = <<a.n, OfLink(First(d, in, a.link), a.link)>>
                                /\ First(d, in, a.link) = action
                                /\ a.link.cat = cat /\ a.link.code = k
  <2> SUFFICES ASSUME NEW action \in {"imported", "added"}, NEW e \in Entries(d, in),
                      e[2] = LinkRow(action, cat, k)
               PROVE  \E a \in Adds(d, in) : /\ e = <<a.n, OfLink(First(d, in, a.link), a.link)>>
                                            /\ First(d, in, a.link) = action
                                            /\ a.link.cat = cat /\ a.link.code = k
    OBVIOUS
  <2>1. PICK a \in Adds(d, in) : e = <<a.n, OfLink(First(d, in, a.link), a.link)>>
    BY <1>4, <1>6
  <2>2. OfLink(First(d, in, a.link), a.link) = LinkRow(action, cat, k)
    BY <2>1
  <2> QED BY <2>1, <2>2, IsLinkRow
<1>8. ASSUME Added(d, in, cat, k)
      PROVE  Told(Journaled(d, in), LinkRow("imported", cat, k))
               + Told(Journaled(d, in), LinkRow("added", cat, k)) = 1
  <2> PICK a \in Adds(d, in) : a.link.cat = cat /\ a.link.code = k
    BY <1>8 DEF Added
  <2> DEFINE f == First(d, in, a.link)
             e == <<a.n, OfLink(f, a.link)>>
  <2>1. f \in {"imported", "added"} /\ e \in Entries(d, in) /\ e[2] = LinkRow(f, cat, k)
    <3>1. f \in {"imported", "added"}
      BY DEF First
    <3>2. OfLink(f, a.link) = LinkRow(f, cat, k)
      BY IsLinkRow
    <3> QED BY <3>1, <3>2, EntriesMade
  <2>2. \A g \in Entries(d, in) : g[2] = LinkRow(f, cat, k) => g = e
    <3> SUFFICES ASSUME NEW g \in Entries(d, in), g[2] = LinkRow(f, cat, k) PROVE g = e
      OBVIOUS
    <3>1. PICK b \in Adds(d, in) : /\ g = <<b.n, OfLink(First(d, in, b.link), b.link)>>
                                  /\ First(d, in, b.link) = f
                                  /\ b.link.cat = cat /\ b.link.code = k
      BY <1>7, <2>1
    <3>2. b.n = a.n /\ OfLink(f, b.link) = OfLink(f, a.link)
      BY <1>2, <3>1, RowFields
    <3> QED BY <3>1, <3>2
  <2> HIDE DEF e, f
  <2>3. Told(Journaled(d, in), LinkRow(f, cat, k)) = 1
    BY <2>1, <2>2, ToldByOne
  <2>4. \A b \in {"imported", "added"} : b # f => Told(Journaled(d, in), LinkRow(b, cat, k)) = 0
    <3> SUFFICES ASSUME NEW b \in {"imported", "added"}, b # f,
                        NEW g \in Entries(d, in), g[2] = LinkRow(b, cat, k)
                 PROVE  FALSE
      BY ToldByNone
    <3>1. PICK c \in Adds(d, in) : First(d, in, c.link) = b /\ c.link.cat = cat
      BY <1>7
    <3> QED BY <3>1 DEF f, First
  <2>5. CASE f = "imported"
    BY <1>8, <2>3, <2>4, <2>5
  <2>6. CASE f = "added"
    BY <1>8, <2>3, <2>4, <2>6
  <2> QED BY <2>1, <2>5, <2>6
<1>9. ASSUME ~ Added(d, in, cat, k)
      PROVE  Told(Journaled(d, in), LinkRow("imported", cat, k))
               + Told(Journaled(d, in), LinkRow("added", cat, k)) = 0
  <2>1. ASSUME NEW b \in {"imported", "added"}, NEW g \in Entries(d, in),
               g[2] = LinkRow(b, cat, k)
        PROVE  FALSE
    BY <1>7, <1>9, <2>1 DEF Added
  <2>2. \A b \in {"imported", "added"} : Told(Journaled(d, in), LinkRow(b, cat, k)) = 0
    <3> SUFFICES ASSUME NEW b \in {"imported", "added"}
                 PROVE  Told(Journaled(d, in), LinkRow(b, cat, k)) = 0
      OBVIOUS
    <3> DEFINE row == LinkRow(b, cat, k)
    <3>1. \A g \in Entries(d, in) : g[2] # row
      BY <2>1
    <3> HIDE DEF row
    <3>2. Told(Journaled(d, in), row) = 0
      BY <3>1, ToldAs
    <3> QED BY <3>2 DEF row
  <2> QED BY <1>9, <2>2
<1>10. ASSUME Removed(d, in, cat, k)
       PROVE  Told(Journaled(d, in), LinkRow("removed", cat, k)) = 1
  <2> PICK x \in Removes(d, in) : x.link.cat = cat /\ x.link.code = k
    BY <1>10 DEF Removed
  <2> DEFINE e == <<x.n, OfLink("removed", x.link)>>
  <2>1. e \in Entries(d, in) /\ e[2] = LinkRow("removed", cat, k)
    <3>1. OfLink("removed", x.link) = LinkRow("removed", cat, k)
      BY IsLinkRow
    <3> QED BY <3>1, EntriesMade
  <2>2. \A g \in Entries(d, in) : g[2] = LinkRow("removed", cat, k) => g = e
    <3> SUFFICES ASSUME NEW g \in Entries(d, in), g[2] = LinkRow("removed", cat, k) PROVE g = e
      OBVIOUS
    <3>1. PICK y \in Removes(d, in) : g = <<y.n, OfLink("removed", y.link)>>
      BY <1>5, <1>6
    <3>2. y.link.cat = cat /\ y.link.code = k
      <4>1. OfLink("removed", y.link) = LinkRow("removed", cat, k)
        BY <3>1
      <4> QED BY <4>1, IsLinkRow
    <3>3. y.n = x.n /\ OfLink("removed", y.link) = OfLink("removed", x.link)
      BY <1>3, <3>2, RowFields
    <3> QED BY <3>1, <3>3
  <2> HIDE DEF e
  <2>3. Told(Journaled(d, in), LinkRow("removed", cat, k)) = 1
    <3> DEFINE row == LinkRow("removed", cat, k)
    <3>1. e[2] = row /\ \A g \in Entries(d, in) : g[2] = row => g = e
      BY <2>1, <2>2
    <3> HIDE DEF row
    <3>2. Told(Journaled(d, in), row) = 1
      BY <2>1, <3>1, ToldAs
    <3> QED BY <3>2 DEF row
  <2> QED BY <1>10, <2>3
<1>11. ASSUME ~ Removed(d, in, cat, k)
       PROVE  Told(Journaled(d, in), LinkRow("removed", cat, k)) = 0
  <2>1. ASSUME NEW g \in Entries(d, in), g[2] = LinkRow("removed", cat, k) PROVE FALSE
    <3>1. PICK y \in Removes(d, in) : g = <<y.n, OfLink("removed", y.link)>>
      BY <1>5, <1>6, <2>1
    <3>2. OfLink("removed", y.link) = LinkRow("removed", cat, k)
      BY <2>1, <3>1
    <3>3. y.link.cat = cat /\ y.link.code = k
      BY <3>2, IsLinkRow
    <3> QED BY <1>11, <3>3 DEF Removed
  <2>2. \A g \in Entries(d, in) : g[2] # LinkRow("removed", cat, k)
    BY <2>1
  <2>3. Told(Journaled(d, in), LinkRow("removed", cat, k)) = 0
    <3> DEFINE row == LinkRow("removed", cat, k)
    <3>1. \A g \in Entries(d, in) : g[2] # row
      BY <2>2
    <3> HIDE DEF row
    <3>2. Told(Journaled(d, in), row) = 0
      BY <3>1, ToldAs
    <3> QED BY <3>2 DEF row
  <2> QED BY <1>11, <2>3
<1> QED BY <1>8, <1>9, <1>10, <1>11

LinksTold(news, links) ==
  \A cat \in Cats, k \in Codes :
    Told(news, LinkRow("imported", cat, k)) + Told(news, LinkRow("added", cat, k))
      = Told(news, LinkRow("removed", cat, k))
          + Cardinality({l \in links : l.cat = cat /\ l.code = k})

\* A category has a code after a commit when it had it or the plan adds it, and the
\* plan does not remove it.
LEMMA HasAfter ==
  ASSUME NEW d, NEW in, NEW db, NEW res \in After(d, in, db), NEW cat, NEW k
  PROVE  Has(res.membership, cat, k) <=>
           /\ Has(db.membership, cat, k) \/ Added(d, in, cat, k)
           /\ ~ Removed(d, in, cat, k)
<1> DEFINE links == {l \in db.membership \cup {a.link : a \in Adds(d, in)} :
                       \A x \in Removes(d, in) : ~ SameRow(l, x.link)}
<1>1. /\ res.dictionary = db.dictionary \cup (d.dictionary \ in.known)
      /\ \E updates \in LastUpdates(d, in) : res.membership = WithNotes(links, updates)
  BY AfterIs
<1>2. PICK updates \in LastUpdates(d, in) : res.membership = WithNotes(links, updates)
  BY <1>1
<1>3. Has(links, cat, k) <=>
        /\ Has(db.membership, cat, k) \/ Added(d, in, cat, k)
        /\ ~ Removed(d, in, cat, k)
  BY DEF Has, Added, Removed, SameRow
<1> HIDE DEF links
<1>4. Has(res.membership, cat, k) <=> Has(links, cat, k)
  BY <1>2 DEF WithNotes, Has, SameRow
<1> QED BY <1>3, <1>4

LEMMA LinksStillTold ==
  ASSUME DocInv, NEW d \in Documents, NEW in \in Input, NEW db \in After(d, in, Db),
         \A m, n \in Rows(d) : d.categories[m].title = d.categories[n].title => m = n,
         Applies(d, in, Db), in.members = membership, LinksTold(journal, membership)
  PROVE  LinksTold(db.journal, db.membership)
<1> SUFFICES ASSUME NEW cat \in Cats, NEW k \in Codes
             PROVE  Told(db.journal, LinkRow("imported", cat, k))
                      + Told(db.journal, LinkRow("added", cat, k))
                      = Told(db.journal, LinkRow("removed", cat, k))
                          + Cardinality({l \in db.membership : l.cat = cat /\ l.code = k})
  BY DEF LinksTold
<1> DEFINE J == Journaled(d, in)
           i == LinkRow("imported", cat, k)
           a == LinkRow("added", cat, k)
           r == LinkRow("removed", cat, k)
           was == Cardinality({l \in membership : l.cat = cat /\ l.code = k})
           is == Cardinality({l \in db.membership : l.cat = cat /\ l.code = k})
<1>1. Told(journal, i) + Told(journal, a) = Told(journal, r) + was
  BY DEF LinksTold
<1>2. /\ Told(J, i) + Told(J, a) = IF Added(d, in, cat, k) THEN 1 ELSE 0
      /\ Told(J, r) = IF Removed(d, in, cat, k) THEN 1 ELSE 0
  BY LinkNews
<1>3. db.journal = journal (+) J /\ IsABag(journal) /\ IsABag(J)
  BY AfterIs, JournaledBag DEF Db, DocInv, TypeOK
<1>4. /\ was = IF Has(membership, cat, k) THEN 1 ELSE 0
      /\ is = IF Has(db.membership, cat, k) THEN 1 ELSE 0
  <2>1. \A l, m \in membership : l.cat = m.cat /\ l.code = m.code => l = m
    BY DEF DocInv, TypeOK, StoreTypeOK, KeysHold
  <2>2. \A l, m \in db.membership : l.cat = m.cat /\ l.code = m.code => l = m
    BY CommitTypes
  <2> QED BY <2>1, <2>2, LinkCount
<1>5. Has(db.membership, cat, k) <=> /\ Has(membership, cat, k) \/ Added(d, in, cat, k)
                                     /\ ~ Removed(d, in, cat, k)
  <2>1. Db.membership = membership
    BY DEF Db
  <2> QED BY <2>1, HasAfter
<1>6. Added(d, in, cat, k) => ~ Has(membership, cat, k)
  BY DEF Applies, Added, Has, SameRow, Db
<1>7. Removed(d, in, cat, k) => Has(membership, cat, k)
  BY RemovesAre DEF Have, Removed, Has
<1> HIDE DEF J, i, a, r, was, is
<1>8. /\ \A row : /\ Told(db.journal, row) = Told(journal, row) + Told(J, row)
                  /\ Told(journal, row) \in Nat /\ Told(J, row) \in Nat
  BY <1>3, ToldSum
<1>9. was \in Nat /\ is \in Nat /\ is + Told(J, r) = was + (Told(J, i) + Told(J, a))
  BY <1>2, <1>4, <1>5, <1>6, <1>7
<1>10. Told(db.journal, i) + Told(db.journal, a) = Told(db.journal, r) + is
  BY <1>1, <1>8, <1>9
<1> QED BY <1>10 DEF i, a, r, is

(*********************** the values that are excluded **********************)

OfValue(excluded, v) == {e \in excluded : e.value = v}
ValueRow(action, v)  == OfExclusion(action, [value |-> v])

ValuesTold(news, excluded) ==
  \A v \in Values :
    Told(news, ValueRow("excluded_imported", v)) + Told(news, ValueRow("excluded_added", v))
      = Told(news, ValueRow("excluded_removed", v)) + Cardinality(OfValue(excluded, v))

\* what is excluded was listed by a document, and a value is few rows
Sourced(excluded) ==
  /\ \A e \in excluded : e \in Exclusion /\ \E d \in Documents : e \in Listed(d)
  /\ \A v \in Values : IsFiniteSet(OfValue(excluded, v))

LEMMA ValueRowIs ==
  ASSUME NEW action, NEW v
  PROVE  /\ ValueRow(action, v) = [[Blank EXCEPT !.value = v] EXCEPT !.action = action]
         /\ ValueRow(action, v).action = action
  BY DEF ValueRow, OfExclusion, Blank

LEMMA IsValueRow ==
  ASSUME NEW action, NEW v, NEW b, NEW e
  PROVE  OfExclusion(b, e) = ValueRow(action, v) <=> b = action /\ e.value = v
  BY DEF ValueRow, OfExclusion, Blank

LEMMA OneKind ==
  ASSUME NEW d \in Documents, NEW e \in Documents, NEW x \in Listed(d), NEW y \in Listed(e),
         x.value = y.value
  PROVE  x.kind = y.kind
<1>1. PICK k \in Carried(d) : x.kind = k /\ x.value \in d.exclusions[k]
  BY DEF Listed
<1>2. PICK l \in Carried(e) : y.kind = l /\ y.value \in e.exclusions[l]
  BY DEF Listed
<1>3. /\ k \in Kinds /\ d.exclusions[k] # None
      /\ l \in Kinds /\ e.exclusions[l] # None
  BY DEF Carried
<1>4. k # l => d.exclusions[k] \cap e.exclusions[l] = {}
  BY <1>3, SnapshotAssumption
<1> QED BY <1>1, <1>2, <1>4

ExclusionAdded(d, in, v)   == \E e \in ExclusionAdds(d, in) : e.value = v
ExclusionRemoved(d, in, v) == \E e \in ExclusionRemoves(d, in) : e.value = v

\* A plan adds a value under one row and removes one row of it, and tells so once.
LEMMA ValueOnce ==
  ASSUME NEW d \in Documents, NEW in \in Input, NEW excluded, Sourced(excluded),
         in.excluded = {e \in excluded : e.source = d.source}
  PROVE  /\ \A e, f \in ExclusionAdds(d, in) : e.value = f.value => e = f
         /\ \A e, f \in ExclusionRemoves(d, in) : e.value = f.value => e = f
         /\ \A e \in ExclusionAdds(d, in), f \in ExclusionRemoves(d, in) : e.value # f.value
<1>1. \A e \in ExclusionAdds(d, in) : /\ e \in Listed(d) /\ e \in Exclusion /\ e.source = d.source
                                     /\ e \notin in.excluded
  BY PlanTypes DEF ExclusionAdds
<1>2. \A e \in ExclusionRemoves(d, in) : /\ e \in in.excluded /\ e \in Exclusion /\ e.source = d.source
                                        /\ \E x \in Documents : e \in Listed(x)
  BY DEF ExclusionRemoves, Synced, Sourced
<1>3. \A e, f \in Exclusion : e.source = f.source /\ e.kind = f.kind /\ e.value = f.value => e = f
  BY DEF Exclusion
<1>4. \A e, f \in ExclusionAdds(d, in) : e.value = f.value => e = f
  BY <1>1, <1>3, OneKind
<1>5. \A e, f \in ExclusionRemoves(d, in) : e.value = f.value => e = f
  BY <1>2, <1>3, OneKind
<1>6. \A e \in ExclusionAdds(d, in), f \in ExclusionRemoves(d, in) : e.value = f.value => e = f
  BY <1>1, <1>2, <1>3, OneKind
<1> QED BY <1>1, <1>2, <1>4, <1>5, <1>6

LEMMA ValueNews ==
  ASSUME NEW d \in Documents, NEW in \in Input, NEW v,
         \A e, f \in ExclusionAdds(d, in) : e.value = f.value => e = f,
         \A e, f \in ExclusionRemoves(d, in) : e.value = f.value => e = f
  PROVE  /\ Told(Journaled(d, in), ValueRow("excluded_imported", v))
              + Told(Journaled(d, in), ValueRow("excluded_added", v))
                = IF ExclusionAdded(d, in, v) THEN 1 ELSE 0
         /\ Told(Journaled(d, in), ValueRow("excluded_removed", v))
                = IF ExclusionRemoved(d, in, v) THEN 1 ELSE 0
<1> DEFINE J == Journaled(d, in)
           i == ValueRow("excluded_imported", v)
           a == ValueRow("excluded_added", v)
           r == ValueRow("excluded_removed", v)
<1>1. i.action = "excluded_imported" /\ a.action = "excluded_added" /\ r.action = "excluded_removed"
  BY ValueRowIs
<1>2. ASSUME NEW g \in Entries(d, in), NEW row \in {i, a}, g[2] = row
      PROVE  \E e \in ExclusionAdds(d, in) :
               g = <<0, OfExclusion(Opening(d, in, e), e)>> /\ e.value = v /\ Opening(d, in, e) = row.action
  <2>1. PICK e \in ExclusionAdds(d, in) : g = <<0, OfExclusion(Opening(d, in, e), e)>>
    <3> HIDE DEF i, a
    <3> QED BY <1>1, <1>2, EntriesAre, RowFields DEF First
  <2>2. OfExclusion(Opening(d, in, e), e) = row
    BY <1>2, <2>1
  <2>3. e.value = v /\ Opening(d, in, e) = row.action
    BY <1>1, <2>2, IsValueRow
  <2> QED BY <2>1, <2>3
<1>3. ASSUME NEW g \in Entries(d, in), g[2] = r
      PROVE  \E e \in ExclusionRemoves(d, in) :
               g = <<0, OfExclusion("excluded_removed", e)>> /\ e.value = v
  <2>1. PICK e \in ExclusionRemoves(d, in) : g = <<0, OfExclusion("excluded_removed", e)>>
    <3> HIDE DEF r
    <3> QED BY <1>1, <1>3, EntriesAre, RowFields DEF First, Opening
  <2>2. OfExclusion("excluded_removed", e) = r
    BY <1>3, <2>1
  <2>3. e.value = v
    BY <2>2, IsValueRow
  <2> QED BY <2>1, <2>3
<1>4. ASSUME NEW e \in ExclusionAdds(d, in), e.value = v
      PROVE  Told(J, i) + Told(J, a) = 1
  <2> DEFINE g == <<0, OfExclusion(Opening(d, in, e), e)>>
  <2>1. g \in Entries(d, in)
    BY EntriesMade
  <2>2. Opening(d, in, e) \in {"excluded_imported", "excluded_added"}
    BY DEF Opening
  <2>3. ASSUME NEW row \in {i, a}
        PROVE  /\ Opening(d, in, e) = row.action => Told(J, row) = 1
               /\ Opening(d, in, e) # row.action => Told(J, row) = 0
    <3>1. \A h \in Entries(d, in) : h[2] = row => h = g /\ Opening(d, in, e) = row.action
      BY <1>2, <1>4
    <3>2. Opening(d, in, e) = row.action => g[2] = row
      BY <1>1, <1>4, <2>2, <2>3, IsValueRow
    <3> HIDE DEF g, i, a
    <3> QED BY <2>1, <3>1, <3>2, ToldAs
  <2> HIDE DEF i, a, J
  <2> QED BY <1>1, <2>2, <2>3
<1>5. ASSUME ~ ExclusionAdded(d, in, v) PROVE Told(J, i) = 0 /\ Told(J, a) = 0
  <2>1. \A g \in Entries(d, in) : g[2] # i /\ g[2] # a
    BY <1>2, <1>5 DEF ExclusionAdded
  <2> HIDE DEF i, a
  <2> QED BY <2>1, ToldAs
<1>6. ASSUME NEW e \in ExclusionRemoves(d, in), e.value = v PROVE Told(J, r) = 1
  <2> DEFINE g == <<0, OfExclusion("excluded_removed", e)>>
  <2>1. g \in Entries(d, in)
    BY EntriesMade
  <2>2. \A h \in Entries(d, in) : h[2] = r => h = g
    BY <1>3, <1>6
  <2>3. g[2] = r
    BY <1>6, IsValueRow
  <2> HIDE DEF g, r
  <2> QED BY <2>1, <2>2, <2>3, ToldAs
<1>7. ASSUME ~ ExclusionRemoved(d, in, v) PROVE Told(J, r) = 0
  <2>1. \A g \in Entries(d, in) : g[2] # r
    BY <1>3, <1>7 DEF ExclusionRemoved
  <2> HIDE DEF r
  <2> QED BY <2>1, ToldAs
<1> HIDE DEF i, a, r, J
<1>8. /\ Told(J, i) + Told(J, a) = IF ExclusionAdded(d, in, v) THEN 1 ELSE 0
      /\ Told(J, r) = IF ExclusionRemoved(d, in, v) THEN 1 ELSE 0
  BY <1>4, <1>5, <1>6, <1>7 DEF ExclusionAdded, ExclusionRemoved
<1> QED BY <1>8 DEF i, a, r, J

LEMMA ValuesStillTold ==
  ASSUME DocInv, NEW d \in Documents, NEW in \in Input, NEW db \in After(d, in, Db),
         Applies(d, in, Db), in.excluded = Of(d, Db), Sourced(exclusions),
         ValuesTold(journal, exclusions)
  PROVE  Sourced(db.exclusions) /\ ValuesTold(db.journal, db.exclusions)
<1> DEFINE adds    == ExclusionAdds(d, in)
           removes == ExclusionRemoves(d, in)
<1>1. /\ db.exclusions = (exclusions \cup adds) \ removes
      /\ db.journal = journal (+) Journaled(d, in)
      /\ IsABag(journal) /\ IsABag(Journaled(d, in))
  BY AfterIs, JournaledBag DEF Db, DocInv, TypeOK
<1>2. /\ \A e, f \in adds : e.value = f.value => e = f
      /\ \A e, f \in removes : e.value = f.value => e = f
      /\ \A e \in adds, f \in removes : e.value # f.value
  <2>1. in.excluded = {e \in exclusions : e.source = d.source}
    BY DEF Of, Db
  <2> QED BY <2>1, ValueOnce
<1>3. adds \cap exclusions = {} /\ removes \subseteq exclusions
  BY DEF Applies, Db, ExclusionRemoves, Synced, Of
<1>4. \A e \in adds : e \in Exclusion /\ e \in Listed(d)
  BY PlanTypes DEF ExclusionAdds
<1> SUFFICES ASSUME NEW v \in Values
             PROVE  /\ IsFiniteSet(OfValue(db.exclusions, v))
                    /\ Told(db.journal, ValueRow("excluded_imported", v))
                         + Told(db.journal, ValueRow("excluded_added", v))
                         = Told(db.journal, ValueRow("excluded_removed", v))
                             + Cardinality(OfValue(db.exclusions, v))
  BY <1>1, <1>4 DEF Sourced, ValuesTold
<1> DEFINE J  == Journaled(d, in)
           i  == ValueRow("excluded_imported", v)
           a  == ValueRow("excluded_added", v)
           r  == ValueRow("excluded_removed", v)
           S  == OfValue(exclusions, v)
           S2 == OfValue(db.exclusions, v)
<1>5. /\ Told(journal, i) + Told(journal, a) = Told(journal, r) + Cardinality(S)
      /\ IsFiniteSet(S) /\ Cardinality(S) \in Nat
  BY FS_CardinalityType DEF ValuesTold, Sourced
<1>6. /\ Told(J, i) + Told(J, a) = IF ExclusionAdded(d, in, v) THEN 1 ELSE 0
      /\ Told(J, r) = IF ExclusionRemoved(d, in, v) THEN 1 ELSE 0
  BY <1>2, ValueNews
<1>7. \A row : /\ Told(db.journal, row) = Told(journal, row) + Told(J, row)
               /\ Told(journal, row) \in Nat /\ Told(J, row) \in Nat
  BY <1>1, ToldSum
<1>8. CASE ExclusionAdded(d, in, v)
  <2> PICK e \in adds : e.value = v
    BY <1>8 DEF ExclusionAdded
  <2>1. S2 = S \cup {e} /\ e \notin S /\ ~ ExclusionRemoved(d, in, v)
    BY <1>1, <1>2, <1>3 DEF OfValue, ExclusionRemoved
  <2> HIDE DEF S, S2
  <2>2. IsFiniteSet(S2) /\ Cardinality(S2) = Cardinality(S) + 1
    BY <1>5, <2>1, FS_AddElement
  <2> HIDE DEF J, i, a, r
  <2>3. Told(db.journal, i) + Told(db.journal, a) = Told(db.journal, r) + Cardinality(S2)
    BY <1>5, <1>6, <1>7, <1>8, <2>1, <2>2
  <2> QED BY <2>2, <2>3 DEF i, a, r, S2
<1>9. CASE ExclusionRemoved(d, in, v)
  <2> PICK e \in removes : e.value = v
    BY <1>9 DEF ExclusionRemoved
  <2>1. S2 = S \ {e} /\ e \in S /\ ~ ExclusionAdded(d, in, v)
    BY <1>1, <1>2, <1>3 DEF OfValue, ExclusionAdded
  <2> HIDE DEF S, S2
  <2>2. IsFiniteSet(S2) /\ Cardinality(S2) = Cardinality(S) - 1 /\ Cardinality(S2) \in Nat
    BY <1>5, <2>1, FS_RemoveElement, FS_CardinalityType
  <2> HIDE DEF J, i, a, r
  <2>3. Told(db.journal, i) + Told(db.journal, a) = Told(db.journal, r) + Cardinality(S2)
    BY <1>5, <1>6, <1>7, <1>9, <2>1, <2>2
  <2> QED BY <2>2, <2>3 DEF i, a, r, S2
<1>10. CASE ~ ExclusionAdded(d, in, v) /\ ~ ExclusionRemoved(d, in, v)
  <2>1. S2 = S
    BY <1>1, <1>10 DEF OfValue, ExclusionAdded, ExclusionRemoved
  <2> HIDE DEF J, i, a, r, S, S2
  <2>2. Told(db.journal, i) + Told(db.journal, a) = Told(db.journal, r) + Cardinality(S2)
    BY <1>5, <1>6, <1>7, <1>10, <2>1
  <2> QED BY <1>5, <2>1, <2>2 DEF i, a, r, S2
<1> QED BY <1>8, <1>9, <1>10

(********************** the codes no dictionary knows **********************)

CodesTold(news) ==
  \A row \in BagToSet(news) : row.action = "code_unknown" =>
    /\ news[row] = 1
    /\ \A x \in BagToSet(news) : x.action = "code_unknown" /\ x.code = row.code => x = row

LEMMA CodesStillTold ==
  ASSUME DocInv, NEW d \in Documents, NEW in \in Input, NEW db \in After(d, in, Db),
         in.unknown = UnknownsIn(Db), CodesTold(journal)
  PROVE  CodesTold(db.journal)
<1> DEFINE J == Journaled(d, in)
           old == BagToSet(journal)
<1>1. db.journal = journal (+) J /\ IsABag(journal) /\ IsABag(J)
  BY AfterIs, JournaledBag DEF Db, DocInv, TypeOK
<1>2. BagToSet(db.journal) = old \cup {e[2] : e \in Entries(d, in)}
  BY <1>1, BagSum, JournaledBag
<1>3. \A row \in old : row.action = "code_unknown" => row.code \in in.unknown
  BY DEF UnknownsIn, Db
<1>4. \A e \in Entries(d, in) : e[2].action = "code_unknown" =>
        \E u \in UnknownCodes(d, in) : e = <<0, OfLink("code_unknown", u)>>
  BY EntriesAre, RowFields DEF Opening, First
<1>5. \A u \in UnknownCodes(d, in) : u.code \notin in.unknown
  BY UnknownCodesAre DEF UnknownIn
<1>6. \A u, v \in UnknownCodes(d, in) : u.code = v.code => u = v
  <2> SUFFICES ASSUME NEW u \in UnknownCodes(d, in), NEW v \in UnknownCodes(d, in), u.code = v.code
               PROVE  u = v
    OBVIOUS
  <2>1. PICK m \in Rows(d) : \E k \in UnknownIn(d, in, m) :
          (\A x \in Rows(d) : x < m => k \notin UnknownIn(d, in, x)) /\ u = [cat |-> RowOf(d, m), code |-> k]
    BY UnknownCodesAre
  <2>2. PICK n \in Rows(d) : \E k \in UnknownIn(d, in, n) :
          (\A x \in Rows(d) : x < n => k \notin UnknownIn(d, in, x)) /\ v = [cat |-> RowOf(d, n), code |-> k]
    BY UnknownCodesAre
  <2>3. ~ (m < n) /\ ~ (n < m) /\ m \in Nat /\ n \in Nat
    BY <2>1, <2>2, RowTitles, Documented
  <2>4. m = n
    BY <2>3
  <2> QED BY <2>1, <2>2, <2>4
<1> HIDE DEF J
<1>7. ASSUME NEW row \in old, row.action = "code_unknown"
      PROVE  db.journal[row] = 1
  <2>1. \A e \in Entries(d, in) : e[2] # row
    BY <1>3, <1>4, <1>5, <1>7, RowFields
  <2>2. Told(J, row) = 0
    BY <2>1, ToldAs DEF J
  <2>3. journal[row] = 1
    BY <1>7 DEF CodesTold
  <2>4. IsABag(db.journal) /\ row \in BagToSet(db.journal)
    BY <1>1, <1>2, BagSum
  <2>5. /\ Told(db.journal, row) = Told(journal, row) + Told(J, row)
        /\ Told(journal, row) = 1
    BY <1>1, <2>3, ToldSum
  <2>6. db.journal[row] = Told(db.journal, row)
    BY <2>4, ToldSum
  <2> QED BY <2>2, <2>5, <2>6
<1>8. ASSUME NEW u \in UnknownCodes(d, in)
      PROVE  db.journal[OfLink("code_unknown", u)] = 1
  <2> DEFINE row == OfLink("code_unknown", u)
             e == <<0, row>>
  <2>1. row.action = "code_unknown" /\ row.code = u.code
    BY RowFields
  <2>2. e \in Entries(d, in) /\ e[2] = row
    BY EntriesMade
  <2>3. \A f \in Entries(d, in) : f[2] = row => f = e
    <3> SUFFICES ASSUME NEW f \in Entries(d, in), f[2] = row PROVE f = e
      OBVIOUS
    <3>1. PICK v \in UnknownCodes(d, in) : f = <<0, OfLink("code_unknown", v)>>
      BY <1>4, <2>1
    <3> QED BY <3>1
  <2>4. row \notin old
    BY <1>3, <1>5, <2>1
  <2> HIDE DEF e, row
  <2>5. Told(J, row) = 1
    BY <2>2, <2>3, ToldAs DEF J
  <2>6. IsABag(db.journal) /\ row \in BagToSet(db.journal)
    BY <1>1, <1>2, <2>2, BagSum
  <2>7. Told(db.journal, row) = Told(journal, row) + Told(J, row) /\ Told(journal, row) = 0
    BY <1>1, <2>4, ToldSum
  <2>8. db.journal[row] = Told(db.journal, row)
    BY <2>6, ToldSum
  <2>9. db.journal[row] = 1
    BY <2>5, <2>7, <2>8
  <2> QED BY <2>9 DEF row
<1>9. \A row \in BagToSet(db.journal) : row.action = "code_unknown" =>
        \/ row \in old
        \/ \E u \in UnknownCodes(d, in) : row = OfLink("code_unknown", u)
  BY <1>2, <1>4
<1>10. \A row, x \in BagToSet(db.journal) :
         row.action = "code_unknown" /\ x.action = "code_unknown" /\ x.code = row.code => x = row
  <2> SUFFICES ASSUME NEW row \in BagToSet(db.journal), NEW x \in BagToSet(db.journal),
                      row.action = "code_unknown", x.action = "code_unknown", x.code = row.code
               PROVE  x = row
    OBVIOUS
  <2>1. CASE row \in old /\ x \in old
    BY <2>1 DEF CodesTold
  <2>2. CASE row \notin old /\ x \notin old
    <3>1. PICK u \in UnknownCodes(d, in) : row = OfLink("code_unknown", u)
      BY <1>9, <2>2
    <3>2. PICK v \in UnknownCodes(d, in) : x = OfLink("code_unknown", v)
      BY <1>9, <2>2
    <3>3. u.code = v.code
      BY <3>1, <3>2, RowFields
    <3> QED BY <1>6, <3>1, <3>2, <3>3
  <2>3. CASE row \in old /\ x \notin old
    <3>1. PICK v \in UnknownCodes(d, in) : x = OfLink("code_unknown", v)
      BY <1>9, <2>3
    <3> QED BY <1>3, <1>5, <2>3, <3>1, RowFields
  <2>4. CASE row \notin old /\ x \in old
    <3>1. PICK u \in UnknownCodes(d, in) : row = OfLink("code_unknown", u)
      BY <1>9, <2>4
    <3> QED BY <1>3, <1>5, <2>4, <3>1, RowFields
  <2> QED BY <2>1, <2>2, <2>3, <2>4
<1> QED BY <1>7, <1>8, <1>9, <1>10 DEF CodesTold

(*************************** the journal adds up ***************************)

JournalInv ==
  /\ SerialInv
  /\ Sourced(exclusions)
  /\ LinksTold(journal, membership)
  /\ ValuesTold(journal, exclusions)
  /\ CodesTold(journal)

LEMMA AddsUp == JournalInv => JournalTellsState
<1> SUFFICES ASSUME JournalInv PROVE JournalTellsState
  OBVIOUS
<1>1. ASSUME NEW cat \in Cats, NEW k \in Codes
      PROVE  LET row == [Blank EXCEPT !.cat = cat, !.code = k] IN
             Told(journal, [row EXCEPT !.action = "imported"])
               + Told(journal, [row EXCEPT !.action = "added"])
               = Told(journal, [row EXCEPT !.action = "removed"]) + Cardinality(LinkOf(cat, k))
  <2> DEFINE row == [Blank EXCEPT !.cat = cat, !.code = k]
  <2>1. \A action : LinkRow(action, cat, k) = [row EXCEPT !.action = action]
    BY LinkRowIs
  <2>2. Told(journal, LinkRow("imported", cat, k)) + Told(journal, LinkRow("added", cat, k))
          = Told(journal, LinkRow("removed", cat, k)) + Cardinality(LinkOf(cat, k))
    BY DEF JournalInv, LinksTold, LinkOf
  <2> HIDE DEF row
  <2>3. /\ LinkRow("imported", cat, k) = [row EXCEPT !.action = "imported"]
        /\ LinkRow("added", cat, k) = [row EXCEPT !.action = "added"]
        /\ LinkRow("removed", cat, k) = [row EXCEPT !.action = "removed"]
    BY <2>1
  <2>4. Told(journal, [row EXCEPT !.action = "imported"])
          + Told(journal, [row EXCEPT !.action = "added"])
          = Told(journal, [row EXCEPT !.action = "removed"]) + Cardinality(LinkOf(cat, k))
    BY <2>2, <2>3, Zenon
  <2> QED BY <2>4 DEF row
<1>2. ASSUME NEW v \in Values
      PROVE  LET row == [Blank EXCEPT !.value = v] IN
             Told(journal, [row EXCEPT !.action = "excluded_imported"])
               + Told(journal, [row EXCEPT !.action = "excluded_added"])
               = Told(journal, [row EXCEPT !.action = "excluded_removed"])
                   + Cardinality({e \in exclusions : e.value = v})
  BY ValueRowIs DEF JournalInv, ValuesTold, OfValue
<1> QED BY <1>1, <1>2 DEF JournalTellsState, JournalInv, CodesTold

LEMMA JournalInit == Init => JournalInv
<1> SUFFICES ASSUME Init PROVE JournalInv
  OBVIOUS
<1>1. /\ exclusions = {} /\ membership = {} /\ journal = EmptyBag
  BY DEF Init, StoreInit
<1>2. BagToSet(journal) = {} /\ \A row : Told(journal, row) = 0
  BY <1>1 DEF EmptyBag, SetToBag, BagToSet, Told, BagIn
<1>3. \A v : OfValue(exclusions, v) = {}
  BY <1>1 DEF OfValue
<1>4. Sourced(exclusions)
  BY <1>1, <1>3, FS_EmptySet DEF Sourced
<1>5. LinksTold(journal, membership)
  BY <1>1, <1>2, FS_EmptySet DEF LinksTold
<1>6. ValuesTold(journal, exclusions)
  BY <1>2, <1>3, FS_EmptySet DEF ValuesTold
<1>7. CodesTold(journal)
  BY <1>2 DEF CodesTold
<1> QED BY <1>4, <1>5, <1>6, <1>7, SerialInit DEF JournalInv

LEMMA JournalSteps ==
  ASSUME TitledOnce, JournalInv, ImportNext, OneAtATime' PROVE JournalInv'
<1>1. SerialInv'
  BY SerialSteps DEF JournalInv
<1>2. ASSUME UNCHANGED <<membership, exclusions, journal>> PROVE JournalInv'
  BY <1>1, <1>2 DEF JournalInv
<1>3. ASSUME NEW i \in Imports, ApplyPlan(i) PROVE JournalInv'
  <2> DEFINE d == runs[i].doc
             in == runs[i].in
  <2>1. /\ runs[i].at = "apply" /\ Applies(d, in, Db)
        /\ \E db \in After(d, in, Db) :
             membership' = db.membership /\ exclusions' = db.exclusions /\ journal' = db.journal
    BY <1>3 DEF ApplyPlan
  <2>2. d \in Documents /\ in \in Input
    BY <2>1 DEF JournalInv, SerialInv, DocInv, TypeOK, Run
  <2>3. in.members = membership /\ in.excluded = Of(d, Db) /\ in.unknown = UnknownsIn(Db)
    BY <2>1 DEF JournalInv, SerialInv, Current
  <2> HIDE DEF d, in
  <2> PICK db \in After(d, in, Db) :
        membership' = db.membership /\ exclusions' = db.exclusions /\ journal' = db.journal
    BY <2>1
  <2>4. DocInv
    BY DEF JournalInv, SerialInv
  <2>5. \A m, n \in Rows(d) : d.categories[m].title = d.categories[n].title => m = n
    BY <2>2 DEF TitledOnce
  <2>6. LinksTold(db.journal, db.membership)
    BY <2>1, <2>2, <2>3, <2>4, <2>5, LinksStillTold DEF JournalInv
  <2>7. Sourced(db.exclusions) /\ ValuesTold(db.journal, db.exclusions)
    BY <2>1, <2>2, <2>3, <2>4, ValuesStillTold DEF JournalInv
  <2>8. CodesTold(db.journal)
    BY <2>1, <2>2, <2>3, <2>4, CodesStillTold DEF JournalInv
  <2> QED BY <1>1, <2>6, <2>7, <2>8 DEF JournalInv
<1> QED BY <1>2, <1>3 DEF ImportNext, ImportSnapshot, LoadDictionary, LoadExclusions, LoadTitles,
             LoadUnknowns, LoadNext, RollBack, Reads

\* What the journal tells is what the tables hold (00010_mcc.sql, 00034, 00035), for
\* imports one after another and documents that name a catalog row once.
THEOREM JournalAddsUp == ASSUME TitledOnce PROVE SerialSpec => []JournalTellsState
<1>1. Init => JournalInv
  BY JournalInit
<1>2. JournalInv /\ [ImportNext /\ OneAtATime']_vars => JournalInv'
  <2> SUFFICES ASSUME JournalInv, [ImportNext /\ OneAtATime']_vars PROVE JournalInv'
    OBVIOUS
  <2>1. CASE ImportNext /\ OneAtATime'
    BY <2>1, JournalSteps
  <2>2. CASE UNCHANGED vars
    BY <2>2 DEF vars, JournalInv, SerialInv, DocInv, TypeOK, StoreTypeOK, KeysHold, OneAtATime,
         Running, Current, Db, Of, TitlesIn, UnknownsIn, CodesTold
  <2> QED BY <2>1, <2>2
<1>3. JournalInv => JournalTellsState
  BY AddsUp
<1>4. QED
  BY <1>1, <1>2, <1>3, PTL DEF SerialSpec

\* A step that leaves imports, links, exclusions and the journal alone, whatever it
\* does to the dictionary and to the points of sale.
LEMMA JournalLeft ==
  ASSUME JournalInv, DocInv', UNCHANGED <<runs, membership, exclusions, journal>>
  PROVE  JournalInv'
<1>1. \A i \in Imports : Current(i)'
  BY DEF JournalInv, SerialInv, Current, Db, Of, TitlesIn, UnknownsIn
<1>2. OneAtATime' /\ CodesTold(journal)'
  BY DEF JournalInv, SerialInv, OneAtATime, Running, CodesTold
<1> QED BY <1>1, <1>2 DEF JournalInv, SerialInv

\* Who moves an import is an import.
LEMMA ImportsMoveThemselves == MccNext /\ runs' # runs => ImportNext
BY DEF MccNext, Next, EditTables, EditJournal, Untouched, AdminCreateMCCChange,
       AdminDeleteMCCChange

\* The journal of the module as a whole (00010_mcc.sql, 00034, 00035): it adds up to
\* the tables while submissions, verdicts, scrapes and edits of the dictionary go on
\* beside the imports, until two imports overlap or somebody edits links or the
\* journal by hand.
THEOREM JournalStaysTrue == ASSUME TitledOnce PROVE StraightSpec => []JournalTrue
<1> DEFINE StraightInv == MccInv /\ (straight => JournalInv)
<1>1. StraightInit => StraightInv
  BY MccStarts, JournalInit DEF StraightInit, MccInit
<1>2. StraightInv /\ [StraightNext]_straightVars => StraightInv'
  <2> SUFFICES ASSUME StraightInv, [StraightNext]_straightVars PROVE StraightInv'
    OBVIOUS
  <2>1. MccInv'
    BY MccSteps DEF StraightNext, straightVars
  <2>2. ASSUME StraightNext, straight' PROVE JournalInv'
    <3>1. straight /\ OneAtATime' /\ (runs' # runs \/ UNCHANGED <<membership, exclusions, journal>>)
      BY <2>2 DEF StraightNext, Kept
    <3>2. CASE runs' # runs
      BY <2>2, <3>1, <3>2, ImportsMoveThemselves, JournalSteps DEF StraightNext
    <3>3. CASE runs' = runs
      BY <2>1, <3>1, <3>3, JournalLeft DEF MccInv
    <3> QED BY <3>2, <3>3
  <2>3. ASSUME UNCHANGED straightVars, straight' PROVE JournalInv'
    <3>1. straight /\ UNCHANGED <<runs, membership, exclusions, journal>>
      BY <2>3 DEF straightVars, mccVars, vars
    <3> QED BY <2>1, <3>1, JournalLeft DEF MccInv
  <2> QED BY <2>1, <2>2, <2>3
<1>3. StraightInv => JournalTrue
  BY AddsUp DEF JournalTrue
<1> QED BY <1>1, <1>2, <1>3, PTL DEF StraightSpec
=============================================================================
