------------------------------- MODULE Points -------------------------------
(***************************************************************************)
(* Points of sale and their moderation (internal/mcc/service.go,           *)
(* import.go, internal/admin).  A moderator's verdict is two statements:   *)
(* the role is read, then the row is updated under a condition; another    *)
(* moderator, the operator, an import or a demotion may come between.      *)
(* A call refused by its first read changes nothing and is left out.       *)
(***************************************************************************)
EXTENDS MccStore

CONSTANTS
  Reqs,      \* goroutines and import processes
  Scrapes    \* files of the scrape: [ids -> codes], for any set of ids

ASSUME PointsAssumption ==
  \A f \in Scrapes : DOMAIN f \subseteq PointIds /\ \A p \in DOMAIN f : f[p] \in Codes

VARIABLES
  roles,   \* "user".role
  spent,   \* ids that were given out
  req      \* the note of each goroutine

tables    == <<dictionary, membership, points>>
pointVars == <<tables, roles, spent, req>>

Roles == {"user", "moderator", "admin"}

CanModerate(role) == role \in {"moderator", "admin"}

Idle == [at |-> "idle"]

Note == {Idle}
   \cup [at : {"insert"}, user : Users, code : Codes]
   \cup [at : {"approve", "reject"}, point : PointIds]
   \cup [at : {"upsert"}, file : Scrapes, known : SUBSET Codes]

PointTypeOK ==
  /\ StoreTypeOK
  /\ roles \in [Users -> Roles] /\ spent \subseteq PointIds
  /\ req \in [Reqs -> Note]
  /\ \A p \in points : p.id \in spent /\ (p.origin = "user_manual" <=> p.author # None)

PointInit ==
  /\ StoreInit
  /\ roles \in [Users -> Roles] /\ spent = {}
  /\ req = [r \in Reqs |-> Idle]

PointOf(id) == {p \in points : p.id = id}

Replace(old, new) == points' = (points \ old) \cup new

Judged(p, status) == [p EXCEPT !.status = status]

Begin(r, note) ==
  req[r] = Idle /\ req' = [req EXCEPT ![r] = note] /\ UNCHANGED <<tables, roles, spent>>
Finish(r)      == req' = [req EXCEPT ![r] = Idle]

(************************* users and moderators ****************************)

\* GetMCC first, so that the answer is in Russian; the foreign key decides
CreatePoint(r) ==
  \E u \in Users, k \in dictionary : Begin(r, [at |-> "insert", user |-> u, code |-> k])

CreateUserPointOfSale(r) ==
  /\ req[r].at = "insert" /\ Finish(r)
  /\ \/ /\ req[r].code \in dictionary
        /\ \E id \in PointIds \ spent :
             /\ Replace({}, {[id |-> id, author |-> req[r].user, origin |-> "user_manual",
                              status |-> "pending", code |-> req[r].code]})
             /\ spent' = spent \cup {id}
     \/ req[r].code \notin dictionary /\ UNCHANGED <<points, spent>>
  /\ UNCHANGED <<dictionary, membership, roles>>

\* requireModerator reads the role of the moment
Moderate(r, verdict) ==
  \E u \in Users, id \in PointIds :
    CanModerate(roles[u]) /\ Begin(r, [at |-> verdict, point |-> id])

ModerationApprove(r) == Moderate(r, "approve")
ModerationReject(r)  == Moderate(r, "reject")

\* mutant: the update trusts the queue the moderator was looking at
ApprovableAnyway(p) == p.origin # "mcc_codes"

Approvable(p) == p.status = "pending"
Rejectable(p) == p.status \in {"pending", "approved"} /\ p.origin # "mcc_codes"

ModerationApprovePOS(r) ==
  /\ req[r].at = "approve" /\ Finish(r)
  /\ LET rows == {p \in PointOf(req[r].point) : Approvable(p)} IN
     Replace(rows, {Judged(p, "approved") : p \in rows})
  /\ UNCHANGED <<dictionary, membership, roles, spent>>

ModerationRejectPOS(r) ==
  /\ req[r].at = "reject" /\ Finish(r)
  /\ LET rows == {p \in PointOf(req[r].point) : Rejectable(p)} IN
     Replace(rows, {Judged(p, "rejected") : p \in rows})
  /\ UNCHANGED <<dictionary, membership, roles, spent>>

(******************************* the operator ******************************)

AdminSetUserRole(u, role) ==
  roles' = [roles EXCEPT ![u] = role] /\ UNCHANGED <<tables, spent, req>>

AdminApprovePOS(id) ==
  /\ LET rows == {p \in PointOf(id) : Approvable(p)} IN
     rows # {} /\ Replace(rows, {Judged(p, "approved") : p \in rows})
  /\ UNCHANGED <<dictionary, membership, roles, spent, req>>

AdminCreatePOS(id, k) ==
  /\ id \notin spent /\ k \in Maybe(dictionary)
  /\ Replace({}, {[id |-> id, author |-> None, origin |-> "admin", status |-> "approved",
                   code |-> k]})
  /\ spent' = spent \cup {id}
  /\ UNCHANGED <<dictionary, membership, roles, req>>

AdminUpdatePOS(id, k) ==
  /\ PointOf(id) # {} /\ k \in Maybe(dictionary)
  /\ Replace(PointOf(id), {[p EXCEPT !.code = k] : p \in PointOf(id)})
  /\ UNCHANGED <<dictionary, membership, roles, spent, req>>

AdminDeletePOS(id) ==
  /\ PointOf(id) # {} /\ Replace(PointOf(id), {})
  /\ UNCHANGED <<dictionary, membership, roles, spent, req>>

(******************************* import-pos ********************************)

\* one transaction: the dictionary is read, then the rows of known codes upserted
ImportPointsOfSale(r) ==
  \E f \in Scrapes : Begin(r, [at |-> "upsert", file |-> f, known |-> dictionary])

\* mutant: a scrape relabels the row it meets
UpsertedRelabelled(id, k) ==
  IF PointOf(id) # {}
  THEN {[p EXCEPT !.code = k, !.origin = "mcc_codes"] : p \in PointOf(id)}
  ELSE {[id |-> id, author |-> None, origin |-> "mcc_codes", status |-> "approved",
         code |-> k]}

\* origin, status and author of a row that exists are not in the update list
Upserted(id, k) ==
  IF PointOf(id) # {}
  THEN {[p EXCEPT !.code = k] : p \in PointOf(id)}
  ELSE {[id |-> id, author |-> None, origin |-> "mcc_codes", status |-> "approved",
         code |-> k]}

UpsertPoints(r) ==
  /\ req[r].at = "upsert" /\ Finish(r)
  /\ LET f   == req[r].file
         ids == {id \in DOMAIN f : f[id] \in req[r].known} IN
     \/ /\ \A id \in ids : f[id] \in dictionary
        /\ Replace({p \in points : p.id \in ids}, UNION {Upserted(id, f[id]) : id \in ids})
        /\ spent' = spent \cup ids
     \/ (\E id \in ids : f[id] \notin dictionary) /\ UNCHANGED <<points, spent>>
  /\ UNCHANGED <<dictionary, membership, roles>>

\* the process stops: requests are forgotten, open transactions rolled back
Restart == req' = [r \in Reqs |-> Idle] /\ UNCHANGED <<tables, roles, spent>>

PointNext ==
  \/ \E r \in Reqs :
       \/ CreatePoint(r) \/ CreateUserPointOfSale(r)
       \/ ModerationApprove(r) \/ ModerationApprovePOS(r)
       \/ ModerationReject(r) \/ ModerationRejectPOS(r)
       \/ ImportPointsOfSale(r) \/ UpsertPoints(r)
  \/ \E u \in Users, role \in Roles : AdminSetUserRole(u, role)
  \/ \E id \in PointIds : AdminApprovePOS(id) \/ AdminDeletePOS(id)
  \/ \E id \in PointIds, k \in Maybe(Codes) : AdminCreatePOS(id, k) \/ AdminUpdatePOS(id, k)
  \/ \E k \in Codes : (AdminCreateMCC(k) \/ AdminDeleteMCC(k)) /\ UNCHANGED <<roles, spent, req>>
  \/ Restart

PointSpec == PointInit /\ [][PointNext]_pointVars

(***************************************************************************)
(* Verdict, seen through the visibility rule of GetPointOfSale: a row is   *)
(* shown when approved, or pending and the viewer's own.                   *)
(***************************************************************************)
Sees(u, p) == p.status = "approved" \/ (p.author = u /\ p.status = "pending")

\* what the rows say of a point
StandingIn(rows, id) ==
  IF {p \in rows : p.id = id} = {} THEN "absent"
  ELSE LET row == CHOOSE p \in rows : p.id = id IN
       CASE row.status = "pending"  -> "pending"
         [] row.status = "approved" -> "public"
         [] row.status = "rejected" -> "withdrawn"

AudienceIn(rows, id) == {u \in Users : \E p \in {q \in rows : q.id = id} : Sees(u, p)}

standing == [id \in PointIds |-> StandingIn(points, id)]
audience == [id \in PointIds |-> AudienceIn(points, id)]

Promise == INSTANCE Verdict

\* Submissions are the author's alone until approved, and rejected rows are
\* "invisible to everyone, the author included" for good (queries/mcc.sql,
\* 00028_user_roles.sql), whichever of two moderators, the operator and an
\* import comes first or acts on a queue that has changed since.
KeepsVerdict == Promise!Spec
=============================================================================
