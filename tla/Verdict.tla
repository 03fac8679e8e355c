------------------------------ MODULE Verdict -------------------------------
(***************************************************************************)
(* What the MCC module promises of a point of sale, whoever asks and       *)
(* whatever runs at the same time: a submission is seen by its author      *)
(* alone until it is published, a published one by everybody, and one that *)
(* was withdrawn by nobody, ever again.                                    *)
(***************************************************************************)
CONSTANTS Users, PointIds

VARIABLES
  standing,   \* of each point
  audience    \* who sees it

vars == <<standing, audience>>

Standings == {"absent", "pending", "public", "withdrawn"}

Init ==
  /\ standing = [p \in PointIds |-> "absent"]
  /\ audience = [p \in PointIds |-> {}]

Stands(S, from, to, who) ==
  /\ S # {}
  /\ \A p \in S : standing[p] \in from
  /\ standing' = [p \in PointIds |-> IF p \in S THEN to ELSE standing[p]]
  /\ audience' = [p \in PointIds |-> IF p \in S THEN who ELSE audience[p]]

Submit(p, u) == Stands({p}, {"absent"}, "pending", {u})
Approve(p)   == Stands({p}, {"pending"}, "public", Users)
Withdraw(p)  == Stands({p}, {"pending", "public"}, "withdrawn", {})
Erase(p)     == Stands({p}, Standings \ {"absent"}, "absent", {})

\* an import publishes many at once, and only points nobody has submitted
Publish(S) == Stands(S, {"absent"}, "public", Users)

Next ==
  \/ \E p \in PointIds : \/ \E u \in Users : Submit(p, u)
                         \/ Approve(p) \/ Withdraw(p) \/ Erase(p)
  \/ \E S \in SUBSET PointIds : Publish(S)

Spec == Init /\ [][Next]_vars
=============================================================================
