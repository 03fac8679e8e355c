------------------------------ MODULE MccStore ------------------------------
(***************************************************************************)
(* What the two halves of the MCC module (internal/mcc) share: the code    *)
(* dictionary, the codes of each bank category and the points of sale,     *)
(* with the foreign keys between them, and the operator's edits of the     *)
(* dictionary and of the links (internal/admin).                           *)
(***************************************************************************)
EXTENDS FiniteSets, Integers

CONSTANTS
  Users,
  Codes,      \* merchant category codes
  Seeded,     \* codes the seed owns
  Cats,       \* the bank's global catalog rows
  Notes,      \* conditions a code may carry
  PointIds,   \* ids of points of sale
  None

ASSUME MccAssumption ==
  /\ Codes \subseteq Nat /\ Seeded \subseteq Codes
  /\ None \notin Users \cup Codes \cup Cats \cup Notes \cup PointIds

VARIABLES
  dictionary,   \* mcc
  membership,   \* bank_category_mcc
  points        \* point_of_sale

Maybe(S) == S \cup {None}

Link    == [cat : Cats, code : Codes, note : Maybe(Notes)]
Origins == {"mcc_codes", "user_manual", "admin"}
Point   == [id : PointIds, author : Maybe(Users), origin : Origins,
            status : {"pending", "approved", "rejected"}, code : Maybe(Codes)]

\* the rows of a category, at most one per code, in the dictionary
KeysHold ==
  /\ \A l, m \in membership : l.cat = m.cat /\ l.code = m.code => l = m
  /\ \A l \in membership : l.code \in dictionary
  /\ \A p, q \in points : p.id = q.id => p = q
  /\ \A p \in points : p.code \in Maybe(dictionary)

StoreTypeOK ==
  /\ dictionary \subseteq Codes /\ membership \subseteq Link /\ points \subseteq Point
  /\ KeysHold

StoreInit == dictionary = Seeded /\ membership = {} /\ points = {}

LinkOf(cat, k) == {l \in membership : l.cat = cat /\ l.code = k}

(************************ the operator's sidecar ***************************)

AdminCreateMCC(k) ==
  /\ k \notin Seeded \cup dictionary
  /\ dictionary' = dictionary \cup {k}
  /\ UNCHANGED <<membership, points>>

\* refused while a link or a point refers to the code
AdminDeleteMCC(k) ==
  /\ k \in dictionary \ Seeded
  /\ \A l \in membership : l.code # k
  /\ \A p \in points : p.code # k
  /\ dictionary' = dictionary \ {k}
  /\ UNCHANGED <<membership, points>>

AdminUpsertLink(cat, k, note) ==
  /\ k \in dictionary
  /\ membership' = (membership \ LinkOf(cat, k)) \cup {[cat |-> cat, code |-> k, note |-> note]}
  /\ UNCHANGED <<dictionary, points>>

AdminDeleteLink(cat, k) ==
  /\ LinkOf(cat, k) # {}
  /\ membership' = membership \ LinkOf(cat, k)
  /\ UNCHANGED <<dictionary, points>>
=============================================================================
