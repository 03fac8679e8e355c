----------------------------- MODULE MCCashback -----------------------------
(***************************************************************************)
(* Small instances of the cashback module for TLC: one or two accounts,    *)
(* one bank, a handful of row ids, one tier of one slot.                   *)
(***************************************************************************)
EXTENDS Cashback, TLC

CONSTANTS u1, u2, alfa, c1, c2, p1, p2, o1, o2, o3, s1, s2, s3, w1, w2, a1, a2,
          m1, m2, t1, k1, k2, basic, r1, r2, r3

MCTierMax == [t \in {basic} |-> 1]

\* a month; a month and the span that contains it; the same with bounds swapped
OneMonth  == {[from |-> 1, to |-> 1]}
TwoMonths == {[from |-> 1, to |-> 1], [from |-> 2, to |-> 2]}
Crossing  == {[from |-> 1, to |-> 1], [from |-> 1, to |-> 2], [from |-> 2, to |-> 1]}

\* no mapping on the form, or one of two canonical categories for the same title
Mapped == {None} \cup [title : Titles, canonical : Canons]

NoLists    == {{}}
ListsOfOne == {{}} \cup {{a} : a \in AttachmentIds}
ListsOfTwo == {{}, AttachmentIds}

\* accounts, ids of rows, canonical categories and goroutines are interchangeable
RowSymmetry == UNION {Permutations(S) : S \in
  {Users, ClientIds, Canons, Reqs, PeriodIds, OfferIds, SelectionIds,
   AttachmentIds, PartnerIds, Moments}}
=============================================================================
