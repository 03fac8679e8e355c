----------------------------- MODULE MCFriends -----------------------------
(***************************************************************************)
(* Small instances of Friends.                                             *)
(***************************************************************************)
EXTENDS Friends, TLC

CONSTANTS u1, u2, u3, c1, c2

\* c1 belongs to u1, the others to u2
OwnerOf == [c \in Clients |-> IF c = c1 THEN u1 ELSE u2]

RowSymmetry == Permutations(FriendshipIds) \cup Permutations(RequestIds)
                 \cup Permutations(Goroutines)

\* with the one client c1 the users other than its owner are alike
CircleSymmetry == RowSymmetry \cup Permutations(Users \ {u1})
=============================================================================
