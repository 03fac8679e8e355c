--------------------------- MODULE MCRecognition ---------------------------
(***************************************************************************)
(* Small instances of Recognition: one or two users, batches of one or two *)
(* screenshots, a ladder of one or two rungs.                              *)
(***************************************************************************)
EXTENDS Recognition, TLC

CONSTANTS u1, u2, j1, j2, j3, A, B

\* one screenshot; two different ones; the same file twice; one without a file
OneOrTwo  == {<<A>>, <<A, B>>, <<A, A>>, <<Missing, A>>}
OneOrNone == {<<A>>, <<Missing>>}

Symmetry == Permutations(Users) \cup Permutations(JobIds)
=============================================================================
