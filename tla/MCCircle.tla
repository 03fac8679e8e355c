------------------------------ MODULE MCCircle ------------------------------
(***************************************************************************)
(* Four instances side by side, one of which runs: the circle of three     *)
(* users, the invite links of one user while another claims them, the rate *)
(* limiter of the same API, and accounts: two people, one of whom types    *)
(* the same account in two ways, and forms that are refused.               *)
(***************************************************************************)
EXTENDS MCFriends, RateLimit, Accounts

VARIABLE scene

Called(word, at, upper) == [word |-> word, at |-> at, upper |-> upper, padded |-> upper]

Address(word, upper) == [word |-> word, upper |-> upper, padded |-> upper]

Form(name, email) == [name |-> name, visible |-> TRUE, email |-> email, password |-> 1]

TheForms ==
  {Form(Called("anna", 0, FALSE), Address("anna", FALSE)),
   Form(Called("anna", 1, TRUE), Address("anna", TRUE)),
   Form(Called("ivan", 0, FALSE), Address("ivan", FALSE)),
   [Form(Called("root", 0, TRUE), Address("ivan", TRUE)) EXCEPT !.password = 2]}

People == INSTANCE Friends WITH InviteIds <- {}
Links  == INSTANCE Friends WITH Users <- {u1, u2}, FriendshipIds <- {}, RequestIds <- {}

ScenesInit ==
  /\ scene \in {"people", "links", "limiter", "accounts"}
  /\ Init /\ LimiterInit /\ AccountsInit

ScenesNext ==
  /\ \/ scene = "people" /\ People!Next /\ UNCHANGED <<buckets, accountsVars>>
     \/ scene = "links" /\ Links!Next /\ UNCHANGED <<buckets, accountsVars>>
     \/ scene = "limiter" /\ LimiterNext /\ UNCHANGED <<vars, accountsVars>>
     \/ scene = "accounts" /\ AccountsNext /\ UNCHANGED <<vars, buckets>>
  /\ UNCHANGED scene

ScenesSpec == ScenesInit /\ [][ScenesNext]_<<vars, buckets, accountsVars, scene>>

\* (the browser and the requests of "accounts" are alike too)
ScenesSymmetry == CircleSymmetry \cup Permutations(Requests)
=============================================================================
