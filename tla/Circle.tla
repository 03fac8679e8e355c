------------------------------- MODULE Circle -------------------------------
(***************************************************************************)
(* What the friends module promises its users: who has asked whom, who is  *)
(* whose friend, and which bank clients a friend may see.  There is        *)
(* nothing here of rows, ids, statements or transactions; module Friends   *)
(* implements it.                                                          *)
(***************************************************************************)
CONSTANTS Users, Clients, Owner    \* Owner[c]: the user whose client c is

VARIABLES
  friends,    \* pairs of friends: sets of two users
  asked,      \* <<u, v>>: u waits for the answer of v
  grants      \* <<c, v>>: v sees client c

vars == <<friends, asked, grants>>

Init == friends = {} /\ asked = {} /\ grants = {}

\* At most one of the two waits for the other.
Ask(u, v) ==
  /\ u # v /\ <<u, v>> \notin asked /\ <<v, u>> \notin asked
  /\ asked' = asked \cup {<<u, v>>}
  /\ UNCHANGED <<friends, grants>>

\* Declined by v or taken back by u.
Settle(u, v) ==
  /\ asked' = asked \ {<<u, v>>}
  /\ UNCHANGED <<friends, grants>>

\* Friendship is mutual: it takes the request of one and the consent of the
\* other.  Nobody sees more for it, whatever they once saw.
Befriend(u, v) ==
  /\ <<u, v>> \in asked /\ {u, v} \notin friends
  /\ asked' = asked \ {<<u, v>>}
  /\ friends' = friends \cup {{u, v}}
  /\ UNCHANGED grants

\* Both lose sight of each other's clients.
Part(u, v) ==
  /\ friends' = friends \ {{u, v}}
  /\ grants' = {g \in grants : {Owner[g[1]], g[2]} # {u, v}}
  /\ UNCHANGED asked

Grant(c, v) ==
  /\ {Owner[c], v} \in friends
  /\ grants' = grants \cup {<<c, v>>}
  /\ UNCHANGED <<friends, asked>>

Revoke(c, v) ==
  /\ grants' = grants \ {<<c, v>>}
  /\ UNCHANGED <<friends, asked>>

\* The client is deleted by its owner.
Lose(c) ==
  /\ grants' = {g \in grants : g[1] # c}
  /\ UNCHANGED <<friends, asked>>

Next ==
  \/ \E u, v \in Users : Ask(u, v) \/ Settle(u, v) \/ Befriend(u, v) \/ Part(u, v)
  \/ \E c \in Clients : Lose(c) \/ \E v \in Users : Grant(c, v) \/ Revoke(c, v)

Spec == Init /\ [][Next]_vars
=============================================================================
