---------------------------- MODULE TokenBucket -----------------------------
(***************************************************************************)
(* What a rate limiter promises: every user has a bucket of their own,     *)
(* full at first, refilled as time passes and never above Burst; a call    *)
(* costs Cost.  Module RateLimit implements it.                            *)
(***************************************************************************)
EXTENDS Naturals

CONSTANTS Users, Burst, Rate, Cost

VARIABLE level

AtMost(n) == IF n <= Burst THEN n ELSE Burst

Init == level = [u \in Users |-> Burst]

Spend(u) ==
  /\ level[u] >= Cost
  /\ level' = [level EXCEPT ![u] = @ - Cost]

Refill == level' = [u \in Users |-> AtMost(level[u] + Rate)]

Next == Refill \/ \E u \in Users : Spend(u)

Spec == Init /\ [][Next]_level
=============================================================================
