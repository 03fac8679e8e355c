------------------------------ MODULE MCPerks -------------------------------
(***************************************************************************)
(* Two instances side by side, one of which runs: perks and windows that   *)
(* come and go under two calls at once, and the ledger of a pool and of a  *)
(* child window of it, with one call at a time.                            *)
(***************************************************************************)
EXTENDS PerkCounters

CONSTANTS u1, u2, c1, c2, n1, n2, k1, k2, q1, q2, g1, g2

VARIABLE scene

OwnerOf == [c \in Clients |-> IF c = c1 THEN u1 ELSE u2]

Tree   == INSTANCE Perks WITH
  MaxEvents <- 0, MaxSnapshots <- 0, Sizes <- {1}
Record == INSTANCE Perks WITH
  Users <- {u1}, Clients <- {c1}, Owner <- [c \in {c1} |-> u1], Names <- {n1},
  PerkIds <- {k1}, Goroutines <- {g1}

Race   == INSTANCE Perks WITH PerkIds <- {k1}

\* the perk, the pool and its child are there
RecordInit ==
  /\ perks = {[id |-> k1, client |-> c1, name |-> n1]}
  /\ quotas = {Opens(q1, k1, None, [start |-> 1, end |-> 2], 1),
               Opens(q2, k1, q1, [start |-> 2, end |-> 2], 1)}
  /\ events = {} /\ snapshots = {} /\ spent = {k1, q1, q2}
  /\ recorded = [events |-> 0, snapshots |-> 0]
  /\ calls = [g \in Goroutines |-> None]

ScenesInit ==
  \/ scene = "tree" /\ Init
  \/ scene = "record" /\ RecordInit

ScenesNext ==
  /\ \/ scene = "tree" /\ Tree!Next
     \/ scene = "record" /\ Record!Next /\ OneByOne
  /\ UNCHANGED scene

ScenesSpec == ScenesInit /\ [][ScenesNext]_<<vars, scene>>

\* the ledger alone, its calls interleaved
RaceSpec == (RecordInit /\ scene = "record") /\ [][Race!Next /\ UNCHANGED scene]_<<vars, scene>>

Symmetry == Permutations(PerkIds) \cup Permutations(QuotaIds) \cup Permutations(Goroutines)
              \cup Permutations(Names)
=============================================================================
