-------------------------------- MODULE Mcc ---------------------------------
(***************************************************************************)
(* The MCC module as one (internal/mcc, internal/admin): documents and     *)
(* scrapes are imported, submissions are judged and the operator edits, on *)
(* one dictionary, statement by statement.                                 *)
(***************************************************************************)
EXTENDS Snapshots, Points

mccVars == <<vars, roles, spent, req>>

MccInit == Init /\ PointInit

MccNext ==
  \/ Next /\ UNCHANGED <<roles, spent, req>>
  \/ PointNext /\ UNCHANGED <<exclusions, journal, runs>>

MccSpec == MccInit /\ [][MccNext]_mccVars

(***************************************************************************)
(* With a history variable: whether the tables were written by the         *)
(* imports alone, no two of which were under way at once.                  *)
(***************************************************************************)
VARIABLE straight

straightVars == <<mccVars, straight>>

\* an edit of links or of the journal by hand is a step of no import
Kept == straight' = (/\ straight /\ OneAtATime'
                     /\ runs' # runs \/ UNCHANGED <<membership, exclusions, journal>>)

StraightInit == MccInit /\ straight = TRUE
StraightNext == MccNext /\ Kept
StraightSpec == StraightInit /\ [][StraightNext]_straightVars

\* The journal tells what the tables hold, through submissions, verdicts, scrapes and
\* edits of the dictionary, as long as imports do not overlap and nobody edits links
\* or the journal by hand, which is journaled by nobody.
JournalTrue == straight => JournalTellsState

\* The values the tables and the notes hold, and the keys between the tables:
\* a code is deleted, linked, submitted and imported at the same time.
MccTypeOK == TypeOK /\ PointTypeOK
=============================================================================
