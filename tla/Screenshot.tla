----------------------------- MODULE Screenshot -----------------------------
(***************************************************************************)
(* One screenshot read by the ladder, whatever the model answers.          *)
(***************************************************************************)
EXTENDS Ladder

VARIABLE st     \* the read in progress

(******************************** one image ********************************)

\* Prepare refuses what it cannot decode (ErrBadImage) before any call.
ReadInit == st \in {Fresh, [Fresh EXCEPT !.out = "bad"]}

Answer(a) ==
  /\ st.out = "reading"
  /\ st' \in After(st, a)

ReadNext == \E a \in Answers : Answer(a)

ReadSpec == ReadInit /\ [][ReadNext]_st

(******************************* properties ********************************)

ReadTypeOK == st \in ReadState

\* MaxCallsPerImage (3 * LadderRungs, the job's deadline is made of it) bounds
\* the calls one screenshot can cost: only one of the two ladders can restart.
CallsBounded == st.calls <= MaxCallsPerImage

\* Losing the slot count must not lose the rows: once the rows are read only the
\* end of the job keeps them from the draft.
RowsSurviveSlots == st.pass = "slots" => st.out \in {"reading", "read", "gone"}
=============================================================================
