------------------------------ MODULE Deadlines ------------------------------
(***************************************************************************)
(* Recognition with two history variables: where the time of a job's       *)
(* deadline goes.  The time of its calls is charged to the budget of the   *)
(* screenshot in flight, all other time (other jobs that hold the backend, *)
(* work outside it) is lost.                                               *)
(***************************************************************************)
EXTENDS Recognition

VARIABLES
  lost,    \* ticks of the deadline that passed outside the job's own calls
  own      \* what its calls have left of MaxImageBudget for this screenshot

timedVars == <<vars, lost, own>>

\* the deadline of the job comes nearer
Nearer(j) == runs[j] # None /\ runs'[j].left < runs[j].left

Began(j) == At(j, "next") /\ runs'[j].at = "ask"

Clocked ==
  /\ lost' = [j \in JobIds |->
       IF runs'[j] = None THEN 0
       ELSE IF Nearer(j) /\ ~ At(j, "call") THEN lost[j] + 1 ELSE lost[j]]
  /\ own' = [j \in JobIds |->
       IF runs'[j] = None \/ runs'[j].at \in {"spawn", "next"} THEN 0
       ELSE IF Began(j) THEN MaxImageBudget
       ELSE IF Nearer(j) /\ At(j, "call") THEN own[j] - 1 ELSE own[j]]

TimedInit == Init /\ lost = [j \in JobIds |-> 0] /\ own = [j \in JobIds |-> 0]
TimedNext == Next /\ Clocked
TimedSpec == TimedInit /\ [][TimedNext]_timedVars

\* "MaxImageBudget is the wall-clock budget for one image, derived", "job deadlines are
\* images x MaxImageBudget" (recognizer.go): whatever the model answers, the calls of
\* a screenshot never use its budget up, and the deadline leaves a screenshot all of
\* its budget but for the time the job lost outside its calls.
DeadlineCoversLadder ==
  \A j \in JobIds : At(j, "wait") \/ At(j, "call") =>
    own[j] > 0 /\ runs[j].left + lost[j] >= own[j]
==============================================================================
