----------------------------- MODULE Recognition -----------------------------
(***************************************************************************)
(* Screenshot recognition (internal/cashback/recognize.go): the in-memory  *)
(* store of jobs, the goroutine that runs each job, and the one backend    *)
(* slot of the process (internal/vision).  The reading of one screenshot   *)
(* is the ladder of module Ladder.  Time passes in ticks; a timer is what  *)
(* is left of it, so that no clock needs a bound.                          *)
(***************************************************************************)
EXTENDS Ladder, Sequences, FiniteSets

CONSTANTS
  Users,
  JobIds,         \* uuids of the jobs of an instance; none comes twice
  Batches,        \* the lists of screenshots a request may name: sequences of
                  \* contents, equal bytes being equal, or Missing
  Missing,        \* a screenshot whose file is not on disk
  MaxImages,      \* maxRecognitionImages
  PerCallTimeout, \* in ticks
  TTL,            \* recognitionTTL, in ticks
  SlowLocal,      \* whether work outside the backend may take ticks
  None

ASSUME RecognitionAssumption ==
  /\ {MaxImages, PerCallTimeout} \subseteq Nat \ {0}
  /\ TTL \in Nat
  /\ SlowLocal \in BOOLEAN
  /\ None \notin JobIds
  /\ \A b \in Batches : Len(b) \in Nat /\ DOMAIN b = 1 .. Len(b)

VARIABLES
  jobs,     \* recognitionStore.jobs: a set of job records
  runs,     \* what the goroutine of each job is doing, None when there is none
  slot,     \* backendSem: the job whose call holds it, or None
  used      \* ids given out

vars == <<jobs, runs, slot, used>>

\* mutant: one of the two passes is forgotten
OnePassBudget == 2 * LadderRungs * PerCallTimeout

MaxImageBudget == MaxCallsPerImage * PerCallTimeout

Statuses == {"running", "done", "failed"}

\* age: ticks since updatedAt, counted up to the first that evicts
Job == [id : JobIds, user : Users, status : Statuses, done : Nat, total : Nat,
        image : Nat, pass : {"", "rows", "slots"}, attempt : Nat, reduced : BOOLEAN,
        age : 0 .. TTL + 1]

\* at: "spawn" before the go statement, "next" between two screenshots, "ask"
\* about to call, "wait" for the slot, "call" inside the backend.  left and
\* callLeft: what is left of the job's deadline and of the call's.
Run == [at : {"spawn", "next", "ask", "wait", "call"}, batch : Batches, image : Nat,
        seen : SUBSET UNION {{b[i] : i \in DOMAIN b} : b \in Batches},
        ladder : ReadState, left : Nat, callLeft : 0 .. PerCallTimeout]

ASSUME NoteAssumption == None \notin Run

Init ==
  /\ jobs = {}
  /\ runs = [j \in JobIds |-> None]
  /\ slot = None
  /\ used = {}

(****************************** the job store ******************************)

\* terminal jobs past their time; a running job is never evicted
Evicted(S) == {x \in S : x.status = "running" \/ x.age <= TTL}

JobOf(j) == {x \in jobs : x.id = j}

\* progress, phase, finish and fail: nothing when the job is gone
Update(j, S) == (jobs \ JobOf(j)) \cup {[x EXCEPT !.age = 0] : x \in S}

Busy(u, S) == \E x \in S : x.user = u /\ x.status = "running"

\* start, called once the request is validated: eviction, the one running job
\* per user, the new job
StartRecognition ==
  \E u \in Users, j \in JobIds \ used, batch \in Batches :
    /\ Len(batch) \in 1 .. MaxImages
    /\ IF Busy(u, Evicted(jobs))
       THEN jobs' = Evicted(jobs) /\ UNCHANGED <<runs, used>>
       ELSE /\ jobs' = Evicted(jobs) \cup
                 {[id |-> j, user |-> u, status |-> "running", done |-> 0,
                   total |-> Len(batch), image |-> 0, pass |-> "", attempt |-> 0,
                   reduced |-> FALSE, age |-> 0]}
            /\ runs' = [runs EXCEPT ![j] =
                 [at |-> "spawn", batch |-> batch, image |-> 0, seen |-> {},
                  ladder |-> Fresh, left |-> 0, callLeft |-> 0]]
            /\ used' = used \cup {j}
    /\ UNCHANGED slot

\* GetRecognition, whatever job it asks for: the lookup evicts first
GetRecognition ==
  /\ jobs' = Evicted(jobs)
  /\ UNCHANGED <<runs, slot, used>>

(************************* the goroutine of one job ************************)

At(j, s) == runs[j] # None /\ runs[j].at = s

Finished(x) == [x EXCEPT !.status = "done", !.done = x.total, !.image = 0, !.pass = "",
                         !.attempt = 0, !.reduced = FALSE]

Failed(x) == [x EXCEPT !.status = "failed"]

\* mutant: the goroutine ends without a word to the store
EndSilently(j, S) ==
  /\ jobs' = jobs
  /\ runs' = [runs EXCEPT ![j] = None]

\* the goroutine ends and leaves the store as S
End(j, S) ==
  /\ jobs' = S
  /\ runs' = [runs EXCEPT ![j] = None]

\* the go statement, after the read of the other banks' names; the deadline of
\* the job starts here
Spawn(j) ==
  /\ At(j, "spawn")
  /\ runs' = [runs EXCEPT ![j].at = "next",
                          ![j].left = Len(runs[j].batch) * MaxImageBudget]
  /\ UNCHANGED <<jobs, slot, used>>

\* mutant: the number of the screenshot before it
AdvanceLate(j) ==
  /\ jobs' = Update(j, {[x EXCEPT !.done = runs[j].image] : x \in JobOf(j)})
  /\ runs' = [runs EXCEPT ![j].at = "next", ![j].image = @ + 1]

\* one screenshot is behind: the progress call, and on to the next
Advance(j) ==
  /\ jobs' = Update(j, {[x EXCEPT !.done = runs[j].image + 1] : x \in JobOf(j)})
  /\ runs' = [runs EXCEPT ![j].at = "next", ![j].image = @ + 1]

HasNext(j) == runs[j].image < Len(runs[j].batch)
Raw(j)     == runs[j].batch[runs[j].image + 1]

\* a missing file, or the bytes of an earlier screenshot: skipped with a note
SkipImage(j) ==
  /\ At(j, "next") /\ HasNext(j)
  /\ Raw(j) \in runs[j].seen \cup {Missing}
  /\ Advance(j)
  /\ UNCHANGED <<slot, used>>

\* new bytes: Read prepares them and turns to the model, or cannot decode them
BeginImage(j) ==
  /\ At(j, "next") /\ HasNext(j)
  /\ Raw(j) \notin runs[j].seen \cup {Missing}
  /\ \E bad \in BOOLEAN :
       runs' = [runs EXCEPT ![j].at = "ask", ![j].seen = @ \cup {Raw(j)},
                  ![j].ladder = IF bad THEN [Fresh EXCEPT !.out = "bad"] ELSE Fresh]
  /\ UNCHANGED <<jobs, slot, used>>

\* OnProgress, before every call
Report(j) ==
  /\ At(j, "ask") /\ runs[j].ladder.out = "reading"
  /\ LET l == runs[j].ladder IN
     jobs' = Update(j, {[x EXCEPT !.image = runs[j].image + 1, !.pass = l.pass,
                                  !.attempt = l.rung, !.reduced = l.shrunk] : x \in JobOf(j)})
  /\ runs' = [runs EXCEPT ![j].at = "wait"]
  /\ UNCHANGED <<slot, used>>

\* complete: the slot, or the end of the job's context, whichever is first; at
\* the same instant select may take either
Acquire(j) ==
  /\ At(j, "wait") /\ slot = None
  /\ slot' = j
  /\ runs' = [runs EXCEPT ![j].at = "call", ![j].callLeft = PerCallTimeout]
  /\ UNCHANGED <<jobs, used>>

\* What the call can return now: its own deadline only when it is over, the
\* job's likewise, an answer of the backend until then.
Possible(j) ==
  IF runs[j].left = 0 THEN {"gone"}
  ELSE IF runs[j].callLeft = 0 THEN {"timeout"}
  ELSE Answers \ {"gone", "timeout"}

Release(j) == slot' = IF slot = j THEN None ELSE slot

Answered(j) ==
  /\ At(j, "call") \/ (At(j, "wait") /\ runs[j].left = 0)
  /\ \E a \in Possible(j) : \E s \in After(runs[j].ladder, a) :
       runs' = [runs EXCEPT ![j].at = "ask", ![j].ladder = s]
  /\ Release(j)
  /\ UNCHANGED <<jobs, used>>

\* mutant: the return after the failure is missing
EndImageGoesOn(j) ==
  /\ At(j, "ask") /\ runs[j].ladder.out # "reading"
  /\ IF runs[j].ladder.out \in {"read", "bad"} THEN Advance(j)
     ELSE /\ jobs' = Update(j, {Failed(x) : x \in JobOf(j)})
          /\ runs' = [runs EXCEPT ![j].at = "next", ![j].image = @ + 1]
  /\ UNCHANGED <<slot, used>>

\* a reading or an undecodable image goes into the draft, any other end of a
\* read fails the whole job
InDraft(out) == out \in {"read", "bad"}

EndImage(j) ==
  /\ At(j, "ask") /\ runs[j].ladder.out # "reading"
  /\ IF InDraft(runs[j].ladder.out) THEN Advance(j)
     ELSE End(j, Update(j, {Failed(x) : x \in JobOf(j)}))
  /\ UNCHANGED <<slot, used>>

FinishJob(j) ==
  /\ At(j, "next") /\ ~ HasNext(j)
  /\ End(j, Update(j, {Finished(x) : x \in JobOf(j)}))
  /\ UNCHANGED <<slot, used>>

\* a panic below (image decoders, the draft) is recovered into a failed job; the
\* deferred release gives the slot back
Panic(j) ==
  /\ runs[j] # None /\ runs[j].at # "spawn"
  /\ End(j, Update(j, {Failed(x) : x \in JobOf(j)}))
  /\ Release(j)
  /\ UNCHANGED used

(****************************** time, restarts *****************************)

\* A goroutine that can move without the backend.
Ready(j) == At(j, "spawn") \/ At(j, "next") \/ At(j, "ask")
              \/ (At(j, "wait") /\ (slot = None \/ runs[j].left = 0))
\* A timer that is due.
Due(j) == \/ At(j, "wait") /\ runs[j].left = 0
          \/ At(j, "call") /\ 0 \in {runs[j].left, runs[j].callLeft}

Less(n) == IF n = 0 THEN 0 ELSE n - 1

Tick ==
  /\ \A j \in JobIds : ~ Due(j) /\ (SlowLocal \/ ~ Ready(j))
  /\ jobs' = {[x EXCEPT !.age = IF @ > TTL THEN @ ELSE @ + 1] : x \in jobs}
  /\ runs' = [j \in JobIds |->
       IF runs[j] = None \/ At(j, "spawn") THEN runs[j]
       ELSE [runs[j] EXCEPT !.left = Less(@), !.callLeft = IF At(j, "call") THEN Less(@) ELSE @]]
  /\ UNCHANGED <<slot, used>>

\* the process restarts: everything here lives in memory
Restart ==
  /\ jobs # {}
  /\ jobs' = {} /\ runs' = [j \in JobIds |-> None] /\ slot' = None
  /\ UNCHANGED used

\* Goroutines run, a free slot is taken, a due timer fires and time passes;
\* nobody has to poll, and the backend does not have to answer.
Local(j) == Spawn(j) \/ SkipImage(j) \/ BeginImage(j) \/ Report(j) \/ Acquire(j)
              \/ EndImage(j) \/ FinishJob(j)
TimerFires(j) == Due(j) /\ Answered(j)

Next ==
  \/ StartRecognition \/ GetRecognition \/ Tick \/ Restart
  \/ \E j \in JobIds : Local(j) \/ Answered(j) \/ Panic(j)

Fairness ==
  /\ WF_vars(Tick)
  /\ \A j \in JobIds : WF_vars(Local(j)) /\ WF_vars(TimerFires(j))

Spec == Init /\ [][Next]_vars /\ Fairness

(******************************* properties ********************************)

TypeOK ==
  /\ jobs \subseteq Job
  /\ runs \in [JobIds -> Run \cup {None}]
  /\ slot \in JobIds \cup {None}
  /\ used \subseteq JobIds

Running(j) == \E x \in jobs : x.id = j /\ x.status = "running"

\* A job says "running" exactly while its goroutine exists: eviction never takes
\* a job from under its goroutine, and no way out of runRecognition, the panic
\* included, leaves a job behind that would keep its user busy for ever.
RunningHasGoroutine == \A j \in JobIds : Running(j) <=> runs[j] # None

\* ErrRecognitionBusy: recognition goes to one backend, so a user has one
\* goroutine at a time, counted where the work is done and not in the store.
OneGoroutinePerUser ==
  \A j, k \in JobIds : \A x, y \in jobs :
    x.id = j /\ y.id = k /\ runs[j] # None /\ runs[k] # None /\ x.user = y.user => j = k

\* backendSem (one 6 GB card): no two calls of the process are in the backend at
\* the same time, and a slot nobody calls with is free.
OneCallAtATime == \A j \in JobIds : At(j, "call") <=> slot = j

\* The store, the goroutines and the slot are in step, whatever ends a job.
StoreInStep == TypeOK /\ RunningHasGoroutine /\ OneGoroutinePerUser /\ OneCallAtATime

\* The poll fields agree with the work: done counts screenshots behind the
\* goroutine, image names the one in flight.
PollMatchesWork ==
  \A x \in jobs : runs[x.id] # None =>
    /\ x.done = runs[x.id].image
    /\ x.image \in 0 .. x.total
    /\ At(x.id, "call") => x.image = x.done + 1 /\ x.attempt = runs[x.id].ladder.rung

\* What a client has polled is never taken back: a job that ended stays as it is
\* until it is evicted, and one that runs only moves forward.
EndedIsFinal ==
  [][\A x \in jobs, y \in jobs' : x.id = y.id =>
       /\ x.status # "running" => [y EXCEPT !.age = 0] = [x EXCEPT !.age = 0]
       /\ x.done <= y.done]_vars

\* A draft needs the whole batch: a job is only done after every screenshot was
\* read or skipped for a reason that is the screenshot's own.
DoneMeansAllRead ==
  [][\A x \in jobs, y \in jobs' :
       x.id = y.id /\ x.status = "running" /\ y.status = "done"
         => x.done = x.total /\ runs[x.id].ladder.out \in {"reading", "read", "bad"}]_vars

\* An end is final, and a good one means that the whole batch was read.
EndsStand == EndedIsFinal /\ DoneMeansAllRead

\* What a goroutine does with one screenshot is a read of module Screenshot: it
\* begins fresh, when the goroutine turns to new bytes, and goes on only by answers
\* to its own calls, whatever else polls, ends, panics or ticks; so what that module
\* promises of a read holds of every read of every job.
ReadOf(j) == INSTANCE Screenshot WITH st <- runs[j].ladder

ReadsMove ==
  [][\A j \in JobIds : runs[j] # None /\ runs'[j] # None =>
       \/ runs'[j].ladder = runs[j].ladder
       \/ At(j, "next") /\ At(j, "ask")' /\ ReadOf(j)!ReadInit'
       \/ (At(j, "wait") \/ At(j, "call")) /\ ReadOf(j)!ReadNext]_vars

ReadsSafe ==
  \A j \in JobIds : runs[j] # None =>
    ReadOf(j)!ReadTypeOK /\ ReadOf(j)!CallsBounded /\ ReadOf(j)!RowsSurviveSlots

\* Every job ends: the user is never locked out by a backend that hangs.
JobsEnd == \A j \in JobIds : Running(j) ~> ~ Running(j)
=============================================================================
