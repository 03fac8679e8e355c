-------------------------- MODULE RecognitionProofs -------------------------
(***************************************************************************)
(* The store of jobs, their goroutines and the backend slot stay in step   *)
(* for any number of users and jobs; a screenshot costs a bounded number   *)
(* of calls whatever the model answers; the deadline of a job covers them  *)
(* but for the time lost elsewhere, for a ladder of any length and calls   *)
(* of any timeout; and the draft tells what was read, in whatever order,   *)
(* for any number of images and any screens.                               *)
(***************************************************************************)
EXTENDS Deadlines, Screenshot, Draft, FiniteSetTheorems, SequenceTheorems,
        WellFoundedInduction, TLAPS

(************************* one screenshot's calls **************************)

\* Calls made before the rung the read stands on: one clean ladder for each pass
\* behind it, one more for the shrink.
Behind(s) == (IF s.pass = "slots" THEN LadderRungs ELSE 0)
               + (IF s.shrunk THEN LadderRungs ELSE 0)

\* While the read goes on, its calls are those of the ladders behind it and of
\* the rungs below the one it stands on; the last answer may add one more.
Paid(s) == s.calls <= Behind(s) + s.rung - (IF s.out = "reading" THEN 1 ELSE 0)

IInv == ReadTypeOK /\ Paid(st)

\* One answer keeps the type and the account of the calls.
LEMMA AnswerPays ==
  ASSUME NEW s \in ReadState, s.out = "reading", Paid(s), NEW a \in Answers,
         NEW t \in After(s, a)
  PROVE  t \in ReadState /\ Paid(t)
<1> DEFINE c == [s EXCEPT !.calls = s.calls + 1]
<1>1. /\ c \in ReadState /\ c.calls = s.calls + 1 /\ c.out = "reading"
      /\ c.pass = s.pass /\ c.rung = s.rung /\ c.shrunk = s.shrunk
  BY DEF ReadState
<1>0. 1 \in 1 .. LadderRungs
  BY RungsAssumption
<1>2. s.calls + 1 <= Behind(s) + s.rung /\ Behind(c) = Behind(s)
  BY <1>1, RungsAssumption DEF Paid, Behind, ReadState
<1> HIDE DEF c
<1>3. ASSUME NEW o \in Outcomes \ {"reading"}, t = [c EXCEPT !.out = o]
      PROVE  t \in ReadState /\ Paid(t)
  <2>1. t \in ReadState
    BY <1>1, <1>3 DEF ReadState
  <2>2. /\ t.calls = s.calls + 1 /\ t.rung = s.rung /\ t.pass = s.pass
        /\ Behind(t) = Behind(s) /\ t.out # "reading"
    BY <1>1, <1>3 DEF ReadState, Behind
  <2>3. QED
    BY <2>1, <2>2, <1>2, RungsAssumption DEF Paid, Behind, ReadState
<1>4. ASSUME NEW e \in Outcomes \ {"reading"}, t = PassFailed(c, e)
      PROVE  t \in ReadState /\ Paid(t)
  BY <1>3, <1>4 DEF PassFailed, Outcomes
<1>5. CASE a = "json" /\ s.pass = "rows" /\ t = [c EXCEPT !.pass = "slots", !.rung = 1]
  <2>1. t \in ReadState /\ t.pass = "slots" /\ t.rung = 1 /\ t.calls = s.calls + 1
          /\ t.shrunk = s.shrunk /\ t.out = "reading"
    BY <1>1, <1>0, <1>5 DEF ReadState
  <2>2. QED
    BY <2>1, <1>2, <1>5, RungsAssumption DEF Paid, Behind, ReadState
<1>6. CASE a = "json" /\ t = [c EXCEPT !.out = "read"]
  BY <1>3, <1>6 DEF Outcomes
<1>7. CASE a = "prose" /\ s.rung < LadderRungs /\ t = [c EXCEPT !.rung = s.rung + 1]
  <2>1. t \in ReadState /\ t.pass = s.pass /\ t.rung = s.rung + 1 /\ t.calls = s.calls + 1
          /\ t.shrunk = s.shrunk /\ t.out = "reading"
    BY <1>1, <1>7, RungsAssumption DEF ReadState
  <2>2. QED
    BY <2>1, <1>2, RungsAssumption DEF Paid, Behind, ReadState
<1>8. CASE a = "oom" /\ ~ s.shrunk /\ t = Shrink(c)
  <2>1. t \in ReadState /\ t.pass = s.pass /\ t.rung = 1 /\ t.calls = s.calls + 1
          /\ t.shrunk = TRUE /\ t.out = "reading"
    BY <1>1, <1>0, <1>8 DEF ReadState, Shrink
  <2>2. s.rung <= LadderRungs /\ s.rung \in Nat /\ s.calls \in Nat
    BY RungsAssumption DEF ReadState
  <2>3. QED
    BY <2>1, <2>2, <1>2, <1>8, RungsAssumption DEF Paid, Behind
<1>9. CASE \E e \in Outcomes \ {"reading"} : t = PassFailed(c, e)
  BY <1>4, <1>9
<1>10. \/ a = "json" /\ s.pass = "rows" /\ t = [c EXCEPT !.pass = "slots", !.rung = 1]
       \/ a = "json" /\ t = [c EXCEPT !.out = "read"]
       \/ a = "prose" /\ s.rung < LadderRungs /\ t = [c EXCEPT !.rung = s.rung + 1]
       \/ a = "oom" /\ ~ s.shrunk /\ t = Shrink(c)
       \/ \E e \in Outcomes \ {"reading"} : t = PassFailed(c, e)
  BY DEF After, c, Answers, Outcomes, ReadState
<1>11. QED
  BY <1>5, <1>6, <1>7, <1>8, <1>9, <1>10

\* A read, whatever is answered, keeps the account of its calls.
THEOREM CallsPaid == ReadSpec => []IInv
<1>1. ReadInit => IInv
  <2>1. Fresh \in ReadState
    BY RungsAssumption DEF Fresh, ReadState, Outcomes
  <2>2. \A o \in Outcomes : [Fresh EXCEPT !.out = o] \in ReadState
    BY <2>1 DEF ReadState
  <2>3. Paid(Fresh) /\ Paid([Fresh EXCEPT !.out = "bad"])
    BY RungsAssumption DEF Fresh, Paid, Behind
  <2>4. QED
    BY <2>1, <2>2, <2>3 DEF ReadInit, IInv, ReadTypeOK, Outcomes
<1>2. IInv /\ [ReadNext]_st => IInv'
  <2> SUFFICES ASSUME IInv, [ReadNext]_st PROVE IInv'
    OBVIOUS
  <2>1. ASSUME NEW a \in Answers, Answer(a) PROVE IInv'
    <3>1. st \in ReadState /\ Paid(st) /\ st.out = "reading" /\ st' \in After(st, a)
      BY <2>1 DEF IInv, ReadTypeOK, Answer
    <3>2. st' \in ReadState /\ Paid(st')
      BY <3>1, AnswerPays
    <3>3. QED
      BY <3>2 DEF IInv, ReadTypeOK, Paid, Behind, ReadState
  <2>2. CASE UNCHANGED st
    BY <2>2 DEF IInv, ReadTypeOK, Paid, Behind, ReadState
  <2>3. QED
    BY <2>1, <2>2 DEF ReadNext
<1>3. QED
  BY <1>1, <1>2, PTL DEF ReadSpec

\* MaxCallsPerImage = 3 * LadderRungs covers every read: the worst is one clean
\* pass and one that is shrunk at its last rung and walks the ladder again.
THEOREM CallsAreBounded == ReadSpec => []CallsBounded
<1>1. IInv => CallsBounded
  BY RungsAssumption
  DEF IInv, ReadTypeOK, ReadState, Paid, Behind, CallsBounded, MaxCallsPerImage
<1>2. QED
  BY <1>1, CallsPaid, PTL

\* Once the rows are read no answer to the slot pass loses them, only the end of
\* the job does.
THEOREM RowsAlwaysSurvive == ReadSpec => []RowsSurviveSlots
<1>1. ReadInit => RowsSurviveSlots
  BY DEF ReadInit, Fresh, RowsSurviveSlots
<1>2. IInv /\ RowsSurviveSlots /\ [ReadNext]_st => RowsSurviveSlots'
  <2> SUFFICES ASSUME IInv, RowsSurviveSlots, [ReadNext]_st PROVE RowsSurviveSlots'
    OBVIOUS
  <2>1. ASSUME NEW a \in Answers, st.out = "reading", st' \in After(st, a)
        PROVE  RowsSurviveSlots'
    <3>1. CASE st.pass = "slots"
      BY <2>1, <3>1 DEF After, PassFailed, Shrink, IInv, ReadTypeOK, ReadState,
                        RowsSurviveSlots, Answers
    <3>2. CASE st.pass # "slots"
      BY <2>1, <3>2 DEF After, PassFailed, Shrink, IInv, ReadTypeOK, ReadState,
                        RowsSurviveSlots, Answers
    <3>3. QED
      BY <3>1, <3>2
  <2>2. QED
    BY <2>1 DEF ReadNext, Answer, RowsSurviveSlots
<1>3. QED
  BY <1>1, <1>2, CallsPaid, PTL DEF ReadSpec

(****************************** the invariant ******************************)

\* What a running job x says of its goroutine r: where it is in the batch, which
\* rung is being tried; and that it goes on only after a screenshot that was
\* read, or that cannot be.
Fits(x, r) ==
  /\ x.status = "running"
  /\ x.total = Len(r.batch) /\ x.done = r.image /\ x.image <= x.total
  /\ IF r.at \in {"spawn", "next"}
     THEN r.image <= Len(r.batch) /\ r.ladder.out \in {"reading", "read", "bad"}
     ELSE r.image + 1 <= Len(r.batch)
  /\ r.at \in {"wait", "call"} =>
       /\ x.image = x.done + 1 /\ x.attempt = r.ladder.rung
       /\ r.ladder.out = "reading"

\* An id stands for one job, and one that was never given out for none.
IdsOnce ==
  /\ \A x, y \in jobs : x.id = y.id => x = y
  /\ \A x \in jobs : x.id \in used
  /\ \A j \in JobIds : runs[j] # None => \E x \in jobs : x.id = j

\* A job runs exactly while its goroutine exists, and then fits it.
JobsFit ==
  \A x \in jobs :
    IF runs[x.id] = None THEN x.status # "running" ELSE Fits(x, runs[x.id])

\* The store admits one running job of a user.
OneRunning ==
  \A x, y \in jobs :
    x.status = "running" /\ y.status = "running" /\ x.user = y.user => x = y

\* The calls of the screenshot in flight are those of the rungs behind it.
CallsPaidFor == \A j \in JobIds : runs[j] # None => Paid(runs[j].ladder)

RecInv ==
  TypeOK /\ IdsOnce /\ JobsFit /\ OneRunning /\ OneCallAtATime /\ CallsPaidFor

LEMMA FreshRead ==
  /\ Fresh \in ReadState /\ Paid(Fresh)
  /\ [Fresh EXCEPT !.out = "bad"] \in ReadState /\ Paid([Fresh EXCEPT !.out = "bad"])
<1>1. Fresh \in ReadState
  BY RungsAssumption DEF Fresh, ReadState, Outcomes
<1>2. [Fresh EXCEPT !.out = "bad"] \in ReadState
  BY <1>1 DEF ReadState, Outcomes
<1>3. Paid(Fresh) /\ Paid([Fresh EXCEPT !.out = "bad"])
  BY RungsAssumption DEF Fresh, Paid, Behind
<1>4. QED
  BY <1>1, <1>2, <1>3

LEMMA Products == \A m, n \in Nat : m * n \in Nat
OBVIOUS

LEMMA BudgetType == MaxImageBudget \in Nat
<1>1. MaxCallsPerImage \in Nat /\ PerCallTimeout \in Nat
  BY RungsAssumption, RecognitionAssumption DEF MaxCallsPerImage
<1>2. QED
  BY <1>1, Products DEF MaxImageBudget

LEMMA Young == 0 \in 0 .. TTL + 1
BY RecognitionAssumption

\* A goroutine has its one job, which runs.
LEMMA JobOfRun ==
  ASSUME RecInv, NEW j \in JobIds, runs[j] # None
  PROVE  \E x \in jobs : x.id = j /\ JobOf(j) = {x} /\ x \in Job /\ Fits(x, runs[j])
BY DEF RecInv, IdsOnce, JobsFit, JobOf, TypeOK

\* What a step of one goroutine keeps, once its job and its note fit again.
LEMMA Replaced ==
  ASSUME RecInv, NEW x \in jobs, runs[x.id] # None,
         NEW y \in Job, y.id = x.id, y.user = x.user,
         NEW r \in Run \cup {None},
         IF r = None THEN y.status # "running" ELSE Fits(y, r) /\ Paid(r.ladder),
         jobs' = (jobs \ {x}) \cup {y}, runs' = [runs EXCEPT ![x.id] = r], used' = used,
         slot' \in JobIds \cup {None},
         \A j \in JobIds : At(j, "call")' <=> slot' = j
  PROVE  RecInv'
<1>1. x.id \in JobIds /\ runs' \in [JobIds -> Run \cup {None}] /\ runs'[x.id] = r
      /\ \A j \in JobIds \ {x.id} : runs'[j] = runs[j]
  BY DEF RecInv, TypeOK, Job
<1>2. TypeOK'
  BY <1>1 DEF RecInv, TypeOK
<1>3. IdsOnce'
  BY <1>1 DEF RecInv, IdsOnce
<1>4. JobsFit'
  <2> SUFFICES ASSUME NEW z \in jobs'
               PROVE  IF runs'[z.id] = None THEN z.status # "running" ELSE Fits(z, runs'[z.id])
    BY DEF JobsFit, Fits
  <2>1. CASE z = y
    BY <1>1, <2>1
  <2>2. CASE z # y
    <3>1. z \in jobs /\ z.id # x.id /\ z.id \in JobIds
      BY <2>2 DEF RecInv, IdsOnce, TypeOK, Job
    <3>2. QED
      BY <3>1, <1>1 DEF RecInv, JobsFit
  <2>3. QED
    BY <2>1, <2>2
<1>5. OneRunning'
  <2>1. x.status = "running"
    BY DEF RecInv, JobsFit, Fits
  <2>2. QED
    BY <2>1 DEF RecInv, OneRunning
<1>6. OneCallAtATime'
  BY DEF OneCallAtATime
<1>7. CallsPaidFor'
  BY <1>1 DEF RecInv, CallsPaidFor, Paid, Behind
<1>8. QED
  BY <1>2, <1>3, <1>4, <1>5, <1>6, <1>7 DEF RecInv

(********************************* the steps *******************************)

LEMMA InitFits == Init => RecInv
<1>1. Init => TypeOK /\ OneCallAtATime
  BY RecognitionAssumption DEF Init, TypeOK, OneCallAtATime, At
<1>2. QED
  BY <1>1 DEF Init, RecInv, IdsOnce, JobsFit, OneRunning, CallsPaidFor

\* A note that only moves on.
LEMMA SpawnStep == ASSUME RecInv, NEW j \in JobIds, Spawn(j) PROVE RecInv'
<1>1. PICK x \in jobs : x.id = j /\ x \in Job /\ Fits(x, runs[j])
  BY JobOfRun DEF Spawn, At
<1> DEFINE r == [runs[j] EXCEPT !.at = "next", !.left = Len(runs[j].batch) * MaxImageBudget]
<1>2. runs[j] \in Run /\ runs[j] # None /\ runs[j].at = "spawn" /\ Paid(runs[j].ladder)
  BY DEF Spawn, At, RecInv, TypeOK, CallsPaidFor
<1>3. Len(runs[j].batch) * MaxImageBudget \in Nat
  <2>1. Len(runs[j].batch) \in Nat
    BY <1>2, RecognitionAssumption DEF Run
  <2>2. QED
    BY <2>1, BudgetType, Products
<1>4. r \in Run /\ r.at = "next" /\ Fits(x, r) /\ Paid(r.ladder)
  BY <1>1, <1>2, <1>3 DEF Run, Fits
<1>5. runs' = [runs EXCEPT ![x.id] = r] /\ jobs' = (jobs \ {x}) \cup {x}
  BY <1>1 DEF Spawn
<1> HIDE DEF r
<1>6. \A k \in JobIds : At(k, "call")' <=> slot' = k
  BY <1>1, <1>2, <1>4, <1>5, NoteAssumption DEF Spawn, At, RecInv, TypeOK, OneCallAtATime
<1>7. QED
  BY <1>1, <1>2, <1>4, <1>5, <1>6, NoteAssumption, Replaced DEF Spawn, RecInv, TypeOK

\* What a screenshot that is behind leaves in the store and in the note.
LEMMA AdvanceStep ==
  ASSUME RecInv, NEW j \in JobIds, runs[j] # None, runs[j].at \in {"next", "ask"},
         HasNext(j), runs[j].ladder.out \in {"reading", "read", "bad"},
         Advance(j), UNCHANGED <<slot, used>>
  PROVE  RecInv'
<1>1. PICK x \in jobs : x.id = j /\ JobOf(j) = {x} /\ x \in Job /\ Fits(x, runs[j])
  BY JobOfRun
<1> DEFINE n == runs[j].image + 1
           r == [runs[j] EXCEPT !.at = "next", !.image = n]
           y == [x EXCEPT !.done = n, !.age = 0]
<1>2. runs[j] \in Run /\ Paid(runs[j].ladder) /\ Len(runs[j].batch) \in Nat
  BY RecognitionAssumption DEF RecInv, TypeOK, CallsPaidFor, Run
<1>0. n \in Nat /\ n = runs[j].image + 1 /\ n <= Len(runs[j].batch)
  BY <1>2 DEF Run, HasNext
<1>5. runs' = [runs EXCEPT ![x.id] = r]
  BY <1>1, <1>2 DEF Advance
<1>6. jobs' = (jobs \ {x}) \cup {y}
  <2>1. {[z EXCEPT !.done = n] : z \in JobOf(j)} = {[x EXCEPT !.done = n]}
    BY <1>1
  <2>2. Update(j, {[x EXCEPT !.done = n]})
          = (jobs \ {x}) \cup {[[x EXCEPT !.done = n] EXCEPT !.age = 0]}
    BY <1>1 DEF Update
  <2>3. [[x EXCEPT !.done = n] EXCEPT !.age = 0] = y
    BY <1>1 DEF Job
  <2>4. QED
    BY <2>1, <2>2, <2>3 DEF Advance
<1> HIDE DEF n
<1>3. r \in Run /\ r.at = "next" /\ Paid(r.ladder) /\ r.image = n
      /\ r.batch = runs[j].batch /\ r.ladder = runs[j].ladder
  BY <1>0, <1>2 DEF Run
<1>4. y \in Job /\ y.id = x.id /\ y.user = x.user /\ y.status = x.status
      /\ y.total = x.total /\ y.image = x.image /\ y.done = n
  BY <1>0, <1>1, Young DEF Job
<1> HIDE DEF r, y
<1>7. Fits(y, r)
  BY <1>0, <1>1, <1>3, <1>4 DEF Fits, Job
<1>8. \A k \in JobIds : At(k, "call")' <=> slot' = k
  BY <1>1, <1>2, <1>3, <1>5, NoteAssumption DEF At, RecInv, TypeOK, OneCallAtATime
<1>9. QED
  BY <1>1, <1>2, <1>3, <1>4, <1>5, <1>6, <1>7, <1>8, NoteAssumption, Replaced DEF RecInv, TypeOK

LEMMA SkipStep == ASSUME RecInv, NEW j \in JobIds, SkipImage(j) PROVE RecInv'
<1>1. PICK x \in jobs : Fits(x, runs[j])
  BY JobOfRun DEF SkipImage, At
<1>2. QED
  BY <1>1, AdvanceStep DEF SkipImage, At, Fits

LEMMA BeginStep == ASSUME RecInv, NEW j \in JobIds, BeginImage(j) PROVE RecInv'
<1>1. PICK x \in jobs : x.id = j /\ x \in Job /\ Fits(x, runs[j])
  BY JobOfRun DEF BeginImage, At
<1>2. PICK l \in {Fresh, [Fresh EXCEPT !.out = "bad"]} :
        runs' = [runs EXCEPT ![j] = [runs[j] EXCEPT
                   !.at = "ask", !.seen = @ \cup {Raw(j)}, !.ladder = l]]
  BY DEF BeginImage, RecInv, TypeOK
<1> DEFINE r == [runs[j] EXCEPT !.at = "ask", !.seen = @ \cup {Raw(j)}, !.ladder = l]
<1>3. runs[j] \in Run /\ runs[j] # None /\ runs[j].at = "next"
      /\ Len(runs[j].batch) \in Nat /\ DOMAIN runs[j].batch = 1 .. Len(runs[j].batch)
  BY RecognitionAssumption DEF BeginImage, At, RecInv, TypeOK, Run
<1>4. Raw(j) \in UNION {{b[i] : i \in DOMAIN b} : b \in Batches}
  <2>1. runs[j].image + 1 \in DOMAIN runs[j].batch /\ runs[j].batch \in Batches
    BY <1>3 DEF BeginImage, HasNext, Run
  <2>2. QED
    BY <2>1 DEF Raw
<1>5. l \in ReadState /\ Paid(l)
  BY FreshRead
<1>6. r \in Run /\ r.at = "ask" /\ r.ladder = l /\ r.image = runs[j].image
      /\ r.batch = runs[j].batch
  BY <1>3, <1>4, <1>5 DEF Run
<1>7. runs' = [runs EXCEPT ![x.id] = r] /\ jobs' = (jobs \ {x}) \cup {x}
  <2>1. jobs' = jobs
    BY DEF BeginImage
  <2>2. QED
    BY <1>1, <1>2, <2>1
<1> HIDE DEF r
<1>8. Fits(x, r)
  BY <1>1, <1>3, <1>6 DEF Fits, BeginImage, HasNext, Run
<1>9. \A k \in JobIds : At(k, "call")' <=> slot' = k
  BY <1>1, <1>3, <1>6, <1>7, NoteAssumption DEF BeginImage, At, RecInv, TypeOK, OneCallAtATime
<1>10. QED
  BY <1>1, <1>3, <1>5, <1>6, <1>7, <1>8, <1>9, NoteAssumption, Replaced
     DEF BeginImage, RecInv, TypeOK

LEMMA ReportStep == ASSUME RecInv, NEW j \in JobIds, Report(j) PROVE RecInv'
<1>1. PICK x \in jobs : x.id = j /\ JobOf(j) = {x} /\ x \in Job /\ Fits(x, runs[j])
  BY JobOfRun DEF Report, At
<1> DEFINE l == runs[j].ladder
           n == runs[j].image + 1
           p == [x EXCEPT !.image = n, !.pass = l.pass, !.attempt = l.rung,
                          !.reduced = l.shrunk]
           r == [runs[j] EXCEPT !.at = "wait"]
           y == [p EXCEPT !.age = 0]
<1>2. runs[j] \in Run /\ Paid(l) /\ l.out = "reading" /\ runs[j].at = "ask" /\ l \in ReadState
  BY DEF Report, At, RecInv, TypeOK, CallsPaidFor, Run
<1>3. /\ n \in Nat /\ n = runs[j].image + 1
      /\ l.pass \in {"", "rows", "slots"} /\ l.rung \in Nat /\ l.shrunk \in BOOLEAN
  <2>1. n \in Nat /\ n = runs[j].image + 1
    BY <1>2 DEF Run
  <2> HIDE DEF l
  <2>2. l.rung \in Nat
    BY <1>2, RungsAssumption DEF ReadState
  <2>3. QED
    BY <1>2, <2>1, <2>2 DEF ReadState
<1>4. runs' = [runs EXCEPT ![x.id] = r]
  BY <1>1, <1>2 DEF Report
<1>5. jobs' = (jobs \ {x}) \cup {y}
  <2>1. {[z EXCEPT !.image = n, !.pass = l.pass, !.attempt = l.rung,
                   !.reduced = l.shrunk] : z \in JobOf(j)} = {p}
    BY <1>1
  <2>2. Update(j, {p}) = (jobs \ {x}) \cup {y}
    BY <1>1 DEF Update
  <2>3. QED
    BY <2>1, <2>2 DEF Report
<1>6. r \in Run /\ r.at = "wait" /\ r.ladder = l /\ r.image = runs[j].image
      /\ r.batch = runs[j].batch
  BY <1>2 DEF Run
<1> HIDE DEF n, l
<1>7. p \in Job /\ p.id = x.id /\ p.user = x.user /\ p.status = x.status
      /\ p.total = x.total /\ p.image = n /\ p.done = x.done /\ p.attempt = l.rung
  BY <1>1, <1>3 DEF Job
<1> HIDE DEF p
<1>8. y \in Job /\ y.id = x.id /\ y.user = x.user /\ y.status = x.status
      /\ y.total = x.total /\ y.image = n /\ y.done = x.done /\ y.attempt = l.rung
  BY <1>7, Young DEF Job
<1> HIDE DEF r, y
<1>9. Fits(y, r)
  <2>1. x.status = "running" /\ x.total = Len(runs[j].batch) /\ x.done = runs[j].image
        /\ runs[j].image + 1 <= Len(runs[j].batch)
    BY <1>1, <1>2 DEF Fits
  <2>2. QED
    BY <2>1, <1>2, <1>3, <1>6, <1>8 DEF Fits
<1>10. \A k \in JobIds : At(k, "call")' <=> slot' = k
  BY <1>1, <1>2, <1>4, <1>6, NoteAssumption DEF Report, At, RecInv, TypeOK, OneCallAtATime
<1>11. QED
  BY <1>1, <1>2, <1>4, <1>5, <1>6, <1>8, <1>9, <1>10, NoteAssumption, Replaced
     DEF Report, RecInv, TypeOK

LEMMA AcquireStep == ASSUME RecInv, NEW j \in JobIds, Acquire(j) PROVE RecInv'
<1>1. PICK x \in jobs : x.id = j /\ x \in Job /\ Fits(x, runs[j])
  BY JobOfRun DEF Acquire, At
<1> DEFINE r == [runs[j] EXCEPT !.at = "call", !.callLeft = PerCallTimeout]
<1>2. runs[j] \in Run /\ Paid(runs[j].ladder) /\ runs[j] # None /\ runs[j].at = "wait"
      /\ PerCallTimeout \in 0 .. PerCallTimeout
  BY RecognitionAssumption DEF Acquire, At, RecInv, TypeOK, CallsPaidFor
<1>3. r \in Run /\ r.at = "call" /\ r.ladder = runs[j].ladder /\ r.image = runs[j].image
      /\ r.batch = runs[j].batch
  BY <1>2 DEF Run
<1>4. runs' = [runs EXCEPT ![x.id] = r] /\ jobs' = (jobs \ {x}) \cup {x}
  BY <1>1 DEF Acquire
<1> HIDE DEF r
<1>5. Fits(x, r)
  BY <1>1, <1>2, <1>3 DEF Fits
<1>6. \A k \in JobIds : At(k, "call")' <=> slot' = k
  <2>1. slot = None /\ slot' = j /\ None \notin JobIds
    BY RecognitionAssumption DEF Acquire
  <2>2. \A k \in JobIds : ~ At(k, "call")
    BY <2>1 DEF RecInv, OneCallAtATime
  <2>3. runs'[j] = r /\ \A k \in JobIds \ {j} : runs'[k] = runs[k]
    BY <1>1, <1>4 DEF RecInv, TypeOK
  <2>4. QED
    BY <1>3, <2>1, <2>2, <2>3, NoteAssumption DEF At
<1>7. QED
  BY <1>1, <1>2, <1>3, <1>4, <1>5, <1>6, NoteAssumption, Replaced DEF Acquire, RecInv, TypeOK

\* What may be answered is an answer, and the slot is free after it.
LEMMA Released ==
  ASSUME RecInv, NEW j \in JobIds, runs[j] # None, Release(j),
         NEW r \in Run \cup {None}, r # None => r.at # "call",
         runs' = [runs EXCEPT ![j] = r]
  PROVE  slot' \in JobIds \cup {None} /\ \A k \in JobIds : At(k, "call")' <=> slot' = k
BY NoteAssumption, RecognitionAssumption DEF Release, At, RecInv, TypeOK, OneCallAtATime

LEMMA AnsweredStep == ASSUME RecInv, NEW j \in JobIds, Answered(j) PROVE RecInv'
<1>0. runs[j] # None /\ runs[j].at \in {"wait", "call"}
  BY DEF Answered, At
<1>1. PICK x \in jobs : x.id = j /\ x \in Job /\ Fits(x, runs[j])
  BY <1>0, JobOfRun
<1>2. runs[j] \in Run /\ Paid(runs[j].ladder) /\ runs[j].ladder \in ReadState
      /\ runs[j].ladder.out = "reading"
  BY <1>0, <1>1 DEF RecInv, TypeOK, CallsPaidFor, Run, Fits
<1>3. PICK a \in Possible(j) : \E s \in After(runs[j].ladder, a) :
        runs' = [runs EXCEPT ![j].at = "ask", ![j].ladder = s]
  BY DEF Answered
<1>4. PICK s \in After(runs[j].ladder, a) :
        runs' = [runs EXCEPT ![j].at = "ask", ![j].ladder = s]
  BY <1>3
<1>5. a \in Answers
  BY DEF Possible, Answers
<1>6. s \in ReadState /\ Paid(s)
  BY <1>2, <1>5, AnswerPays
<1> DEFINE r == [runs[j] EXCEPT !.at = "ask", !.ladder = s]
<1>7. r \in Run /\ r.at = "ask" /\ r.ladder = s /\ r.image = runs[j].image
      /\ r.batch = runs[j].batch
  BY <1>2, <1>6 DEF Run
<1>8. runs' = [runs EXCEPT ![j] = r]
  BY <1>4
<1>9. jobs' = (jobs \ {x}) \cup {x} /\ used' = used /\ Release(j)
  BY DEF Answered
<1> HIDE DEF r
<1>10. Fits(x, r)
  BY <1>0, <1>1, <1>7 DEF Fits
<1>11. slot' \in JobIds \cup {None} /\ \A k \in JobIds : At(k, "call")' <=> slot' = k
  BY <1>0, <1>7, <1>8, <1>9, Released
<1>12. QED
  BY <1>0, <1>1, <1>6, <1>7, <1>8, <1>9, <1>10, <1>11, NoteAssumption, Replaced

\* A goroutine ends and leaves its job failed, or done.
LEMMA EndStep ==
  ASSUME RecInv, NEW j \in JobIds, runs[j] # None,
         \/ End(j, Update(j, {Failed(x) : x \in JobOf(j)}))
         \/ End(j, Update(j, {Finished(x) : x \in JobOf(j)})),
         slot' = IF slot = j THEN None ELSE slot, used' = used
  PROVE  RecInv'
<1>1. PICK x \in jobs : x.id = j /\ JobOf(j) = {x} /\ x \in Job /\ Fits(x, runs[j])
  BY JobOfRun
<1>2. PICK z : /\ End(j, Update(j, {z})) /\ z \in Job /\ z.id = x.id /\ z.user = x.user
               /\ z.status # "running"
  <2>1. Failed(x) \in Job /\ Failed(x).id = x.id /\ Failed(x).user = x.user
        /\ Failed(x).status # "running"
    BY <1>1 DEF Failed, Job, Statuses
  <2>2. Finished(x) \in Job /\ Finished(x).id = x.id /\ Finished(x).user = x.user
        /\ Finished(x).status # "running"
    BY <1>1 DEF Finished, Job, Statuses
  <2>3. /\ {Failed(z) : z \in JobOf(j)} = {Failed(x)}
        /\ {Finished(z) : z \in JobOf(j)} = {Finished(x)}
    BY <1>1
  <2>4. QED
    BY <2>1, <2>2, <2>3
<1> DEFINE y == [z EXCEPT !.age = 0]
<1>3. y \in Job /\ y.id = x.id /\ y.user = x.user /\ y.status # "running"
  BY <1>2, Young DEF Job
<1>4. jobs' = (jobs \ {x}) \cup {y}
  BY <1>1, <1>2 DEF End, Update
<1>5. runs' = [runs EXCEPT ![j] = None]
  BY DEF End
<1>6. slot' \in JobIds \cup {None} /\ \A k \in JobIds : At(k, "call")' <=> slot' = k
  BY <1>5, Released DEF Release
<1>7. QED
  BY <1>1, <1>3, <1>4, <1>5, <1>6, Replaced

LEMMA EndImageStep == ASSUME RecInv, NEW j \in JobIds, EndImage(j) PROVE RecInv'
<1>1. PICK x \in jobs : Fits(x, runs[j])
  BY JobOfRun DEF EndImage, At
<1>2. runs[j] # None /\ runs[j].at = "ask" /\ HasNext(j)
  BY <1>1, RecognitionAssumption DEF EndImage, At, Fits, HasNext, RecInv, TypeOK, Run
<1>3. CASE InDraft(runs[j].ladder.out)
  BY <1>2, <1>3, AdvanceStep DEF EndImage, InDraft
<1>4. CASE ~ InDraft(runs[j].ladder.out)
  <2>1. slot # j
    BY <1>2 DEF RecInv, OneCallAtATime, At
  <2>2. QED
    BY <1>2, <1>4, <2>1, EndStep DEF EndImage
<1>5. QED
  BY <1>3, <1>4

LEMMA FinishStep == ASSUME RecInv, NEW j \in JobIds, FinishJob(j) PROVE RecInv'
<1>1. slot # j
  BY DEF FinishJob, RecInv, OneCallAtATime, At
<1>2. QED
  BY <1>1, EndStep DEF FinishJob, At

LEMMA PanicStep == ASSUME RecInv, NEW j \in JobIds, Panic(j) PROVE RecInv'
BY EndStep DEF Panic, Release

\* Eviction takes jobs that have ended, and they have no goroutine.
LEMMA EvictedKeeps ==
  ASSUME RecInv, jobs' = Evicted(jobs), UNCHANGED <<runs, slot, used>>
  PROVE  RecInv'
<1>1. Evicted(jobs) \subseteq jobs /\ \A x \in jobs : x.status = "running" => x \in Evicted(jobs)
  BY DEF Evicted
<1>2. IdsOnce'
  BY <1>1 DEF RecInv, IdsOnce, JobsFit, Fits
<1>3. QED
  BY <1>1, <1>2 DEF RecInv, TypeOK, JobsFit, Fits, OneRunning, OneCallAtATime, At,
                    CallsPaidFor, Paid, Behind

LEMMA StartStep == ASSUME RecInv, StartRecognition PROVE RecInv'
<1>1. PICK u \in Users, j \in JobIds \ used, batch \in Batches :
        /\ Len(batch) \in 1 .. MaxImages
        /\ IF Busy(u, Evicted(jobs))
           THEN jobs' = Evicted(jobs) /\ UNCHANGED <<runs, used>>
           ELSE /\ jobs' = Evicted(jobs) \cup
                     {[id |-> j, user |-> u, status |-> "running", done |-> 0,
                       total |-> Len(batch), image |-> 0, pass |-> "", attempt |-> 0,
                       reduced |-> FALSE, age |-> 0]}
                /\ runs' = [runs EXCEPT ![j] =
                     [at |-> "spawn", batch |-> batch, image |-> 0, seen |-> {},
                      ladder |-> Fresh, left |-> 0, callLeft |-> 0]]
                /\ used' = used \cup {j}
        /\ UNCHANGED slot
  BY DEF StartRecognition
<1>2. CASE Busy(u, Evicted(jobs))
  BY <1>1, <1>2, EvictedKeeps
<1>3. CASE ~ Busy(u, Evicted(jobs))
  <2> DEFINE x == [id |-> j, user |-> u, status |-> "running", done |-> 0,
                   total |-> Len(batch), image |-> 0, pass |-> "", attempt |-> 0,
                   reduced |-> FALSE, age |-> 0]
             r == [at |-> "spawn", batch |-> batch, image |-> 0, seen |-> {},
                   ladder |-> Fresh, left |-> 0, callLeft |-> 0]
  <2>1. /\ jobs' = Evicted(jobs) \cup {x} /\ runs' = [runs EXCEPT ![j] = r]
        /\ used' = used \cup {j} /\ slot' = slot
    BY <1>1, <1>3
  <2>0. Len(batch) \in Nat
    BY RecognitionAssumption
  <2>2. x \in Job /\ x.id = j /\ x.user = u /\ x.status = "running"
    BY <2>0, Young DEF Job, Statuses
  <2>3. r \in Run /\ r # None /\ r.at = "spawn" /\ r.ladder = Fresh
    <3>1. 0 \in 0 .. PerCallTimeout
      BY RecognitionAssumption
    <3>2. QED
      BY <3>1, FreshRead, NoteAssumption DEF Run
  <2>4. Fits(x, r)
    BY <2>0 DEF Fits, Fresh
  <2>5. runs[j] = None /\ \A z \in jobs : z.id # j
    BY DEF RecInv, IdsOnce
  <2> HIDE DEF x, r
  <2>6. /\ runs' \in [JobIds -> Run \cup {None}] /\ runs'[j] = r
        /\ \A k \in JobIds \ {j} : runs'[k] = runs[k]
    BY <2>1, <2>3 DEF RecInv, TypeOK
  <2>7. Evicted(jobs) \subseteq jobs
    BY DEF Evicted
  <2>8. \A z \in jobs : z.status = "running" => z \in Evicted(jobs)
    BY DEF Evicted
  <2>9. TypeOK'
    BY <1>1, <2>1, <2>2, <2>6, <2>7 DEF RecInv, TypeOK
  <2>10. IdsOnce'
    <3>1. \A k \in JobIds : runs'[k] # None => \E z \in jobs' : z.id = k
      <4> SUFFICES ASSUME NEW k \in JobIds, runs'[k] # None, k # j
                   PROVE  \E z \in jobs' : z.id = k
        BY <2>1, <2>2
      <4>1. PICK z \in jobs : z.id = k /\ z.status = "running"
        BY <2>6 DEF RecInv, IdsOnce, JobsFit, Fits
      <4>2. QED
        BY <4>1, <2>1, <2>8
    <3>2. QED
      BY <3>1, <2>1, <2>2, <2>5, <2>7 DEF RecInv, IdsOnce
  <2>11. JobsFit'
    <3> SUFFICES ASSUME NEW z \in jobs'
                 PROVE  IF runs'[z.id] = None THEN z.status # "running"
                        ELSE Fits(z, runs'[z.id])
      BY DEF JobsFit, Fits
    <3>1. CASE z = x
      BY <3>1, <2>2, <2>3, <2>4, <2>6
    <3>2. CASE z # x
      <4>1. z \in jobs /\ z.id # j /\ z.id \in JobIds
        BY <3>2, <2>1, <2>5, <2>7 DEF RecInv, TypeOK, Job
      <4>2. QED
        BY <4>1, <2>6 DEF RecInv, JobsFit
    <3>3. QED
      BY <3>1, <3>2
  <2>12. OneRunning'
    <3>1. \A z \in jobs : z.status = "running" => z.user # u
      BY <1>3, <2>8 DEF Busy
    <3>2. QED
      BY <3>1, <2>1, <2>2, <2>7 DEF RecInv, OneRunning
  <2>13. OneCallAtATime'
    BY <1>1, <2>1, <2>3, <2>5, <2>6 DEF RecInv, OneCallAtATime, At
  <2>14. CallsPaidFor'
    BY <1>1, <2>3, <2>6, FreshRead DEF RecInv, CallsPaidFor, Paid, Behind
  <2>15. QED
    BY <2>9, <2>10, <2>11, <2>12, <2>13, <2>14 DEF RecInv
<1>4. QED
  BY <1>2, <1>3

LEMMA TickStep == ASSUME RecInv, Tick PROVE RecInv'
<1> DEFINE older(x) == [x EXCEPT !.age = IF @ > TTL THEN @ ELSE @ + 1]
           later(k) == [runs[k] EXCEPT !.left = Less(@),
                          !.callLeft = IF At(k, "call") THEN Less(@) ELSE @]
<1>1. /\ jobs' = {older(x) : x \in jobs} /\ slot' = slot /\ used' = used
      /\ runs' = [k \in JobIds |->
           IF runs[k] = None \/ At(k, "spawn") THEN runs[k] ELSE later(k)]
  BY DEF Tick
<1>2. \A x \in jobs : /\ older(x) \in Job /\ older(x).id = x.id /\ older(x).user = x.user
                      /\ older(x).status = x.status /\ older(x).done = x.done
                      /\ older(x).total = x.total /\ older(x).image = x.image
                      /\ older(x).attempt = x.attempt
  <2> SUFFICES ASSUME NEW x \in jobs
               PROVE  /\ older(x) \in Job /\ older(x).id = x.id /\ older(x).user = x.user
                      /\ older(x).status = x.status /\ older(x).done = x.done
                      /\ older(x).total = x.total /\ older(x).image = x.image
                      /\ older(x).attempt = x.attempt
    OBVIOUS
  <2> DEFINE a == IF x.age > TTL THEN x.age ELSE x.age + 1
  <2>1. x \in Job /\ TTL \in Nat
    BY RecognitionAssumption DEF RecInv, TypeOK
  <2>2. a \in 0 .. TTL + 1
    <3>1. x.age \in 0 .. TTL + 1
      BY <2>1 DEF Job
    <3>2. QED
      BY <2>1, <3>1
  <2>3. older(x) = [x EXCEPT !.age = a]
    BY <2>1 DEF Job
  <2> HIDE DEF a, older
  <2>4. QED
    BY <2>1, <2>2, <2>3 DEF Job
<1>3. \A k \in JobIds : runs[k] # None =>
        /\ later(k) \in Run /\ later(k).at = runs[k].at /\ later(k).batch = runs[k].batch
        /\ later(k).image = runs[k].image /\ later(k).ladder = runs[k].ladder
  <2> SUFFICES ASSUME NEW k \in JobIds, runs[k] # None
               PROVE  /\ later(k) \in Run /\ later(k).at = runs[k].at
                      /\ later(k).batch = runs[k].batch
                      /\ later(k).image = runs[k].image /\ later(k).ladder = runs[k].ladder
    OBVIOUS
  <2> DEFINE m == Less(runs[k].left)
             n == IF At(k, "call") THEN Less(runs[k].callLeft) ELSE runs[k].callLeft
  <2>1. runs[k] \in Run /\ PerCallTimeout \in Nat
    BY RecognitionAssumption DEF RecInv, TypeOK
  <2>2. m \in Nat /\ n \in 0 .. PerCallTimeout
    BY <2>1 DEF Less, Run
  <2>3. later(k) = [runs[k] EXCEPT !.left = m, !.callLeft = n]
    BY <2>1 DEF Run
  <2> HIDE DEF m, n, later
  <2>4. QED
    BY <2>1, <2>2, <2>3 DEF Run
<1> HIDE DEF older, later
<1>4. \A k \in JobIds :
        /\ runs'[k] = None <=> runs[k] = None
        /\ runs[k] # None =>
             /\ runs'[k] \in Run /\ runs'[k].at = runs[k].at
             /\ runs'[k].batch = runs[k].batch /\ runs'[k].image = runs[k].image
             /\ runs'[k].ladder = runs[k].ladder
  BY <1>1, <1>3, NoteAssumption DEF RecInv, TypeOK
<1>5. TypeOK'
  BY <1>1, <1>2, <1>4 DEF RecInv, TypeOK
<1>6. IdsOnce'
  BY <1>1, <1>2, <1>4 DEF RecInv, IdsOnce
<1>7. JobsFit'
  <2> SUFFICES ASSUME NEW x \in jobs
               PROVE  IF runs'[x.id] = None THEN older(x).status # "running"
                      ELSE Fits(older(x), runs'[x.id])
    BY <1>1, <1>2 DEF JobsFit, Fits
  <2>1. x.id \in JobIds
    BY DEF RecInv, TypeOK, Job
  <2>2. CASE runs[x.id] = None
    BY <2>1, <2>2, <1>2, <1>4 DEF RecInv, JobsFit
  <2>3. CASE runs[x.id] # None
    <3>1. Fits(x, runs[x.id])
      BY <2>3 DEF RecInv, JobsFit
    <3>2. QED
      BY <3>1, <2>1, <2>3, <1>2, <1>4 DEF Fits
  <2>4. QED
    BY <2>2, <2>3
<1>8. OneRunning'
  BY <1>1, <1>2 DEF RecInv, OneRunning
<1>9. OneCallAtATime'
  BY <1>1, <1>4 DEF RecInv, OneCallAtATime, At
<1>10. CallsPaidFor'
  BY <1>1, <1>4 DEF RecInv, CallsPaidFor, Paid, Behind
<1>11. QED
  BY <1>5, <1>6, <1>7, <1>8, <1>9, <1>10 DEF RecInv

LEMMA RestartStep == ASSUME RecInv, Restart PROVE RecInv'
<1>1. jobs' = {} /\ runs' = [j \in JobIds |-> None] /\ slot' = None /\ used' = used
  BY DEF Restart
<1>2. QED
  BY <1>1, RecognitionAssumption DEF RecInv, TypeOK, IdsOnce, JobsFit, OneRunning,
     OneCallAtATime, At, CallsPaidFor

\* The store, the goroutines and the slot keep fitting, whoever moves.
LEMMA RecSteps == RecInv /\ [Next]_vars => RecInv'
<1> SUFFICES ASSUME RecInv, [Next]_vars PROVE RecInv'
  OBVIOUS
<1>1. CASE UNCHANGED vars
  BY <1>1 DEF vars, RecInv, TypeOK, IdsOnce, JobsFit, OneRunning, OneCallAtATime, At,
              CallsPaidFor, Fits, Paid, Behind
<1>2. CASE GetRecognition
  BY <1>2, EvictedKeeps DEF GetRecognition
<1>3. CASE \E j \in JobIds : Local(j) \/ Answered(j) \/ Panic(j)
  BY <1>3, SpawnStep, SkipStep, BeginStep, ReportStep, AcquireStep, EndImageStep,
     FinishStep, AnsweredStep, PanicStep DEF Local
<1>4. QED
  BY <1>1, <1>2, <1>3, StartStep, TickStep, RestartStep DEF Next

THEOREM Invariance == Spec => []RecInv
BY InitFits, RecSteps, PTL DEF Spec

(****************************** what it promises ***************************)

\* Jobs, goroutines and the slot of the backend stay in step, for any number of
\* users and jobs, whatever panics, is evicted or restarts.
THEOREM StoreStaysInStep == Spec => []StoreInStep
<1>1. RecInv => StoreInStep
  <2> SUFFICES ASSUME RecInv PROVE StoreInStep
    OBVIOUS
  <2>1. RunningHasGoroutine
    BY DEF RecInv, RunningHasGoroutine, Running, IdsOnce, JobsFit, Fits
  <2>2. OneGoroutinePerUser
    BY DEF RecInv, OneGoroutinePerUser, OneRunning, JobsFit, Fits
  <2>3. QED
    BY <2>1, <2>2 DEF RecInv, StoreInStep
<1>2. QED
  BY <1>1, Invariance, PTL

\* What a client polls is where the goroutine is.
THEOREM PollsMatchWork == Spec => []PollMatchesWork
<1>1. RecInv => PollMatchesWork
  <2> SUFFICES ASSUME RecInv, NEW x \in jobs, runs[x.id] # None
               PROVE  /\ x.done = runs[x.id].image
                      /\ x.image \in 0 .. x.total
                      /\ At(x.id, "call") =>
                           x.image = x.done + 1 /\ x.attempt = runs[x.id].ladder.rung
    BY DEF PollMatchesWork
  <2>1. Fits(x, runs[x.id]) /\ x \in Job
    BY DEF RecInv, JobsFit, TypeOK
  <2>2. x.image \in 0 .. x.total
    <3>1. x.image \in Nat /\ x.total \in Nat /\ x.image <= x.total
      BY <2>1 DEF Fits, Job
    <3>2. QED
      BY <3>1
  <2>3. QED
    BY <2>1, <2>2 DEF Fits, At
<1>2. QED
  BY <1>1, Invariance, PTL

\* What one goroutine does to the store: its own job goes on, or ends; it ends
\* well only with the whole batch behind it.
MovesOn(x, y) ==
  /\ x.status = "running" /\ x.done <= y.done
  /\ y.status = "done" => /\ x.done = x.total
                          /\ runs[x.id].ladder.out \in {"reading", "read", "bad"}

LEMMA GoroutineMoves ==
  ASSUME RecInv, NEW j \in JobIds, Local(j) \/ Answered(j) \/ Panic(j)
  PROVE  \/ jobs' = jobs
         \/ \E x \in jobs : \E y :
              jobs' = (jobs \ {x}) \cup {y} /\ y.id = x.id /\ MovesOn(x, y)
<1>0. runs[j] # None
  BY DEF Local, Spawn, SkipImage, BeginImage, Report, Acquire, EndImage, FinishJob,
         Answered, Panic, At
<1>1. PICK x \in jobs : x.id = j /\ JobOf(j) = {x} /\ x \in Job /\ Fits(x, runs[j])
  BY <1>0, JobOfRun
<1>2. runs[j] \in Run /\ x.done \in Nat /\ runs[j].image \in Nat /\ Len(runs[j].batch) \in Nat
  BY <1>0, <1>1, RecognitionAssumption DEF RecInv, TypeOK, Run, Job
<1>3. CASE Spawn(j) \/ BeginImage(j) \/ Acquire(j) \/ Answered(j)
  BY <1>3 DEF Spawn, BeginImage, Acquire, Answered
<1>4. CASE Advance(j)
  <2> DEFINE n == runs[j].image + 1
             y == [x EXCEPT !.done = n, !.age = 0]
  <2>1. {[z EXCEPT !.done = n] : z \in JobOf(j)} = {[x EXCEPT !.done = n]}
    BY <1>1
  <2>2. jobs' = (jobs \ {x}) \cup {[[x EXCEPT !.done = n] EXCEPT !.age = 0]}
    BY <1>1, <1>4, <2>1 DEF Advance, Update
  <2>3. [[x EXCEPT !.done = n] EXCEPT !.age = 0] = y
    BY <1>1 DEF Job
  <2>4. n \in Nat /\ x.done <= n
    BY <1>1, <1>2 DEF Fits
  <2> HIDE DEF n
  <2>5. y.id = x.id /\ y.done = n /\ y.status = x.status
    BY <1>1 DEF Job
  <2> HIDE DEF y
  <2>6. MovesOn(x, y)
    BY <1>1, <2>4, <2>5 DEF Fits, MovesOn
  <2>7. QED
    BY <2>2, <2>3, <2>5, <2>6
<1>5. CASE Report(j)
  <2> DEFINE l == runs[j].ladder
             n == runs[j].image + 1
             p == [x EXCEPT !.image = n, !.pass = l.pass, !.attempt = l.rung,
                            !.reduced = l.shrunk]
             y == [p EXCEPT !.age = 0]
  <2>1. {[z EXCEPT !.image = n, !.pass = l.pass, !.attempt = l.rung,
                   !.reduced = l.shrunk] : z \in JobOf(j)} = {p}
    BY <1>1
  <2>2. Update(j, {p}) = (jobs \ {x}) \cup {y}
    BY <1>1 DEF Update
  <2>3. jobs' = (jobs \ {x}) \cup {y}
    BY <1>5, <2>1, <2>2 DEF Report
  <2> HIDE DEF n, l
  <2>4. y.id = x.id /\ y.done = x.done /\ y.status = x.status
    BY <1>1 DEF Job
  <2> HIDE DEF y
  <2>5. MovesOn(x, y)
    BY <1>1, <1>2, <2>4 DEF Fits, MovesOn
  <2>6. QED
    BY <2>3, <2>4, <2>5
<1>6. CASE End(j, Update(j, {Failed(z) : z \in JobOf(j)}))
  <2> DEFINE y == [Failed(x) EXCEPT !.age = 0]
  <2>1. {Failed(z) : z \in JobOf(j)} = {Failed(x)}
    BY <1>1
  <2>2. jobs' = (jobs \ {x}) \cup {y}
    BY <1>1, <1>6, <2>1 DEF End, Update
  <2>3. y.id = x.id /\ y.done = x.done /\ y.status = "failed"
    BY <1>1 DEF Job, Failed
  <2> HIDE DEF y
  <2>4. MovesOn(x, y)
    BY <1>1, <1>2, <2>3 DEF Fits, MovesOn
  <2>5. QED
    BY <2>2, <2>3, <2>4
<1>7. CASE FinishJob(j)
  <2> DEFINE y == [Finished(x) EXCEPT !.age = 0]
  <2>1. {Finished(z) : z \in JobOf(j)} = {Finished(x)}
    BY <1>1
  <2>2. jobs' = (jobs \ {x}) \cup {y}
    BY <1>1, <1>7, <2>1 DEF FinishJob, End, Update
  <2>3. y.id = x.id /\ y.done = x.total
    BY <1>1 DEF Job, Finished
  <2> HIDE DEF y
  <2>4. MovesOn(x, y)
    BY <1>1, <1>2, <1>7, <2>3 DEF FinishJob, At, HasNext, Fits, MovesOn
  <2>5. QED
    BY <2>2, <2>3, <2>4
<1>8. QED
  BY <1>3, <1>4, <1>5, <1>6, <1>7 DEF Local, SkipImage, EndImage, Panic

\* What any step does to a job it leaves in the store.
LEMMA JobsMove ==
  ASSUME RecInv, [Next]_vars, NEW x \in jobs, NEW y \in jobs', x.id = y.id
  PROVE  \/ [y EXCEPT !.age = 0] = [x EXCEPT !.age = 0] /\ x.done = y.done /\ x.status = y.status
         \/ MovesOn(x, y)
<1>1. CASE jobs' \subseteq jobs
  BY <1>1 DEF RecInv, IdsOnce, TypeOK, Job
<1>2. CASE \E j \in JobIds : Local(j) \/ Answered(j) \/ Panic(j)
  <2>1. ASSUME NEW w \in jobs, NEW z, jobs' = (jobs \ {w}) \cup {z}, z.id = w.id, MovesOn(w, z)
        PROVE  \/ [y EXCEPT !.age = 0] = [x EXCEPT !.age = 0] /\ x.done = y.done /\ x.status = y.status
               \/ MovesOn(x, y)
    <3>1. CASE y = z
      <4>1. x = w
        BY <2>1, <3>1 DEF RecInv, IdsOnce
      <4>2. QED
        BY <2>1, <3>1, <4>1
    <3>2. CASE y # z
      <4>1. y = x
        BY <2>1, <3>2 DEF RecInv, IdsOnce
      <4>2. QED
        BY <4>1
    <3>3. QED
      BY <3>1, <3>2
  <2>2. QED
    BY <1>1, <1>2, <2>1, GoroutineMoves
<1>3. CASE StartRecognition
  <2>1. PICK u \in Users, j \in JobIds \ used, n \in Nat :
          jobs' \subseteq jobs \cup
            {[id |-> j, user |-> u, status |-> "running", done |-> 0, total |-> n,
              image |-> 0, pass |-> "", attempt |-> 0, reduced |-> FALSE, age |-> 0]}
    BY <1>3, RecognitionAssumption DEF StartRecognition, Evicted
  <2> DEFINE z == [id |-> j, user |-> u, status |-> "running", done |-> 0, total |-> n,
                   image |-> 0, pass |-> "", attempt |-> 0, reduced |-> FALSE, age |-> 0]
  <2>2. y \in jobs
    <3>1. y.id # j /\ z.id = j /\ jobs' \subseteq jobs \cup {z}
      BY <2>1 DEF RecInv, IdsOnce
    <3> HIDE DEF z
    <3>2. QED
      BY <3>1
  <2>3. QED
    BY <2>2 DEF RecInv, IdsOnce
<1>4. CASE Tick
  <2>1. PICK z \in jobs : y = [z EXCEPT !.age = IF @ > TTL THEN @ ELSE @ + 1]
    BY <1>4 DEF Tick
  <2>2. z \in Job
    BY DEF RecInv, TypeOK
  <2>3. y.id = z.id
    BY <2>1, <2>2 DEF Job
  <2>4. z = x
    BY <2>3 DEF RecInv, IdsOnce
  <2>5. QED
    BY <2>1, <2>2, <2>4 DEF Job
<1>5. CASE GetRecognition \/ Restart \/ UNCHANGED vars
  BY <1>1, <1>5 DEF GetRecognition, Evicted, Restart, vars
<1>6. QED
  BY <1>2, <1>3, <1>4, <1>5 DEF Next

\* What a client has polled is never taken back, and a draft is of the whole batch.
THEOREM EndsAlwaysStand == Spec => EndsStand
<1>1. RecInv /\ [Next]_vars =>
        [\A x \in jobs, y \in jobs' : x.id = y.id =>
           /\ x.status # "running" => [y EXCEPT !.age = 0] = [x EXCEPT !.age = 0]
           /\ x.done <= y.done]_vars
  <2> SUFFICES ASSUME RecInv, [Next]_vars, NEW x \in jobs, NEW y \in jobs', x.id = y.id
               PROVE  /\ x.status # "running" => [y EXCEPT !.age = 0] = [x EXCEPT !.age = 0]
                      /\ x.done <= y.done
    OBVIOUS
  <2>1. x.done \in Nat
    BY DEF RecInv, TypeOK, Job
  <2>2. QED
    BY <2>1, JobsMove DEF MovesOn
<1>2. RecInv /\ [Next]_vars =>
        [\A x \in jobs, y \in jobs' :
           x.id = y.id /\ x.status = "running" /\ y.status = "done"
             => x.done = x.total /\ runs[x.id].ladder.out \in {"reading", "read", "bad"}]_vars
  <2> SUFFICES ASSUME RecInv, [Next]_vars, NEW x \in jobs, NEW y \in jobs', x.id = y.id,
                      x.status = "running", y.status = "done"
               PROVE  x.done = x.total /\ runs[x.id].ladder.out \in {"reading", "read", "bad"}
    OBVIOUS
  <2>1. QED
    BY JobsMove DEF MovesOn
<1>3. QED
  BY <1>1, <1>2, Invariance, PTL DEF Spec, EndsStand, EndedIsFinal, DoneMeansAllRead

(************************* the reads of the jobs ***************************)

\* The read a goroutine has at hand after a step, if it had none or another.
Begun(j) == At(j, "next") /\ At(j, "ask")' /\ runs'[j].ladder \in {Fresh, [Fresh EXCEPT !.out = "bad"]}

AnsweredRead(j) ==
  /\ At(j, "wait") \/ At(j, "call")
  /\ runs[j].ladder.out = "reading"
  /\ \E a \in Answers : runs'[j].ladder \in After(runs[j].ladder, a)

LEMMA LadderMoves ==
  ASSUME RecInv, [Next]_vars, NEW j \in JobIds, runs'[j] # None
  PROVE  \/ runs[j] = None /\ runs'[j].ladder = Fresh
         \/ runs[j] # None /\ runs'[j].ladder = runs[j].ladder
         \/ Begun(j)
         \/ AnsweredRead(j)
<1>0. runs \in [JobIds -> Run \cup {None}]
  BY DEF RecInv, TypeOK
<1>1. CASE runs' = runs
  BY <1>1
<1>2. CASE StartRecognition
  <2>1. \/ runs' = runs
        \/ \E k \in JobIds \ used, batch \in Batches :
             runs' = [runs EXCEPT ![k] = [at |-> "spawn", batch |-> batch, image |-> 0,
                        seen |-> {}, ladder |-> Fresh, left |-> 0, callLeft |-> 0]]
    BY <1>2 DEF StartRecognition
  <2>2. \A k \in JobIds \ used : runs[k] = None
    BY DEF RecInv, IdsOnce
  <2>3. QED
    BY <1>0, <2>1, <2>2
<1>3. CASE Tick
  <2>1. \/ runs'[j] = runs[j]
        \/ /\ runs[j] # None
           /\ \E m, n : runs'[j] = [runs[j] EXCEPT !.left = m, !.callLeft = n]
    BY <1>3 DEF Tick
  <2>2. QED
    BY <1>0, <2>1 DEF Run
<1>4. CASE Restart
  BY <1>4 DEF Restart
<1>5. ASSUME NEW k \in JobIds, Local(k) \/ Answered(k) \/ Panic(k), k # j
      PROVE  runs'[j] = runs[j]
  BY <1>0, <1>5 DEF Local, Spawn, SkipImage, BeginImage, Report, Acquire, EndImage, FinishJob,
       Answered, Panic, Advance, End
<1>6. CASE Spawn(j) \/ SkipImage(j) \/ Report(j) \/ Acquire(j) \/ EndImage(j)
  BY <1>0, <1>6 DEF Spawn, SkipImage, Report, Acquire, EndImage, Advance, End, At, Run
<1>7. CASE FinishJob(j) \/ Panic(j)
  BY <1>0, <1>7 DEF FinishJob, Panic, End
<1>8. CASE BeginImage(j)
  BY <1>0, <1>8 DEF BeginImage, At, Run, Begun
<1>9. CASE Answered(j)
  <2>1. At(j, "wait") \/ At(j, "call")
    BY <1>9 DEF Answered
  <2>2. runs[j].ladder.out = "reading"
    BY <2>1, JobOfRun DEF At, Fits
  <2>3. PICK a \in Possible(j) : \E s \in After(runs[j].ladder, a) :
          runs' = [runs EXCEPT ![j].at = "ask", ![j].ladder = s]
    BY <1>9 DEF Answered
  <2>7. PICK s \in After(runs[j].ladder, a) :
          runs' = [runs EXCEPT ![j].at = "ask", ![j].ladder = s]
    BY <2>3
  <2>4. runs'[j].ladder = s
    BY <1>0, <2>1, <2>7 DEF At, Run
  <2>5. a \in Answers
    BY DEF Possible, Answers
  <2>6. QED
    BY <2>1, <2>2, <2>4, <2>5 DEF AnsweredRead
<1>10. CASE GetRecognition \/ UNCHANGED vars
  BY <1>1, <1>10 DEF GetRecognition, vars
<1>11. QED
  BY <1>2, <1>3, <1>4, <1>5, <1>6, <1>7, <1>8, <1>9, <1>10 DEF Next, Local

\* A job reads its screenshots as module Screenshot reads one.
THEOREM JobsReadAsPromised == Spec => ReadsMove
<1>1. RecInv /\ [Next]_vars =>
        [\A j \in JobIds : runs[j] # None /\ runs'[j] # None =>
           \/ runs'[j].ladder = runs[j].ladder
           \/ At(j, "next") /\ At(j, "ask")' /\ ReadOf(j)!ReadInit'
           \/ (At(j, "wait") \/ At(j, "call")) /\ ReadOf(j)!ReadNext]_vars
  <2> SUFFICES ASSUME RecInv, [Next]_vars, NEW j \in JobIds, runs[j] # None, runs'[j] # None
               PROVE  \/ runs'[j].ladder = runs[j].ladder
                      \/ At(j, "next") /\ At(j, "ask")' /\ ReadOf(j)!ReadInit'
                      \/ (At(j, "wait") \/ At(j, "call")) /\ ReadOf(j)!ReadNext
    OBVIOUS
  <2>1. CASE Begun(j)
    BY <2>1 DEF Begun, Fresh, ReadOf!ReadInit, ReadOf!Fresh
  <2>2. CASE AnsweredRead(j)
    <3>1. ReadOf(j)!Answers = Answers
      BY Zenon DEF Answers, ReadOf!Answers
    <3>2. ASSUME NEW s, NEW a PROVE ReadOf(j)!After(s, a) = After(s, a)
      BY Zenon DEF After, PassFailed, Shrink, ReadOf!After, ReadOf!PassFailed, ReadOf!Shrink
    <3>3. QED
      BY <2>2, <3>1, <3>2 DEF AnsweredRead, ReadOf!ReadNext, ReadOf!Answer
  <2>3. QED
    BY <2>1, <2>2, LadderMoves
<1>2. QED
  BY <1>1, Invariance, PTL DEF Spec, ReadsMove

\* Rows that were read are kept through the slot pass, in every job.
RowsKept ==
  \A j \in JobIds : runs[j] # None /\ runs[j].ladder.pass = "slots"
                       => runs[j].ladder.out \in {"reading", "read", "gone"}

\* No screenshot of any job costs more calls than the job's deadline is made for,
\* and none loses its rows to the slot count.
THEOREM JobsReadSafely == Spec => []ReadsSafe
<1>1. Init => RowsKept
  BY DEF Init, RowsKept
<1>2. RecInv /\ RowsKept /\ [Next]_vars => RowsKept'
  <2> SUFFICES ASSUME RecInv, RowsKept, [Next]_vars, NEW j \in JobIds, runs'[j] # None,
                      runs'[j].ladder.pass = "slots"
               PROVE  runs'[j].ladder.out \in {"reading", "read", "gone"}
    BY DEF RowsKept
  <2>1. CASE runs'[j].ladder \in {Fresh, [Fresh EXCEPT !.out = "bad"]}
    BY <2>1 DEF Fresh
  <2>2. CASE runs[j] # None /\ runs'[j].ladder = runs[j].ladder
    BY <2>2 DEF RowsKept
  <2>3. CASE AnsweredRead(j)
    <3>1. PICK a \in Answers : runs'[j].ladder \in After(runs[j].ladder, a)
      BY <2>3 DEF AnsweredRead
    <3>2. runs[j].ladder \in ReadState /\ runs[j].ladder.out = "reading"
      BY <2>3 DEF AnsweredRead, At, RecInv, TypeOK, Run
    <3>3. PICK s : s = runs[j].ladder
      OBVIOUS
    <3>4. PICK t : t = runs'[j].ladder
      OBVIOUS
    <3>5. t.out \in {"reading", "read", "gone"}
      <4>1. s \in ReadState /\ s.out = "reading" /\ t \in After(s, a) /\ t.pass = "slots"
        BY <3>1, <3>2, <3>3, <3>4
      <4>2. QED
        BY <4>1 DEF After, PassFailed, Shrink, ReadState, Answers
    <3>6. QED
      BY <3>4, <3>5
  <2>4. QED
    BY <2>1, <2>2, <2>3, LadderMoves DEF Begun
<1>3. RecInv /\ RowsKept => ReadsSafe
  <2> SUFFICES ASSUME RecInv, RowsKept, NEW j \in JobIds, runs[j] # None
               PROVE  /\ ReadOf(j)!ReadTypeOK /\ ReadOf(j)!CallsBounded
                      /\ ReadOf(j)!RowsSurviveSlots
    BY DEF ReadsSafe
  <2>1. PICK s : s = runs[j].ladder
    OBVIOUS
  <2>2. s \in ReadState /\ Paid(s)
    BY <2>1 DEF RecInv, TypeOK, Run, CallsPaidFor
  <2>3. s.calls <= MaxCallsPerImage
    BY <2>2, RungsAssumption DEF ReadState, Paid, Behind, MaxCallsPerImage
  <2>4. QED
    BY <2>1, <2>2, <2>3 DEF RowsKept, ReadOf!ReadTypeOK, ReadOf!CallsBounded, ReadOf!RowsSurviveSlots,
         ReadOf!ReadState, ReadOf!MaxCallsPerImage, ReadState, MaxCallsPerImage, Outcomes, ReadOf!Outcomes
<1>4. QED
  BY <1>1, <1>2, <1>3, Invariance, PTL DEF Spec

(******************************* the deadline ******************************)

\* What the screenshots behind the one in flight may take, and n calls of it.
Rest(r)  == (Len(r.batch) - (r.image + 1)) * MaxImageBudget
Spare(n) == n * PerCallTimeout

\* A note in time, when n ticks of the deadline were lost outside the job's calls
\* and its calls have o left of the budget of the screenshot in flight: a whole
\* budget for every screenshot behind it, and in o a timeout for every call it may
\* still make. A call that was answered before its timeout has left a tick of it;
\* one that was not ends its pass.
InTime(r, n, o) ==
  /\ o \in Nat
  /\ r.at = "spawn" => r.image = 0 /\ r.left = 0
  /\ r.at = "next" => r.left + n >= (Len(r.batch) - r.image) * MaxImageBudget
  /\ r.at \in {"ask", "wait", "call"} => r.left + n >= Rest(r) + o
  /\ r.at \in {"ask", "wait"} /\ r.ladder.out = "reading" =>
       o >= Spare(MaxCallsPerImage - r.ladder.calls) + r.ladder.calls
  /\ r.at = "call" =>
       o >= r.callLeft + Spare(MaxCallsPerImage - (r.ladder.calls + 1)) + r.ladder.calls

\* The note s comes after r and no time has passed: the budget o goes along, but a
\* new one is opened for a new screenshot.
Carried(r, s, n, o) ==
  /\ ~ s.left < r.left
  /\ \/ s.at \in {"spawn", "next"} /\ InTime(s, n, 0)
     \/ r.at = "next" /\ s.at = "ask" /\ InTime(s, n, MaxImageBudget)
     \/ r.at # "next" /\ s.at \in {"ask", "wait", "call"} /\ InTime(s, n, o)

LEMMA Gap ==
  ASSUME NEW m \in Nat, NEW n \in Nat, n < m
  PROVE  m - (n + 1) \in Nat /\ m - n = (m - (n + 1)) + 1
OBVIOUS

LEMMA OneMore ==
  ASSUME NEW n \in Nat, NEW m \in Nat
  PROVE  (n + 1) * m = n * m + m /\ n * m \in Nat /\ 0 * m = 0
OBVIOUS

\* The numbers of a note, and what its ladder has left to call.
LEMMA NoteNumbers ==
  ASSUME RecInv, NEW j \in JobIds, runs[j] # None
  PROVE  /\ runs[j] \in Run /\ runs[j].image \in Nat /\ Len(runs[j].batch) \in Nat
         /\ runs[j].left \in Nat /\ runs[j].callLeft \in 0 .. PerCallTimeout
         /\ runs[j].ladder \in ReadState /\ runs[j].ladder.calls \in Nat
         /\ PerCallTimeout \in Nat \ {0} /\ MaxCallsPerImage \in Nat /\ MaxCallsPerImage >= 3
         /\ MaxImageBudget \in Nat /\ MaxImageBudget = MaxCallsPerImage * PerCallTimeout
         /\ runs[j].ladder.out = "reading" => runs[j].ladder.calls + 1 <= MaxCallsPerImage
<1>1. runs[j] \in Run /\ Len(runs[j].batch) \in Nat /\ Paid(runs[j].ladder)
  BY RecognitionAssumption DEF RecInv, TypeOK, Run, CallsPaidFor
<1>2. runs[j].ladder \in ReadState
  BY <1>1 DEF Run
<1>3. /\ PerCallTimeout \in Nat \ {0} /\ MaxCallsPerImage \in Nat
      /\ MaxCallsPerImage >= 3 /\ LadderRungs \in Nat
  BY RecognitionAssumption, RungsAssumption DEF MaxCallsPerImage
<1>4. ASSUME NEW l \in ReadState, Paid(l), l.out = "reading"
      PROVE  l.calls + 1 <= MaxCallsPerImage
  BY <1>3, <1>4, RungsAssumption DEF ReadState, Paid, Behind, MaxCallsPerImage
<1>5. QED
  BY <1>1, <1>2, <1>3, <1>4, BudgetType DEF Run, ReadState, MaxImageBudget

\* Behind the screenshot in flight there is room, if any.
LEMMA RestNumber ==
  ASSUME RecInv, NEW j \in JobIds, runs[j] # None, runs[j].at \in {"ask", "wait", "call"}
  PROVE  Rest(runs[j]) \in Nat
<1>1. /\ runs[j].image \in Nat /\ Len(runs[j].batch) \in Nat /\ MaxImageBudget \in Nat
      /\ runs[j].image + 1 <= Len(runs[j].batch)
  BY NoteNumbers, JobOfRun DEF Fits
<1>2. Len(runs[j].batch) - (runs[j].image + 1) \in Nat
  BY <1>1
<1>3. QED
  BY <1>1, <1>2, Products DEF Rest

\* What one more answer does to the count, and which ones end the pass.
LEMMA AfterCalls ==
  ASSUME NEW s \in ReadState, s.out = "reading", NEW a \in Answers, NEW t \in After(s, a)
  PROVE  t.calls = s.calls + 1 /\ (t.out = "reading" => a \notin {"timeout", "gone"})
BY DEF After, PassFailed, Shrink, ReadState, Answers

LEMMA SpawnInTime ==
  ASSUME RecInv, NEW j \in JobIds, Spawn(j), NEW n \in Nat, NEW o, InTime(runs[j], n, o)
  PROVE  Carried(runs[j], runs'[j], n, o)
<1> DEFINE m == Len(runs[j].batch) * MaxImageBudget
           r == [runs[j] EXCEPT !.at = "next", !.left = m]
<1>1. /\ runs[j] # None /\ runs[j].at = "spawn" /\ runs[j] \in Run
      /\ Len(runs[j].batch) \in Nat /\ MaxImageBudget \in Nat
      /\ runs \in [JobIds -> Run \cup {None}]
  BY NoteNumbers DEF Spawn, At, RecInv, TypeOK
<1>2. runs[j].image = 0 /\ runs[j].left = 0
  BY <1>1, JobOfRun DEF InTime, Fits
<1>3. m \in Nat /\ m = Len(runs[j].batch) * MaxImageBudget
  BY <1>1, Products
<1>4. runs'[j] = r
  BY <1>1 DEF Spawn
<1> HIDE DEF m
<1>5. r.at = "next" /\ r.left = m /\ r.batch = runs[j].batch /\ r.image = runs[j].image
  BY <1>1 DEF Run
<1> HIDE DEF r
<1>6. Len(r.batch) - r.image = Len(runs[j].batch)
  BY <1>1, <1>2, <1>5
<1>7. InTime(r, n, 0)
  BY <1>3, <1>5, <1>6 DEF InTime
<1>8. ~ r.left < runs[j].left
  BY <1>2, <1>3, <1>5
<1>9. QED
  BY <1>4, <1>5, <1>7, <1>8 DEF Carried

\* A screenshot behind costs no more than its budget.
LEMMA AdvanceInTime ==
  ASSUME RecInv, NEW j \in JobIds, runs[j] # None,
         \/ runs[j].at = "next" /\ HasNext(j)
         \/ runs[j].at = "ask" /\ runs[j].ladder.out # "reading",
         Advance(j), NEW n \in Nat, NEW o, InTime(runs[j], n, o)
  PROVE  Carried(runs[j], runs'[j], n, o)
<1> DEFINE i == runs[j].image + 1
           r == [runs[j] EXCEPT !.at = "next", !.image = i]
<1>1. /\ runs[j] \in Run /\ runs[j].image \in Nat /\ Len(runs[j].batch) \in Nat
      /\ runs[j].left \in Nat /\ MaxImageBudget \in Nat
      /\ runs \in [JobIds -> Run \cup {None}]
  BY NoteNumbers DEF RecInv, TypeOK
<1>2. i \in Nat /\ i = runs[j].image + 1
  BY <1>1
<1>3. runs'[j] = r
  BY <1>1 DEF Advance
<1> HIDE DEF i
<1>4. r.at = "next" /\ r.left = runs[j].left /\ r.batch = runs[j].batch /\ r.image = i
  BY <1>1, <1>2 DEF Run
<1> HIDE DEF r
<1>5. runs[j].left + n >= (Len(runs[j].batch) - i) * MaxImageBudget
  <2>1. CASE runs[j].at = "next" /\ HasNext(j)
    <3> DEFINE k == Len(runs[j].batch) - i
    <3>1. k \in Nat /\ Len(runs[j].batch) - runs[j].image = k + 1
      <4>1. runs[j].image < Len(runs[j].batch)
        BY <2>1 DEF HasNext
      <4>2. QED
        BY <4>1, <1>1, <1>2, Gap
    <3>2. runs[j].left + n >= (k + 1) * MaxImageBudget
      BY <2>1, <3>1 DEF InTime
    <3> HIDE DEF k
    <3>3. (k + 1) * MaxImageBudget = k * MaxImageBudget + MaxImageBudget
          /\ k * MaxImageBudget \in Nat
      BY <1>1, <3>1, OneMore
    <3>4. runs[j].left + n >= k * MaxImageBudget
      BY <1>1, <3>2, <3>3
    <3>5. QED
      BY <3>4 DEF k
  <2>2. CASE runs[j].at = "ask" /\ runs[j].ladder.out # "reading"
    <3>1. runs[j].left + n >= Rest(runs[j]) + o /\ o \in Nat /\ Rest(runs[j]) \in Nat
      BY <2>2, RestNumber DEF InTime
    <3>2. runs[j].left + n >= Rest(runs[j])
      BY <1>1, <3>1
    <3>3. QED
      BY <1>2, <3>2 DEF Rest
  <2>3. QED
    BY <2>1, <2>2
<1>6. InTime(r, n, 0)
  BY <1>4, <1>5 DEF InTime
<1>7. ~ r.left < runs[j].left
  BY <1>1, <1>4
<1>8. QED
  BY <1>3, <1>4, <1>6, <1>7 DEF Carried

\* A screenshot begins with its whole budget.
LEMMA BeginInTime ==
  ASSUME RecInv, NEW j \in JobIds, BeginImage(j), NEW n \in Nat, NEW o, InTime(runs[j], n, o)
  PROVE  Carried(runs[j], runs'[j], n, o)
<1>1. /\ runs[j] # None /\ runs[j].at = "next"
      /\ runs[j] \in Run /\ runs[j].image \in Nat /\ Len(runs[j].batch) \in Nat
      /\ runs[j].left \in Nat /\ MaxImageBudget \in Nat
      /\ MaxImageBudget = MaxCallsPerImage * PerCallTimeout
      /\ runs \in [JobIds -> Run \cup {None}]
  BY NoteNumbers DEF BeginImage, At, RecInv, TypeOK
<1>2. PICK l \in {Fresh, [Fresh EXCEPT !.out = "bad"]} :
        runs'[j] = [runs[j] EXCEPT !.at = "ask", !.seen = @ \cup {Raw(j)}, !.ladder = l]
  BY <1>1 DEF BeginImage
<1> DEFINE r == [runs[j] EXCEPT !.at = "ask", !.seen = @ \cup {Raw(j)}, !.ladder = l]
<1>3. r.at = "ask" /\ r.ladder = l /\ r.image = runs[j].image /\ r.batch = runs[j].batch
      /\ r.left = runs[j].left
  BY <1>1 DEF Run
<1>4. l.calls = 0
  BY DEF Fresh
<1> DEFINE k == Len(runs[j].batch) - (runs[j].image + 1)
<1>5. k \in Nat /\ Len(runs[j].batch) - runs[j].image = k + 1
  <2>1. runs[j].image < Len(runs[j].batch)
    BY DEF BeginImage, HasNext
  <2>2. QED
    BY <2>1, <1>1, Gap
<1>6. runs[j].left + n >= (k + 1) * MaxImageBudget
  BY <1>1, <1>5 DEF InTime
<1>7. Rest(r) = k * MaxImageBudget
  BY <1>3 DEF Rest
<1> HIDE DEF k, r
<1>8. (k + 1) * MaxImageBudget = k * MaxImageBudget + MaxImageBudget
      /\ k * MaxImageBudget \in Nat
  BY <1>1, <1>5, OneMore
<1>9. Spare(MaxCallsPerImage - l.calls) + l.calls = MaxImageBudget
  <2>1. MaxCallsPerImage \in Nat
    BY RungsAssumption DEF MaxCallsPerImage
  <2>2. MaxCallsPerImage - l.calls = MaxCallsPerImage
    BY <1>4, <2>1
  <2>3. QED
    BY <1>1, <1>4, <2>2 DEF Spare
<1>10. InTime(r, n, MaxImageBudget)
  <2>1. r.left + n >= Rest(r) + MaxImageBudget
    BY <1>1, <1>3, <1>6, <1>7, <1>8
  <2>2. MaxImageBudget >= Spare(MaxCallsPerImage - r.ladder.calls) + r.ladder.calls
    BY <1>1, <1>3, <1>9
  <2>3. QED
    BY <1>1, <1>3, <2>1, <2>2 DEF InTime
<1>11. ~ r.left < runs[j].left
  BY <1>1, <1>3
<1>12. QED
  BY <1>1, <1>2, <1>3, <1>10, <1>11 DEF Carried, r

LEMMA ReportInTime ==
  ASSUME RecInv, NEW j \in JobIds, Report(j), NEW n \in Nat, NEW o, InTime(runs[j], n, o)
  PROVE  Carried(runs[j], runs'[j], n, o)
<1> DEFINE r == [runs[j] EXCEPT !.at = "wait"]
<1>1. /\ runs[j] # None /\ runs[j].at = "ask" /\ runs[j] \in Run /\ runs[j].left \in Nat
      /\ runs \in [JobIds -> Run \cup {None}]
  BY NoteNumbers DEF Report, At, RecInv, TypeOK
<1>2. r.at = "wait" /\ r.ladder = runs[j].ladder /\ r.image = runs[j].image
      /\ r.batch = runs[j].batch /\ r.left = runs[j].left
  BY <1>1 DEF Run
<1>3. runs'[j] = r
  BY <1>1 DEF Report
<1> HIDE DEF r
<1>4. Rest(r) = Rest(runs[j])
  BY <1>2 DEF Rest
<1>5. InTime(r, n, o)
  BY <1>1, <1>2, <1>4 DEF InTime
<1>6. QED
  BY <1>1, <1>2, <1>3, <1>5 DEF Carried

\* The call takes its timeout out of what the ladder has left.
LEMMA AcquireInTime ==
  ASSUME RecInv, NEW j \in JobIds, Acquire(j), NEW n \in Nat, NEW o, InTime(runs[j], n, o)
  PROVE  Carried(runs[j], runs'[j], n, o)
<1> DEFINE r == [runs[j] EXCEPT !.at = "call", !.callLeft = PerCallTimeout]
           l == runs[j].ladder
           k == MaxCallsPerImage - (l.calls + 1)
<1>1. /\ runs[j] # None /\ runs[j].at = "wait" /\ runs[j] \in Run
      /\ runs[j].left \in Nat /\ PerCallTimeout \in Nat /\ MaxCallsPerImage \in Nat
      /\ l.calls \in Nat /\ l.out = "reading" /\ l.calls + 1 <= MaxCallsPerImage
      /\ runs \in [JobIds -> Run \cup {None}]
  <2>1. runs[j] # None /\ runs[j].at = "wait"
    BY DEF Acquire, At
  <2>2. runs[j].ladder.out = "reading"
    BY <2>1, JobOfRun DEF Fits
  <2>3. QED
    BY <2>1, <2>2, NoteNumbers DEF RecInv, TypeOK
<1>2. r.at = "call" /\ r.ladder = l /\ r.image = runs[j].image
      /\ r.batch = runs[j].batch /\ r.left = runs[j].left /\ r.callLeft = PerCallTimeout
  BY <1>1 DEF Run
<1>3. runs'[j] = r
  BY <1>1 DEF Acquire
<1>4. k \in Nat /\ MaxCallsPerImage - l.calls = k + 1
  BY <1>1
<1>5. o \in Nat /\ o >= Spare(k + 1) + l.calls /\ runs[j].left + n >= Rest(runs[j]) + o
  BY <1>1, <1>4 DEF InTime
<1>6. Rest(r) = Rest(runs[j])
  BY <1>2 DEF Rest
<1> HIDE DEF r, l
<1>7. Spare(k + 1) = Spare(k) + PerCallTimeout /\ Spare(k) \in Nat
  <2> HIDE DEF k
  <2>1. QED
    BY <1>1, <1>4, OneMore DEF Spare
<1>8. o >= PerCallTimeout + Spare(k) + l.calls
  <2> HIDE DEF k
  <2>1. QED
    BY <1>1, <1>5, <1>7
<1>9. InTime(r, n, o)
  BY <1>2, <1>5, <1>6, <1>8 DEF InTime
<1>10. QED
  BY <1>1, <1>2, <1>3, <1>9 DEF Carried

\* A call that was answered leaves a tick of its timeout; one that ran out ends
\* the pass, after which no call of the screenshot follows, or the slot pass only.
LEMMA AnsweredInTime ==
  ASSUME RecInv, NEW j \in JobIds, Answered(j), NEW n \in Nat, NEW o, InTime(runs[j], n, o)
  PROVE  Carried(runs[j], runs'[j], n, o)
<1> DEFINE l == runs[j].ladder
<1>1. /\ runs[j] # None /\ runs[j].at \in {"wait", "call"} /\ runs[j] \in Run
      /\ runs[j].left \in Nat /\ runs[j].callLeft \in 0 .. PerCallTimeout
      /\ PerCallTimeout \in Nat /\ MaxCallsPerImage \in Nat
      /\ l \in ReadState /\ l.calls \in Nat /\ l.out = "reading"
      /\ l.calls + 1 <= MaxCallsPerImage
      /\ runs \in [JobIds -> Run \cup {None}]
  <2>1. runs[j] # None /\ runs[j].at \in {"wait", "call"}
    BY DEF Answered, At
  <2>2. runs[j].ladder.out = "reading"
    BY <2>1, JobOfRun DEF Fits
  <2>3. QED
    BY <2>1, <2>2, NoteNumbers DEF RecInv, TypeOK
<1>0. PICK a \in Possible(j) : \E s \in After(l, a) :
        runs' = [runs EXCEPT ![j].at = "ask", ![j].ladder = s]
  BY DEF Answered
<1>2. PICK s \in After(l, a) :
        runs' = [runs EXCEPT ![j].at = "ask", ![j].ladder = s]
  BY <1>0
<1> DEFINE r == [runs[j] EXCEPT !.at = "ask", !.ladder = s]
           k == MaxCallsPerImage - (l.calls + 1)
<1>3. runs'[j] = r
  BY <1>1, <1>2
<1>4. r.at = "ask" /\ r.ladder = s /\ r.image = runs[j].image
      /\ r.batch = runs[j].batch /\ r.left = runs[j].left
  BY <1>1 DEF Run
<1>5. s.calls = l.calls + 1
  BY <1>1, AfterCalls DEF Possible, Answers
<1>6. s.out = "reading" => a \notin {"timeout", "gone"}
  BY <1>1, AfterCalls DEF Possible, Answers
<1>7. Rest(r) = Rest(runs[j])
  BY <1>4 DEF Rest
<1>8. k \in Nat /\ MaxCallsPerImage - s.calls = k
  BY <1>1, <1>5
<1>9. Spare(k) \in Nat
  <2> HIDE DEF k
  <2>1. QED
    BY <1>1, <1>8, OneMore DEF Spare
<1>10. o \in Nat /\ r.left + n >= Rest(r) + o
  BY <1>1, <1>4, <1>7 DEF InTime
<1>11. s.out = "reading" => o >= Spare(k) + s.calls
  <2> SUFFICES ASSUME s.out = "reading" PROVE o >= Spare(k) + s.calls
    OBVIOUS
  <2>1. runs[j].left # 0 /\ runs[j].callLeft >= 1
    BY <1>1, <1>2, <1>6 DEF Possible
  <2>2. runs[j].at = "call"
    BY <1>1, <2>1 DEF Answered, At
  <2>3. o >= runs[j].callLeft + Spare(k) + l.calls
    BY <2>2 DEF InTime
  <2> HIDE DEF r, l, k
  <2>4. QED
    BY <1>1, <1>5, <1>9, <1>10, <2>1, <2>3
<1> HIDE DEF r, l, k
<1>12. InTime(r, n, o)
  BY <1>4, <1>8, <1>10, <1>11 DEF InTime
<1>13. QED
  BY <1>1, <1>3, <1>4, <1>12 DEF Carried

\* A tick of a call comes out of the budget, any other tick is lost; the budget
\* of a call outlasts its timeout.
LEMMA TickInTime ==
  ASSUME RecInv, NEW j \in JobIds, Tick, runs'[j] # None, NEW n \in Nat, NEW o,
         runs[j] # None => InTime(runs[j], n, o)
  PROVE  /\ runs[j] # None /\ runs'[j].at = runs[j].at
         /\ ~ Nearer(j) => InTime(runs'[j], n, o)
         /\ Nearer(j) /\ At(j, "call") => InTime(runs'[j], n, o - 1)
         /\ Nearer(j) /\ ~ At(j, "call") => InTime(runs'[j], n + 1, o)
<1>1. runs'[j] = IF runs[j] = None \/ At(j, "spawn") THEN runs[j]
                 ELSE [runs[j] EXCEPT !.left = Less(@),
                         !.callLeft = IF At(j, "call") THEN Less(@) ELSE @]
  BY DEF Tick
<1>2. runs[j] # None /\ ~ Due(j)
  BY <1>1 DEF Tick
<1>3. runs[j] \in Run /\ InTime(runs[j], n, o) /\ runs[j].left \in Nat /\ runs[j].callLeft \in Nat
  BY <1>2, NoteNumbers
<1>4. CASE At(j, "spawn")
  <2>1. runs'[j] = runs[j] /\ ~ Nearer(j)
    BY <1>1, <1>3, <1>4 DEF Nearer
  <2>2. QED
    BY <1>2, <1>3, <2>1
<1>5. CASE ~ At(j, "spawn") /\ runs[j].left = 0
  <2>1. ~ At(j, "call")
    BY <1>2, <1>5 DEF Due
  <2>2. runs'[j] = [runs[j] EXCEPT !.left = 0]
    BY <1>1, <1>2, <1>3, <1>5, <2>1 DEF Less, Run
  <2>3. runs'[j] = runs[j]
    BY <1>3, <1>5, <2>2 DEF Run
  <2>4. ~ Nearer(j)
    BY <1>3, <2>3 DEF Nearer
  <2>5. QED
    BY <1>2, <1>3, <2>3, <2>4
<1>6. CASE ~ At(j, "spawn") /\ runs[j].left # 0
  <2> DEFINE m == runs[j].left - 1
             c == IF At(j, "call") THEN runs[j].callLeft - 1 ELSE runs[j].callLeft
  <2>1. m \in Nat /\ runs[j].left = m + 1 /\ m < runs[j].left
    BY <1>3, <1>6
  <2>2. Less(runs[j].left) = m /\ (At(j, "call") => Less(runs[j].callLeft) = c)
    BY <1>2, <1>6 DEF Due, Less
  <2>3. runs'[j] = [runs[j] EXCEPT !.left = m, !.callLeft = c]
    BY <1>1, <1>2, <1>3, <1>6, <2>2 DEF Run
  <2>4. At(j, "call") => c = runs[j].callLeft - 1 /\ runs[j].callLeft >= 1
    BY <1>2, <1>3, <1>6 DEF Due, At
  <2> HIDE DEF m, c
  <2>5. /\ runs'[j].at = runs[j].at /\ runs'[j].left = m /\ runs'[j].callLeft = c
        /\ runs'[j].batch = runs[j].batch /\ runs'[j].image = runs[j].image
        /\ runs'[j].ladder = runs[j].ladder
    BY <1>3, <2>3 DEF Run
  <2>6. Nearer(j)
    BY <1>2, <2>1, <2>5 DEF Nearer
  <2>7. Rest(runs'[j]) = Rest(runs[j])
    BY <2>5 DEF Rest
  <2>8. CASE At(j, "call")
    <3> DEFINE s == Spare(MaxCallsPerImage - (runs[j].ladder.calls + 1))
    <3>1. s \in Nat /\ runs[j].ladder.calls \in Nat /\ Rest(runs[j]) \in Nat
      <4>1. runs[j].ladder.out = "reading" /\ runs[j].at = "call"
        BY <2>8, <1>2, JobOfRun DEF At, Fits
      <4>2. MaxCallsPerImage - (runs[j].ladder.calls + 1) \in Nat /\ PerCallTimeout \in Nat
        BY <1>2, <4>1, NoteNumbers
      <4>3. QED
        BY <1>2, <4>1, <4>2, Products, NoteNumbers, RestNumber DEF Spare
    <3>2. /\ o \in Nat /\ runs[j].left + n >= Rest(runs[j]) + o
          /\ o >= runs[j].callLeft + s + runs[j].ladder.calls
      BY <1>3, <2>8 DEF InTime, At
    <3>3. s = Spare(MaxCallsPerImage - (runs'[j].ladder.calls + 1))
      BY <2>5
    <3> HIDE DEF s
    <3>4. /\ o - 1 \in Nat /\ m + n >= Rest(runs[j]) + (o - 1)
          /\ o - 1 >= c + s + runs[j].ladder.calls
      BY <1>3, <2>1, <2>4, <2>8, <3>1, <3>2
    <3>5. InTime(runs'[j], n, o - 1)
      BY <2>5, <2>7, <2>8, <3>3, <3>4 DEF InTime, At
    <3>6. QED
      BY <1>2, <2>5, <2>6, <2>8, <3>5
  <2>9. CASE ~ At(j, "call")
    <3>1. runs'[j].left + (n + 1) = runs[j].left + n
      BY <2>1, <2>5
    <3>2. runs[j].at # "call" /\ runs[j].at # "spawn"
      BY <1>2, <1>6, <2>9 DEF At
    <3>3. InTime(runs'[j], n + 1, o)
      BY <1>3, <2>5, <2>7, <3>1, <3>2 DEF InTime
    <3>4. QED
      BY <1>2, <2>5, <2>6, <2>9, <3>3
  <2>10. QED
    BY <2>8, <2>9
<1>7. QED
  BY <1>4, <1>5, <1>6

\* The other steps take no time: a goroutine is new, or its numbers are carried on.
LEMMA StepInTime ==
  ASSUME RecInv, [Next]_vars, ~ Tick, NEW j \in JobIds, runs'[j] # None,
         NEW n \in Nat, NEW o, runs[j] # None => InTime(runs[j], n, o)
  PROVE  IF runs[j] = None THEN runs'[j].at = "spawn" /\ InTime(runs'[j], n, 0)
         ELSE Carried(runs[j], runs'[j], n, o)
<1>1. runs \in [JobIds -> Run \cup {None}]
  BY DEF RecInv, TypeOK
<1>2. ASSUME runs'[j] = runs[j]
      PROVE  IF runs[j] = None THEN runs'[j].at = "spawn" /\ InTime(runs'[j], n, 0)
             ELSE Carried(runs[j], runs'[j], n, o)
  <2>1. runs[j] # None /\ InTime(runs[j], n, o) /\ runs[j].left \in Nat
        /\ runs[j].at \in {"spawn", "next", "ask", "wait", "call"}
    BY <1>2, NoteNumbers DEF Run
  <2>2. runs[j].at \in {"spawn", "next"} => InTime(runs[j], n, 0)
    BY <2>1 DEF InTime
  <2>3. QED
    BY <1>2, <2>1, <2>2 DEF Carried
<1>3. CASE StartRecognition
  <2>1. CASE UNCHANGED runs
    BY <2>1, <1>2
  <2>2. ASSUME NEW k \in JobIds \ used, NEW b,
               runs' = [runs EXCEPT ![k] =
                 [at |-> "spawn", batch |-> b, image |-> 0, seen |-> {},
                  ladder |-> Fresh, left |-> 0, callLeft |-> 0]]
        PROVE  IF runs[j] = None THEN runs'[j].at = "spawn" /\ InTime(runs'[j], n, 0)
               ELSE Carried(runs[j], runs'[j], n, o)
    <3>1. CASE k = j
      <4> DEFINE r == [at |-> "spawn", batch |-> b, image |-> 0, seen |-> {},
                       ladder |-> Fresh, left |-> 0, callLeft |-> 0]
      <4>1. runs'[j] = r
        BY <1>1, <2>2, <3>1
      <4>2. InTime(r, n, 0) /\ r.at = "spawn"
        BY DEF InTime
      <4>3. runs[j] = None
        <5>1. j \notin used
          BY <3>1
        <5>2. runs[j] # None => \E x \in jobs : x.id = j
          BY JobOfRun
        <5>3. QED
          BY <5>1, <5>2 DEF RecInv, IdsOnce
      <4> HIDE DEF r
      <4>4. QED
        BY <4>1, <4>2, <4>3
    <3>2. CASE k # j
      BY <1>1, <1>2, <2>2, <3>2
    <3>3. QED
      BY <3>1, <3>2
  <2>3. QED
    BY <1>3, <2>1, <2>2 DEF StartRecognition
<1>4. CASE UNCHANGED vars \/ GetRecognition
  BY <1>2, <1>4 DEF vars, GetRecognition
<1>5. ~ Restart
  BY DEF Restart
<1>6. ASSUME NEW k \in JobIds, Local(k) \/ Answered(k) \/ Panic(k)
      PROVE  IF runs[j] = None THEN runs'[j].at = "spawn" /\ InTime(runs'[j], n, 0)
             ELSE Carried(runs[j], runs'[j], n, o)
  <2>1. CASE k # j
    <3>1. runs'[j] = runs[j]
      BY <1>1, <1>6, <2>1 DEF Local, Spawn, SkipImage, BeginImage, Report, Acquire, EndImage,
         FinishJob, Answered, Panic, Advance, End
    <3>2. QED
      BY <1>2, <3>1
  <2>2. CASE k = j
    <3>1. runs[j] # None
      BY <1>6, <2>2 DEF Local, Spawn, SkipImage, BeginImage, Report, Acquire, EndImage,
         FinishJob, Answered, Panic, At
    <3>2. ~ FinishJob(j) /\ ~ Panic(j)
      BY <1>1 DEF FinishJob, Panic, End
    <3>3. CASE SkipImage(j)
      <4>1. runs[j].at = "next" /\ HasNext(j) /\ Advance(j)
        BY <3>3 DEF SkipImage, At
      <4>2. QED
        BY <3>1, <4>1, AdvanceInTime
    <3>4. CASE EndImage(j)
      <4>1. runs[j].at = "ask" /\ runs[j].ladder.out # "reading" /\ Advance(j)
        BY <1>1, <3>4 DEF EndImage, At, End
      <4>2. QED
        BY <3>1, <4>1, AdvanceInTime
    <3>5. QED
      BY <1>6, <2>2, <3>1, <3>2, <3>3, <3>4, SpawnInTime, BeginInTime, ReportInTime,
         AcquireInTime, AnsweredInTime DEF Local
  <2>3. QED
    BY <2>1, <2>2
<1>7. QED
  BY <1>3, <1>4, <1>5, <1>6 DEF Next

\* While the ladder asks, the budget is not used up.
LEMMA BudgetLasts ==
  ASSUME RecInv, NEW j \in JobIds, At(j, "wait") \/ At(j, "call"), NEW n \in Nat, NEW o,
         InTime(runs[j], n, o)
  PROVE  o > 0 /\ runs[j].left + n >= o
<1> DEFINE l == runs[j].ladder
           k == MaxCallsPerImage - (l.calls + 1)
<1>1. /\ runs[j] # None /\ runs[j].at \in {"wait", "call"}
      /\ runs[j].left \in Nat /\ runs[j].callLeft \in Nat
      /\ PerCallTimeout \in Nat \ {0} /\ MaxCallsPerImage \in Nat
      /\ MaxCallsPerImage >= 3 /\ l.calls \in Nat /\ Rest(runs[j]) \in Nat
  BY NoteNumbers, RestNumber DEF At
<1>2. l.out = "reading" /\ l.calls + 1 <= MaxCallsPerImage
  BY <1>1, JobOfRun, NoteNumbers DEF Fits
<1>3. k \in Nat /\ MaxCallsPerImage - l.calls = k + 1 /\ (l.calls = 0 => k >= 1)
  BY <1>1, <1>2
<1>4. Spare(k) \in Nat /\ Spare(k + 1) = Spare(k) + PerCallTimeout
  <2> HIDE DEF k
  <2>1. QED
    BY <1>1, <1>3, OneMore DEF Spare
<1>5. k >= 1 => Spare(k) >= 1
  <2>1. SUFFICES ASSUME k >= 1 PROVE Spare(k) >= 1
    OBVIOUS
  <2>2. k - 1 \in Nat /\ (k - 1) + 1 = k
    BY <1>3, <2>1
  <2> HIDE DEF k
  <2>3. Spare(k) = (k - 1) * PerCallTimeout + PerCallTimeout /\ (k - 1) * PerCallTimeout \in Nat
    BY <1>1, <2>2, OneMore DEF Spare
  <2>4. QED
    BY <1>1, <2>3
<1>6. o \in Nat /\ runs[j].left + n >= Rest(runs[j]) + o
  BY <1>1 DEF InTime
<1>7. o > 0
  <2>1. CASE runs[j].at = "wait"
    <3>1. o >= Spare(k + 1) + l.calls
      BY <1>2, <1>3, <2>1 DEF InTime
    <3> HIDE DEF k, l
    <3>2. QED
      BY <1>1, <1>4, <1>6, <3>1
  <2>2. CASE runs[j].at = "call"
    <3>1. o >= runs[j].callLeft + Spare(k) + l.calls
      BY <2>2 DEF InTime
    <3> HIDE DEF k, l
    <3>2. QED
      BY <1>1, <1>3, <1>4, <1>5, <1>6, <3>1
  <2>3. QED
    BY <1>1, <2>1, <2>2
<1>8. QED
  BY <1>1, <1>6, <1>7

\* What was lost and what is left, as the history variables keep them.
TimedInv ==
  /\ lost \in [JobIds -> Nat]
  /\ own \in [JobIds -> Nat]
  /\ \A j \in JobIds : runs[j] # None => InTime(runs[j], lost[j], own[j])

LEMMA TimedSteps == RecInv /\ TimedInv /\ [TimedNext]_timedVars => TimedInv'
<1> SUFFICES ASSUME RecInv, TimedInv, [TimedNext]_timedVars PROVE TimedInv'
  OBVIOUS
<1>1. CASE UNCHANGED timedVars
  BY <1>1 DEF timedVars, vars, TimedInv, InTime, Rest, Spare
<1>2. CASE TimedNext
  <2>1. lost \in [JobIds -> Nat] /\ own \in [JobIds -> Nat] /\ MaxImageBudget \in Nat
    BY BudgetType DEF TimedInv
  <2>2. ASSUME NEW j \in JobIds, runs'[j] = None
        PROVE  lost'[j] = 0 /\ own'[j] = 0
    BY <1>2, <2>2 DEF TimedNext, Clocked
  <2>3. ASSUME NEW j \in JobIds, runs'[j] # None
        PROVE  lost'[j] \in Nat /\ own'[j] \in Nat /\ InTime(runs'[j], lost'[j], own'[j])
    <3>1. lost'[j] = IF Nearer(j) /\ ~ At(j, "call") THEN lost[j] + 1 ELSE lost[j]
      BY <1>2, <2>3 DEF TimedNext, Clocked
    <3>2. own'[j] = IF runs'[j].at \in {"spawn", "next"} THEN 0
                    ELSE IF Began(j) THEN MaxImageBudget
                    ELSE IF Nearer(j) /\ At(j, "call") THEN own[j] - 1 ELSE own[j]
      BY <1>2, <2>3 DEF TimedNext, Clocked
    <3>3. lost[j] \in Nat /\ own[j] \in Nat
          /\ (runs[j] # None => InTime(runs[j], lost[j], own[j]))
      BY <2>1 DEF TimedInv
    <3> DEFINE p == own'[j]
               q == lost'[j]
    <3>4. InTime(runs'[j], q, p)
      <4>1. CASE Tick
        <5>1. /\ runs[j] # None /\ runs'[j].at = runs[j].at
              /\ ~ Nearer(j) => InTime(runs'[j], lost[j], own[j])
              /\ Nearer(j) /\ At(j, "call") => InTime(runs'[j], lost[j], own[j] - 1)
              /\ Nearer(j) /\ ~ At(j, "call") => InTime(runs'[j], lost[j] + 1, own[j])
          BY <2>3, <3>3, <4>1, TickInTime
        <5>2. ~ Began(j)
          BY <5>1 DEF Began, At
        <5>3. CASE runs'[j].at \in {"spawn", "next"}
          <6>1. p = 0 /\ ~ At(j, "call")
            BY <3>2, <5>1, <5>3 DEF At
          <6>2. InTime(runs'[j], q, own[j])
            BY <3>1, <5>1, <6>1
          <6>3. QED
            BY <5>3, <6>1, <6>2 DEF InTime
        <5>4. CASE runs'[j].at \notin {"spawn", "next"}
          <6>1. p = IF Nearer(j) /\ At(j, "call") THEN own[j] - 1 ELSE own[j]
            BY <3>2, <5>2, <5>4
          <6>2. QED
            BY <3>1, <5>1, <6>1
        <5>5. QED
          BY <5>3, <5>4
      <4>2. CASE ~ Tick
        <5>1. IF runs[j] = None THEN runs'[j].at = "spawn" /\ InTime(runs'[j], lost[j], 0)
              ELSE Carried(runs[j], runs'[j], lost[j], own[j])
          BY <1>2, <2>3, <3>3, <4>2, StepInTime DEF TimedNext
        <5>2. CASE runs[j] = None
          BY <3>1, <3>2, <5>1, <5>2 DEF Nearer
        <5>3. CASE runs[j] # None
          <6>1. Carried(runs[j], runs'[j], lost[j], own[j]) /\ ~ Nearer(j)
            BY <5>1, <5>3 DEF Carried, Nearer
          <6>2. q = lost[j]
            BY <3>1, <6>1
          <6>3. CASE runs'[j].at \in {"spawn", "next"}
            BY <3>2, <6>1, <6>2, <6>3 DEF Carried
          <6>4. CASE runs[j].at = "next" /\ runs'[j].at = "ask"
            BY <3>2, <5>3, <6>1, <6>2, <6>4 DEF Carried, Began, At
          <6>5. CASE runs[j].at # "next" /\ runs'[j].at \in {"ask", "wait", "call"}
            BY <3>2, <6>1, <6>2, <6>5 DEF Carried, Began, At
          <6>6. QED
            BY <6>1, <6>3, <6>4, <6>5 DEF Carried
        <5>4. QED
          BY <5>2, <5>3
      <4>3. QED
        BY <4>1, <4>2
    <3>5. p \in Nat /\ q \in Nat
      BY <3>1, <3>3, <3>4 DEF InTime
    <3>6. QED
      BY <3>4, <3>5
  <2>4. lost' = [j \in JobIds |-> lost'[j]] /\ own' = [j \in JobIds |-> own'[j]]
    BY <1>2 DEF TimedNext, Clocked
  <2>5. lost' \in [JobIds -> Nat] /\ own' \in [JobIds -> Nat]
    BY <2>2, <2>3, <2>4
  <2>6. QED
    BY <2>3, <2>5 DEF TimedInv
<1>3. QED
  BY <1>1, <1>2

\* The budget of a screenshot covers whatever the model answers, and the deadline
\* of a job whatever its screenshots are, but for the time that goes by outside
\* its calls: for any number of users, jobs and screenshots, a ladder of any
\* length and calls of any timeout.
THEOREM BudgetCovers == TimedSpec => []DeadlineCoversLadder
<1>1. TimedInit => RecInv /\ TimedInv
  <2>1. TimedInit => TimedInv
    BY DEF TimedInit, Init, TimedInv
  <2>2. QED
    BY <2>1, InitFits DEF TimedInit
<1>2. RecInv /\ TimedInv /\ [TimedNext]_timedVars => (RecInv /\ TimedInv)'
  <2>1. [TimedNext]_timedVars => [Next]_vars
    BY DEF TimedNext, timedVars
  <2>2. QED
    BY <2>1, RecSteps, TimedSteps
<1>3. RecInv /\ TimedInv => DeadlineCoversLadder
  <2> SUFFICES ASSUME RecInv, TimedInv, NEW j \in JobIds, At(j, "wait") \/ At(j, "call")
               PROVE  own[j] > 0 /\ runs[j].left + lost[j] >= own[j]
    BY DEF DeadlineCoversLadder
  <2>1. lost[j] \in Nat /\ InTime(runs[j], lost[j], own[j])
    BY DEF TimedInv, At
  <2>2. QED
    BY <2>1, BudgetLasts
<1>4. QED
  BY <1>1, <1>2, <1>3, PTL DEF TimedSpec

\* No goroutine that waits or calls is past the deadline of its job.
NeverOverdue ==
  \A j \in JobIds : At(j, "wait") \/ At(j, "call") => runs[j].left > 0

\* With one user there is one goroutine at a time, so nobody waits and a tick is
\* a tick of a call.
LEMMA OneGoroutine ==
  ASSUME RecInv, NEW u, Users = {u}, NEW j \in JobIds, NEW k \in JobIds,
         runs[j] # None, runs[k] # None
  PROVE  j = k
<1>1. PICK x \in jobs, y \in jobs : /\ x.id = j /\ x \in Job /\ Fits(x, runs[j])
                                    /\ y.id = k /\ y \in Job /\ Fits(y, runs[k])
  BY JobOfRun
<1>2. QED
  BY <1>1 DEF RecInv, OneRunning, Fits, Job

\* Nothing was lost yet.
AllInTime == \A j \in JobIds : runs[j] # None => \E o : InTime(runs[j], 0, o)

\* A job that has the backend for itself, as every job has when there is one user,
\* and whose own work takes no time next to its calls, is never met by its deadline.
THEOREM DeadlineCovers ==
  ASSUME NEW u, Users = {u}, SlowLocal = FALSE
  PROVE  Spec => []NeverOverdue
<1>1. Init => AllInTime
  BY DEF Init, AllInTime
<1>2. RecInv /\ AllInTime /\ [Next]_vars => AllInTime'
  <2> SUFFICES ASSUME RecInv, AllInTime, [Next]_vars, NEW j \in JobIds, runs'[j] # None
               PROVE  \E o : InTime(runs'[j], 0, o)
    BY DEF AllInTime, InTime, Rest, Spare
  <2>1. PICK o : runs[j] # None => InTime(runs[j], 0, o)
    BY DEF AllInTime
  <2>2. CASE Tick
    <3>1. /\ runs[j] # None /\ runs'[j].at = runs[j].at
          /\ ~ Nearer(j) => InTime(runs'[j], 0, o)
          /\ Nearer(j) /\ At(j, "call") => InTime(runs'[j], 0, o - 1)
      BY <2>1, <2>2, TickInTime
    <3>2. runs[j] \in Run /\ ~ Ready(j) /\ ~ At(j, "spawn")
      BY <2>2, <3>1, NoteNumbers DEF Tick, Ready
    <3>3. At(j, "call")
      <4>1. runs[j].at \in {"wait", "call"}
        BY <3>1, <3>2 DEF Ready, At, Run
      <4>2. CASE runs[j].at = "wait"
        <5>1. slot # None
          BY <3>1, <3>2, <4>2 DEF Ready, At
        <5>2. slot \in JobIds /\ At(slot, "call")
          BY <5>1 DEF RecInv, TypeOK, OneCallAtATime
        <5>3. slot = j
          BY <3>1, <5>2, OneGoroutine DEF At
        <5>4. QED
          BY <5>2, <5>3
      <4>3. QED
        BY <3>1, <4>1, <4>2 DEF At
    <3>4. QED
      BY <3>1, <3>3
  <2>3. CASE ~ Tick
    BY <2>1, <2>3, StepInTime DEF Carried
  <2>4. QED
    BY <2>2, <2>3
<1>3. RecInv /\ AllInTime => NeverOverdue
  <2> SUFFICES ASSUME RecInv, AllInTime, NEW j \in JobIds, At(j, "wait") \/ At(j, "call")
               PROVE  runs[j].left > 0
    BY DEF NeverOverdue
  <2>1. PICK o : InTime(runs[j], 0, o)
    BY DEF AllInTime, At
  <2>2. o > 0 /\ runs[j].left + 0 >= o /\ o \in Nat /\ runs[j].left \in Nat
    BY <2>1, BudgetLasts, NoteNumbers DEF At, InTime
  <2>3. QED
    BY <2>2
<1>4. QED
  BY <1>1, <1>2, <1>3, Invariance, PTL DEF Spec

(******************************* the merge *********************************)

LEMMA Steps ==
  ASSUME NEW N \in SUBSET Nat, 0 \in N, \A n \in N : n + 1 \in N
  PROVE  N = Nat
<1> SUFFICES ASSUME Nat \ N # {} PROVE FALSE
  OBVIOUS
<1> DEFINE R == OpToRel(<, Nat)
<1>1. IsWellFoundedOn(R, Nat)
  BY NatLessThanWellFounded
<1>2. \A m, n \in Nat : m < n => <<m, n>> \in R
  BY DEF OpToRel
<1> HIDE DEF R
<1>3. PICK x \in Nat \ N : \A m \in Nat \ N : ~ (<<m, x>> \in R)
  BY <1>1, WFMin
<1>4. x - 1 \in Nat /\ (x - 1) + 1 = x /\ x - 1 < x
  BY <1>3
<1> QED BY <1>2, <1>3, <1>4

LEMMA Highest ==
  ASSUME NEW s \in SUBSET Nat, NEW k \in s, \A i \in s : i <= k
  PROVE  Max(s) = k
<1>1. \A x \in s : (\A y \in s : x >= y) <=> x = k
  OBVIOUS
<1>2. (CHOOSE x \in s : \A y \in s : x >= y) = k
  BY <1>1
<1> QED BY <1>2 DEF Max

LEMMA LastOf ==
  ASSUME NEW n \in Nat, NEW k \in 1..n
  PROVE  /\ 1..k \in SUBSET (1..n) /\ 1..k # {} /\ Max(1..k) = k
         /\ (1..k) \ {Max(1..k)} = 1..(k - 1)
<1>1. 1..k \in SUBSET Nat /\ k \in 1..k /\ \A i \in 1..k : i <= k
  OBVIOUS
<1>2. Max(1..k) = k
  BY <1>1, Highest
<1> QED BY <1>2

\* One more element may be folded in: g is f with the sets that k is in.
LEMMA TopAdded ==
  ASSUME NEW n \in Nat, NEW s \in SUBSET (1..(n + 1))
  PROVE  /\ s \ {n + 1} \in SUBSET (1..n)
         /\ n + 1 \notin s => s \in SUBSET (1..n)
         /\ n + 1 \in s => Max(s) = n + 1
         /\ n + 1 \notin s \ {Max(s)} \/ Max(s) # n + 1
<1>1. ASSUME n + 1 \in s PROVE Max(s) = n + 1
  <2>1. s \in SUBSET Nat /\ \A i \in s : i <= n + 1
    OBVIOUS
  <2> QED BY <1>1, <2>1, Highest
<1>2. \A i \in 1..(n + 1) : i = n + 1 \/ i \in 1..n
  OBVIOUS
<1> QED BY <1>1, <1>2

\* one step of the merge of an image, or of that of the images
Step(single, rows, x) == IF single THEN AddRow(rows, x) ELSE AddImage(rows, x)

\* f is the fold of it over the parts of 1..n, as FoldLeft defines it.
AddsUp(single, f, n, base, L) ==
  f = [s \in SUBSET (1..n) |->
         IF s = {} THEN base ELSE Step(single, f[s \ {Max(s)}], L[Max(s)])]

LEMMA AddsUpExists ==
  ASSUME NEW single \in BOOLEAN, NEW m \in Nat, NEW base, NEW L
  PROVE  \E f : AddsUp(single, f, m, base, L)
<1> DEFINE N == {n \in Nat : \E f : AddsUp(single, f, n, base, L)}
<1>1. 0 \in N
  <2> DEFINE f == [s \in SUBSET (1..0) |-> base]
  <2>1. \A s \in SUBSET (1..0) : s = {}
    OBVIOUS
  <2>2. AddsUp(single, f, 0, base, L)
    BY <2>1 DEF AddsUp
  <2> HIDE DEF f
  <2> QED BY <2>2
<1>2. ASSUME NEW n \in N PROVE n + 1 \in N
  <2>1. PICK f : AddsUp(single, f, n, base, L)
    OBVIOUS
  <2> DEFINE D == SUBSET (1..(n + 1))
             g == [s \in D |-> IF n + 1 \in s THEN Step(single, f[s \ {n + 1}], L[n + 1]) ELSE f[s]]
             h == [s \in D |-> IF s = {} THEN base ELSE Step(single, g[s \ {Max(s)}], L[Max(s)])]
  <2>2. ASSUME NEW s \in D PROVE g[s] = h[s]
    <3>1. CASE n + 1 \in s
      <4>1. s \ {n + 1} \in D /\ n + 1 \notin s \ {n + 1} /\ Max(s) = n + 1 /\ s # {}
        BY <3>1, TopAdded
      <4>2. g[s] = Step(single, f[s \ {n + 1}], L[n + 1]) /\ g[s \ {n + 1}] = f[s \ {n + 1}]
        BY <3>1, <4>1
      <4>3. h[s] = Step(single, g[s \ {Max(s)}], L[Max(s)])
        BY <4>1
      <4> QED BY <4>1, <4>2, <4>3
    <3>2. CASE n + 1 \notin s
      <4>1. s \in SUBSET (1..n) /\ s \ {Max(s)} \in D /\ n + 1 \notin s \ {Max(s)}
        BY <3>2, TopAdded
      <4>2. g[s] = f[s] /\ g[s \ {Max(s)}] = f[s \ {Max(s)}]
        BY <3>2, <4>1
      <4>3. f[s] = IF s = {} THEN base ELSE Step(single, f[s \ {Max(s)}], L[Max(s)])
        BY <2>1, <4>1 DEF AddsUp
      <4> HIDE DEF g
      <4> QED BY <4>2, <4>3
    <3> QED BY <3>1, <3>2
  <2>3. g = h
    <3>1. g = [s \in D |-> g[s]] /\ h = [s \in D |-> h[s]]
      OBVIOUS
    <3> HIDE DEF g, h
    <3> QED BY <2>2, <3>1
  <2>4. AddsUp(single, g, n + 1, base, L)
    <3> HIDE DEF g
    <3> QED BY <2>3 DEF AddsUp
  <2> HIDE DEF g
  <2> QED BY <2>4
<1> HIDE DEF N
<1>3. N \in SUBSET Nat
  BY DEF N
<1>4. N = Nat
  BY <1>1, <1>2, <1>3, Steps
<1> QED BY <1>4 DEF N

\* h is what the merge holds after each of n steps
InSteps(single, h, base, L, n) ==
  /\ h[0] = base
  /\ \A k \in 1..n : h[k] = Step(single, h[k - 1], L[k])

\* v comes of base in such steps
Reached(single, v, base, L, n) == \E h : InSteps(single, h, base, L, n) /\ h[n] = v

LEMMA StepByStep ==
  ASSUME NEW single \in BOOLEAN, NEW f, NEW n \in Nat, NEW base, NEW L, AddsUp(single, f, n, base, L)
  PROVE  Reached(single, f[1..n], base, L, n)
<1> DEFINE h == [k \in 0..n |-> f[1..k]]
<1>1. h[0] = base
  BY DEF AddsUp
<1>2. ASSUME NEW k \in 1..n PROVE h[k] = Step(single, h[k - 1], L[k])
  <2>1. f[1..k] = Step(single, f[(1..k) \ {Max(1..k)}], L[Max(1..k)])
    BY LastOf DEF AddsUp
  <2>2. k \in 0..n /\ k - 1 \in 0..n
    OBVIOUS
  <2>3. h[k] = f[1..k] /\ h[k - 1] = f[1..(k - 1)]
    BY <2>2
  <2> HIDE DEF h
  <2> QED BY <2>1, <2>3, LastOf
<1>3. h[n] = f[1..n]
  OBVIOUS
<1> HIDE DEF h
<1> QED BY <1>1, <1>2, <1>3 DEF InSteps, Reached

LEMMA RowByRow ==
  ASSUME NEW base, NEW n \in Nat, NEW L, DOMAIN L = 1..n
  PROVE  Reached(TRUE, AddAll(base, L), base, L, n)
<1> DEFINE f == CHOOSE f : AddsUp(TRUE, f, n, base, L)
<1>1. AddsUp(TRUE, f, n, base, L)
  BY AddsUpExists
<1>2. AddAll(base, L) = f[1..n]
  BY DEF AddAll, FoldLeft, MapThenFoldSet, AddsUp, Step
<1> HIDE DEF f
<1> QED BY <1>1, <1>2, StepByStep

LEMMA ImageByImage ==
  ASSUME NEW n \in Nat, NEW imgs, DOMAIN imgs = 1..n
  PROVE  LET L == [i \in DOMAIN imgs |-> [number |-> i, screen |-> imgs[i].screen]] IN
         Reached(FALSE, Menus(imgs), {}, L, n)
<1> DEFINE L == [i \in DOMAIN imgs |-> [number |-> i, screen |-> imgs[i].screen]]
           f == CHOOSE f : AddsUp(FALSE, f, n, {}, L)
<1>1. AddsUp(FALSE, f, n, {}, L)
  BY AddsUpExists
<1>2. DOMAIN L = 1..n
  OBVIOUS
<1>3. Menus(imgs) = f[1..n]
  <2>1. Menus(imgs) = FoldLeft(AddImage, {}, L)
    BY DEF Menus
  <2> HIDE DEF L
  <2> QED BY <1>2, <2>1 DEF FoldLeft, MapThenFoldSet, AddsUp, Step
<1> HIDE DEF f, L
<1>4. Reached(FALSE, Menus(imgs), {}, L, n)
  BY <1>1, <1>3, StepByStep
<1> QED BY <1>4 DEF L

(******************************* what rows hold ****************************)

\* a row of the merge, field by field
Shaped(d) ==
  d = [key |-> d.key, images |-> d.images, match |-> d.match, checked |-> d.checked,
       percents |-> d.percents, caps |-> d.caps, rawPercent |-> d.rawPercent, rawCap |-> d.rawCap]

Typed(e) == {e.ticked, e.row.checked, e.row.category} \subseteq BOOLEAN

\* d is a row of the title e is a reading of
Of(d, e) == d.key.kind = e.kind /\ d.key.title = e.row.title

\* nothing of e is missing in d
Carries(d, e) ==
  /\ Numbers(e.row.percent) \subseteq d.percents /\ Numbers(e.row.cap) \subseteq d.caps
  /\ e.ticked \/ e.row.checked => d.checked
  /\ e.row.percent # Absent => d.rawPercent # Absent
  /\ e.row.cap # Absent => d.rawCap # Absent
  /\ e.row.match # Absent => d.match # Absent

\* whatever d holds is in a reading of its title
Drawn(d, S) ==
  /\ \E e \in S : Of(d, e)
  /\ \A p \in d.percents : Legible(p) /\ \E e \in S : Of(d, e) /\ e.row.percent = p
  /\ \A c \in d.caps : Legible(c) /\ \E e \in S : Of(d, e) /\ e.row.cap = c
  /\ d.checked => \E e \in S : Of(d, e) /\ (e.ticked \/ e.row.checked)
  /\ d.rawPercent # Absent => \E e \in S : Of(d, e) /\ e.row.percent # Absent
  /\ d.rawCap # Absent => \E e \in S : Of(d, e) /\ e.row.cap # Absent
  /\ \A n \in d.images : \E e \in S : Of(d, e) /\ Carries(d, e) /\ e.image = n

Sound(d) ==
  Shaped(d) /\ d.checked \in BOOLEAN /\ IsFiniteSet(d.percents) /\ IsFiniteSet(d.caps)

FirstKey(kind, title) == [kind |-> kind, title |-> title, variant |-> 0]

\* an image lists a title with a percent and again without one a number is in
Half(S) ==
  \E e, g \in S : /\ e.image = g.image /\ e.kind = g.kind /\ e.row.title = g.row.title
                  /\ Legible(e.row.percent) /\ ~ Legible(g.row.percent)

\* the title of d was read with two percents
TwoTold(d, S) ==
  \E e, g \in S : /\ Of(d, e) /\ Of(d, g) /\ e.row.percent # g.row.percent
                  /\ Legible(e.row.percent) /\ Legible(g.row.percent)

\* a title is only split over what was read of it
SplitOver(R, S) ==
  ~ Half(S) => \A d, o \in R :
    d # o /\ d.key.kind = o.key.kind /\ d.key.title = o.key.title => TwoTold(d, S)

\* the rows R of the merge hold the readings S
Holds(R, S) ==
  /\ IsFiniteSet(R) /\ \A d \in R : Sound(d) /\ Drawn(d, S)
  /\ \A d, o \in R : d.key = o.key => d = o
  /\ \A d \in R : \E z \in R : z.key = FirstKey(d.key.kind, d.key.title)
  /\ \A e \in S : \E d \in R : Of(d, e) /\ Carries(d, e)
  /\ SplitOver(R, S)

LEMMA MergeIs ==
  ASSUME NEW d, Sound(d), NEW e, Typed(e), NEW m, m = Merge(d, e)
  PROVE  /\ Shaped(m) /\ m.key = d.key /\ m.images = d.images \cup {e.image}
         /\ m.match = FirstOf(d.match, e.row.match)
         /\ m.checked = (d.checked \/ e.ticked \/ e.row.checked)
         /\ m.percents = d.percents \cup Numbers(e.row.percent)
         /\ m.caps = d.caps \cup Numbers(e.row.cap)
         /\ m.rawPercent = FirstOf(d.rawPercent, e.row.percent)
         /\ m.rawCap = FirstOf(d.rawCap, e.row.cap)
<1>1. DOMAIN d = {"key", "images", "match", "checked", "percents", "caps", "rawPercent", "rawCap"}
  BY DEF Sound, Shaped
<1>2. DOMAIN m = DOMAIN d
  BY DEF Merge
<1>3. m.key = d.key /\ m.images = d.images \cup {e.image} /\ m.match = FirstOf(d.match, e.row.match)
  BY <1>1 DEF Merge
<1>4. m.checked = (d.checked \/ e.ticked \/ e.row.checked)
  BY <1>1 DEF Merge
<1>5. /\ m.percents = d.percents \cup Numbers(e.row.percent)
      /\ m.caps = d.caps \cup Numbers(e.row.cap)
  BY <1>1 DEF Merge
<1>6. /\ m.rawPercent = FirstOf(d.rawPercent, e.row.percent)
      /\ m.rawCap = FirstOf(d.rawCap, e.row.cap)
  BY <1>1 DEF Merge
<1>7. Shaped(m)
  BY <1>1, <1>2 DEF Shaped, Merge
<1> QED BY <1>3, <1>4, <1>5, <1>6, <1>7

\* The row that e is added to is of its title, carries what it did and e.
LEMMA MergeCarries ==
  ASSUME NEW d, Sound(d), NEW e, Typed(e), NEW m, m = Merge(d, e)
  PROVE  /\ Sound(m) /\ m.key = d.key /\ Carries(m, e) /\ m.images = d.images \cup {e.image}
         /\ \A g : Carries(d, g) => Carries(m, g)
<1>1. Shaped(m) /\ m.key = d.key /\ m.images = d.images \cup {e.image}
  BY MergeIs
<1>2. /\ m.match = FirstOf(d.match, e.row.match)
      /\ m.checked = (d.checked \/ e.ticked \/ e.row.checked)
      /\ m.percents = d.percents \cup Numbers(e.row.percent)
      /\ m.caps = d.caps \cup Numbers(e.row.cap)
      /\ m.rawPercent = FirstOf(d.rawPercent, e.row.percent)
      /\ m.rawCap = FirstOf(d.rawCap, e.row.cap)
  BY MergeIs
<1>3. \A f : IsFiniteSet(Numbers(f))
  <2> TAKE f
  <2>1. IsFiniteSet({f})
    BY FS_Singleton
  <2> QED BY <2>1, FS_Subset DEF Numbers
<1>4. IsFiniteSet(m.percents) /\ IsFiniteSet(m.caps)
  <2>1. \A A, B : IsFiniteSet(A) /\ IsFiniteSet(B) => IsFiniteSet(A \cup B)
    BY FS_Union
  <2> QED BY <1>2, <1>3, <2>1 DEF Sound
<1>5. m.checked \in BOOLEAN
  BY <1>2 DEF Typed, Sound
<1>6. Carries(m, e)
  BY <1>2 DEF Carries, FirstOf
<1>7. \A g : Carries(d, g) => Carries(m, g)
  BY <1>2 DEF Carries, FirstOf
<1> QED BY <1>1, <1>4, <1>5, <1>6, <1>7 DEF Sound

\* What is drawn from the readings stays so as they grow.
LEMMA MergeDraws ==
  ASSUME NEW d, Sound(d), NEW S, Drawn(d, S) \/ d = Blank(d.key), NEW e, Typed(e), Of(d, e)
  PROVE  Drawn(Merge(d, e), S \cup {e})
<1> DEFINE m == Merge(d, e)
           T == S \cup {e}
<1>1. Sound(m) /\ m.key = d.key /\ Carries(m, e) /\ m.images = d.images \cup {e.image}
      /\ \A g : Carries(d, g) => Carries(m, g)
  BY MergeCarries
<1>2. /\ m.checked = (d.checked \/ e.ticked \/ e.row.checked)
      /\ m.percents = d.percents \cup Numbers(e.row.percent)
      /\ m.caps = d.caps \cup Numbers(e.row.cap)
      /\ m.rawPercent = FirstOf(d.rawPercent, e.row.percent)
      /\ m.rawCap = FirstOf(d.rawCap, e.row.cap)
  BY MergeIs
<1>3. \A f : \A p \in Numbers(f) : Legible(p) /\ p = f
  BY DEF Numbers, Legible
<1>4. ~ Drawn(d, S) => /\ d.images = {} /\ d.checked = FALSE /\ d.percents = {} /\ d.caps = {}
                       /\ d.rawPercent = Absent /\ d.rawCap = Absent
  BY DEF Blank
<1> HIDE DEF m
<1>5. \A g : Of(m, g) <=> Of(d, g)
  BY <1>1 DEF Of
<1>6. \A p \in m.percents : Legible(p) /\ \E g \in T : Of(m, g) /\ g.row.percent = p
  BY <1>2, <1>3, <1>4, <1>5 DEF Drawn
<1>7. \A p \in m.caps : Legible(p) /\ \E g \in T : Of(m, g) /\ g.row.cap = p
  BY <1>2, <1>3, <1>4, <1>5 DEF Drawn
<1>8. m.checked => \E g \in T : Of(m, g) /\ (g.ticked \/ g.row.checked)
  BY <1>2, <1>4, <1>5 DEF Drawn
<1>9. /\ m.rawPercent # Absent => \E g \in T : Of(m, g) /\ g.row.percent # Absent
      /\ m.rawCap # Absent => \E g \in T : Of(m, g) /\ g.row.cap # Absent
  BY <1>2, <1>4, <1>5 DEF Drawn, FirstOf
<1>10. \A n \in m.images : \E g \in T : Of(m, g) /\ Carries(m, g) /\ g.image = n
  BY <1>1, <1>4, <1>5 DEF Drawn
<1> QED BY <1>5, <1>6, <1>7, <1>8, <1>9, <1>10 DEF Drawn, m

LEMMA MoreReadings ==
  ASSUME NEW d, NEW S, Drawn(d, S), NEW T, S \subseteq T
  PROVE  Drawn(d, T)
BY DEF Drawn

LEMMA MoreTold ==
  ASSUME NEW S, NEW T, S \subseteq T
  PROVE  (Half(S) => Half(T)) /\ \A d : TwoTold(d, S) => TwoTold(d, T)
BY DEF Half, TwoTold

\* A reading of another variant than the first was split from the first.
LEMMA FirstVariant ==
  ASSUME NEW R, IsFiniteSet(R), NEW e, Variant(R, e) # 0
  PROVE  \E z \in R : z.key = FirstKey(e.kind, e.row.title)
                      /\ SplitsFromSameImage(z, e.image, e.row.percent)
<1> SUFFICES ASSUME ~ (\E z \in R : z.key = FirstKey(e.kind, e.row.title)
                                    /\ SplitsFromSameImage(z, e.image, e.row.percent))
             PROVE  Variant(R, e) = 0
  OBVIOUS
<1> DEFINE K == {d.key : d \in R}
           free(v) == ~ \E d \in R :
                          /\ d.key = [kind |-> e.kind, title |-> e.row.title, variant |-> v]
                          /\ SplitsFromSameImage(d, e.image, e.row.percent)
           V == {v \in 0..Cardinality(K) : free(v)}
<1>1. Cardinality(K) \in Nat
  <2> DEFINE f == [d \in R |-> d.key]
  <2>1. f \in Surjection(R, K)
    BY DEF Surjection
  <2>2. IsFiniteSet(K)
    BY <2>1, FS_Surjection
  <2> HIDE DEF K
  <2> QED BY <2>2, FS_CardinalityType
<1>2. free(0)
  BY DEF FirstKey
<1>3. 0 \in V /\ \A v \in V : v \in Nat
  <2> HIDE DEF free, K
  <2> QED BY <1>1, <1>2
<1>4. Variant(R, e) = Min(V)
  BY DEF Variant
<1> HIDE DEF V
<1>5. \A x \in V : (\A y \in V : x =< y) <=> x = 0
  BY <1>3
<1>6. (CHOOSE x \in V : \A y \in V : x =< y) = 0
  BY <1>3, <1>5
<1> QED BY <1>4, <1>6 DEF Min

\* d is the row that e is merged into, a blank one when there is none
Receives(R, e, d) ==
  /\ Sound(d) /\ Of(d, e) /\ d.key.variant = Variant(R, e)
  /\ d \in R \/ (d = Blank(d.key) /\ \A o \in R : o.key # d.key)
  /\ d.key = [kind |-> e.kind, title |-> e.row.title, variant |-> Variant(R, e)]
  /\ AddRow(R, e) = (R \ {d}) \cup {Merge(d, e)}

LEMMA OneReceives ==
  ASSUME NEW R, NEW S, Holds(R, S), NEW e, Typed(e), e.row.category
  PROVE  \E d : Receives(R, e, d)
<1> DEFINE key == [kind |-> e.kind, title |-> e.row.title, variant |-> Variant(R, e)]
           old == {o \in R : o.key = key}
           d == IF old = {} THEN Blank(key) ELSE CHOOSE o \in old : TRUE
<1>1. AddRow(R, e) = (R \ old) \cup {Merge(d, e)}
  BY DEF AddRow
<1>2. key.kind = e.kind /\ key.title = e.row.title /\ key.variant = Variant(R, e)
  OBVIOUS
<1> HIDE DEF key
<1>3. CASE old = {}
  <2>1. d = Blank(key) /\ d.key = key /\ \A o \in R : o.key # d.key
    BY <1>3 DEF Blank
  <2>2. Sound(d)
    BY <2>1, FS_EmptySet DEF Sound, Shaped, Blank
  <2>3. d \notin R /\ R \ old = R \ {d}
    BY <1>3, <2>1
  <2> QED BY <1>1, <1>2, <2>1, <2>2, <2>3 DEF Receives, Of, key
<1>4. CASE old # {}
  <2>1. d \in old
    BY <1>4
  <2>2. d \in R /\ d.key = key /\ Sound(d)
    BY <2>1 DEF Holds
  <2>3. old = {d}
    BY <2>1 DEF Holds
  <2> QED BY <1>1, <1>2, <2>2, <2>3 DEF Receives, Of, key
<1> QED BY <1>3, <1>4

\* One reading more.
LEMMA AddHolds ==
  ASSUME NEW R, NEW S, Holds(R, S), NEW e, Typed(e), e.row.category
  PROVE  Holds(AddRow(R, e), S \cup {e})
<1>1. PICK d : Receives(R, e, d)
  BY OneReceives
<1> DEFINE m == Merge(d, e)
           T == S \cup {e}
           Q == (R \ {d}) \cup {m}
<1>2. AddRow(R, e) = Q /\ Sound(d) /\ Of(d, e)
  BY <1>1 DEF Receives
<1>3. Sound(m) /\ m.key = d.key /\ Carries(m, e) /\ \A g : Carries(d, g) => Carries(m, g)
  BY <1>2, MergeCarries
<1>4. Drawn(m, T)
  BY <1>1, <1>2, MergeDraws DEF Receives, Holds
<1> HIDE DEF m
<1>5. IsFiniteSet(Q)
  <2>1. IsFiniteSet(R \ {d}) /\ IsFiniteSet({m})
    BY FS_Subset, FS_Singleton DEF Holds
  <2> QED BY <2>1, FS_Union
<1>6. \A o \in Q : Sound(o) /\ Drawn(o, T)
  BY <1>3, <1>4, MoreReadings DEF Holds
<1>7. \A o \in R : o.key = d.key => o = d
  BY <1>1 DEF Receives, Holds
<1>8. \A o, q \in Q : o.key = q.key => o = q
  BY <1>3, <1>7 DEF Holds
<1>9. \A o \in R : \E q \in Q : q.key = o.key
  BY <1>3
<1>10. \A o \in Q : \E z \in Q : z.key = FirstKey(o.key.kind, o.key.title)
  <2>1. ASSUME NEW o \in R PROVE \E z \in Q : z.key = FirstKey(o.key.kind, o.key.title)
    BY <1>9 DEF Holds
  <2>2. \E z \in Q : z.key = FirstKey(m.key.kind, m.key.title)
    <3>1. CASE d \in R
      BY <1>3, <2>1, <3>1
    <3>2. CASE d \notin R /\ Variant(R, e) = 0
      BY <1>1, <1>3, <3>2 DEF Receives, FirstKey
    <3>3. CASE Variant(R, e) # 0
      <4>1. PICK z \in R : z.key = FirstKey(e.kind, e.row.title)
        BY <3>3, FirstVariant DEF Holds
      <4> QED BY <1>2, <1>3, <1>9, <4>1 DEF Of
    <3> QED BY <3>1, <3>2, <3>3
  <2> QED BY <2>1, <2>2
<1>11. \A g \in T : \E o \in Q : Of(o, g) /\ Carries(o, g)
  <2>1. Of(m, e) /\ Carries(m, e)
    BY <1>2, <1>3 DEF Of
  <2>2. ASSUME NEW g \in S PROVE \E o \in Q : Of(o, g) /\ Carries(o, g)
    <3>1. PICK o \in R : Of(o, g) /\ Carries(o, g)
      BY DEF Holds
    <3> QED BY <1>3, <3>1 DEF Of
  <2> QED BY <2>1, <2>2
<1>12. SplitOver(Q, T)
  <2> SUFFICES ASSUME ~ Half(T), NEW o \in Q, NEW q \in Q, o # q,
                      o.key.kind = q.key.kind, o.key.title = q.key.title
               PROVE  TwoTold(o, T)
    BY DEF SplitOver
  <2>1. ~ Half(S) /\ \A x : TwoTold(x, S) => TwoTold(x, T)
    BY MoreTold
  <2>2. ASSUME NEW x \in R, x # d, x.key.kind = d.key.kind, x.key.title = d.key.title
        PROVE  TwoTold(x, T)
    <3>1. CASE d \in R
      BY <2>1, <2>2, <3>1 DEF Holds, SplitOver
    <3>2. CASE d \notin R /\ Variant(R, e) = 0
      <4>1. PICK z \in R : z.key = FirstKey(x.key.kind, x.key.title)
        BY DEF Holds
      <4>2. z.key = d.key
        BY <1>1, <1>2, <2>2, <3>2, <4>1 DEF Receives, FirstKey, Of
      <4> QED BY <1>7, <3>2, <4>2
    <3>3. CASE Variant(R, e) # 0
      <4>1. PICK z \in R : /\ z.key = FirstKey(e.kind, e.row.title)
                           /\ SplitsFromSameImage(z, e.image, e.row.percent)
        BY <3>3, FirstVariant DEF Holds
      <4>2. PICK g \in S : Of(z, g) /\ Carries(z, g) /\ g.image = e.image
        BY <4>1 DEF Holds, Drawn, SplitsFromSameImage
      <4>3. g.kind = e.kind /\ g.row.title = e.row.title
        BY <4>1, <4>2 DEF Of, FirstKey
      <4>4. Legible(e.row.percent) /\ e.row.percent \notin z.percents
        BY <4>1 DEF SplitsFromSameImage
      <4>5. Legible(g.row.percent)
        BY <2>1, <4>2, <4>3, <4>4 DEF Half
      <4>6. g.row.percent # e.row.percent
        BY <4>2, <4>4, <4>5 DEF Carries, Numbers, Legible
      <4>7. Of(x, e) /\ Of(x, g)
        BY <1>2, <2>2, <4>3 DEF Of
      <4> QED BY <4>4, <4>5, <4>6, <4>7 DEF TwoTold
    <3> QED BY <3>1, <3>2, <3>3
  <2>3. CASE o = m
    <3>1. q \in R /\ q # d /\ q.key.kind = d.key.kind /\ q.key.title = d.key.title
      BY <1>3, <2>3
    <3>2. TwoTold(q, T)
      BY <2>2, <3>1
    <3> QED BY <3>2 DEF TwoTold, Of
  <2>4. CASE o # m /\ q = m
    BY <1>3, <2>2, <2>4
  <2>5. CASE o # m /\ q # m
    BY <2>1, <2>5 DEF Holds, SplitOver
  <2> QED BY <2>3, <2>4, <2>5
<1> HIDE DEF Q, T
<1>13. Holds(Q, T)
  BY <1>5, <1>6, <1>8, <1>10, <1>11, <1>12 DEF Holds
<1> QED BY <1>2, <1>13 DEF T

\* the readings of a sequence that are of categories
Taken(L) == {e \in Range(L) : e.row.category}

LEMMA AllHold ==
  ASSUME NEW R, NEW S, Holds(R, S), NEW n \in Nat, NEW L, DOMAIN L = 1..n,
         \A i \in DOMAIN L : Typed(L[i])
  PROVE  Holds(AddAll(R, L), S \cup Taken(L))
<1>1. PICK h : InSteps(TRUE, h, R, L, n) /\ h[n] = AddAll(R, L)
  BY RowByRow DEF Reached
<1> DEFINE First(k) == {L[i] : i \in {j \in 1..k : L[j].row.category}}
           N == {k \in Nat : k <= n => Holds(h[k], S \cup First(k))}
<1>2. 0 \in N
  <2>1. First(0) = {}
    OBVIOUS
  <2>2. S \cup First(0) = S
    BY <2>1
  <2> HIDE DEF First
  <2> QED BY <1>1, <2>2 DEF InSteps
<1>3. ASSUME NEW k \in N PROVE k + 1 \in N
  <2> SUFFICES ASSUME k + 1 <= n PROVE Holds(h[k + 1], S \cup First(k + 1))
    OBVIOUS
  <2>1. k \in Nat /\ k + 1 \in 1..n /\ (k + 1) - 1 = k /\ k <= n /\ 1..(k + 1) = (1..k) \cup {k + 1}
    OBVIOUS
  <2>2. h[k + 1] = AddRow(h[k], L[k + 1])
    BY <1>1, <2>1 DEF InSteps, Step
  <2>3. Holds(h[k], S \cup First(k)) /\ Typed(L[k + 1])
    BY <2>1
  <2>4. CASE L[k + 1].row.category
    <3>1. (S \cup First(k)) \cup {L[k + 1]} = S \cup First(k + 1)
      BY <2>1, <2>4
    <3> HIDE DEF First
    <3> QED BY <2>2, <2>3, <2>4, <3>1, AddHolds
  <2>5. CASE ~ L[k + 1].row.category
    <3>1. First(k) = First(k + 1)
      BY <2>1, <2>5
    <3>2. h[k + 1] = h[k]
      BY <2>2, <2>5 DEF AddRow
    <3> HIDE DEF First
    <3> QED BY <2>3, <3>1, <3>2
  <2> QED BY <2>4, <2>5
<1>4. First(n) = Taken(L)
  BY DEF Taken, Range
<1>5. N \in SUBSET Nat
  OBVIOUS
<1> HIDE DEF First
<1>6. n \in N /\ n <= n
  <2> HIDE DEF N
  <2> QED BY <1>2, <1>3, <1>5, Steps
<1> QED BY <1>1, <1>4, <1>6

(****************************** what was read ******************************)

LEMMA TopIsIn ==
  ASSUME NEW n \in Nat, NEW s \in SUBSET (1..n), s # {}
  PROVE  Max(s) \in s
<1> DEFINE N == {m \in Nat : \A t \in SUBSET (1..m) : t # {} => Max(t) \in t}
<1>1. 0 \in N
  <2>1. 1..0 = {}
    OBVIOUS
  <2> QED BY <2>1
<1>2. ASSUME NEW m \in N PROVE m + 1 \in N
  <2>0. m \in Nat
    OBVIOUS
  <2>1. ASSUME NEW t \in SUBSET (1..(m + 1)), t # {} PROVE Max(t) \in t
    <3>1. CASE m + 1 \in t
      <4>1. t \in SUBSET Nat /\ \A i \in t : i <= m + 1
        BY <2>0
      <4> QED BY <3>1, <4>1, Highest
    <3>2. CASE m + 1 \notin t
      <4>1. t \in SUBSET (1..m)
        BY <2>0, <3>2
      <4> QED BY <2>1, <4>1
    <3> QED BY <3>1, <3>2
  <2> QED BY <2>0, <2>1
<1>3. N = Nat
  <2>1. N \in SUBSET Nat
    OBVIOUS
  <2> HIDE DEF N
  <2> QED BY <1>1, <1>2, <2>1, Steps
<1> QED BY <1>3

\* images of a job: readings of screens, or none
Gallery(imgs) ==
  /\ Len(imgs) \in Nat /\ DOMAIN imgs = 1..Len(imgs)
  /\ \A n \in DOMAIN imgs : imgs[n].screen \in Screens \cup {Absent}

MenuSeen(imgs) == UNION {Taken(MenuReadings(n, imgs[n].screen)) : n \in DOMAIN imgs}

SpinSeen(imgs) == UNION {Taken(WheelReadings(n, imgs[n].screen)) : n \in LastWheel(imgs)}

Seen(imgs) == MenuSeen(imgs) \cup SpinSeen(imgs)

\* a list of readings that can be merged
Listed(L) == \E m \in Nat : DOMAIN L = 1..m /\ \A i \in 1..m : Typed(L[i])

LEMMA MenuIsListed ==
  ASSUME NEW screen \in Screens \cup {Absent}, NEW n
  PROVE  Listed(MenuReadings(n, screen))
<1>1. CASE ~ Prefills(screen)
  <2>1. DOMAIN MenuReadings(n, screen) = 1..0
    BY <1>1 DEF MenuReadings
  <2> QED BY <2>1 DEF Listed
<1>2. CASE Prefills(screen)
  <2>1. /\ screen \in Screens /\ Len(screen.rows) \in Nat
        /\ DOMAIN MenuReadings(n, screen) = 1..Len(screen.rows)
    BY <1>2, ScreensAssumption DEF MenuReadings, Prefills
  <2>2. ASSUME NEW i \in 1..Len(screen.rows) PROVE Typed(MenuReadings(n, screen)[i])
    <3>1. MenuReadings(n, screen)[i] =
            Reading(n, screen.rows[i], IF screen.rows[i].granted THEN "special" ELSE "regular",
                    screen.rows[i].granted)
      BY <1>2, <2>1, ScreensAssumption DEF MenuReadings
    <3> QED BY <2>1, <3>1, ScreensAssumption DEF Typed, Reading
  <2> QED BY <2>1, <2>2 DEF Listed
<1> QED BY <1>1, <1>2

LEMMA WheelIsListed ==
  ASSUME NEW screen \in Screens, NEW n
  PROVE  Listed(WheelReadings(n, screen))
<1>1. /\ Len(screen.rows) \in Nat /\ DOMAIN WheelReadings(n, screen) = 1..Len(screen.rows)
      /\ \A i \in 1..Len(screen.rows) :
           WheelReadings(n, screen)[i] = Reading(n, screen.rows[i], "super", TRUE)
  BY ScreensAssumption DEF WheelReadings
<1>2. ASSUME NEW i \in 1..Len(screen.rows) PROVE Typed(WheelReadings(n, screen)[i])
  <2> DEFINE e == WheelReadings(n, screen)[i]
             r == screen.rows[i]
  <2>1. e = Reading(n, r, "super", TRUE)
    BY <1>1
  <2>2. {r.category, r.checked} \subseteq BOOLEAN
    BY <1>1, ScreensAssumption
  <2> HIDE DEF e, r
  <2>3. e.row = r /\ (e.ticked = TRUE)
    BY <2>1, Zenon DEF Reading
  <2> QED BY <2>2, <2>3 DEF Typed, e
<1> QED BY <1>1, <1>2 DEF Listed

LEMMA NothingHeld == Holds({}, {})
BY FS_EmptySet DEF Holds, SplitOver

\* The rows of the menus hold what was read on them.
LEMMA MenusHold ==
  ASSUME NEW imgs, Gallery(imgs)
  PROVE  Holds(Menus(imgs), MenuSeen(imgs))
<1> DEFINE n == Len(imgs)
           L == [i \in DOMAIN imgs |-> [number |-> i, screen |-> imgs[i].screen]]
           R(i) == MenuReadings(i, imgs[i].screen)
           First(k) == UNION {Taken(R(i)) : i \in 1..k}
<1>1. n \in Nat /\ DOMAIN imgs = 1..n
  BY DEF Gallery
<1>2. PICK h : InSteps(FALSE, h, {}, L, n) /\ h[n] = Menus(imgs)
  BY <1>1, ImageByImage DEF Reached
<1> DEFINE N == {k \in Nat : k <= n => Holds(h[k], First(k))}
<1>3. 0 \in N
  <2>1. First(0) = {}
    OBVIOUS
  <2> HIDE DEF First
  <2> QED BY <1>2, <2>1, NothingHeld DEF InSteps
<1>4. ASSUME NEW k \in N PROVE k + 1 \in N
  <2> SUFFICES ASSUME k + 1 <= n PROVE Holds(h[k + 1], First(k + 1))
    OBVIOUS
  <2>1. k \in Nat /\ k + 1 \in 1..n /\ (k + 1) - 1 = k /\ k <= n /\ 1..(k + 1) = (1..k) \cup {k + 1}
    BY <1>1
  <2>2. h[k + 1] = AddImage(h[k], L[k + 1])
    BY <1>2, <2>1 DEF InSteps, Step
  <2>3. L[k + 1].number = k + 1 /\ L[k + 1].screen = imgs[k + 1].screen
    BY <1>1, <2>1
  <2>4. h[k + 1] = AddAll(h[k], R(k + 1))
    <3> HIDE DEF L
    <3> QED BY <2>2, <2>3 DEF AddImage
  <2>5. Listed(R(k + 1))
    BY <1>1, <2>1, MenuIsListed DEF Gallery
  <2>6. First(k + 1) = First(k) \cup Taken(R(k + 1))
    BY <2>1
  <2>7. Holds(h[k], First(k))
    BY <2>1
  <2> HIDE DEF First, R
  <2> QED BY <2>4, <2>5, <2>6, <2>7, AllHold DEF Listed
<1>5. N \in SUBSET Nat
  OBVIOUS
<1>6. n \in N /\ n <= n
  <2> HIDE DEF N
  <2> QED BY <1>1, <1>3, <1>4, <1>5, Steps
<1>7. First(n) = MenuSeen(imgs)
  BY <1>1 DEF MenuSeen
<1> HIDE DEF First
<1> QED BY <1>2, <1>6, <1>7

LEMMA LastIsWheel ==
  ASSUME NEW imgs, Gallery(imgs)
  PROVE  /\ LastWheel(imgs) = IF Wheels(imgs) = {} THEN {} ELSE {Max(Wheels(imgs))}
         /\ Wheels(imgs) # {} => Max(Wheels(imgs)) \in Wheels(imgs)
         /\ LastWheel(imgs) \subseteq Wheels(imgs) /\ Wheels(imgs) \subseteq DOMAIN imgs
         /\ \A n \in Wheels(imgs) : imgs[n].screen \in Screens /\ imgs[n].screen.type = "wheel"
<1>1. Wheels(imgs) \in SUBSET (1..Len(imgs))
  BY DEF Wheels, Gallery
<1>2. Wheels(imgs) # {} => Max(Wheels(imgs)) \in Wheels(imgs)
  BY <1>1, TopIsIn DEF Gallery
<1> QED BY <1>1, <1>2 DEF LastWheel, Wheels, Gallery

LEMMA SpinHolds ==
  ASSUME NEW imgs, Gallery(imgs)
  PROVE  Holds(Spin(imgs), SpinSeen(imgs))
<1>1. CASE Wheels(imgs) = {}
  <2>1. Spin(imgs) = {} /\ SpinSeen(imgs) = {}
    BY <1>1, LastIsWheel DEF Spin, SpinSeen
  <2> QED BY <2>1, NothingHeld
<1>2. CASE Wheels(imgs) # {}
  <2> DEFINE w == Max(Wheels(imgs))
             L == WheelReadings(w, imgs[w].screen)
  <2>1. LastWheel(imgs) = {w} /\ imgs[w].screen \in Screens
    BY <1>2, LastIsWheel
  <2>2. Spin(imgs) = AddAll({}, L) /\ SpinSeen(imgs) = Taken(L)
    BY <2>1 DEF Spin, SpinSeen
  <2>3. Listed(L)
    BY <2>1, WheelIsListed
  <2> HIDE DEF L
  <2>4. Holds(AddAll({}, L), {} \cup Taken(L))
    BY <2>3, NothingHeld, AllHold DEF Listed
  <2> QED BY <2>2, <2>4
<1> QED BY <1>1, <1>2

\* kinds tell the readings of a menu from those of a spin
LEMMA KindsDiffer ==
  ASSUME NEW imgs, Gallery(imgs)
  PROVE  /\ \A e \in MenuSeen(imgs) : e.kind \in {"special", "regular"}
         /\ \A e \in SpinSeen(imgs) : e.kind = "super"
<1>1. ASSUME NEW n, NEW screen \in Screens \cup {Absent}, NEW i \in DOMAIN MenuReadings(n, screen)
      PROVE  MenuReadings(n, screen)[i].kind \in {"special", "regular"}
  <2>1. Prefills(screen)
    BY <1>1 DEF MenuReadings
  <2> QED BY <1>1, <2>1 DEF MenuReadings, Reading
<1>2. \A e \in MenuSeen(imgs) : e.kind \in {"special", "regular"}
  BY <1>1 DEF MenuSeen, Gallery, Taken, Range
<1>3. \A e \in SpinSeen(imgs) : e.kind = "super"
  <2>1. ASSUME NEW n, NEW screen, NEW i \in DOMAIN WheelReadings(n, screen)
        PROVE  WheelReadings(n, screen)[i].kind = "super"
    BY DEF WheelReadings, Reading
  <2> QED BY <2>1 DEF SpinSeen, Taken, Range
<1> QED BY <1>2, <1>3

LEMMA ApartHold ==
  ASSUME NEW R, NEW S, Holds(R, S), NEW Q, NEW T, Holds(Q, T),
         \A e \in S, g \in T : e.kind # g.kind
  PROVE  Holds(R \cup Q, S \cup T)
<1>1. IsFiniteSet(R \cup Q)
  BY FS_Union DEF Holds
<1>2. \A d \in R \cup Q : Sound(d) /\ Drawn(d, S \cup T)
  BY MoreReadings DEF Holds
<1>3. \A d \in R, o \in Q : d.key # o.key
  <2>1. \A d \in R : \E e \in S : d.key.kind = e.kind
    BY DEF Holds, Drawn, Of
  <2>2. \A o \in Q : \E g \in T : o.key.kind = g.kind
    BY DEF Holds, Drawn, Of
  <2> QED BY <2>1, <2>2
<1>4. \A d, o \in R \cup Q : d.key = o.key => d = o
  BY <1>3 DEF Holds
<1>5. \A d \in R \cup Q : \E z \in R \cup Q : z.key = FirstKey(d.key.kind, d.key.title)
  BY DEF Holds
<1>6. \A e \in S \cup T : \E d \in R \cup Q : Of(d, e) /\ Carries(d, e)
  BY DEF Holds
<1>7. SplitOver(R \cup Q, S \cup T)
  <2>1. /\ Half(S) \/ Half(T) => Half(S \cup T)
        /\ \A d : TwoTold(d, S) \/ TwoTold(d, T) => TwoTold(d, S \cup T)
    BY MoreTold
  <2>2. \A d \in R, o \in Q : d.key.kind # o.key.kind
    <3>1. \A d \in R : \E e \in S : d.key.kind = e.kind
      BY DEF Holds, Drawn, Of
    <3>2. \A o \in Q : \E g \in T : o.key.kind = g.kind
      BY DEF Holds, Drawn, Of
    <3> QED BY <3>1, <3>2
  <2> QED BY <2>1, <2>2 DEF Holds, SplitOver
<1> QED BY <1>1, <1>2, <1>4, <1>5, <1>6, <1>7 DEF Holds

\* The merge of a job holds what was read on its images, and nothing else.
LEMMA MergedHolds ==
  ASSUME NEW imgs, Gallery(imgs)
  PROVE  Holds(Merged(imgs), Seen(imgs))
<1>1. \A e \in MenuSeen(imgs), g \in SpinSeen(imgs) : e.kind # g.kind
  BY KindsDiffer
<1> QED BY <1>1, MenusHold, SpinHolds, ApartHold DEF Merged, Seen

(************************** nothing lost or settled ************************)

Image == [file : Nat, screen : Screens \cup {Absent}]

\* What a job has is what it has read, and its draft is built of that.
DraftInv == images \in Seq(Image) /\ (draft = Absent \/ draft = BuildDraft(images))

LEMMA ImageTyped ==
  ASSUME DraftInv, NEW n \in DOMAIN images
  PROVE  images[n] \in Image
BY DEF DraftInv

LEMMA DraftInductive ==
  /\ DraftInit => DraftInv
  /\ DraftInv /\ [DraftNext]_draftVars => DraftInv'
<1>1. DraftInit => DraftInv
  BY DEF DraftInit, DraftInv
<1>2. ASSUME DraftInv, [DraftNext]_draftVars PROVE DraftInv'
  <2>1. CASE UNCHANGED draftVars
    BY <1>2, <2>1 DEF DraftInv, draftVars
  <2>2. CASE Finish
    BY <1>2, <2>2 DEF DraftInv, Finish
  <2>3. ASSUME NEW file \in Nat, NEW screen \in Screens \cup {Absent}, More, Add(file, screen),
               UNCHANGED draft
        PROVE  DraftInv'
    <3>1. [file |-> file, screen |-> screen] \in Image
      BY DEF Image
    <3>2. images' \in Seq(Image)
      BY <1>2, <2>3, <3>1 DEF DraftInv, Add
    <3> QED BY <2>3, <3>2 DEF DraftInv, More
  <2>4. CASE Duplicate
    <3>1. PICK n \in DOMAIN images : More /\ Add(images[n].file, Absent) /\ UNCHANGED draft
      BY <2>4 DEF Duplicate
    <3>2. images[n] \in Image
      BY <1>2, <3>1, ImageTyped
    <3>3. images[n].file \in Nat
      BY <3>2 DEF Image
    <3> QED BY <2>3, <3>1, <3>3
  <2>5. CASE Skip
    <3>1. Len(images) + 1 \in Nat
      BY <1>2 DEF DraftInv
    <3> QED BY <2>3, <2>5, <3>1 DEF Skip
  <2>6. ASSUME NEW s \in Screens, Read(s) PROVE DraftInv'
    <3>1. Len(images) + 1 \in Nat
      BY <1>2 DEF DraftInv
    <3> QED BY <2>3, <2>6, <3>1 DEF Read
  <2> QED BY <1>2, <2>1, <2>2, <2>4, <2>5, <2>6 DEF DraftNext
<1> QED BY <1>1, <1>2

LEMMA IsGallery ==
  ASSUME DraftInv
  PROVE  Gallery(images)
<1>1. Len(images) \in Nat /\ DOMAIN images = 1..Len(images)
  BY DEF DraftInv
<1>2. \A n \in DOMAIN images : images[n].screen \in Screens \cup {Absent}
  BY ImageTyped DEF Image
<1> QED BY <1>1, <1>2 DEF Gallery

\* e is the reading of row r on image n
Tells(e, n, r) == e.image = n /\ e.row = r /\ e.kind = KindRead(n, r)

\* The readings that are merged are the rows of the screens in force.
LEMMA SeenInForce ==
  ASSUME Gallery(images), NEW e \in Seen(images)
  PROVE  /\ e.image \in DOMAIN images /\ InForce(e.image) /\ e.row.category
         /\ e.row \in Range(images[e.image].screen.rows) /\ e.kind = KindRead(e.image, e.row)
         /\ Typed(e)
<1>1. CASE e \in MenuSeen(images)
  <2>1. PICK n \in DOMAIN images : e \in Taken(MenuReadings(n, images[n].screen))
    BY <1>1 DEF MenuSeen
  <2> DEFINE s == images[n].screen
  <2>2. PICK i \in DOMAIN MenuReadings(n, s) : e = MenuReadings(n, s)[i]
    BY <2>1 DEF Taken, Range
  <2>3. e.row.category
    BY <2>1 DEF Taken
  <2>4. Prefills(s)
    BY <2>2 DEF MenuReadings
  <2>5. /\ i \in DOMAIN s.rows
        /\ e = Reading(n, s.rows[i], IF s.rows[i].granted THEN "special" ELSE "regular",
                       s.rows[i].granted)
    BY <2>2, <2>4 DEF MenuReadings
  <2>6. e.image = n /\ e.row = s.rows[i] /\ e.kind = IF s.rows[i].granted THEN "special" ELSE "regular"
    BY <2>5 DEF Reading
  <2>7. InForce(n)
    BY <2>4 DEF InForce, Prefills
  <2>8. e.kind = KindRead(e.image, e.row)
    BY <2>4, <2>6 DEF KindRead
  <2>9. s \in Screens \cup {Absent}
    BY DEF Gallery
  <2>10. Typed(e)
    BY <2>2, <2>9, MenuIsListed DEF Listed
  <2> QED BY <2>3, <2>5, <2>6, <2>7, <2>8, <2>10 DEF Range
<1>2. CASE e \in SpinSeen(images)
  <2>1. PICK n \in LastWheel(images) : e \in Taken(WheelReadings(n, images[n].screen))
    BY <1>2 DEF SpinSeen
  <2> DEFINE s == images[n].screen
  <2>2. PICK i \in DOMAIN WheelReadings(n, s) : e = WheelReadings(n, s)[i]
    BY <2>1 DEF Taken, Range
  <2>3. e.row.category
    BY <2>1 DEF Taken
  <2>4. n = Max(Wheels(images)) /\ n \in DOMAIN images /\ s \in Screens /\ s.type = "wheel"
    BY LastIsWheel
  <2>5. i \in DOMAIN s.rows /\ e = Reading(n, s.rows[i], "super", TRUE)
    BY <2>2 DEF WheelReadings
  <2>6. e.image = n /\ e.row = s.rows[i] /\ e.kind = "super"
    BY <2>5 DEF Reading
  <2>7. InForce(n) /\ ~ Prefills(s)
    BY <2>4, ScreensAssumption DEF InForce, Prefills
  <2>8. e.kind = KindRead(e.image, e.row)
    BY <2>6, <2>7 DEF KindRead
  <2>9. Typed(e)
    BY <2>2, <2>4, WheelIsListed DEF Listed
  <2> QED BY <2>3, <2>4, <2>5, <2>6, <2>7, <2>8, <2>9 DEF Range
<1> QED BY <1>1, <1>2 DEF Seen

LEMMA InForceSeen ==
  ASSUME Gallery(images), NEW n \in DOMAIN images, InForce(n),
         NEW r \in Range(images[n].screen.rows), r.category
  PROVE  \E e \in Seen(images) : Tells(e, n, r)
<1> DEFINE s == images[n].screen
<1>1. PICK i \in DOMAIN s.rows : r = s.rows[i]
  BY DEF Range
<1>2. CASE Prefills(s)
  <2> DEFINE L == MenuReadings(n, s)
             k == IF r.granted THEN "special" ELSE "regular"
  <2>1. i \in DOMAIN L /\ L[i] = Reading(n, r, k, r.granted)
    BY <1>1, <1>2 DEF MenuReadings
  <2>2. L[i].image = n /\ L[i].row = r /\ L[i].kind = k
    BY <2>1 DEF Reading
  <2>3. Tells(L[i], n, r)
    BY <1>2, <2>2 DEF Tells, KindRead
  <2>4. L[i] \in Taken(L)
    <3> HIDE DEF L
    <3> QED BY <2>1, <2>2 DEF Taken, Range
  <2>5. L[i] \in Seen(images)
    BY <2>4 DEF Seen, MenuSeen
  <2> HIDE DEF L
  <2> QED BY <2>3, <2>5
<1>3. CASE ~ Prefills(s)
  <2> DEFINE L == WheelReadings(n, s)
  <2>1. n \in LastWheel(images)
    BY <1>3, LastIsWheel DEF InForce, Wheels
  <2>2. i \in DOMAIN L /\ L[i] = Reading(n, r, "super", TRUE)
    BY <1>1 DEF WheelReadings
  <2>3. L[i].image = n /\ L[i].row = r /\ L[i].kind = "super"
    BY <2>2 DEF Reading
  <2>4. Tells(L[i], n, r)
    BY <1>3, <2>3 DEF Tells, KindRead
  <2>5. L[i] \in Taken(L)
    <3> HIDE DEF L
    <3> QED BY <2>2, <2>3 DEF Taken, Range
  <2>6. L[i] \in Seen(images)
    BY <2>1, <2>5 DEF Seen, SpinSeen
  <2> HIDE DEF L
  <2> QED BY <2>4, <2>6
<1> QED BY <1>2, <1>3

\* the figures of a row, as the form shows them
LEMMA SoleIs ==
  ASSUME NEW F, IsFiniteSet(F), \A f \in F : Legible(f)
  PROVE  /\ ({Sole(F)} \ {Absent}) \cup Conflict(F) = F
         /\ Cardinality(F) <= 1 => \A f \in F : f = Sole(F)
<1>1. Cardinality(F) \in Nat
  BY FS_CardinalityType
<1>2. CASE F = {}
  BY <1>2, FS_EmptySet DEF Sole, Conflict
<1>3. CASE F # {} /\ Cardinality(F) <= 1
  <2>1. Cardinality(F) = 1
    BY <1>1, <1>3, FS_EmptySet
  <2>2. PICK x : F = {x}
    BY <2>1, FS_Singleton
  <2>3. Sole(F) = x /\ Conflict(F) = {}
    BY <2>1, <2>2 DEF Sole, Conflict
  <2>4. x # Absent
    BY <2>2 DEF Legible
  <2> QED BY <2>2, <2>3, <2>4
<1>4. CASE Cardinality(F) > 1
  BY <1>1, <1>4 DEF Sole, Conflict
<1> QED BY <1>1, <1>2, <1>3, <1>4

LEMMA NoneLost ==
  ASSUME Gallery(images), draft = BuildDraft(images)
  PROVE  ExactlyWhatWasRead
<1> DEFINE R == Merged(images)
           S == Seen(images)
           seen == {x \in (DOMAIN images) \X RowsRead :
                      /\ InForce(x[1]) /\ x[2].category
                      /\ x[2] \in Range(images[x[1]].screen.rows)}
           shown(d) == ({d.percent} \ {Absent}) \cup d.conflictPercents
<1>1. Holds(R, S)
  BY MergedHolds
<1>2. draft.rows = {RowDTO(d, R) : d \in R}
  BY DEF BuildDraft
<1>3. \A d \in R : /\ RowDTO(d, R).read = d.key.kind /\ RowDTO(d, R).title = d.key.title
                   /\ shown(RowDTO(d, R)) = d.percents
  <2> SUFFICES ASSUME NEW d \in R
               PROVE  /\ RowDTO(d, R).read = d.key.kind /\ RowDTO(d, R).title = d.key.title
                      /\ shown(RowDTO(d, R)) = d.percents
    OBVIOUS
  <2>1. IsFiniteSet(d.percents) /\ \A p \in d.percents : Legible(p)
    BY <1>1 DEF Holds, Sound, Drawn
  <2>2. ({Sole(d.percents)} \ {Absent}) \cup Conflict(d.percents) = d.percents
    BY <2>1, SoleIs
  <2> HIDE DEF R
  <2> QED BY <2>2 DEF RowDTO
<1>4. \A e \in S : <<e.image, e.row>> \in seen /\ e.kind = KindRead(e.image, e.row)
  <2> SUFFICES ASSUME NEW e \in S
               PROVE  <<e.image, e.row>> \in seen /\ e.kind = KindRead(e.image, e.row)
    OBVIOUS
  <2>1. /\ e.image \in DOMAIN images /\ InForce(e.image) /\ e.row.category
        /\ e.row \in Range(images[e.image].screen.rows) /\ e.kind = KindRead(e.image, e.row)
    BY SeenInForce
  <2>2. e.row \in RowsRead
    BY <2>1 DEF RowsRead, Range
  <2> QED BY <2>1, <2>2
<1>5. \A x \in seen : \E e \in S : Tells(e, x[1], x[2])
  BY InForceSeen
<1> HIDE DEF R, S, seen, shown
<1>6. {<<d.read, d.title>> : d \in draft.rows}
        = {<<KindRead(x[1], x[2]), x[2].title>> : x \in seen}
  <2>1. {<<d.read, d.title>> : d \in draft.rows} = {<<d.key.kind, d.key.title>> : d \in R}
    BY <1>2, <1>3
  <2>2. ASSUME NEW d \in R
        PROVE  \E x \in seen : <<d.key.kind, d.key.title>> = <<KindRead(x[1], x[2]), x[2].title>>
    <3>1. PICK e \in S : Of(d, e)
      BY <1>1 DEF Holds, Drawn
    <3> QED BY <1>4, <3>1 DEF Of
  <2>3. ASSUME NEW x \in seen
        PROVE  \E d \in R : <<d.key.kind, d.key.title>> = <<KindRead(x[1], x[2]), x[2].title>>
    <3>1. PICK e \in S : Tells(e, x[1], x[2])
      BY <1>5
    <3>2. PICK d \in R : Of(d, e)
      BY <1>1 DEF Holds
    <3> QED BY <3>1, <3>2 DEF Of, Tells
  <2> QED BY <2>1, <2>2, <2>3
<1>7. UNION {{<<d.read, d.title, p>> : p \in shown(d)} : d \in draft.rows}
        = {<<KindRead(x[1], x[2]), x[2].title, x[2].percent>> :
             x \in {y \in seen : Legible(y[2].percent)}}
  <2>1. UNION {{<<d.read, d.title, p>> : p \in shown(d)} : d \in draft.rows}
          = UNION {{<<d.key.kind, d.key.title, p>> : p \in d.percents} : d \in R}
    BY <1>2, <1>3
  <2>2. ASSUME NEW d \in R, NEW p \in d.percents
        PROVE  \E x \in {y \in seen : Legible(y[2].percent)} :
                 <<d.key.kind, d.key.title, p>> = <<KindRead(x[1], x[2]), x[2].title, x[2].percent>>
    <3>1. PICK e \in S : Of(d, e) /\ e.row.percent = p /\ Legible(p)
      BY <1>1 DEF Holds, Drawn
    <3> DEFINE x == <<e.image, e.row>>
    <3>2. x \in seen /\ e.kind = KindRead(x[1], x[2])
      BY <1>4
    <3>3. x[2].percent = p /\ x[2].title = d.key.title /\ KindRead(x[1], x[2]) = d.key.kind
      BY <3>1, <3>2 DEF Of
    <3>4. x \in {y \in seen : Legible(y[2].percent)}
      BY <3>1, <3>2, <3>3
    <3> HIDE DEF x
    <3> QED BY <3>3, <3>4
  <2>3. ASSUME NEW x \in seen, Legible(x[2].percent)
        PROVE  \E d \in R : \E p \in d.percents :
                 <<d.key.kind, d.key.title, p>> = <<KindRead(x[1], x[2]), x[2].title, x[2].percent>>
    <3>1. PICK e \in S : Tells(e, x[1], x[2])
      BY <1>5
    <3>2. PICK d \in R : Of(d, e) /\ Carries(d, e)
      BY <1>1 DEF Holds
    <3>3. x[2].percent \in d.percents
      BY <2>3, <3>1, <3>2 DEF Carries, Tells, Numbers, Legible
    <3> QED BY <3>1, <3>2, <3>3 DEF Of, Tells
  <2> QED BY <2>1, <2>2, <2>3
<1> QED BY <1>6, <1>7 DEF ExactlyWhatWasRead, seen, shown

LEMMA CountsFinite ==
  ASSUME NEW imgs, Gallery(imgs)
  PROVE  IsFiniteSet(ResolveSlots(imgs))
<1> DEFINE C == Counted(imgs)
           f == [n \in C |-> SlotsOf(n, imgs)]
<1>1. IsFiniteSet(C)
  <2>1. Len(imgs) \in Nat /\ C \subseteq 1..Len(imgs)
    BY DEF Gallery, Counted
  <2>2. IsFiniteSet(1..Len(imgs))
    BY <2>1, FS_Interval
  <2> HIDE DEF C
  <2> QED BY <2>1, <2>2, FS_Subset
<1>2. f \in Surjection(C, ResolveSlots(imgs))
  BY DEF Surjection, ResolveSlots
<1> HIDE DEF f, C
<1> QED BY <1>1, <1>2, FS_Surjection

\* Of two rows of one title each is marked, so what is not marked is all there is.
LEMMA NoneSettled ==
  ASSUME Gallery(images), draft = BuildDraft(images)
  PROVE  NothingResolvedSilently
<1> DEFINE R == Merged(images)
<1>1. Holds(R, Seen(images))
  BY MergedHolds
<1>2. draft.rows = {RowDTO(d, R) : d \in R} /\ draft.slots = Sole(ResolveSlots(images))
  BY DEF BuildDraft
<1> HIDE DEF R
<1>3. ASSUME NEW x \in draft.rows, ~ x.review, NEW n \in DOMAIN images, InForce(n),
             NEW r \in Range(images[n].screen.rows),
             r.category, r.title = x.title, KindRead(n, r) = x.read
      PROVE  (Legible(r.percent) => r.percent = x.percent) /\ (Legible(r.cap) => r.cap = x.cap)
  <2>1. PICK d \in R : x = RowDTO(d, R)
    BY <1>2
  <2>2. /\ x.read = d.key.kind /\ x.title = d.key.title /\ ~ NeedsReview(d, R)
        /\ x.percent = Sole(d.percents) /\ x.cap = Sole(d.caps)
    BY <1>3, <2>1 DEF RowDTO
  <2>3. PICK e \in Seen(images) : Tells(e, n, r)
    BY <1>3, InForceSeen
  <2>4. PICK o \in R : Of(o, e) /\ Carries(o, e)
    BY <1>1 DEF Holds
  <2>5. o = d
    BY <1>3, <2>2, <2>3, <2>4 DEF NeedsReview, Repeated, Of, Tells
  <2>6. /\ IsFiniteSet(d.percents) /\ \A p \in d.percents : Legible(p)
        /\ IsFiniteSet(d.caps) /\ \A c \in d.caps : Legible(c)
    BY <1>1 DEF Holds, Sound, Drawn
  <2>7. Cardinality(d.percents) <= 1 /\ Cardinality(d.caps) <= 1
    <3>1. Cardinality(d.percents) \in Nat /\ Cardinality(d.caps) \in Nat
      BY <2>6, FS_CardinalityType
    <3> QED BY <2>2, <3>1 DEF NeedsReview, Doubtful
  <2>8. (Legible(r.percent) => r.percent \in d.percents) /\ (Legible(r.cap) => r.cap \in d.caps)
    BY <2>3, <2>4, <2>5 DEF Carries, Tells, Numbers, Legible
  <2> QED BY <2>2, <2>6, <2>7, <2>8, SoleIs
<1>4. ASSUME draft.slots # Absent, NEW n \in Counted(images)
      PROVE  draft.slots = images[n].screen.slots.count
               + (IF images[n].screen.slots.remaining THEN Checked(images[n].screen) ELSE 0)
  <2>1. Cardinality(ResolveSlots(images)) = 1
    BY <1>2, <1>4 DEF Sole
  <2>2. IsFiniteSet(ResolveSlots(images))
    BY CountsFinite
  <2>3. PICK v : ResolveSlots(images) = {v}
    BY <2>1, <2>2, FS_Singleton
  <2>4. draft.slots = SlotsOf(n, images)
    BY <1>2, <1>4, <2>1, <2>3 DEF Sole, ResolveSlots
  <2>5. images[n].screen.slots.count \in Nat /\ images[n].screen.slots.remaining \in BOOLEAN
    BY ScreensAssumption DEF Counted, Gallery
  <2> QED BY <2>4, <2>5 DEF SlotsOf
<1> QED BY <1>3, <1>4 DEF NothingResolvedSilently

\* Nothing that was read on a screen in force is lost or changed on its way to the
\* draft, and what the form takes without a question is all the screens say.
THEOREM DraftTellsWhatWasRead == DraftSpec => []DraftIsWhatWasRead
<1>1. DraftInv => DraftIsWhatWasRead
  BY IsGallery, NoneLost, NoneSettled
  DEF DraftIsWhatWasRead, DraftInv, Built, ExactlyWhatWasRead, NothingResolvedSilently
<1> QED BY <1>1, DraftInductive, PTL DEF DraftSpec

(************************** what is asked, and what not ********************)

\* e and g read the same row, on whatever image
Double(e, g) == e.kind = g.kind /\ e.row = g.row /\ e.ticked = g.ticked

Echo(S, T) == \A e \in S : \E g \in T : Double(e, g)

Siblings(d, o) == d.key.kind = o.key.kind /\ d.key.title = o.key.title

SameFigures(d, o) ==
  /\ d.percents = o.percents /\ d.caps = o.caps /\ d.checked = o.checked
  /\ d.rawPercent = Absent <=> o.rawPercent = Absent
  /\ d.rawCap = Absent <=> o.rawCap = Absent

\* the form asks, or takes, of d the same as of o
AskedAs(d, R, o, Q) ==
  /\ Siblings(d, o) /\ (NeedsReview(d, R) <=> NeedsReview(o, Q))
  /\ ~ NeedsReview(d, R) => SameFigures(d, o)

Matches(R, Q) == \A d \in R : \E o \in Q : AskedAs(d, R, o, Q)

\* A row that is the only one of its title has all that was read of it.
LEMMA AloneHolds ==
  ASSUME NEW R, NEW S, Holds(R, S), NEW d \in R, ~ Repeated(d, R), NEW e \in S, Of(d, e)
  PROVE  Carries(d, e)
<1>1. PICK o \in R : Of(o, e) /\ Carries(o, e)
  BY DEF Holds
<1>2. o = d
  BY <1>1 DEF Repeated, Of
<1> QED BY <1>1, <1>2

LEMMA AloneHasMore ==
  ASSUME NEW R, NEW S, Holds(R, S), NEW Q, NEW T, Holds(Q, T), Echo(S, T),
         NEW d \in R, NEW o \in Q, Siblings(d, o), ~ Repeated(o, Q)
  PROVE  /\ d.percents \subseteq o.percents /\ d.caps \subseteq o.caps
         /\ d.checked => o.checked
         /\ d.rawPercent # Absent => o.rawPercent # Absent
         /\ d.rawCap # Absent => o.rawCap # Absent
<1>1. Drawn(d, S)
  BY DEF Holds
<1>2. ASSUME NEW e \in S, Of(d, e)
      PROVE  Carries(o, e)
  <2>1. PICK g \in T : Double(e, g)
    BY DEF Echo
  <2>2. Of(o, g)
    BY <1>2, <2>1 DEF Of, Double, Siblings
  <2>3. Carries(o, g)
    BY <2>2, AloneHolds
  <2> QED BY <2>1, <2>3 DEF Carries, Double
<1>3. d.percents \subseteq o.percents
  BY <1>1, <1>2 DEF Drawn, Carries, Numbers, Legible
<1>4. d.caps \subseteq o.caps
  BY <1>1, <1>2 DEF Drawn, Carries, Numbers, Legible
<1>5. d.checked => o.checked
  BY <1>1, <1>2 DEF Drawn, Carries
<1>6. /\ d.rawPercent # Absent => o.rawPercent # Absent
      /\ d.rawCap # Absent => o.rawCap # Absent
  BY <1>1, <1>2 DEF Drawn, Carries
<1> QED BY <1>3, <1>4, <1>5, <1>6

LEMMA AloneSame ==
  ASSUME NEW R, NEW S, Holds(R, S), NEW Q, NEW T, Holds(Q, T), Echo(S, T), Echo(T, S),
         NEW d \in R, NEW o \in Q, Siblings(d, o), ~ Repeated(d, R), ~ Repeated(o, Q)
  PROVE  AskedAs(d, R, o, Q)
<1>1. Siblings(o, d)
  BY DEF Siblings
<1>2. d.checked \in BOOLEAN /\ o.checked \in BOOLEAN
  BY DEF Holds, Sound
<1>3. /\ d.percents \subseteq o.percents /\ d.caps \subseteq o.caps
      /\ d.checked => o.checked
      /\ d.rawPercent # Absent => o.rawPercent # Absent
      /\ d.rawCap # Absent => o.rawCap # Absent
  BY AloneHasMore
<1>4. /\ o.percents \subseteq d.percents /\ o.caps \subseteq d.caps
      /\ o.checked => d.checked
      /\ o.rawPercent # Absent => d.rawPercent # Absent
      /\ o.rawCap # Absent => d.rawCap # Absent
  BY <1>1, AloneHasMore
<1>5. d.checked = o.checked
  BY <1>2, <1>3, <1>4
<1>6. SameFigures(d, o)
  BY <1>3, <1>4, <1>5 DEF SameFigures
<1>7. /\ Doubtful(d.percents, d.rawPercent) <=> Doubtful(o.percents, o.rawPercent)
      /\ Doubtful(d.caps, d.rawCap) <=> Doubtful(o.caps, o.rawCap)
  BY <1>6 DEF Doubtful, SameFigures
<1> QED BY <1>6, <1>7 DEF AskedAs, NeedsReview, SameFigures

\* Asked as one of several of its title, on both sides.
LEMMA BothRepeated ==
  ASSUME NEW R, NEW Q, NEW d, NEW o, Siblings(d, o), NeedsReview(d, R), NeedsReview(o, Q)
  PROVE  AskedAs(d, R, o, Q)
BY DEF AskedAs

LEMMA TwoAsked ==
  ASSUME NEW R, NEW S, Holds(R, S), NEW d \in R, TwoTold(d, S)
  PROVE  NeedsReview(d, R)
<1> SUFFICES ASSUME ~ Repeated(d, R) PROVE Cardinality(d.percents) > 1
  BY DEF NeedsReview, Doubtful
<1>1. PICK e, g \in S : /\ Of(d, e) /\ Of(d, g) /\ e.row.percent # g.row.percent
                       /\ Legible(e.row.percent) /\ Legible(g.row.percent)
  BY DEF TwoTold
<1>2. e.row.percent \in d.percents /\ g.row.percent \in d.percents
  BY <1>1, AloneHolds DEF Carries, Numbers, Legible
<1>3. IsFiniteSet(d.percents) /\ \A p \in d.percents : Legible(p)
  BY DEF Holds, Sound, Drawn
<1>4. Cardinality(d.percents) \in Nat
  BY <1>3, FS_CardinalityType
<1>5. ~ (Cardinality(d.percents) <= 1)
  BY <1>1, <1>2, <1>3, SoleIs
<1> QED BY <1>4, <1>5

LEMMA TwoEchoed ==
  ASSUME NEW S, NEW T, Echo(S, T), NEW d, NEW o, Siblings(d, o), TwoTold(d, S)
  PROVE  TwoTold(o, T)
<1>1. PICK e, g \in S : /\ Of(d, e) /\ Of(d, g) /\ e.row.percent # g.row.percent
                       /\ Legible(e.row.percent) /\ Legible(g.row.percent)
  BY DEF TwoTold
<1>2. PICK x \in T : Double(e, x)
  BY DEF Echo
<1>3. PICK y \in T : Double(g, y)
  BY DEF Echo
<1> QED BY <1>1, <1>2, <1>3 DEF TwoTold, Of, Double, Siblings

\* The same readings in another order, where no image is half read.
LEMMA OrderMatches ==
  ASSUME NEW R, NEW S, Holds(R, S), NEW Q, NEW T, Holds(Q, T), Echo(S, T), Echo(T, S),
         ~ Half(S), ~ Half(T)
  PROVE  Matches(R, Q)
<1> SUFFICES ASSUME NEW d \in R PROVE \E o \in Q : AskedAs(d, R, o, Q)
  BY DEF Matches
<1>1. PICK e \in S : Of(d, e)
  BY DEF Holds, Drawn
<1>2. PICK g \in T : Double(e, g)
  BY DEF Echo
<1>3. PICK o \in Q : Of(o, g)
  BY DEF Holds
<1>4. Siblings(d, o)
  BY <1>1, <1>2, <1>3 DEF Siblings, Of, Double
<1>5. TwoTold(d, S) => TwoTold(o, T)
  BY <1>4, TwoEchoed
<1>6. TwoTold(o, T) => TwoTold(d, S)
  <2>1. Siblings(o, d)
    BY <1>4 DEF Siblings
  <2> QED BY <2>1, TwoEchoed
<1>7. CASE TwoTold(d, S)
  BY <1>4, <1>5, <1>7, TwoAsked, BothRepeated
<1>8. CASE ~ TwoTold(d, S)
  <2>1. ~ Repeated(d, R)
    BY <1>8 DEF Repeated, Holds, SplitOver
  <2>2. ~ Repeated(o, Q)
    BY <1>6, <1>8 DEF Repeated, Holds, SplitOver
  <2> QED BY <1>4, <2>1, <2>2, AloneSame
<1> QED BY <1>7, <1>8

(******************************* a twin's rows *****************************)

\* Q is what R becomes when it is told again what it holds
Absorbed(R, Q) ==
  /\ \A d \in R : \E o \in Q : o.key = d.key
  /\ \A o \in Q : \E d \in R : Siblings(d, o)
  /\ \A d \in R : ~ Repeated(d, R) => \A o \in Q : Siblings(d, o) => o.key = d.key

LEMMA AbsorbStep ==
  ASSUME NEW R, NEW S, Holds(R, S), NEW Q, NEW T, Holds(Q, T), S \subseteq T, Absorbed(R, Q),
         NEW e, Typed(e), e.row.category, NEW g \in S, Double(e, g)
  PROVE  Absorbed(R, AddRow(Q, e))
<1>1. PICK r : Receives(Q, e, r)
  BY OneReceives
<1> DEFINE m == Merge(r, e)
           P == (Q \ {r}) \cup {m}
<1>2. AddRow(Q, e) = P /\ Sound(r) /\ r.key.kind = e.kind /\ r.key.title = e.row.title
  BY <1>1 DEF Receives, Of
<1>3. m.key = r.key
  BY <1>2, MergeCarries
<1> HIDE DEF m
<1>4. \A d \in R : \E o \in P : o.key = d.key
  <2> TAKE d \in R
  <2>1. PICK o \in Q : o.key = d.key
    BY DEF Absorbed
  <2> QED BY <1>3, <2>1
<1>5. \A o \in P : \E d \in R : Siblings(d, o)
  <2>1. PICK d \in R : Of(d, g)
    BY DEF Holds
  <2>2. Siblings(d, m)
    BY <1>2, <1>3, <2>1 DEF Siblings, Of, Double
  <2> QED BY <2>2 DEF Absorbed
<1>6. ASSUME NEW d \in R, ~ Repeated(d, R), Siblings(d, m)
      PROVE  m.key = d.key
  <2>1. \A o \in Q : Siblings(d, o) => o.key = d.key
    BY <1>6 DEF Absorbed
  <2>2. Variant(Q, e) = 0
    <3> SUFFICES ASSUME Variant(Q, e) # 0 PROVE FALSE
      OBVIOUS
    <3>1. PICK z \in Q : /\ z.key = FirstKey(e.kind, e.row.title)
                         /\ SplitsFromSameImage(z, e.image, e.row.percent)
      BY FirstVariant DEF Holds
    <3>2. PICK q \in Q : Of(q, g) /\ Carries(q, g)
      BY DEF Holds
    <3>3. Siblings(d, z) /\ Siblings(d, q)
      BY <1>2, <1>3, <1>6, <3>1, <3>2 DEF Siblings, Of, Double, FirstKey
    <3>4. q = z
      BY <2>1, <3>3 DEF Holds
    <3>5. e.row.percent \in Numbers(g.row.percent)
      BY <3>1 DEF SplitsFromSameImage, Numbers, Legible, Double
    <3> QED BY <3>1, <3>2, <3>4, <3>5 DEF SplitsFromSameImage, Carries
  <2>3. r.key = FirstKey(e.kind, e.row.title)
    BY <1>1, <2>2 DEF Receives, FirstKey
  <2>4. PICK z \in R : z.key = FirstKey(d.key.kind, d.key.title)
    BY DEF Holds
  <2>5. z = d
    BY <1>6, <2>4 DEF Repeated, FirstKey
  <2> QED BY <1>2, <1>3, <1>6, <2>3, <2>4, <2>5 DEF Siblings
<1>7. \A d \in R : ~ Repeated(d, R) => \A o \in P : Siblings(d, o) => o.key = d.key
  BY <1>6 DEF Absorbed
<1> HIDE DEF P
<1> QED BY <1>2, <1>4, <1>5, <1>7 DEF Absorbed

LEMMA AllAbsorbed ==
  ASSUME NEW R, NEW S, Holds(R, S), NEW n \in Nat, NEW L, DOMAIN L = 1..n,
         \A i \in DOMAIN L : Typed(L[i]),
         \A i \in DOMAIN L : L[i].row.category => \E g \in S : Double(L[i], g)
  PROVE  Absorbed(R, AddAll(R, L))
<1>1. PICK h : InSteps(TRUE, h, R, L, n) /\ h[n] = AddAll(R, L)
  BY RowByRow DEF Reached
<1> DEFINE N == {k \in Nat : k <= n => Absorbed(R, h[k]) /\ \E T : S \subseteq T /\ Holds(h[k], T)}
<1>2. 0 \in N
  <2>1. Absorbed(R, R)
    BY DEF Absorbed, Siblings, Repeated
  <2> QED BY <1>1, <2>1 DEF InSteps
<1>3. ASSUME NEW k \in N PROVE k + 1 \in N
  <2> SUFFICES ASSUME k + 1 <= n
               PROVE  Absorbed(R, h[k + 1]) /\ \E T : S \subseteq T /\ Holds(h[k + 1], T)
    OBVIOUS
  <2>1. k \in Nat /\ k + 1 \in 1..n /\ (k + 1) - 1 = k /\ k <= n
    OBVIOUS
  <2>2. h[k + 1] = AddRow(h[k], L[k + 1])
    BY <1>1, <2>1 DEF InSteps, Step
  <2>3. Absorbed(R, h[k]) /\ Typed(L[k + 1])
    BY <2>1
  <2>4. PICK T : S \subseteq T /\ Holds(h[k], T)
    BY <2>1
  <2>5. CASE L[k + 1].row.category
    <3>1. PICK g \in S : Double(L[k + 1], g)
      BY <2>1, <2>5
    <3>2. Absorbed(R, h[k + 1])
      BY <2>2, <2>3, <2>4, <2>5, <3>1, AbsorbStep
    <3>3. Holds(h[k + 1], T \cup {L[k + 1]})
      BY <2>2, <2>3, <2>4, <2>5, AddHolds
    <3>4. S \subseteq T \cup {L[k + 1]}
      BY <2>4
    <3> QED BY <3>2, <3>3, <3>4
  <2>6. CASE ~ L[k + 1].row.category
    <3>1. h[k + 1] = h[k]
      BY <2>2, <2>6 DEF AddRow
    <3> QED BY <2>3, <2>4, <3>1
  <2> QED BY <2>5, <2>6
<1>4. N \in SUBSET Nat
  OBVIOUS
<1>5. n \in N /\ n <= n
  <2> HIDE DEF N
  <2> QED BY <1>2, <1>3, <1>4, Steps
<1> QED BY <1>1, <1>5

LEMMA TwinMatches ==
  ASSUME NEW R, NEW S, Holds(R, S), NEW Q, NEW T, Holds(Q, T), S \subseteq T, Echo(T, S),
         Absorbed(R, Q)
  PROVE  Matches(R, Q) /\ Matches(Q, R)
<1>1. Echo(S, T)
  BY DEF Echo, Double
<1>2. ASSUME NEW d \in R, NEW o \in Q, Siblings(d, o)
      PROVE  AskedAs(d, R, o, Q) /\ AskedAs(o, Q, d, R)
  <2>1. CASE Repeated(d, R)
    <3>1. PICK e \in R : e # d /\ Siblings(e, d)
      BY <2>1 DEF Repeated, Siblings
    <3>2. e.key # d.key
      BY <3>1 DEF Holds
    <3>3. PICK x \in Q, y \in Q : x.key = d.key /\ y.key = e.key
      BY DEF Absorbed
    <3>4. x # y /\ Siblings(x, o) /\ Siblings(y, o)
      BY <1>2, <3>1, <3>2, <3>3 DEF Siblings
    <3>5. Repeated(o, Q)
      BY <3>4 DEF Repeated, Siblings
    <3>6. Siblings(o, d)
      BY <1>2 DEF Siblings
    <3> QED BY <1>2, <2>1, <3>5, <3>6, BothRepeated DEF NeedsReview
  <2>2. CASE ~ Repeated(d, R)
    <3>1. \A x \in Q : Siblings(d, x) => x.key = d.key
      BY <2>2 DEF Absorbed
    <3>2. ~ Repeated(o, Q)
      BY <1>2, <3>1 DEF Repeated, Siblings, Holds
    <3>3. Siblings(o, d)
      BY <1>2 DEF Siblings
    <3> QED BY <1>1, <1>2, <2>2, <3>2, <3>3, AloneSame
  <2> QED BY <2>1, <2>2
<1>3. \A d \in R : \E o \in Q : Siblings(d, o)
  BY DEF Absorbed, Siblings
<1>4. \A o \in Q : \E d \in R : Siblings(d, o)
  BY DEF Absorbed
<1> QED BY <1>2, <1>3, <1>4 DEF Matches

(***************************** a spin seen twice ***************************)

\* d of a spin on image m and o of the same one on image k
Renamed(m, k, d, o) ==
  d.key = o.key /\ SameFigures(d, o) /\ (m \in d.images <=> k \in o.images)

Mirrors(m, k, R, Q) ==
  /\ \A d \in R : \E o \in Q : Renamed(m, k, d, o)
  /\ \A o \in Q : \E d \in R : Renamed(m, k, d, o)

LEMMA MirrorVariant ==
  ASSUME NEW m, NEW k, NEW R, NEW Q, Mirrors(m, k, R, Q),
         NEW e, NEW g, Double(e, g), e.image = m, g.image = k
  PROVE  Variant(R, e) = Variant(Q, g)
<1> DEFINE taken(P, x, v) == \E d \in P :
             /\ d.key = [kind |-> x.kind, title |-> x.row.title, variant |-> v]
             /\ SplitsFromSameImage(d, x.image, x.row.percent)
<1>1. {d.key : d \in R} = {o.key : o \in Q}
  BY DEF Mirrors, Renamed
<1>2. ASSUME NEW v PROVE taken(R, e, v) <=> taken(Q, g, v)
  <2>1. ASSUME NEW d \in R, NEW o \in Q, Renamed(m, k, d, o)
        PROVE  d.key = o.key /\ (SplitsFromSameImage(d, e.image, e.row.percent)
                                  <=> SplitsFromSameImage(o, g.image, g.row.percent))
    BY <2>1 DEF Renamed, SameFigures, SplitsFromSameImage, Double
  <2>2. e.kind = g.kind /\ e.row = g.row
    BY DEF Double
  <2> QED BY <2>1, <2>2 DEF Mirrors
<1>3. Variant(R, e) = Min({v \in 0..Cardinality({d.key : d \in R}) : ~ taken(R, e, v)})
  BY DEF Variant
<1>4. Variant(Q, g) = Min({v \in 0..Cardinality({d.key : d \in Q}) : ~ taken(Q, g, v)})
  BY DEF Variant
<1> HIDE DEF taken
<1>5. {v \in 0..Cardinality({d.key : d \in R}) : ~ taken(R, e, v)}
        = {v \in 0..Cardinality({d.key : d \in Q}) : ~ taken(Q, g, v)}
  BY <1>1, <1>2
<1> QED BY <1>3, <1>4, <1>5

LEMMA MergeRenamed ==
  ASSUME NEW m, NEW k, NEW d, Sound(d), NEW o, Sound(o), Renamed(m, k, d, o),
         NEW e, Typed(e), NEW g, Typed(g), Double(e, g), e.image = m, g.image = k
  PROVE  Renamed(m, k, Merge(d, e), Merge(o, g))
<1> DEFINE x == Merge(d, e)
           y == Merge(o, g)
<1>1. /\ x.key = d.key /\ x.images = d.images \cup {e.image}
      /\ x.checked = (d.checked \/ e.ticked \/ e.row.checked)
      /\ x.percents = d.percents \cup Numbers(e.row.percent)
      /\ x.caps = d.caps \cup Numbers(e.row.cap)
      /\ x.rawPercent = FirstOf(d.rawPercent, e.row.percent)
      /\ x.rawCap = FirstOf(d.rawCap, e.row.cap)
  BY MergeIs
<1>2. /\ y.key = o.key /\ y.images = o.images \cup {g.image}
      /\ y.checked = (o.checked \/ g.ticked \/ g.row.checked)
      /\ y.percents = o.percents \cup Numbers(g.row.percent)
      /\ y.caps = o.caps \cup Numbers(g.row.cap)
      /\ y.rawPercent = FirstOf(o.rawPercent, g.row.percent)
      /\ y.rawCap = FirstOf(o.rawCap, g.row.cap)
  BY MergeIs
<1> HIDE DEF x, y
<1>3. x.key = y.key /\ m \in x.images /\ k \in y.images
  BY <1>1, <1>2 DEF Renamed
<1>4. x.checked = y.checked
  BY <1>1, <1>2 DEF Renamed, SameFigures, Double
<1>5. x.percents = y.percents /\ x.caps = y.caps
  BY <1>1, <1>2 DEF Renamed, SameFigures, Double
<1>6. /\ x.rawPercent = Absent <=> y.rawPercent = Absent
      /\ x.rawCap = Absent <=> y.rawCap = Absent
  BY <1>1, <1>2 DEF Renamed, SameFigures, Double, FirstOf
<1>7. Renamed(m, k, x, y)
  BY <1>3, <1>4, <1>5, <1>6 DEF Renamed, SameFigures
<1> QED BY <1>7 DEF x, y

LEMMA MirrorStep ==
  ASSUME NEW m, NEW k, NEW R, NEW S, Holds(R, S), NEW Q, NEW T, Holds(Q, T), Mirrors(m, k, R, Q),
         NEW e, Typed(e), e.row.category, NEW g, Typed(g), Double(e, g), e.image = m, g.image = k
  PROVE  Mirrors(m, k, AddRow(R, e), AddRow(Q, g))
<1>0. g.row.category
  BY DEF Double
<1>1. PICK r : Receives(R, e, r)
  BY OneReceives
<1>2. PICK q : Receives(Q, g, q)
  BY <1>0, OneReceives
<1> DEFINE x == Merge(r, e)
           y == Merge(q, g)
<1>3. /\ AddRow(R, e) = (R \ {r}) \cup {x} /\ Sound(r) /\ r.key.kind = e.kind
      /\ AddRow(Q, g) = (Q \ {q}) \cup {y} /\ Sound(q)
  BY <1>1, <1>2 DEF Receives, Of
<1>4. r.key = q.key
  BY <1>1, <1>2, MirrorVariant DEF Receives, Double
<1>5. Renamed(m, k, r, q)
  <2>1. CASE r \in R
    <3>1. PICK o \in Q : Renamed(m, k, r, o)
      BY <2>1 DEF Mirrors
    <3>2. o = q
      BY <1>2, <1>4, <3>1 DEF Renamed, Receives, Holds
    <3> QED BY <3>1, <3>2
  <2>2. CASE r \notin R
    <3>1. r = Blank(r.key) /\ \A o \in R : o.key # r.key
      BY <1>1, <2>2 DEF Receives
    <3>2. q \notin Q
      BY <1>4, <3>1 DEF Mirrors, Renamed
    <3>3. q = Blank(r.key)
      BY <1>2, <1>4, <3>2 DEF Receives
    <3>4. \A key : LET b == Blank(key) IN Renamed(m, k, b, b)
      BY DEF Renamed, SameFigures, Blank
    <3> QED BY <3>1, <3>3, <3>4
  <2> QED BY <2>1, <2>2
<1>6. Renamed(m, k, x, y)
  BY <1>3, <1>5, MergeRenamed
<1> HIDE DEF x, y
<1>7. \A d \in R : d.key = r.key => d = r
  BY <1>1 DEF Receives, Holds
<1>8. \A o \in Q : o.key = q.key => o = q
  BY <1>2 DEF Receives, Holds
<1>9. \A d \in R \ {r} : \E o \in Q \ {q} : Renamed(m, k, d, o)
  BY <1>4, <1>7 DEF Mirrors, Renamed
<1>10. \A o \in Q \ {q} : \E d \in R \ {r} : Renamed(m, k, d, o)
  BY <1>4, <1>8 DEF Mirrors, Renamed
<1> QED BY <1>3, <1>6, <1>9, <1>10 DEF Mirrors

LEMMA ReadTwice ==
  ASSUME NEW m, NEW k, NEW row, NEW kind, NEW ticked,
         NEW e, e = Reading(m, row, kind, ticked), NEW g, g = Reading(k, row, kind, ticked)
  PROVE  Double(e, g) /\ e.image = m /\ g.image = k
BY DEF Reading, Double

LEMMA SpinMirrors ==
  ASSUME NEW s \in Screens, NEW m, NEW k
  PROVE  LET R == AddAll({}, WheelReadings(m, s))
             Q == AddAll({}, WheelReadings(k, s))
         IN  Mirrors(m, k, R, Q)
<1> DEFINE A == WheelReadings(m, s)
           B == WheelReadings(k, s)
           n == Len(s.rows)
           tick == TRUE
<1>1. /\ n \in Nat /\ DOMAIN A = 1..n /\ DOMAIN B = 1..n
      /\ \A i \in 1..n : A[i] = Reading(m, s.rows[i], "super", tick)
      /\ \A i \in 1..n : B[i] = Reading(k, s.rows[i], "super", tick)
  BY ScreensAssumption DEF WheelReadings
<1>2. \A i \in 1..n : Typed(A[i]) /\ Typed(B[i])
  <2>1. Listed(A) /\ Listed(B)
    BY WheelIsListed
  <2> HIDE DEF A, B, n
  <2>2. PICK a \in Nat : DOMAIN A = 1..a /\ \A i \in 1..a : Typed(A[i])
    BY <2>1 DEF Listed
  <2>3. PICK b \in Nat : DOMAIN B = 1..b /\ \A i \in 1..b : Typed(B[i])
    BY <2>1 DEF Listed
  <2> QED BY <1>1, <2>2, <2>3
<1>3. \A i \in 1..n : Double(A[i], B[i]) /\ A[i].image = m /\ B[i].image = k
  <2> SUFFICES ASSUME NEW i \in 1..n
               PROVE  Double(A[i], B[i]) /\ A[i].image = m /\ B[i].image = k
    OBVIOUS
  <2>1. A[i] = Reading(m, s.rows[i], "super", tick) /\ B[i] = Reading(k, s.rows[i], "super", tick)
    BY <1>1
  <2> HIDE DEF A, B, n, tick
  <2> QED BY <2>1, ReadTwice
<1> HIDE DEF A, B, n
<1>4. PICK h : InSteps(TRUE, h, {}, A, n) /\ h[n] = AddAll({}, A)
  BY <1>1, RowByRow DEF Reached
<1>5. PICK j : InSteps(TRUE, j, {}, B, n) /\ j[n] = AddAll({}, B)
  BY <1>1, RowByRow DEF Reached
<1> DEFINE N == {i \in Nat : i <= n => /\ Mirrors(m, k, h[i], j[i])
                                       /\ \E T : Holds(h[i], T)
                                       /\ \E T : Holds(j[i], T)}
<1>6. 0 \in N
  <2>1. Mirrors(m, k, {}, {})
    BY DEF Mirrors
  <2> QED BY <1>4, <1>5, <2>1, NothingHeld DEF InSteps
<1>7. ASSUME NEW i \in N PROVE i + 1 \in N
  <2> SUFFICES ASSUME i + 1 <= n
               PROVE  /\ Mirrors(m, k, h[i + 1], j[i + 1])
                      /\ \E T : Holds(h[i + 1], T)
                      /\ \E T : Holds(j[i + 1], T)
    OBVIOUS
  <2>1. i \in Nat /\ i + 1 \in 1..n /\ (i + 1) - 1 = i /\ i <= n
    BY <1>1
  <2>2. h[i + 1] = AddRow(h[i], A[i + 1]) /\ j[i + 1] = AddRow(j[i], B[i + 1])
    BY <1>4, <1>5, <2>1 DEF InSteps, Step
  <2>3. Mirrors(m, k, h[i], j[i])
    BY <2>1
  <2>4. PICK S : Holds(h[i], S)
    BY <2>1
  <2>5. PICK T : Holds(j[i], T)
    BY <2>1
  <2>6. /\ Typed(A[i + 1]) /\ Typed(B[i + 1]) /\ Double(A[i + 1], B[i + 1])
        /\ A[i + 1].image = m /\ B[i + 1].image = k
    BY <1>2, <1>3, <2>1
  <2>7. CASE A[i + 1].row.category
    <3>1. B[i + 1].row.category
      BY <2>6, <2>7 DEF Double
    <3>2. Mirrors(m, k, h[i + 1], j[i + 1])
      BY <2>2, <2>3, <2>4, <2>5, <2>6, <2>7, MirrorStep
    <3>3. Holds(h[i + 1], S \cup {A[i + 1]}) /\ Holds(j[i + 1], T \cup {B[i + 1]})
      BY <2>2, <2>4, <2>5, <2>6, <2>7, <3>1, AddHolds
    <3> QED BY <3>2, <3>3
  <2>8. CASE ~ A[i + 1].row.category
    <3>1. ~ B[i + 1].row.category
      BY <2>6, <2>8 DEF Double
    <3>2. h[i + 1] = h[i] /\ j[i + 1] = j[i]
      BY <2>2, <2>8, <3>1 DEF AddRow
    <3> QED BY <2>3, <2>4, <2>5, <3>2
  <2> QED BY <2>7, <2>8
<1>8. N \in SUBSET Nat
  OBVIOUS
<1>9. n \in N /\ n <= n
  <2> HIDE DEF N
  <2> QED BY <1>1, <1>6, <1>7, <1>8, Steps
<1>10. Mirrors(m, k, h[n], j[n])
  BY <1>9
<1> HIDE DEF N
<1>11. Mirrors(m, k, AddAll({}, A), AddAll({}, B))
  BY <1>4, <1>5, <1>10
<1> QED BY <1>11 DEF A, B

LEMMA MirrorMatches ==
  ASSUME NEW m, NEW k, NEW R, NEW S, Holds(R, S), NEW Q, NEW T, Holds(Q, T), Mirrors(m, k, R, Q)
  PROVE  Matches(R, Q) /\ Matches(Q, R)
<1>1. ASSUME NEW d \in R, NEW o \in Q, Renamed(m, k, d, o)
      PROVE  AskedAs(d, R, o, Q) /\ AskedAs(o, Q, d, R)
  <2>1. ASSUME NEW e \in R, e # d, Siblings(e, d)
        PROVE  Repeated(o, Q)
    <3>1. PICK x \in Q : x.key = e.key
      BY DEF Mirrors, Renamed
    <3>2. x # o /\ Siblings(x, o)
      BY <1>1, <2>1, <3>1 DEF Renamed, Siblings, Holds
    <3> QED BY <3>2 DEF Repeated, Siblings
  <2>2. ASSUME NEW e \in Q, e # o, Siblings(e, o)
        PROVE  Repeated(d, R)
    <3>1. PICK x \in R : x.key = e.key
      BY DEF Mirrors, Renamed
    <3>2. x # d /\ Siblings(x, d)
      BY <1>1, <2>2, <3>1 DEF Renamed, Siblings, Holds
    <3> QED BY <3>2 DEF Repeated, Siblings
  <2>3. Repeated(d, R) <=> Repeated(o, Q)
    BY <2>1, <2>2 DEF Repeated, Siblings
  <2>4. SameFigures(d, o) /\ SameFigures(o, d) /\ Siblings(d, o) /\ Siblings(o, d)
    BY <1>1 DEF Renamed, SameFigures, Siblings
  <2>5. /\ Doubtful(d.percents, d.rawPercent) <=> Doubtful(o.percents, o.rawPercent)
        /\ Doubtful(d.caps, d.rawCap) <=> Doubtful(o.caps, o.rawCap)
    BY <2>4 DEF Doubtful, SameFigures
  <2>6. NeedsReview(d, R) <=> NeedsReview(o, Q)
    BY <2>3, <2>4, <2>5 DEF NeedsReview, SameFigures
  <2> QED BY <2>4, <2>6 DEF AskedAs
<1> QED BY <1>1 DEF Matches, Mirrors

\* rows of different kinds do not bear on each other
LEMMA MatchesApart ==
  ASSUME NEW A, NEW B, \A a \in A, b \in B : a.key.kind # b.key.kind,
         NEW C, NEW D, \A c \in C, d \in D : c.key.kind # d.key.kind,
         Matches(A, C), Matches(B, D)
  PROVE  Matches(A \cup B, C \cup D)
<1>1. \A a \in A : NeedsReview(a, A \cup B) <=> NeedsReview(a, A)
  BY DEF NeedsReview, Repeated
<1>2. \A b \in B : NeedsReview(b, A \cup B) <=> NeedsReview(b, B)
  BY DEF NeedsReview, Repeated
<1>3. \A c \in C : NeedsReview(c, C \cup D) <=> NeedsReview(c, C)
  BY DEF NeedsReview, Repeated
<1>4. \A d \in D : NeedsReview(d, C \cup D) <=> NeedsReview(d, D)
  BY DEF NeedsReview, Repeated
<1>5. ASSUME NEW a \in A PROVE \E o \in C \cup D : AskedAs(a, A \cup B, o, C \cup D)
  BY <1>1, <1>3 DEF Matches, AskedAs
<1>6. ASSUME NEW b \in B PROVE \E o \in C \cup D : AskedAs(b, A \cup B, o, C \cup D)
  BY <1>2, <1>4 DEF Matches, AskedAs
<1> QED BY <1>5, <1>6 DEF Matches

LEMMA MatchesItself == ASSUME NEW R PROVE Matches(R, R)
BY DEF Matches, AskedAs, Siblings, SameFigures

(**************************** galleries compared ***************************)

SameScreens(I, J) == \A i \in DOMAIN I : \E k \in DOMAIN J : J[k].screen = I[i].screen

MenusOf(imgs) == {imgs[n].screen : n \in {m \in DOMAIN imgs : Prefills(imgs[m].screen)}}

TakenOf(R) ==
  {<<d.key.kind, d.key.title, Sole(d.percents), Sole(d.caps), d.checked>> :
     d \in {x \in R : ~ NeedsReview(x, R)}}

AskedOf(R) == {<<d.key.kind, d.key.title>> : d \in {x \in R : NeedsReview(x, R)}}

LEMMA SettledIs ==
  ASSUME NEW imgs
  PROVE  LET R == Merged(imgs)
             M == MenusOf(imgs)
         IN  Settled(BuildDraft(imgs)) =
               [rows |-> TakenOf(R), asked |-> AskedOf(R),
                rest |-> <<Sole(ResolveSlots(imgs)), ResolveSlots(imgs),
                           \E s \in M : s.type = "summary",
                           M # {} /\ ~ \E s \in M : s.framed,
                           MismatchedBank(Guesses(imgs))>>]
<1> DEFINE R == Merged(imgs)
           M == MenusOf(imgs)
           D == BuildDraft(imgs)
           sum == \E s \in M : s.type = "summary"
           part == M # {} /\ ~ \E s \in M : s.framed
           other == MismatchedBank(Guesses(imgs))
<1>1. D = [rows |-> {RowDTO(d, R) : d \in R}, slots |-> Sole(ResolveSlots(imgs)),
           candidates |-> ResolveSlots(imgs), summary |-> sum, partial |-> part, otherBank |-> other]
  BY DEF BuildDraft, MenusOf
<1> HIDE DEF R, M, D, sum, part, other
<1>2. D.rows = {RowDTO(d, R) : d \in R}
  BY <1>1
<1>3. <<D.slots, D.candidates, D.summary, D.partial, D.otherBank>>
        = <<Sole(ResolveSlots(imgs)), ResolveSlots(imgs), sum, part, other>>
  BY <1>1
<1>4. \A d \in R : LET r == RowDTO(d, R) IN
        /\ r.read = d.key.kind /\ r.title = d.key.title /\ r.percent = Sole(d.percents)
        /\ r.cap = Sole(d.caps) /\ r.checked = d.checked /\ r.review = NeedsReview(d, R)
  BY DEF RowDTO
<1>5. {<<r.read, r.title, r.percent, r.cap, r.checked>> : r \in {q \in D.rows : ~ q.review}}
        = TakenOf(R)
  BY <1>2, <1>4 DEF TakenOf
<1>6. {<<r.read, r.title>> : r \in {q \in D.rows : q.review}} = AskedOf(R)
  BY <1>2, <1>4 DEF AskedOf
<1>7. Settled(D) = [rows |-> TakenOf(R), asked |-> AskedOf(R),
                    rest |-> <<Sole(ResolveSlots(imgs)), ResolveSlots(imgs), sum, part, other>>]
  BY <1>3, <1>5, <1>6 DEF Settled
<1> QED BY <1>7 DEF R, M, D, sum, part, other

LEMMA MatchesTell ==
  ASSUME NEW R, NEW Q, Matches(R, Q)
  PROVE  TakenOf(R) \subseteq TakenOf(Q) /\ AskedOf(R) \subseteq AskedOf(Q)
<1>1. ASSUME NEW d \in R, ~ NeedsReview(d, R)
      PROVE  \E o \in {x \in Q : ~ NeedsReview(x, Q)} :
               <<d.key.kind, d.key.title, Sole(d.percents), Sole(d.caps), d.checked>>
                 = <<o.key.kind, o.key.title, Sole(o.percents), Sole(o.caps), o.checked>>
  BY <1>1 DEF Matches, AskedAs, Siblings, SameFigures
<1>2. ASSUME NEW d \in R, NeedsReview(d, R)
      PROVE  \E o \in {x \in Q : NeedsReview(x, Q)} :
               <<d.key.kind, d.key.title>> = <<o.key.kind, o.key.title>>
  BY <1>2 DEF Matches, AskedAs, Siblings
<1> QED BY <1>1, <1>2 DEF TakenOf, AskedOf

LEMMA ScreensTell ==
  ASSUME NEW I, NEW J, SameScreens(I, J)
  PROVE  /\ ResolveSlots(I) \subseteq ResolveSlots(J) /\ Guesses(I) \subseteq Guesses(J)
         /\ MenusOf(I) \subseteq MenusOf(J)
<1>1. ASSUME NEW n \in Counted(I) PROVE SlotsOf(n, I) \in ResolveSlots(J)
  <2>1. PICK k \in DOMAIN J : J[k].screen = I[n].screen
    BY DEF SameScreens, Counted
  <2>2. k \in Counted(J) /\ SlotsOf(k, J) = SlotsOf(n, I)
    BY <2>1 DEF Counted, SlotsOf
  <2> QED BY <2>2 DEF ResolveSlots
<1>2. ResolveSlots(I) \subseteq ResolveSlots(J)
  BY <1>1 DEF ResolveSlots
<1>3. Guesses(I) \subseteq Guesses(J)
  BY DEF Guesses, SameScreens
<1>4. MenusOf(I) \subseteq MenusOf(J)
  BY DEF MenusOf, SameScreens
<1> QED BY <1>2, <1>3, <1>4

LEMMA SettledSame ==
  ASSUME NEW I, NEW J, SameScreens(I, J), SameScreens(J, I),
         Matches(Merged(I), Merged(J)), Matches(Merged(J), Merged(I))
  PROVE  Settled(BuildDraft(J)) = Settled(BuildDraft(I))
<1>1. TakenOf(Merged(I)) = TakenOf(Merged(J)) /\ AskedOf(Merged(I)) = AskedOf(Merged(J))
  <2>1. /\ TakenOf(Merged(I)) \subseteq TakenOf(Merged(J))
        /\ AskedOf(Merged(I)) \subseteq AskedOf(Merged(J))
    BY MatchesTell
  <2>2. /\ TakenOf(Merged(J)) \subseteq TakenOf(Merged(I))
        /\ AskedOf(Merged(J)) \subseteq AskedOf(Merged(I))
    BY MatchesTell
  <2> QED BY <2>1, <2>2
<1>2. /\ ResolveSlots(I) = ResolveSlots(J) /\ Guesses(I) = Guesses(J)
      /\ MenusOf(I) = MenusOf(J)
  <2>1. /\ ResolveSlots(I) \subseteq ResolveSlots(J) /\ Guesses(I) \subseteq Guesses(J)
        /\ MenusOf(I) \subseteq MenusOf(J)
    BY ScreensTell
  <2>2. /\ ResolveSlots(J) \subseteq ResolveSlots(I) /\ Guesses(J) \subseteq Guesses(I)
        /\ MenusOf(J) \subseteq MenusOf(I)
    BY ScreensTell
  <2> QED BY <2>1, <2>2
<1> QED BY <1>1, <1>2, SettledIs, Zenon

LEMMA MenuTwice ==
  ASSUME NEW s, NEW i, NEW k, NEW e \in Taken(MenuReadings(i, s))
  PROVE  \E g \in Taken(MenuReadings(k, s)) : Double(e, g) /\ e.image = i /\ g.image = k
<1> DEFINE A == MenuReadings(i, s)
           B == MenuReadings(k, s)
<1>1. PICK x \in DOMAIN A : e = A[x] /\ e.row.category
  BY DEF Taken, Range
<1>2. Prefills(s)
  BY <1>1 DEF MenuReadings
<1> DEFINE r == s.rows[x]
           kind == IF r.granted THEN "special" ELSE "regular"
<1>3. x \in DOMAIN B /\ A[x] = Reading(i, r, kind, r.granted) /\ B[x] = Reading(k, r, kind, r.granted)
  BY <1>1, <1>2 DEF MenuReadings
<1> HIDE DEF A, B, r, kind
<1>4. Double(A[x], B[x]) /\ A[x].image = i /\ B[x].image = k
  BY <1>3, ReadTwice
<1>5. B[x].row.category
  BY <1>1, <1>4 DEF Double
<1>6. B[x] \in Taken(B)
  BY <1>3, <1>5 DEF Taken, Range
<1> QED BY <1>1, <1>4, <1>6 DEF B

LEMMA WheelTwice ==
  ASSUME NEW s, NEW i, NEW k, NEW e \in Taken(WheelReadings(i, s))
  PROVE  \E g \in Taken(WheelReadings(k, s)) : Double(e, g) /\ e.image = i /\ g.image = k
<1> DEFINE A == WheelReadings(i, s)
           B == WheelReadings(k, s)
           tick == TRUE
<1>1. PICK x \in DOMAIN A : e = A[x] /\ e.row.category
  BY DEF Taken, Range
<1> DEFINE r == s.rows[x]
<1>3. x \in DOMAIN B /\ A[x] = Reading(i, r, "super", tick) /\ B[x] = Reading(k, r, "super", tick)
  BY <1>1 DEF WheelReadings
<1> HIDE DEF A, B, r, tick
<1>4. Double(A[x], B[x]) /\ A[x].image = i /\ B[x].image = k
  BY <1>3, ReadTwice
<1>5. B[x].row.category
  BY <1>1, <1>4 DEF Double
<1>6. B[x] \in Taken(B)
  BY <1>3, <1>5 DEF Taken, Range
<1> QED BY <1>1, <1>4, <1>6 DEF B

(****************************** another order ******************************)

\* where image i is when n and n + 1 change places
PlaceOf(n, i) == IF i = n THEN n + 1 ELSE IF i = n + 1 THEN n ELSE i

Turned(n, I, J) ==
  \A i \in DOMAIN J : PlaceOf(n, i) \in DOMAIN I /\ J[i].screen = I[PlaceOf(n, i)].screen

OneWheel(imgs) == \A i, k \in Wheels(imgs) : i = k

LEMMA TurnedSeen ==
  ASSUME NEW n \in Nat, NEW I, NEW J, Gallery(I), Gallery(J), Turned(n, I, J),
         OneWheel(I), NEW e \in Seen(J)
  PROVE  \E g \in Seen(I) : Double(e, g) /\ g.image = PlaceOf(n, e.image)
<1>1. CASE e \in MenuSeen(J)
  <2>1. PICK i \in DOMAIN J : e \in Taken(MenuReadings(i, J[i].screen))
    BY <1>1 DEF MenuSeen
  <2> DEFINE k == PlaceOf(n, i)
  <2>2. k \in DOMAIN I /\ I[k].screen = J[i].screen
    BY DEF Turned
  <2> HIDE DEF k
  <2>3. PICK g \in Taken(MenuReadings(k, J[i].screen)) :
          Double(e, g) /\ e.image = i /\ g.image = k
    BY <2>1, MenuTwice
  <2>4. g \in Seen(I)
    BY <2>2, <2>3 DEF Seen, MenuSeen
  <2> QED BY <2>3, <2>4 DEF k
<1>2. CASE e \in SpinSeen(J)
  <2>1. PICK i \in LastWheel(J) : e \in Taken(WheelReadings(i, J[i].screen))
    BY <1>2 DEF SpinSeen
  <2>2. i \in DOMAIN J /\ J[i].screen \in Screens /\ J[i].screen.type = "wheel"
    BY LastIsWheel
  <2> DEFINE k == PlaceOf(n, i)
  <2>3. k \in DOMAIN I /\ I[k].screen = J[i].screen
    BY <2>2 DEF Turned
  <2> HIDE DEF k
  <2>4. k \in Wheels(I)
    BY <2>2, <2>3, ScreensAssumption DEF Wheels
  <2>5. k \in LastWheel(I)
    BY <2>4, LastIsWheel DEF OneWheel
  <2>6. PICK g \in Taken(WheelReadings(k, J[i].screen)) :
          Double(e, g) /\ e.image = i /\ g.image = k
    BY <2>1, WheelTwice
  <2>7. g \in Seen(I)
    BY <2>3, <2>5, <2>6 DEF Seen, SpinSeen
  <2> QED BY <2>6, <2>7 DEF k
<1> QED BY <1>1, <1>2 DEF Seen

LEMMA TurnedSettles ==
  ASSUME NEW n \in Nat, NEW I, NEW J, Gallery(I), Gallery(J), Turned(n, I, J), Turned(n, J, I),
         OneWheel(I), ~ Half(Seen(I))
  PROVE  Settled(BuildDraft(J)) = Settled(BuildDraft(I))
<1>1. OneWheel(J)
  <2> SUFFICES ASSUME NEW i \in Wheels(J), NEW k \in Wheels(J) PROVE i = k
    BY DEF OneWheel
  <2>1. PlaceOf(n, i) \in Wheels(I) /\ PlaceOf(n, k) \in Wheels(I)
    BY DEF Turned, Wheels
  <2>2. PlaceOf(n, i) = PlaceOf(n, k)
    BY <2>1 DEF OneWheel
  <2>3. i \in Nat /\ k \in Nat
    BY DEF Wheels, Gallery
  <2> QED BY <2>2, <2>3 DEF PlaceOf
<1>2. Echo(Seen(I), Seen(J)) /\ Echo(Seen(J), Seen(I))
  <2>1. Echo(Seen(I), Seen(J))
    BY <1>1, TurnedSeen DEF Echo
  <2>2. Echo(Seen(J), Seen(I))
    BY TurnedSeen DEF Echo
  <2> QED BY <2>1, <2>2
<1>3. ~ Half(Seen(J))
  <2> SUFFICES ASSUME Half(Seen(J)) PROVE FALSE
    OBVIOUS
  <2>1. PICK e, g \in Seen(J) :
          /\ e.image = g.image /\ e.kind = g.kind /\ e.row.title = g.row.title
          /\ Legible(e.row.percent) /\ ~ Legible(g.row.percent)
    BY DEF Half
  <2>2. PICK x \in Seen(I) : Double(e, x) /\ x.image = PlaceOf(n, e.image)
    BY TurnedSeen
  <2>3. PICK y \in Seen(I) : Double(g, y) /\ y.image = PlaceOf(n, g.image)
    BY TurnedSeen
  <2>4. x.image = y.image
    BY <2>1, <2>2, <2>3
  <2>5. x.kind = e.kind /\ x.row = e.row /\ y.kind = g.kind /\ y.row = g.row
    BY <2>2, <2>3 DEF Double
  <2>6. /\ x.image = y.image /\ x.kind = y.kind /\ x.row.title = y.row.title
        /\ Legible(x.row.percent) /\ ~ Legible(y.row.percent)
    BY <2>1, <2>4, <2>5
  <2>7. Half(Seen(I))
    BY <2>6 DEF Half
  <2> QED BY <2>7
<1>4. Matches(Merged(I), Merged(J)) /\ Matches(Merged(J), Merged(I))
  <2>1. Holds(Merged(I), Seen(I)) /\ Holds(Merged(J), Seen(J))
    BY MergedHolds
  <2>2. Matches(Merged(I), Merged(J))
    BY <1>2, <1>3, <2>1, OrderMatches
  <2>3. Matches(Merged(J), Merged(I))
    BY <1>2, <1>3, <2>1, OrderMatches
  <2> QED BY <2>2, <2>3
<1>5. SameScreens(I, J) /\ SameScreens(J, I)
  BY DEF SameScreens, Turned
<1> QED BY <1>4, <1>5, SettledSame

\* The gallery in another order: at most one spin, and no image half read.
LEMMA OrderSettles ==
  ASSUME DraftInv, Built
  PROVE  OrderDecidesNothing
<1> SUFFICES ASSUME Cardinality(Wheels(images)) <= 1,
                    ~ (\E n \in DOMAIN images : InForce(n) /\ HalfRead(n)),
                    NEW n \in DOMAIN images, n + 1 \in DOMAIN images
             PROVE  Settled(BuildDraft(Swapped(n))) = Settled(draft)
  BY DEF OrderDecidesNothing
<1> DEFINE J == Swapped(n)
<1>0. Gallery(images) /\ draft = BuildDraft(images)
  BY IsGallery DEF DraftInv, Built
<1>1. n \in Nat /\ n \in 1..Len(images) /\ n + 1 \in 1..Len(images) /\ images \in Seq(Image)
  BY <1>0 DEF Gallery, DraftInv
<1>2. images[n] \in Image /\ images[n + 1] \in Image
  BY ImageTyped
<1>3. /\ J \in Seq(Image) /\ Len(J) = Len(images) /\ DOMAIN J = 1..Len(images)
      /\ \A i \in DOMAIN J : J[i] = images[PlaceOf(n, i)]
  <2> DEFINE K == [images EXCEPT ![n] = images[n + 1]]
  <2>1. /\ K \in Seq(Image) /\ Len(K) = Len(images)
        /\ \A i \in 1..Len(images) : K[i] = IF i = n THEN images[n + 1] ELSE images[i]
    BY <1>1, <1>2, ExceptSeq
  <2>2. J = [K EXCEPT ![n + 1] = images[n]]
    BY DEF Swapped
  <2> HIDE DEF K, J
  <2>3. /\ J \in Seq(Image) /\ Len(J) = Len(images)
        /\ \A i \in 1..Len(images) : J[i] = IF i = n + 1 THEN images[n] ELSE K[i]
    BY <1>1, <1>2, <2>1, <2>2, ExceptSeq
  <2>4. \A i \in 1..Len(images) : J[i] = images[PlaceOf(n, i)]
    BY <1>1, <2>1, <2>3 DEF PlaceOf
  <2> QED BY <2>3, <2>4
<1> HIDE DEF J
<1>4. \A i \in DOMAIN J : PlaceOf(n, i) \in DOMAIN images /\ i = PlaceOf(n, PlaceOf(n, i))
  BY <1>0, <1>1, <1>3 DEF PlaceOf, Gallery
<1>5. Turned(n, images, J) /\ Turned(n, J, images)
  <2>1. Turned(n, images, J)
    BY <1>3, <1>4 DEF Turned
  <2>2. DOMAIN J = DOMAIN images
    BY <1>0, <1>3 DEF Gallery
  <2>3. \A i \in DOMAIN images : PlaceOf(n, i) \in DOMAIN J /\ J[PlaceOf(n, i)] = images[i]
    BY <1>3, <1>4, <2>2
  <2>4. Turned(n, J, images)
    BY <2>3 DEF Turned
  <2> QED BY <2>1, <2>4
<1>6. Gallery(J)
  <2>1. \A i \in DOMAIN J : J[i].screen \in Screens \cup {Absent}
    BY <1>0, <1>5 DEF Turned, Gallery
  <2> QED BY <1>1, <1>3, <2>1 DEF Gallery
<1>7. OneWheel(images)
  <2>1. IsFiniteSet(Wheels(images))
    <3>1. Wheels(images) \subseteq 1..Len(images) /\ IsFiniteSet(1..Len(images))
      BY <1>0, FS_Interval DEF Wheels, Gallery
    <3> QED BY <3>1, FS_Subset
  <2>2. Cardinality(Wheels(images)) \in Nat
    BY <2>1, FS_CardinalityType
  <2>3. CASE Cardinality(Wheels(images)) = 0
    BY <2>1, <2>3, FS_EmptySet DEF OneWheel
  <2>4. CASE Cardinality(Wheels(images)) = 1
    BY <2>1, <2>4, FS_Singleton DEF OneWheel
  <2> QED BY <2>2, <2>3, <2>4
<1>8. ~ Half(Seen(images))
  <2> SUFFICES ASSUME Half(Seen(images)) PROVE FALSE
    OBVIOUS
  <2>1. PICK e, g \in Seen(images) :
          /\ e.image = g.image /\ e.kind = g.kind /\ e.row.title = g.row.title
          /\ Legible(e.row.percent) /\ ~ Legible(g.row.percent)
    BY DEF Half
  <2>2. /\ e.image \in DOMAIN images /\ InForce(e.image) /\ e.row.category
        /\ e.row \in Range(images[e.image].screen.rows) /\ e.kind = KindRead(e.image, e.row)
    BY <1>0, SeenInForce
  <2>3. /\ g.row.category
        /\ g.row \in Range(images[g.image].screen.rows) /\ g.kind = KindRead(g.image, g.row)
    BY <1>0, SeenInForce
  <2>4. HalfRead(e.image)
    BY <2>1, <2>2, <2>3 DEF HalfRead
  <2> QED BY <2>2, <2>4
<1> QED BY <1>0, <1>1, <1>5, <1>6, <1>7, <1>8, TurnedSettles DEF J

(********************************** a twin *********************************)

LEMMA KindsApart ==
  ASSUME NEW imgs, Gallery(imgs)
  PROVE  \A a \in Menus(imgs), b \in Spin(imgs) : a.key.kind # b.key.kind
<1>1. \A a \in Menus(imgs) : \E e \in MenuSeen(imgs) : a.key.kind = e.kind
  BY MenusHold DEF Holds, Drawn, Of
<1>2. \A b \in Spin(imgs) : \E e \in SpinSeen(imgs) : b.key.kind = e.kind
  BY SpinHolds DEF Holds, Drawn, Of
<1> QED BY <1>1, <1>2, KindsDiffer

\* J is I and one image more
Longer(I, J) ==
  /\ Gallery(I) /\ Gallery(J) /\ Len(J) = Len(I) + 1
  /\ \A i \in 1..Len(I) : J[i] = I[i]

LEMMA MenusLonger ==
  ASSUME NEW I, NEW J, Longer(I, J)
  PROVE  Menus(J) = AddAll(Menus(I), MenuReadings(Len(J), J[Len(J)].screen))
<1> DEFINE n == Len(I)
           A == [i \in DOMAIN I |-> [number |-> i, screen |-> I[i].screen]]
           B == [i \in DOMAIN J |-> [number |-> i, screen |-> J[i].screen]]
<1>1. n \in Nat /\ DOMAIN I = 1..n /\ DOMAIN J = 1..(n + 1) /\ Len(J) = n + 1
  BY DEF Longer, Gallery
<1>2. PICK h : InSteps(FALSE, h, {}, A, n) /\ h[n] = Menus(I)
  BY <1>1, ImageByImage DEF Reached
<1>3. PICK j : InSteps(FALSE, j, {}, B, n + 1) /\ j[n + 1] = Menus(J)
  <2> DEFINE k == n + 1
  <2>1. k \in Nat /\ DOMAIN J = 1..k
    BY <1>1
  <2> HIDE DEF k, n
  <2>2. Reached(FALSE, Menus(J), {}, B, k)
    BY <2>1, ImageByImage
  <2> QED BY <2>2 DEF Reached, k
<1>4. \A i \in 1..n : A[i] = B[i]
  BY <1>1 DEF Longer
<1>5. B[n + 1].number = n + 1 /\ B[n + 1].screen = J[n + 1].screen
  BY <1>1
<1> HIDE DEF A, B, n
<1> DEFINE N == {k \in Nat : k <= n => h[k] = j[k]}
<1>6. 0 \in N
  BY <1>2, <1>3 DEF InSteps
<1>7. ASSUME NEW k \in N PROVE k + 1 \in N
  <2> SUFFICES ASSUME k + 1 <= n PROVE h[k + 1] = j[k + 1]
    OBVIOUS
  <2>1. k \in Nat /\ k + 1 \in 1..n /\ k + 1 \in 1..(n + 1) /\ (k + 1) - 1 = k /\ k <= n
    BY <1>1
  <2>2. h[k] = j[k]
    BY <2>1
  <2>3. h[k + 1] = Step(FALSE, h[k], A[k + 1])
    BY <1>2, <2>1 DEF InSteps
  <2>4. j[k + 1] = Step(FALSE, j[k], B[k + 1])
    BY <1>3, <2>1 DEF InSteps
  <2> QED BY <1>4, <2>1, <2>2, <2>3, <2>4
<1>8. N \in SUBSET Nat
  OBVIOUS
<1>9. n \in N /\ n <= n
  <2> HIDE DEF N
  <2> QED BY <1>1, <1>6, <1>7, <1>8, Steps
<1>10. h[n] = j[n]
  BY <1>9
<1>11. j[n + 1] = AddImage(j[n], B[n + 1])
  <2>1. n + 1 \in 1..(n + 1) /\ (n + 1) - 1 = n
    BY <1>1
  <2> QED BY <1>3, <2>1 DEF InSteps, Step
<1> HIDE DEF N
<1> QED BY <1>1, <1>2, <1>3, <1>5, <1>10, <1>11 DEF AddImage

LEMMA NothingAdded ==
  ASSUME NEW R, NEW screen, NEW n, ~ Prefills(screen)
  PROVE  AddAll(R, MenuReadings(n, screen)) = R
<1> DEFINE L == MenuReadings(n, screen)
<1>1. DOMAIN L = 1..0
  BY DEF MenuReadings
<1> HIDE DEF L
<1>2. PICK h : InSteps(TRUE, h, R, L, 0) /\ h[0] = AddAll(R, L)
  BY <1>1, RowByRow DEF Reached
<1>3. AddAll(R, L) = R
  BY <1>2 DEF InSteps
<1> QED BY <1>3 DEF L

\* The last image of J is a second reading of image n of I, which counts.
Twin(I, J, n) ==
  /\ Longer(I, J) /\ n \in DOMAIN I /\ J[Len(J)].screen = I[n].screen
  /\ \/ Prefills(I[n].screen)
     \/ I[n].screen # Absent /\ I[n].screen.type = "wheel" /\ n = Max(Wheels(I))

LEMMA TwinMenus ==
  ASSUME NEW I, NEW J, NEW n, Twin(I, J, n)
  PROVE  Matches(Menus(I), Menus(J)) /\ Matches(Menus(J), Menus(I))
<1> DEFINE s == I[n].screen
           k == Len(J)
           L == MenuReadings(k, s)
           R == Menus(I)
           S == MenuSeen(I)
           Q == AddAll(R, L)
<1>1. Gallery(I) /\ Gallery(J) /\ n \in DOMAIN I /\ Menus(J) = Q /\ s \in Screens \cup {Absent}
  BY MenusLonger DEF Twin, Longer, Gallery
<1>2. CASE ~ Prefills(s)
  <2>1. Menus(J) = R
    BY <1>1, <1>2, NothingAdded
  <2> QED BY <2>1, MatchesItself
<1>3. CASE Prefills(s)
  <2> HIDE DEF s, k
  <2>1. Holds(R, S)
    BY <1>1, MenusHold
  <2>2. \A e \in Taken(L) : \E g \in S : Double(e, g)
    <3> TAKE e \in Taken(L)
    <3>1. PICK g \in Taken(MenuReadings(n, s)) : Double(e, g)
      BY MenuTwice
    <3>2. g \in S
      BY <1>1, <3>1 DEF MenuSeen, s
    <3> QED BY <3>1, <3>2
  <2>3. Listed(L)
    BY <1>1, MenuIsListed
  <2> HIDE DEF L, R, S
  <2>4. PICK m \in Nat : DOMAIN L = 1..m /\ \A i \in 1..m : Typed(L[i])
    BY <2>3 DEF Listed
  <2>5. Holds(Q, S \cup Taken(L))
    BY <2>1, <2>4, AllHold
  <2>6. \A i \in DOMAIN L : L[i].row.category => \E g \in S : Double(L[i], g)
    BY <2>2 DEF Taken, Range
  <2>7. Absorbed(R, Q)
    BY <2>1, <2>4, <2>6, AllAbsorbed
  <2>8. Echo(S \cup Taken(L), S)
    BY <2>2 DEF Echo, Double
  <2> HIDE DEF Q
  <2>9. Matches(R, Q) /\ Matches(Q, R)
    BY <2>1, <2>5, <2>7, <2>8, TwinMatches
  <2> QED BY <1>1, <2>9 DEF R
<1> QED BY <1>2, <1>3

LEMMA TwinSpins ==
  ASSUME NEW I, NEW J, NEW n, Twin(I, J, n)
  PROVE  Matches(Spin(I), Spin(J)) /\ Matches(Spin(J), Spin(I))
<1> DEFINE s == I[n].screen
           k == Len(J)
<1>1. /\ Gallery(I) /\ Gallery(J) /\ n \in DOMAIN I /\ J[k].screen = s
      /\ Len(I) \in Nat /\ k = Len(I) + 1 /\ DOMAIN I = 1..Len(I) /\ DOMAIN J = 1..k
      /\ \A i \in 1..Len(I) : J[i] = I[i]
  BY DEF Twin, Longer, Gallery
<1>2. CASE Prefills(s)
  <2>1. Wheels(J) = Wheels(I)
    BY <1>1, <1>2 DEF Wheels, Prefills
  <2>2. LastWheel(J) = LastWheel(I)
    BY <2>1 DEF LastWheel
  <2>3. \A i \in LastWheel(I) : J[i].screen = I[i].screen
    BY <1>1, LastIsWheel
  <2>4. Spin(J) = Spin(I)
    BY <2>2, <2>3 DEF Spin
  <2> QED BY <2>4, MatchesItself
<1>3. CASE ~ Prefills(s)
  <2>1. s # Absent /\ s.type = "wheel" /\ n = Max(Wheels(I)) /\ s \in Screens
    BY <1>1, <1>3 DEF Twin, Gallery
  <2>2. LastWheel(I) = {n}
    BY <1>1, <2>1, LastIsWheel DEF Wheels
  <2>3. LastWheel(J) = {k}
    <3>1. k \in Wheels(J) /\ Wheels(J) \in SUBSET Nat /\ \A i \in Wheels(J) : i <= k
      BY <1>1, <2>1 DEF Wheels
    <3>2. Max(Wheels(J)) = k
      BY <3>1, Highest
    <3> QED BY <1>1, <3>1, <3>2, LastIsWheel
  <2>4. Spin(I) = AddAll({}, WheelReadings(n, s)) /\ Spin(J) = AddAll({}, WheelReadings(k, s))
    BY <1>1, <2>2, <2>3 DEF Spin
  <2>5. Mirrors(n, k, Spin(I), Spin(J))
    BY <2>1, <2>4, SpinMirrors
  <2> QED BY <1>1, <2>5, SpinHolds, MirrorMatches
<1> QED BY <1>2, <1>3

LEMMA TwinSettles ==
  ASSUME NEW I, NEW J, NEW n, Twin(I, J, n)
  PROVE  Settled(BuildDraft(J)) = Settled(BuildDraft(I))
<1>1. Gallery(I) /\ Gallery(J)
  BY DEF Twin, Longer
<1>2. Matches(Merged(I), Merged(J)) /\ Matches(Merged(J), Merged(I))
  <2>1. Matches(Menus(I), Menus(J)) /\ Matches(Menus(J), Menus(I))
    BY TwinMenus
  <2>2. Matches(Spin(I), Spin(J)) /\ Matches(Spin(J), Spin(I))
    BY TwinSpins
  <2>3. /\ \A a \in Menus(I), b \in Spin(I) : a.key.kind # b.key.kind
        /\ \A a \in Menus(J), b \in Spin(J) : a.key.kind # b.key.kind
    BY <1>1, KindsApart
  <2>4. Matches(Merged(I), Merged(J))
    BY <2>1, <2>2, <2>3, MatchesApart DEF Merged
  <2>5. Matches(Merged(J), Merged(I))
    BY <2>1, <2>2, <2>3, MatchesApart DEF Merged
  <2> QED BY <2>4, <2>5
<1>3. SameScreens(I, J)
  BY DEF SameScreens, Twin, Longer, Gallery
<1>4. SameScreens(J, I)
  <2> SUFFICES ASSUME NEW i \in DOMAIN J
               PROVE  \E m \in DOMAIN I : I[m].screen = J[i].screen
    BY DEF SameScreens
  <2>1. i \in 1..Len(I) \/ i = Len(J)
    BY DEF Twin, Longer, Gallery
  <2>2. CASE i \in 1..Len(I)
    BY <2>2 DEF Twin, Longer, Gallery
  <2>3. CASE i = Len(J)
    BY <2>3 DEF Twin
  <2> QED BY <2>1, <2>2, <2>3
<1> QED BY <1>2, <1>3, <1>4, SettledSame

LEMMA TwinsSettle ==
  ASSUME DraftInv, Built
  PROVE  TwinsCollapse
<1> SUFFICES ASSUME NEW n \in DOMAIN images, InForce(n)
             PROVE  Settled(BuildDraft(Append(images, images[n]))) = Settled(draft)
  BY DEF TwinsCollapse
<1> DEFINE J == Append(images, images[n])
<1>1. Gallery(images) /\ draft = BuildDraft(images) /\ images \in Seq(Image)
  BY IsGallery DEF DraftInv, Built
<1>2. images[n] \in Image /\ n \in 1..Len(images)
  BY <1>1, ImageTyped DEF Gallery
<1>3. /\ J \in Seq(Image) /\ Len(J) = Len(images) + 1 /\ DOMAIN J = 1..Len(J)
      /\ J[Len(J)] = images[n] /\ \A i \in 1..Len(images) : J[i] = images[i]
  BY <1>1, <1>2
<1> HIDE DEF J
<1>4. Gallery(J)
  <2>1. \A i \in DOMAIN J : J[i] \in Image
    BY <1>3
  <2> QED BY <1>3, <2>1 DEF Gallery, Image
<1>5. Twin(images, J, n)
  BY <1>1, <1>3, <1>4 DEF Twin, Longer, InForce
<1> QED BY <1>1, <1>5, TwinSettles DEF J

\* Neither the order in which screens were picked nor a copy of one decides
\* anything but what the form asks about, for any number of images and screens.
THEOREM PickingNeverDecides == DraftSpec => []PickingDecidesNothing
<1>1. DraftInv => PickingDecidesNothing
  BY OrderSettles, TwinsSettle DEF PickingDecidesNothing, OrderDecidesNothing, TwinsCollapse
<1> QED BY <1>1, DraftInductive, PTL DEF DraftSpec
=============================================================================
