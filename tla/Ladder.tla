------------------------------- MODULE Ladder -------------------------------
(***************************************************************************)
(* Reading one screenshot (internal/vision/recognizer.go): two passes over *)
(* the image, each a ladder of LadderRungs requests that escalate while    *)
(* the model fails to answer in JSON, with one retry of the whole ladder   *)
(* at a reduced resolution shared by both passes.  What the model answers  *)
(* is chosen freely.                                                       *)
(***************************************************************************)
EXTENDS Integers

CONSTANT LadderRungs    \* requests in one ladder

ASSUME RungsAssumption == LadderRungs \in Nat \ {0}

MaxCallsPerImage == 3 * LadderRungs

\* What one call comes back with: an answer that parses, one that does not,
\* the out-of-memory signature (whose retry the image may turn out unable to
\* give), an unreachable backend, its call's own deadline, any other error, or
\* the end of the job's context.
Answers  == {"json", "prose", "oom", "oomBad", "unavailable", "timeout", "error", "gone"}
Outcomes == {"reading", "read", "bad", "unavailable", "timeout", "failed", "gone"}

ReadState == [pass : {"rows", "slots"}, rung : 1 .. LadderRungs, shrunk : BOOLEAN,
              calls : Nat, out : Outcomes]

Fresh == [pass |-> "rows", rung |-> 1, shrunk |-> FALSE, calls |-> 0, out |-> "reading"]

(************************* one answer of the backend ***********************)

\* mutant: a failed slot pass fails the image
PassFailedHard(s, err) == [s EXCEPT !.out = err]

\* A pass that fails: the rows decide the image; the slot count is a soft
\* failure unless the job itself is over.
PassFailed(s, err) ==
  IF s.pass = "slots" /\ err # "gone" THEN [s EXCEPT !.out = "read"]
  ELSE [s EXCEPT !.out = err]

\* mutant: the shrink is not remembered
Shrinks(s) == [s EXCEPT !.rung = 1]

\* the image is prepared again at RetryLongEdge and the ladder restarts
Shrink(s) == [s EXCEPT !.shrunk = TRUE, !.rung = 1]

\* The states that askJSON and Read may continue with after answer a.  A wheel
\* screen has no slot pass, so rows that parse either end the read or go on.
After(s, a) ==
  LET c == [s EXCEPT !.calls = s.calls + 1] IN
  CASE a = "json" /\ s.pass = "rows" ->
         {[c EXCEPT !.out = "read"], [c EXCEPT !.pass = "slots", !.rung = 1]}
    [] a = "json" /\ s.pass = "slots" -> {[c EXCEPT !.out = "read"]}
    [] a = "prose" /\ s.rung < LadderRungs -> {[c EXCEPT !.rung = s.rung + 1]}
    [] a = "oom" /\ ~ s.shrunk -> {Shrink(c)}
    [] a = "oomBad" /\ ~ s.shrunk -> {PassFailed(c, "bad")}
    [] a \in {"unavailable", "timeout", "gone"} -> {PassFailed(c, a)}
    [] OTHER -> {PassFailed(c, "failed")}
=============================================================================
