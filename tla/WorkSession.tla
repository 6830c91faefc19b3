----------------------------- MODULE WorkSession -----------------------------
(***************************************************************************)
(* WorkSessionClassifier.classify: which monitored runs are long enough to  *)
(* be trusted, and what a gap between them is called.  No evidence of sleep *)
(* exists (has_confirmed_sleep_evidence is always false), so no gap is      *)
(* SLEEP_CONFIRMED.                                                         *)
(***************************************************************************)
EXTENDS Spans

CONSTANTS
  Sustained,        \* SUSTAINED_RUN_SECONDS, in ticks
  Ceiling           \* OFF_SESSION_CEILING_SECONDS, in ticks

ASSUME ClassifierAssumption == Sustained \in Nat /\ Ceiling \in Nat

\* Faulty: a run has to exceed the minimum.
FaultyConfirmed(span) == span.kind = "monitored" /\ Length(span) > Sustained

\* Pass 1: is this a monitored run that counts?
Confirmed(span) == span.kind = "monitored" /\ Length(span) >= Sustained

\* A confirmed run ends where the span starts, or starts where it ends.
Anchored(span, runs) ==
  \E run \in runs : run.kind = "monitored" /\ (run.end = span.start \/ run.start = span.end)

\* Faulty: a gap that has ended is no boundary of the session.
FaultyGapKind(span, runs) ==
  IF (\A run \in runs : run.end <= span.end) /\ Anchored(span, runs) /\ Length(span) > Ceiling
  THEN "OFF_SESSION" ELSE "MONITORING_GAP"

\* Pass 3: what a quiet span is.
GapKind(span, runs) ==
  IF Anchored(span, runs) /\ Length(span) > Ceiling THEN "OFF_SESSION" ELSE "MONITORING_GAP"

\* Pass 2 folds unconfirmed runs and gaps that touch into one quiet span.
Classify(spans) ==
  LET marked == {[s EXCEPT !.kind = IF Confirmed(s) THEN "monitored" ELSE "quiet"] : s \in spans}
      runs == Coalesce(marked)
  IN {[r EXCEPT !.kind = IF @ = "monitored" THEN @ ELSE GapKind(r, runs)] : r \in runs}

=============================================================================
