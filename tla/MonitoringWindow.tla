--------------------------- MODULE MonitoringWindow ---------------------------
(***************************************************************************)
(* MonitoringWindowService.get_segments: which parts of a window a device   *)
(* was observed in, by the gaps between its heartbeats.                     *)
(***************************************************************************)
EXTENDS Spans

CONSTANT Threshold      \* DEFAULT_GAP_THRESHOLD_SECONDS, in ticks

ASSUME ThresholdAssumption == Threshold \in Nat

\* A stretch without a heartbeat inside is a gap if it exceeds the threshold.
Observed(from, to) == IF to - from <= Threshold THEN "monitored" ELSE "gap"

\* A window without a heartbeat is monitored, unless a gap runs from before it
\* to its end.
Unobserved(beats, from, to) ==
  LET earlier == {b \in beats : b < from}
  IN IF earlier = {} THEN "monitored" ELSE Observed(Max(earlier), to)

\* The window, cut at its heartbeats.
Segments(beats, from, to) ==
  LET inside == {b \in beats : from <= b /\ b <= to}
      pieces == Pieces(inside \union {from, to})
  IN IF to <= from THEN {}
     ELSE IF inside = {} THEN {Span(from, to, Unobserved(beats, from, to))}
     ELSE Coalesce({Span(p.start, p.end, Observed(p.start, p.end)) : p \in pieces})

=============================================================================
