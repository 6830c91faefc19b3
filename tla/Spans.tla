-------------------------------- MODULE Spans --------------------------------
(***************************************************************************)
(* Stretches of time [start, end), each of some kind: what the services     *)
(* that build a timeline hand to one another.  Their lists are in the order *)
(* of time and do not overlap, and so are sets here.                        *)
(***************************************************************************)
EXTENDS Integers, FiniteSets, FiniteSetsExt

Span(start, end, kind) == [start |-> start, end |-> end, kind |-> kind]

Length(span) == span.end - span.start

Within(t, span) == span.start <= t /\ t < span.end

\* The stretches between neighbours of a set of instants.
Pieces(cuts) ==
  {p \in [start : cuts, end : cuts] :
     p.start < p.end /\ \A c \in cuts : c <= p.start \/ p.end <= c}

Continues(next, span) == next.start = span.end /\ next.kind = span.kind

\* Neighbours of one kind become one span, from the first, which continues none,
\* to the nearest that none continues.
Coalesce(spans) ==
  LET firsts == {f \in spans : \A s \in spans : ~Continues(f, s)}
      lasts == {l \in spans : \A s \in spans : ~Continues(s, l)}
  IN {Span(f.start, Min({l.end : l \in {k \in lasts : f.end <= k.end}}), f.kind) : f \in firsts}

\* Faulty: only drops what lies outside.
FaultyClip(spans, from, to) == {s \in spans : s.start < to /\ from < s.end}

\* _clip_segments: the part of each span inside a window.
Clip(spans, from, to) ==
  {c \in {[s EXCEPT !.start = Max({@, from}), !.end = Min({@, to})] : s \in spans} :
     c.start < c.end}

\* The kinds of the spans that hold an instant.
KindsAt(spans, t) == {s.kind : s \in {r \in spans : Within(t, r)}}

\* The spans hold every instant of a stretch once, and no other.
Partition(spans, from, to) ==
  /\ \A s \in spans : from <= s.start /\ s.start < s.end /\ s.end <= to
  /\ \A t \in from..(to - 1) : \E s \in spans : Within(t, s)
  /\ \A r, s \in spans : r # s => r.end <= s.start \/ s.end <= r.start

=============================================================================
