--------------------------- MODULE TimelineProofs ---------------------------
(***************************************************************************)
(* Proofs about the timeline and what is summed up over it: for any         *)
(* heartbeats, sessions, idle events, uses of applications and constants,   *)
(* the views are partitions, say what the heartbeats say, and agree with    *)
(* each other, and so do the reports.                                       *)
(***************************************************************************)
EXTENDS Reports, FiniteSetTheorems, TLAPS

-----------------------------------------------------------------------------
(* The least and the greatest of bounded sets of integers.                   *)

\* A set of natural numbers has a least element.
LEMMA MinNat ==
  ASSUME NEW T, T \subseteq Nat, T # {}
  PROVE  \E x \in T : \A y \in T : x <= y
<1> DEFINE R == OpToRel(<, Nat)
<1>1. IsWellFoundedOn(R, Nat)
  BY NatLessThanWellFounded, Zenon
<1>2. \A x, y \in Nat : x < y => <<x, y>> \in R
  BY DEF OpToRel
<1> HIDE DEF R
<1>3. PICK x \in T : \A y \in T : ~ (<<y, x>> \in R)
  BY <1>1, WFMin
<1>4. \A y \in T : y \in Nat /\ x \in Nat /\ ~ (y < x)
  BY <1>2, <1>3
<1> QED
  BY <1>4

\* The least element of a set with a lower bound.
LEMMA MinFacts ==
  ASSUME NEW m \in Int, NEW T, T \subseteq Int, T # {}, \A x \in T : m <= x
  PROVE  Min(T) \in T /\ Min(T) \in Int /\ \A x \in T : Min(T) <= x
<1> DEFINE U == {x - m : x \in T}
<1>1. U \subseteq Nat /\ U # {}
  <2>1. \A x \in T : x - m \in Nat
    OBVIOUS
  <2> QED
    BY <2>1
<1>2. PICK u \in U : \A y \in U : u <= y
  BY <1>1, MinNat
<1>3. PICK x \in T : u = x - m
  BY <1>2
<1>4. \A y \in T : x <= y
  <2> TAKE y \in T
  <2>1. u <= y - m
    BY <1>2
  <2> QED
    BY <1>3, <2>1
<1>5. \A y \in T : x =< y
  BY <1>4
<1>6. Min(T) \in T /\ \A y \in T : Min(T) =< y
  BY <1>5 DEF Min
<1> QED
  BY <1>6

\* The greatest element of a set with an upper bound.
LEMMA MaxFacts ==
  ASSUME NEW m \in Int, NEW T, T \subseteq Int, T # {}, \A x \in T : x <= m
  PROVE  Max(T) \in T /\ Max(T) \in Int /\ \A x \in T : x <= Max(T)
<1> DEFINE U == {0 - x : x \in T}
<1>1. U \subseteq Int /\ U # {} /\ 0 - m \in Int /\ \A y \in U : 0 - m <= y
  <2>1. \A x \in T : 0 - x \in Int /\ 0 - m <= 0 - x
    OBVIOUS
  <2>2. \A y \in U : y \in Int /\ 0 - m <= y
    BY <2>1
  <2>3. PICK x \in T : TRUE
    OBVIOUS
  <2>4. 0 - x \in U
    BY <2>3
  <2>5. 0 - m \in Int
    OBVIOUS
  <2> HIDE DEF U
  <2> QED
    BY <2>2, <2>4, <2>5
<1> HIDE DEF U
<1>2. Min(U) \in U /\ \A y \in U : Min(U) <= y
  BY <1>1, MinFacts
<1>3. PICK x \in T : Min(U) = 0 - x
  BY <1>2 DEF U
<1>4. \A y \in T : x >= y
  <2> TAKE y \in T
  <2>1. 0 - y \in U
    BY DEF U
  <2>2. 0 - x <= 0 - y
    BY <1>2, <1>3, <2>1
  <2> QED
    BY <2>2
<1>5. Max(T) \in T /\ \A y \in T : Max(T) >= y
  BY <1>4 DEF Max
<1> QED
  BY <1>5

\* The lesser of two integers.
LEMMA MinOfTwo ==
  ASSUME NEW a \in Int, NEW b \in Int
  PROVE  Min({a, b}) = IF a <= b THEN a ELSE b
<1> DEFINE m == IF a <= b THEN a ELSE b
<1>1. m \in Int /\ {a, b} \subseteq Int /\ {a, b} # {} /\ \A x \in {a, b} : m <= x
  OBVIOUS
<1>2. Min({a, b}) \in {a, b} /\ \A x \in {a, b} : Min({a, b}) <= x
  BY <1>1, MinFacts
<1> QED
  BY <1>2

\* The greater of two integers.
LEMMA MaxOfTwo ==
  ASSUME NEW a \in Int, NEW b \in Int
  PROVE  Max({a, b}) = IF a >= b THEN a ELSE b
<1> DEFINE m == IF a >= b THEN a ELSE b
<1>1. m \in Int /\ {a, b} \subseteq Int /\ {a, b} # {} /\ \A x \in {a, b} : x <= m
  OBVIOUS
<1>2. Max({a, b}) \in {a, b} /\ \A x \in {a, b} : x <= Max({a, b})
  BY <1>1, MaxFacts
<1> QED
  BY <1>2

-----------------------------------------------------------------------------
(* Spans: pieces between cuts, and runs of one kind.                         *)

\* All kinds of spans, and all spans.
Kinds == {"monitored", "gap", "quiet", "ACTIVE", "IDLE", "MONITORING_GAP", "OFF_SESSION"}
SpanSet == [start : Int, end : Int, kind : Kinds]

\* What Span makes.
LEMMA SpanFacts ==
  ASSUME NEW a \in Int, NEW b \in Int, NEW kind \in Kinds
  PROVE  /\ Span(a, b, kind) \in SpanSet
         /\ Span(a, b, kind).start = a /\ Span(a, b, kind).end = b
         /\ Span(a, b, kind).kind = kind
BY DEF Span, SpanSet

\* The pieces between cuts are a partition, and no cut lies inside of one.
LEMMA PiecesFacts ==
  ASSUME NEW from \in Int, NEW to \in Int, NEW cuts, cuts \subseteq from..to,
         from \in cuts, to \in cuts
  PROVE  /\ \A p \in Pieces(cuts) : /\ p.start \in cuts /\ p.end \in cuts
                                    /\ p.start \in Int /\ p.end \in Int
                                    /\ \A c \in cuts : c <= p.start \/ p.end <= c
         /\ Partition(Pieces(cuts), from, to)
<1> DEFINE P == Pieces(cuts)
<1>1. \A p \in P : /\ p \in [start : cuts, end : cuts] /\ p.start < p.end
                   /\ p.start \in cuts /\ p.end \in cuts
                   /\ \A c \in cuts : c <= p.start \/ p.end <= c
  BY DEF Pieces
<1>2. cuts \subseteq Int /\ \A c \in cuts : from <= c /\ c <= to
  OBVIOUS
<1>3. ASSUME NEW t \in from..(to - 1) PROVE \E p \in P : Within(t, p)
  <2> DEFINE A == {c \in cuts : c <= t}
             B == {c \in cuts : t < c}
  <2>0. t \in Int /\ from <= t /\ t < to
    OBVIOUS
  <2>1. A \subseteq Int /\ A # {} /\ \A c \in A : c <= t
    <3>1. from \in A
      BY <2>0
    <3> QED
      BY <1>2, <3>1
  <2>2. B \subseteq Int /\ B # {} /\ \A c \in B : t <= c
    <3>1. to \in B
      BY <2>0
    <3>2. \A c \in B : c \in Int /\ t <= c
      BY <1>2, <2>0
    <3> HIDE DEF B
    <3> QED
      BY <3>1, <3>2
  <2> DEFINE p == [start |-> Max(A), end |-> Min(B)]
  <2>3. Max(A) \in A /\ \A c \in A : c <= Max(A)
    <3> HIDE DEF A
    <3> QED
      BY <2>0, <2>1, MaxFacts
  <2>4. Min(B) \in B /\ \A c \in B : Min(B) <= c
    <3> HIDE DEF B
    <3> QED
      BY <2>0, <2>2, MinFacts
  <2>5. \A c \in cuts : c <= Max(A) \/ Min(B) <= c
    BY <2>3, <2>4, <1>2
  <2>6. Max(A) \in cuts /\ Min(B) \in cuts /\ Max(A) <= t /\ t < Min(B)
    BY <2>3, <2>4
  <2> HIDE DEF A, B
  <2>7. p \in [start : cuts, end : cuts] /\ p.start < p.end
    <3>1. Max(A) \in Int /\ Min(B) \in Int
      BY <2>6, <1>2
    <3>2. Max(A) < Min(B)
      BY <2>0, <2>6, <3>1
    <3> QED
      BY <2>6, <3>2
  <2>8. p \in P
    BY <2>5, <2>7 DEF Pieces
  <2> QED
    BY <2>6, <2>8 DEF Within
<1>4. ASSUME NEW p \in P, NEW q \in P, p # q PROVE p.end <= q.start \/ q.end <= p.start
  <2>0. p \in [start : cuts, end : cuts] /\ q \in [start : cuts, end : cuts]
    BY <1>1
  <2>1. p.start # q.start \/ p.end # q.end
    BY <2>0, <1>4
  <2>2. /\ q.start <= p.start \/ p.end <= q.start
        /\ p.start <= q.start \/ q.end <= p.start
        /\ q.end <= p.start \/ p.end <= q.end
        /\ p.end <= q.start \/ q.end <= p.end
    BY <1>1
  <2>3. /\ p.start \in Int /\ p.end \in Int /\ q.start \in Int /\ q.end \in Int
        /\ p.start < p.end /\ q.start < q.end
    BY <1>1, <1>2
  <2> QED
    BY <2>1, <2>2, <2>3
<1>5. \A p \in P : from <= p.start /\ p.start < p.end /\ p.end <= to
  BY <1>1, <1>2
<1>6. Partition(P, from, to)
  <2> HIDE DEF P
  <2> QED
    BY <1>3, <1>4, <1>5 DEF Partition
<1> QED
  BY <1>1, <1>2, <1>6

\* What a partition says of its spans, and of their neighbours.
LEMMA PartitionFacts ==
  ASSUME NEW from \in Int, NEW to \in Int, NEW spans, Partition(spans, from, to),
         \A s \in spans : s.start \in Int /\ s.end \in Int
  PROVE  /\ \A s \in spans : from <= s.start /\ s.start < s.end /\ s.end <= to
         /\ \A t \in Int : from <= t /\ t < to => \E s \in spans : Within(t, s)
         /\ \A r, s \in spans : \A t \in Int : Within(t, r) /\ Within(t, s) => r = s
         /\ \A r, s \in spans : r = s \/ r.end <= s.start \/ s.end <= r.start
         /\ \A s \in spans : from < s.start => \E r \in spans : r.end = s.start
         /\ \A s \in spans : s.end < to => \E r \in spans : r.start = s.end
<1>1. \A s \in spans : from <= s.start /\ s.start < s.end /\ s.end <= to
  BY DEF Partition
<1>2. \A t \in Int : from <= t /\ t < to => \E s \in spans : Within(t, s)
  <2>1. \A t \in Int : from <= t /\ t < to => t \in from..(to - 1)
    OBVIOUS
  <2> QED
    BY <2>1 DEF Partition
<1>3. \A r, s \in spans : r = s \/ r.end <= s.start \/ s.end <= r.start
  BY DEF Partition
<1>4. \A r, s \in spans : \A t \in Int : Within(t, r) /\ Within(t, s) => r = s
  BY <1>3 DEF Within
<1>5. ASSUME NEW s \in spans, from < s.start PROVE \E r \in spans : r.end = s.start
  <2>1. PICK r \in spans : Within(s.start - 1, r)
    BY <1>1, <1>2, <1>5
  <2>2. r # s /\ ~ (s.end <= r.start) /\ s.start <= r.end
    BY <1>1, <2>1 DEF Within
  <2> QED
    BY <1>3, <2>2
<1>6. ASSUME NEW s \in spans, s.end < to PROVE \E r \in spans : r.start = s.end
  <2>1. PICK r \in spans : Within(s.end, r)
    BY <1>1, <1>2, <1>6
  <2>2. r # s /\ ~ (r.end <= s.start) /\ r.start <= s.end
    BY <1>1, <2>1 DEF Within
  <2> QED
    BY <1>3, <2>2
<1> QED
  BY <1>1, <1>2, <1>3, <1>4, <1>5, <1>6

\* Other spans over the same stretches are a partition too.
LEMMA SameStretches ==
  ASSUME NEW from \in Int, NEW to \in Int, NEW spans, Partition(spans, from, to),
         NEW others,
         \A r \in others : \E s \in spans : r.start = s.start /\ r.end = s.end,
         \A s \in spans : \E r \in others : r.start = s.start /\ r.end = s.end,
         \A q, r \in others : q.start = r.start /\ q.end = r.end => q = r
  PROVE  Partition(others, from, to)
<1>1. \A r \in others : from <= r.start /\ r.start < r.end /\ r.end <= to
  BY DEF Partition
<1>2. \A t \in from..(to - 1) : \E r \in others : Within(t, r)
  <2> TAKE t \in from..(to - 1)
  <2>1. PICK s \in spans : Within(t, s)
    BY DEF Partition
  <2> QED
    BY <2>1 DEF Within
<1>3. \A q, r \in others : q # r => q.end <= r.start \/ r.end <= q.start
  <2> TAKE q \in others, r \in others
  <2> HAVE q # r
  <2>1. PICK p \in spans : q.start = p.start /\ q.end = p.end
    OBVIOUS
  <2>2. PICK s \in spans : r.start = s.start /\ r.end = s.end
    OBVIOUS
  <2>3. p # s
    BY <2>1, <2>2
  <2> QED
    BY <2>1, <2>2, <2>3 DEF Partition
<1> QED
  BY <1>1, <1>2, <1>3 DEF Partition

\* The spans with which a run of one kind starts and ends, and where it ends.
Firsts(spans) == {f \in spans : \A s \in spans : ~ Continues(f, s)}
Lasts(spans) == {l \in spans : \A s \in spans : ~ Continues(s, l)}
Ends(spans, f) == {l.end : l \in {k \in Lasts(spans) : f.end <= k.end}}
Run(spans, f) == Span(f.start, Min(Ends(spans, f)), f.kind)

\* Coalesce joins what is between the first and the last span of a run.
LEMMA CoalesceIsRuns ==
  ASSUME NEW spans
  PROVE  Coalesce(spans) = {Run(spans, f) : f \in Firsts(spans)}
BY DEF Coalesce, Run, Ends, Firsts, Lasts

\* A run ends with the nearest last span.
LEMMA RunEnd ==
  ASSUME NEW from \in Int, NEW to \in Int, NEW spans \in SUBSET SpanSet,
         Partition(spans, from, to), NEW f \in spans
  PROVE  /\ Min(Ends(spans, f)) \in Int
         /\ f.end <= Min(Ends(spans, f)) /\ Min(Ends(spans, f)) <= to
         /\ \E l \in Lasts(spans) : l.end = Min(Ends(spans, f))
         /\ \A l \in Lasts(spans) : f.end <= l.end => Min(Ends(spans, f)) <= l.end
<1> DEFINE E == Ends(spans, f)
<1>0. \A s \in spans : s.start \in Int /\ s.end \in Int
  BY DEF SpanSet
<1>1. /\ \A s \in spans : from <= s.start /\ s.start < s.end /\ s.end <= to
      /\ \A t \in Int : from <= t /\ t < to => \E s \in spans : Within(t, s)
  BY <1>0, PartitionFacts
<1>2. PICK z \in spans : Within(to - 1, z)
  BY <1>0, <1>1
<1>3. z.end = to
  BY <1>0, <1>1, <1>2 DEF Within
<1>4. z \in Lasts(spans)
  BY <1>0, <1>1, <1>3 DEF Lasts, Continues
<1>5. \A e \in E : e \in Int /\ f.end <= e
  BY <1>0 DEF Ends, Lasts
<1>6. to \in E
  BY <1>0, <1>1, <1>3, <1>4 DEF Ends
<1>7. f.end \in Int
  BY <1>0
<1>8. Min(E) \in E /\ Min(E) \in Int /\ \A e \in E : Min(E) <= e
  <2> HIDE DEF E
  <2>1. E \subseteq Int /\ E # {} /\ \A e \in E : f.end <= e
    BY <1>5, <1>6
  <2> QED
    BY <1>7, <2>1, MinFacts
<1>9. \A l \in Lasts(spans) : f.end <= l.end => l.end \in E
  BY DEF Ends
<1>10. PICK l \in Lasts(spans) : l.end = Min(E)
  BY <1>8 DEF Ends
<1> HIDE DEF E
<1>11. f.end <= Min(E) /\ Min(E) <= to
  BY <1>5, <1>6, <1>8
<1>12. \A k \in Lasts(spans) : f.end <= k.end => Min(E) <= k.end
  BY <1>8, <1>9
<1> QED
  BY <1>8, <1>10, <1>11, <1>12 DEF E

\* The spans between the start and the end of a run are of its kind.
LEMMA RunIsUniform ==
  ASSUME NEW from \in Int, NEW to \in Int, NEW spans \in SUBSET SpanSet,
         Partition(spans, from, to), NEW f \in spans,
         NEW s \in spans, f.start <= s.start, s.start < Min(Ends(spans, f))
  PROVE  s.kind = f.kind /\ s.end <= Min(Ends(spans, f))
<1> DEFINE e == Min(Ends(spans, f))
<1>0. \A r \in spans : r.start \in Int /\ r.end \in Int
  BY DEF SpanSet
<1>1. /\ \A r \in spans : from <= r.start /\ r.start < r.end /\ r.end <= to
      /\ \A r, q \in spans : r = q \/ r.end <= q.start \/ q.end <= r.start
      /\ \A r \in spans : from < r.start => \E q \in spans : q.end = r.start
  BY <1>0, PartitionFacts
<1>2. /\ e \in Int /\ f.end <= e
      /\ \A l \in Lasts(spans) : f.end <= l.end => e <= l.end
  BY RunEnd
<1>3. PICK l \in Lasts(spans) : l.end = e
  BY RunEnd
<1>4. l \in spans
  BY DEF Lasts
<1> DEFINE B == {r.start : r \in {q \in spans : f.start <= q.start /\ q.start < e /\ q.kind # f.kind}}
<1> HIDE DEF e
<1>5. ASSUME NEW r \in spans, f.start <= r.start, r.start < e PROVE r.end <= e
  BY <1>0, <1>1, <1>2, <1>3, <1>4, <1>5
<1>6. ASSUME B # {} PROVE FALSE
  <2>1. \A b \in B : b \in Int /\ f.start <= b
    BY <1>0
  <2>2. Min(B) \in B /\ \A b \in B : Min(B) <= b
    <3> HIDE DEF B
    <3> QED
      BY <1>0, <1>6, <2>1, MinFacts
  <2>3. PICK r \in spans : r.start = Min(B) /\ f.start <= r.start /\ r.start < e /\ r.kind # f.kind
    BY <2>2
  <2>4. \A q \in spans : f.start <= q.start /\ q.start < r.start => q.kind = f.kind
    <3>1. \A q \in spans : f.start <= q.start /\ q.start < e /\ q.kind # f.kind => q.start \in B
      OBVIOUS
    <3> HIDE DEF B
    <3> QED
      BY <1>0, <1>2, <2>2, <2>3, <3>1
  <2> HIDE DEF B
  <2>5. r # f /\ f.end <= r.start
    BY <1>0, <1>1, <2>3
  <2>6. from < r.start
    BY <1>0, <1>1, <2>5
  <2>7. PICK q \in spans : q.end = r.start
    BY <1>1, <2>6
  <2>8. q = f \/ f.end <= q.start
    BY <1>0, <1>1, <2>5, <2>7
  <2>9. q.kind = f.kind
    BY <1>0, <1>1, <2>4, <2>7, <2>8
  <2>10. q \in Lasts(spans)
    <3>1. \A p \in spans : p.start = q.end => p = r
      BY <1>0, <1>1, <2>7
    <3> QED
      BY <2>3, <2>9, <3>1 DEF Lasts, Continues
  <2>11. f.end <= q.end
    BY <1>0, <1>1, <2>7, <2>5
  <2> QED
    BY <1>0, <1>2, <2>3, <2>7, <2>10, <2>11
<1>7. s.kind = f.kind
  BY <1>6 DEF e
<1> QED
  BY <1>5, <1>7 DEF e

\* Every span lies in a run.
LEMMA RunExists ==
  ASSUME NEW from \in Int, NEW to \in Int, NEW spans \in SUBSET SpanSet,
         Partition(spans, from, to), NEW s \in spans
  PROVE  \E f \in Firsts(spans) : f.start <= s.start /\ s.start < Min(Ends(spans, f))
<1>0. \A r \in spans : r.start \in Int /\ r.end \in Int
  BY DEF SpanSet
<1>1. /\ \A r \in spans : from <= r.start /\ r.start < r.end /\ r.end <= to
      /\ \A t \in Int : from <= t /\ t < to => \E r \in spans : Within(t, r)
      /\ \A r, q \in spans : r = q \/ r.end <= q.start \/ q.end <= r.start
      /\ \A r \in spans : r.end < to => \E q \in spans : q.start = r.end
  BY <1>0, PartitionFacts
<1> DEFINE B == {f.start : f \in {g \in Firsts(spans) : g.start <= s.start}}
<1>2. \A b \in B : b \in Int /\ b <= s.start
  BY <1>0 DEF Firsts
<1>3. B # {}
  <2>1. from < to
    BY <1>0, <1>1
  <2>2. PICK f \in spans : Within(from, f)
    BY <1>1, <2>1
  <2>3. f.start = from
    BY <1>0, <1>1, <2>2 DEF Within
  <2>4. f \in Firsts(spans)
    BY <1>0, <1>1, <2>3 DEF Firsts, Continues
  <2>5. f.start <= s.start
    BY <1>1, <2>3
  <2> QED
    BY <2>4, <2>5
<1>4. Max(B) \in B /\ \A b \in B : b <= Max(B)
  <2> HIDE DEF B
  <2> QED
    BY <1>0, <1>2, <1>3, MaxFacts
<1>5. PICK f \in Firsts(spans) : f.start = Max(B) /\ f.start <= s.start
  BY <1>4
<1>6. \A g \in Firsts(spans) : g.start <= s.start => g.start <= f.start
  <2>1. \A g \in Firsts(spans) : g.start <= s.start => g.start \in B
    OBVIOUS
  <2> HIDE DEF B
  <2> QED
    BY <1>4, <1>5, <2>1
<1> HIDE DEF B
<1> DEFINE e == Min(Ends(spans, f))
<1>7. f \in spans
  BY DEF Firsts
<1>8. /\ e \in Int /\ f.end <= e
      /\ \E l \in Lasts(spans) : l.end = e
  BY <1>7, RunEnd
<1> HIDE DEF e
<1>9. ASSUME e <= s.start PROVE FALSE
  <2>1. PICK l \in Lasts(spans) : l.end = e
    BY <1>8
  <2>2. l \in spans /\ \A q \in spans : ~ Continues(q, l)
    BY <2>1 DEF Lasts
  <2>3. PICK n \in spans : n.start = e
    BY <1>0, <1>1, <1>9, <2>1, <2>2
  <2>4. \A q \in spans : q.end = e => q = l
    BY <1>0, <1>1, <2>1, <2>2
  <2>5. n \in Firsts(spans)
    <3>1. \A q \in spans : ~ Continues(n, q)
      BY <2>1, <2>2, <2>3, <2>4 DEF Continues
    <3> QED
      BY <3>1 DEF Firsts
  <2>6. f.start < n.start
    BY <1>0, <1>1, <1>7, <1>8, <2>3
  <2> QED
    BY <1>0, <1>6, <1>7, <1>9, <2>3, <2>5, <2>6
<1>10. s.start < e
  BY <1>0, <1>8, <1>9
<1> QED
  BY <1>5, <1>10 DEF e

\* Runs do not overlap.
LEMMA RunsApart ==
  ASSUME NEW from \in Int, NEW to \in Int, NEW spans \in SUBSET SpanSet,
         Partition(spans, from, to), NEW f \in Firsts(spans), NEW g \in Firsts(spans),
         f.start < g.start
  PROVE  Min(Ends(spans, f)) <= g.start
<1>0. \A r \in spans : r.start \in Int /\ r.end \in Int
  BY DEF SpanSet
<1>1. /\ \A r \in spans : from <= r.start /\ r.start < r.end /\ r.end <= to
      /\ \A r, q \in spans : r = q \/ r.end <= q.start \/ q.end <= r.start
      /\ \A r \in spans : from < r.start => \E q \in spans : q.end = r.start
  BY <1>0, PartitionFacts
<1> DEFINE e == Min(Ends(spans, f))
<1>2. f \in spans /\ g \in spans /\ \A s \in spans : ~ Continues(g, s)
  BY DEF Firsts
<1>3. e \in Int /\ f.end <= e
  BY <1>2, RunEnd
<1>4. \A s \in spans : f.start <= s.start /\ s.start < e => s.kind = f.kind
  BY <1>2, RunIsUniform
<1> HIDE DEF e
<1>5. ASSUME g.start < e PROVE FALSE
  <2>1. g.kind = f.kind
    BY <1>0, <1>2, <1>4, <1>5
  <2>2. from < g.start
    BY <1>0, <1>1, <1>2
  <2>3. PICK p \in spans : p.end = g.start
    BY <1>1, <1>2, <2>2
  <2>4. f.start <= p.start
    BY <1>0, <1>1, <1>2, <2>3
  <2>5. p.start < e
    BY <1>0, <1>1, <1>2, <1>3, <1>5, <2>3
  <2>6. p.kind = f.kind
    BY <1>4, <2>4, <2>5
  <2> QED
    BY <1>2, <2>1, <2>3, <2>6 DEF Continues
<1> QED
  BY <1>0, <1>2, <1>3, <1>5 DEF e

\* The runs of a partition are a partition, in which every span lies in a run of its
\* kind and no run is continued.
LEMMA CoalesceFacts ==
  ASSUME NEW from \in Int, NEW to \in Int, NEW spans \in SUBSET SpanSet,
         Partition(spans, from, to)
  PROVE  /\ Coalesce(spans) \in SUBSET SpanSet
         /\ Partition(Coalesce(spans), from, to)
         /\ \A s \in spans : \E r \in Coalesce(spans) :
              r.start <= s.start /\ s.end <= r.end /\ r.kind = s.kind
         /\ \A q, r \in Coalesce(spans) : ~ Continues(q, r)
         /\ \A r \in Coalesce(spans) : /\ \E s \in spans : s.start = r.start
                                       /\ \E s \in spans : s.end = r.end
<1> DEFINE F == Firsts(spans)
           e(f) == Min(Ends(spans, f))
           Q == Coalesce(spans)
<1>0. \A r \in spans : r.start \in Int /\ r.end \in Int /\ r.kind \in Kinds
  BY DEF SpanSet
<1>1. /\ \A r \in spans : from <= r.start /\ r.start < r.end /\ r.end <= to
      /\ \A r, q \in spans : r = q \/ r.end <= q.start \/ q.end <= r.start
      /\ \A t \in Int : from <= t /\ t < to => \E r \in spans : Within(t, r)
  BY <1>0, PartitionFacts
<1>2. \A f \in F : /\ f \in spans
                   /\ e(f) \in Int /\ f.end <= e(f) /\ e(f) <= to
                   /\ \E l \in Lasts(spans) : l.end = e(f)
  BY RunEnd DEF Firsts
<1>3. \A f \in F : \A s \in spans :
        f.start <= s.start /\ s.start < e(f) => s.kind = f.kind /\ s.end <= e(f)
  BY <1>2, RunIsUniform
<1>4. \A s \in spans : \E f \in F : f.start <= s.start /\ s.start < e(f)
  BY RunExists
<1>5. \A f, g \in F : f.start < g.start => e(f) <= g.start
  BY RunsApart
<1>6. \A r \in Q : \E f \in F : r \in SpanSet /\ r.start = f.start /\ r.end = e(f) /\ r.kind = f.kind
  BY <1>0, <1>2, CoalesceIsRuns, SpanFacts DEF Run
<1>7. \A f \in F : \E r \in Q : r.start = f.start /\ r.end = e(f) /\ r.kind = f.kind
  <2> TAKE f \in F
  <2>1. Run(spans, f) \in Q
    BY CoalesceIsRuns
  <2>2. f.start \in Int /\ e(f) \in Int /\ f.kind \in Kinds
    BY <1>0, <1>2
  <2>3. Run(spans, f) = Span(f.start, e(f), f.kind)
    BY DEF Run
  <2> QED
    BY <2>1, <2>2, <2>3 DEF Span
<1>8. \A f, g \in F : f.start = g.start => f = g
  BY <1>0, <1>1, <1>2
<1>9. \A q, r \in Q : q.start = r.start => q = r
  <2> TAKE q \in Q, r \in Q
  <2> HAVE q.start = r.start
  <2>1. PICK f \in F : q = Run(spans, f)
    BY CoalesceIsRuns
  <2>2. PICK g \in F : r = Run(spans, g)
    BY CoalesceIsRuns
  <2>3. f.start \in Int /\ e(f) \in Int /\ f.kind \in Kinds
    BY <1>0, <1>2
  <2>4. g.start \in Int /\ e(g) \in Int /\ g.kind \in Kinds
    BY <1>0, <1>2
  <2>5. q = Span(f.start, e(f), f.kind) /\ r = Span(g.start, e(g), g.kind)
    BY <2>1, <2>2 DEF Run
  <2>6. q.start = f.start
    BY <2>3, <2>5 DEF Span
  <2>7. r.start = g.start
    BY <2>4, <2>5 DEF Span
  <2> QED
    BY <1>8, <2>1, <2>2, <2>6, <2>7
<1> HIDE DEF F, e, Q
<1>10. \A r \in Q : from <= r.start /\ r.start < r.end /\ r.end <= to
  BY <1>0, <1>1, <1>2, <1>6
<1>11. \A s \in spans : \E r \in Q : r.start <= s.start /\ s.end <= r.end /\ r.kind = s.kind
  <2> TAKE s \in spans
  <2>1. PICK f \in F : f.start <= s.start /\ s.start < e(f)
    BY <1>4
  <2>2. s.kind = f.kind /\ s.end <= e(f)
    BY <1>3, <2>1
  <2> QED
    BY <1>7, <2>1, <2>2
<1>12. \A t \in from..(to - 1) : \E r \in Q : Within(t, r)
  <2> TAKE t \in from..(to - 1)
  <2>1. PICK s \in spans : Within(t, s)
    BY <1>1
  <2>2. PICK r \in Q : r.start <= s.start /\ s.end <= r.end
    BY <1>11
  <2>3. r.start \in Int /\ r.end \in Int /\ t \in Int
    BY <1>6 DEF SpanSet
  <2> QED
    BY <1>0, <2>1, <2>2, <2>3 DEF Within
<1>13. \A q, r \in Q : q # r => q.end <= r.start \/ r.end <= q.start
  <2> TAKE q \in Q, r \in Q
  <2> HAVE q # r
  <2>1. PICK f \in F : q.start = f.start /\ q.end = e(f)
    BY <1>6
  <2>2. PICK g \in F : r.start = g.start /\ r.end = e(g)
    BY <1>6
  <2>3. f.start # g.start
    BY <1>9, <2>1, <2>2
  <2>4. f.start < g.start \/ g.start < f.start
    BY <1>0, <1>2, <2>3
  <2> QED
    BY <1>5, <2>1, <2>2, <2>4
<1>14. \A q, r \in Q : ~ Continues(q, r)
  <2> SUFFICES ASSUME NEW q \in Q, NEW r \in Q, q.start = r.end, q.kind = r.kind PROVE FALSE
    BY DEF Continues
  <2>1. PICK f \in F : q.start = f.start /\ q.kind = f.kind
    BY <1>6
  <2>2. PICK g \in F : r.start = g.start /\ r.end = e(g) /\ r.kind = g.kind
    BY <1>6
  <2>3. PICK l \in Lasts(spans) : l.end = e(g)
    BY <1>2
  <2>4. l \in spans /\ \A s \in spans : ~ Continues(s, l)
    BY <2>3 DEF Lasts
  <2>5. g.start <= l.start /\ l.start < e(g)
    BY <1>0, <1>1, <1>2, <2>3, <2>4
  <2>6. l.kind = g.kind
    BY <1>3, <2>4, <2>5
  <2> QED
    BY <1>2, <2>1, <2>2, <2>3, <2>4, <2>6 DEF Continues
<1>15. \A r \in Q : (\E s \in spans : s.start = r.start) /\ (\E s \in spans : s.end = r.end)
  <2>1. Lasts(spans) \subseteq spans
    BY DEF Lasts
  <2> QED
    BY <1>2, <1>6, <2>1
<1>16. Q \in SUBSET SpanSet
  BY <1>6
<1>17. Partition(Q, from, to)
  BY <1>10, <1>12, <1>13 DEF Partition
<1> QED
  BY <1>11, <1>14, <1>15, <1>16, <1>17 DEF Q

\* Spans that are a partition, and such a partition in which no span continues another.
Tiling(spans, from, to) == spans \in SUBSET SpanSet /\ Partition(spans, from, to)
Runs(spans, from, to) == Tiling(spans, from, to) /\ \A q, r \in spans : ~ Continues(q, r)

\* The spans of a tiling lie within it, hold every instant, and do not overlap.
LEMMA TilingFacts ==
  ASSUME NEW from \in Int, NEW to \in Int, NEW spans, Tiling(spans, from, to)
  PROVE  /\ \A s \in spans : /\ s.start \in Int /\ s.end \in Int /\ s.kind \in Kinds
                             /\ from <= s.start /\ s.start < s.end /\ s.end <= to
         /\ \A s \in spans : \A t \in Int : Within(t, s) => KindsAt(spans, t) = {s.kind}
         /\ \A t \in Int : from <= t /\ t < to => \E s \in spans : Within(t, s)
         /\ \A r, s \in spans : r = s \/ r.end <= s.start \/ s.end <= r.start
<1>0. spans \in SUBSET SpanSet /\ Partition(spans, from, to)
  BY DEF Tiling
<1>1. \A s \in spans : s.start \in Int /\ s.end \in Int /\ s.kind \in Kinds
  BY <1>0 DEF SpanSet
<1>2. /\ \A s \in spans : from <= s.start /\ s.start < s.end /\ s.end <= to
      /\ \A t \in Int : from <= t /\ t < to => \E s \in spans : Within(t, s)
      /\ \A r, s \in spans : r = s \/ r.end <= s.start \/ s.end <= r.start
      /\ \A r, s \in spans : \A t \in Int : Within(t, r) /\ Within(t, s) => r = s
  BY <1>0, <1>1, PartitionFacts
<1>3. ASSUME NEW s \in spans, NEW t \in Int, Within(t, s) PROVE KindsAt(spans, t) = {s.kind}
  <2>1. {r \in spans : Within(t, r)} = {s}
    BY <1>2, <1>3
  <2> QED
    BY <2>1 DEF KindsAt
<1> QED
  BY <1>1, <1>2, <1>3

\* Coalescing changes no instant's kind.
LEMMA CoalesceKinds ==
  ASSUME NEW from \in Int, NEW to \in Int, NEW spans, Tiling(spans, from, to)
  PROVE  /\ Runs(Coalesce(spans), from, to)
         /\ \A t \in Int : from <= t /\ t < to => KindsAt(Coalesce(spans), t) = KindsAt(spans, t)
<1>0. spans \in SUBSET SpanSet /\ Partition(spans, from, to)
  BY DEF Tiling
<1>1. Runs(Coalesce(spans), from, to)
  BY <1>0, CoalesceFacts DEF Runs, Tiling
<1>2. Tiling(Coalesce(spans), from, to)
  BY <1>1 DEF Runs
<1>3. ASSUME NEW t \in Int, from <= t, t < to
      PROVE  KindsAt(Coalesce(spans), t) = KindsAt(spans, t)
  <2>1. PICK s \in spans : Within(t, s)
    BY <1>3, TilingFacts
  <2>2. KindsAt(spans, t) = {s.kind}
    BY <2>1, TilingFacts
  <2>3. PICK r \in Coalesce(spans) : r.start <= s.start /\ s.end <= r.end /\ r.kind = s.kind
    BY <1>0, CoalesceFacts
  <2>4. s.start \in Int /\ s.end \in Int
    BY TilingFacts
  <2>5. r.start \in Int /\ r.end \in Int
    BY <1>2, TilingFacts
  <2>6. Within(t, r)
    BY <2>1, <2>3, <2>4, <2>5 DEF Within
  <2>7. KindsAt(Coalesce(spans), t) = {r.kind}
    BY <1>2, <2>6, TilingFacts
  <2> QED
    BY <2>2, <2>3, <2>7
<1> QED
  BY <1>1, <1>3

\* A stretch of one kind lies in one run.
LEMMA StretchInRun ==
  ASSUME NEW from \in Int, NEW to \in Int, NEW runs, Runs(runs, from, to),
         NEW u \in Int, NEW v \in Int, from <= u, u < v, v <= to, NEW kind,
         \A t \in Int : u <= t /\ t < v => KindsAt(runs, t) = {kind}
  PROVE  \E r \in runs : r.kind = kind /\ r.start <= u /\ v <= r.end
<1>0. Tiling(runs, from, to) /\ \A q, r \in runs : ~ Continues(q, r)
  BY DEF Runs
<1>1. /\ \A s \in runs : /\ s.start \in Int /\ s.end \in Int
                         /\ from <= s.start /\ s.start < s.end /\ s.end <= to
      /\ \A s \in runs : \A t \in Int : Within(t, s) => KindsAt(runs, t) = {s.kind}
      /\ \A t \in Int : from <= t /\ t < to => \E s \in runs : Within(t, s)
      /\ \A r, s \in runs : r = s \/ r.end <= s.start \/ s.end <= r.start
  BY <1>0, TilingFacts
<1>2. PICK r \in runs : Within(u, r)
  BY <1>1
<1>3. KindsAt(runs, u) = {r.kind} /\ KindsAt(runs, u) = {kind}
  BY <1>1, <1>2
<1>4. r.kind = kind
  BY <1>3
<1>5. ASSUME r.end < v PROVE FALSE
  <2>1. PICK q \in runs : Within(r.end, q)
    BY <1>1, <1>5
  <2>2. r.end \in Int /\ u <= r.end
    BY <1>1, <1>2 DEF Within
  <2>3. KindsAt(runs, r.end) = {q.kind} /\ KindsAt(runs, r.end) = {kind}
    BY <1>1, <1>5, <2>1, <2>2
  <2>4. q.kind = r.kind
    BY <1>4, <2>3
  <2>5. q.start <= r.end /\ r.end < q.end
    BY <2>1 DEF Within
  <2>6. q.start = r.end
    BY <1>1, <2>5, SMTT(30)
  <2> QED
    BY <1>0, <2>4, <2>6 DEF Continues
<1> QED
  BY <1>1, <1>2, <1>4, <1>5 DEF Within

\* A monitored stretch lies within one run.
LEMMA MonitoredStretch ==
  ASSUME NEW from \in Int, NEW to \in Int, NEW runs, Runs(runs, from, to),
         NEW u \in Int, NEW v \in Int, from <= u, u < v, v <= to,
         \A t \in Int : u <= t /\ t < v => KindsAt(runs, t) = {"monitored"}
  PROVE  \E r \in runs : r.kind = "monitored" /\ r.start <= u /\ v <= r.end
<1> DEFINE kind == "monitored"
<1>1. \A t \in Int : u <= t /\ t < v => KindsAt(runs, t) = {kind}
  OBVIOUS
<1> HIDE DEF kind
<1>2. \E r \in runs : r.kind = kind /\ r.start <= u /\ v <= r.end
  BY <1>1, StretchInRun
<1> QED
  BY <1>2 DEF kind

-----------------------------------------------------------------------------
(* Monitoring windows.                                                       *)

\* The heartbeats in a window, and where they cut it.
Inside(B, from, to) == {b \in B : from <= b /\ b <= to}
Cuts(B, from, to) == Inside(B, from, to) \union {from, to}

\* Two cuts with none between them, around an instant.
Around(B, from, to, a, b, t) ==
  /\ a \in Cuts(B, from, to) /\ b \in Cuts(B, from, to)
  /\ a <= t /\ t < b
  /\ \A c \in Cuts(B, from, to) : c <= a \/ b <= c

\* The ends of a window are cuts of it, and none lies outside.
LEMMA CutsFacts ==
  ASSUME NEW B, B \subseteq Int, NEW from \in Int, NEW to \in Int, from < to
  PROVE  Cuts(B, from, to) \subseteq from..to /\ from \in Cuts(B, from, to) /\ to \in Cuts(B, from, to)
<1>1. from \in Cuts(B, from, to) /\ to \in Cuts(B, from, to)
  BY DEF Cuts
<1>2. ASSUME NEW c \in Cuts(B, from, to) PROVE c \in from..to
  <2>1. c \in Int /\ from <= c /\ c <= to
    BY DEF Cuts, Inside
  <2> QED
    BY <2>1
<1> QED
  BY <1>1, <1>2

\* Every instant of a window lies between two adjacent cuts.
LEMMA AroundFacts ==
  ASSUME NEW B, B \subseteq Int, NEW from \in Int, NEW to \in Int,
         NEW t \in Int, from <= t, t < to
  PROVE  \E a, b \in Int : Around(B, from, to, a, b, t)
<1> DEFINE cuts == Cuts(B, from, to)
<1>0. from < to
  OBVIOUS
<1>1. cuts \subseteq from..to /\ from \in cuts /\ to \in cuts
  BY <1>0, CutsFacts
<1>2. t \in from..(to - 1)
  OBVIOUS
<1> HIDE DEF cuts
<1>3. Partition(Pieces(cuts), from, to)
  BY <1>1, PiecesFacts
<1>4. PICK p \in Pieces(cuts) : Within(t, p)
  BY <1>2, <1>3 DEF Partition
<1>5. /\ p.start \in cuts /\ p.end \in cuts /\ p.start \in Int /\ p.end \in Int
      /\ \A c \in cuts : c <= p.start \/ p.end <= c
  BY <1>1, PiecesFacts
<1>6. p.start <= t /\ t < p.end
  BY <1>4 DEF Within
<1>7. Around(B, from, to, p.start, p.end, t)
  BY <1>5, <1>6 DEF Around, cuts
<1> QED
  BY <1>5, <1>7

\* What segments show of a window without heartbeats, and of one with some.
KindsUnheard(B, from, to) ==
  \A t \in Int : from <= t /\ t < to =>
    KindsAt(Segments(B, from, to), t) = {Unobserved(B, from, to)}

KindsByCuts(B, from, to) ==
  \A t, a, b \in Int : Around(B, from, to, a, b, t) =>
    KindsAt(Segments(B, from, to), t) = {Observed(a, b)}

\* Without a heartbeat inside, one segment; else runs, and each instant is of the
\* kind of the stretch between the cuts around it.
LEMMA SegmentsFacts ==
  ASSUME NEW B, B \subseteq Int, NEW from \in Int, NEW to \in Int, from < to
  PROVE  /\ Runs(Segments(B, from, to), from, to)
         /\ \A s \in Segments(B, from, to) : s.kind \in {"monitored", "gap"}
         /\ Inside(B, from, to) = {} => KindsUnheard(B, from, to)
         /\ Inside(B, from, to) # {} => KindsByCuts(B, from, to)
<1> DEFINE S == Segments(B, from, to)
           cuts == Cuts(B, from, to)
           pieces == {Span(p.start, p.end, Observed(p.start, p.end)) : p \in Pieces(cuts)}
<1>0. ~ (to <= from)
  OBVIOUS
<1>1. CASE Inside(B, from, to) = {}
  <2> DEFINE k == Unobserved(B, from, to)
  <2>1. k \in {"monitored", "gap"}
    BY DEF Unobserved, Observed
  <2>2. S = {Span(from, to, k)}
    BY <1>0, <1>1 DEF Segments, Inside
  <2> HIDE DEF k, S
  <2>3. Span(from, to, k) \in SpanSet
    <3>1. k \in Kinds
      BY <2>1 DEF Kinds
    <3> QED
      BY <3>1 DEF Span, SpanSet
  <2>4. /\ Span(from, to, k).start = from /\ Span(from, to, k).end = to
        /\ Span(from, to, k).kind = k
    BY DEF Span
  <2>5. S \in SUBSET SpanSet
    BY <2>2, <2>3
  <2>6. Partition(S, from, to)
    BY <2>2, <2>4 DEF Partition, Within
  <2>7. \A q, r \in S : ~ Continues(q, r)
    BY <1>0, <2>2, <2>4 DEF Continues
  <2>8. Runs(S, from, to)
    BY <2>5, <2>6, <2>7 DEF Runs, Tiling
  <2>9. \A s \in S : s.kind \in {"monitored", "gap"}
    BY <2>1, <2>2, <2>4
  <2>10. ASSUME NEW t \in Int, from <= t, t < to PROVE KindsAt(S, t) = {k}
    <3>1. PICK s \in S : s.kind = k /\ Within(t, s)
      BY <2>2, <2>4, <2>10 DEF Within
    <3> QED
      BY <2>8, <3>1, TilingFacts DEF Runs
  <2> QED
    BY <1>1, <2>8, <2>9, <2>10 DEF S, k, KindsUnheard
<1>2. CASE Inside(B, from, to) # {}
  <2>1. S = Coalesce(pieces)
    BY <1>0, <1>2 DEF Segments, Inside, Cuts
  <2>2. cuts \subseteq from..to /\ from \in cuts /\ to \in cuts
    BY CutsFacts
  <2> HIDE DEF cuts
  <2>3. Partition(Pieces(cuts), from, to)
    BY <2>2, PiecesFacts
  <2>4. \A p \in Pieces(cuts) : /\ p.start \in cuts /\ p.end \in cuts
                                /\ p.start \in Int /\ p.end \in Int
                                /\ \A c \in cuts : c <= p.start \/ p.end <= c
    BY <2>2, PiecesFacts
  <2>5. \A s \in pieces : \E p \in Pieces(cuts) :
          s.start = p.start /\ s.end = p.end /\ s.kind = Observed(p.start, p.end)
    BY DEF Span
  <2>6. \A p \in Pieces(cuts) : \E s \in pieces :
          s.start = p.start /\ s.end = p.end /\ s.kind = Observed(p.start, p.end)
    <3> TAKE p \in Pieces(cuts)
    <3>1. Span(p.start, p.end, Observed(p.start, p.end)) \in pieces
      OBVIOUS
    <3> QED
      BY <3>1 DEF Span
  <2>7. \A x, y : Observed(x, y) \in {"monitored", "gap"}
    BY DEF Observed
  <2>8. pieces \in SUBSET SpanSet
    <3> SUFFICES ASSUME NEW p \in Pieces(cuts)
                 PROVE  Span(p.start, p.end, Observed(p.start, p.end)) \in SpanSet
      OBVIOUS
    <3>1. Observed(p.start, p.end) \in Kinds
      BY DEF Observed, Kinds
    <3>2. p.start \in Int /\ p.end \in Int
      BY <2>4
    <3> QED
      BY <3>1, <3>2 DEF Span, SpanSet
  <2>9. \A r, s \in pieces : r.start = s.start /\ r.end = s.end => r = s
    BY DEF Span
  <2> HIDE DEF pieces, S
  <2>10. Partition(pieces, from, to)
    BY <2>3, <2>4, <2>5, <2>6, <2>9, SameStretches
  <2>11. Tiling(pieces, from, to)
    BY <2>8, <2>10 DEF Tiling
  <2>12. Runs(S, from, to)
    BY <2>1, <2>11, CoalesceKinds
  <2>13. \A s \in S : s.kind \in {"monitored", "gap"}
    <3> TAKE s \in S
    <3>1. Tiling(S, from, to)
      BY <2>12 DEF Runs
    <3>2. /\ s.start \in Int /\ s.end \in Int /\ from <= s.start
          /\ s.start < s.end /\ s.end <= to
      BY <3>1, TilingFacts
    <3>3. Within(s.start, s)
      BY <3>2 DEF Within
    <3>4. KindsAt(S, s.start) = {s.kind}
      BY <3>1, <3>2, <3>3, TilingFacts
    <3>5. s.start < to
      BY <3>2
    <3>6. PICK p \in pieces : Within(s.start, p)
      BY <2>11, <3>2, <3>5, TilingFacts
    <3>7. KindsAt(pieces, s.start) = {p.kind}
      BY <2>11, <3>2, <3>6, TilingFacts
    <3>8. KindsAt(S, s.start) = KindsAt(pieces, s.start)
      BY <2>1, <2>11, <3>2, <3>5, CoalesceKinds
    <3>9. s.kind = p.kind
      BY <3>4, <3>7, <3>8
    <3> QED
      BY <2>5, <2>7, <3>9
  <2>14. ASSUME NEW t \in Int, NEW a \in Int, NEW b \in Int, Around(B, from, to, a, b, t)
         PROVE  KindsAt(S, t) = {Observed(a, b)}
    <3>1. /\ a \in cuts /\ b \in cuts /\ a <= t /\ t < b
          /\ \A c \in cuts : c <= a \/ b <= c
      BY <2>14 DEF Around, cuts
    <3>2. from <= t /\ t < to
      BY <2>2, <3>1
    <3>3. PICK p \in pieces : Within(t, p)
      BY <2>11, <3>2, TilingFacts
    <3>4. PICK q \in Pieces(cuts) : /\ p.start = q.start /\ p.end = q.end
                                    /\ p.kind = Observed(q.start, q.end)
      BY <2>5
    <3>5. /\ q.start \in cuts /\ q.end \in cuts /\ q.start \in Int /\ q.end \in Int
          /\ \A c \in cuts : c <= q.start \/ q.end <= c
      BY <2>4
    <3>6. q.start <= t /\ t < q.end
      BY <3>3, <3>4 DEF Within
    <3>7. q.start = a /\ q.end = b
      BY <3>1, <3>5, <3>6
    <3>8. KindsAt(pieces, t) = {Observed(a, b)}
      BY <2>11, <3>3, <3>4, <3>7, TilingFacts
    <3> QED
      BY <2>1, <2>11, <3>2, <3>8, CoalesceKinds
  <2> QED
    BY <1>2, <2>12, <2>13, <2>14 DEF S, KindsByCuts
<1> QED
  BY <1>1, <1>2

-----------------------------------------------------------------------------
(* The classifier.                                                           *)

\* An instant lies in a run that counts.
Sure(spans, t) == \E s \in spans : Confirmed(s) /\ Within(t, s)

\* What classify makes of a segment before it looks at the runs.
Mark(s) == [s EXCEPT !.kind = IF Confirmed(s) THEN "monitored" ELSE "quiet"]
Marked(spans) == {Mark(s) : s \in spans}

\* What marking leaves of a tiling: an instant is monitored iff its segment is confirmed.
LEMMA MarkedFacts ==
  ASSUME NEW from \in Int, NEW to \in Int, NEW spans, Tiling(spans, from, to)
  PROVE  /\ Tiling(Marked(spans), from, to)
         /\ \A t \in Int : from <= t /\ t < to =>
              KindsAt(Marked(spans), t) = {IF Sure(spans, t) THEN "monitored" ELSE "quiet"}
<1>0. spans \in SUBSET SpanSet /\ Partition(spans, from, to)
  BY DEF Tiling
<1>1. /\ \A s \in spans : /\ s.start \in Int /\ s.end \in Int
                          /\ from <= s.start /\ s.start < s.end /\ s.end <= to
      /\ \A t \in Int : from <= t /\ t < to => \E s \in spans : Within(t, s)
      /\ \A r, s \in spans : r = s \/ r.end <= s.start \/ s.end <= r.start
  BY TilingFacts
<1>2. \A s \in spans : /\ Mark(s) \in SpanSet
                       /\ Mark(s).start = s.start /\ Mark(s).end = s.end
                       /\ Mark(s).kind = IF Confirmed(s) THEN "monitored" ELSE "quiet"
  <2> TAKE s \in spans
  <2> DEFINE k == IF Confirmed(s) THEN "monitored" ELSE "quiet"
  <2>1. k \in Kinds
    BY DEF Kinds
  <2>2. Mark(s) = [s EXCEPT !.kind = k]
    BY DEF Mark
  <2>3. s \in [start : Int, end : Int, kind : Kinds]
    BY <1>0 DEF SpanSet
  <2> HIDE DEF k
  <2>4. Mark(s) \in SpanSet /\ Mark(s).start = s.start /\ Mark(s).end = s.end /\ Mark(s).kind = k
    BY <2>1, <2>2, <2>3 DEF SpanSet
  <2> QED
    BY <2>4 DEF k
<1>3. \A r \in Marked(spans) : \E s \in spans : r = Mark(s)
  BY DEF Marked
<1>4. \A s \in spans : Mark(s) \in Marked(spans)
  BY DEF Marked
<1>5. \A q, r \in Marked(spans) : q.start = r.start /\ q.end = r.end => q = r
  <2> TAKE q \in Marked(spans), r \in Marked(spans)
  <2> HAVE q.start = r.start /\ q.end = r.end
  <2>1. PICK p \in spans : q = Mark(p)
    BY <1>3
  <2>2. PICK s \in spans : r = Mark(s)
    BY <1>3
  <2>3. p.start = s.start
    BY <1>2, <2>1, <2>2
  <2>4. p = s
    BY <1>1, <2>3
  <2> QED
    BY <2>1, <2>2, <2>4
<1>6. Partition(Marked(spans), from, to)
  BY <1>0, <1>2, <1>3, <1>4, <1>5, SameStretches
<1>7. Tiling(Marked(spans), from, to)
  BY <1>2, <1>3, <1>6 DEF Tiling
<1>8. ASSUME NEW t \in Int, from <= t, t < to
      PROVE  KindsAt(Marked(spans), t) = {IF Sure(spans, t) THEN "monitored" ELSE "quiet"}
  <2>1. PICK s \in spans : Within(t, s)
    BY <1>1, <1>8
  <2>2. Within(t, Mark(s))
    BY <1>2, <2>1 DEF Within
  <2>3. KindsAt(Marked(spans), t) = {Mark(s).kind}
    BY <1>4, <1>7, <2>2, TilingFacts
  <2>4. \A r \in spans : Within(t, r) => r = s
    BY <1>1, <2>1 DEF Within
  <2>5. Sure(spans, t) <=> Confirmed(s)
    BY <2>1, <2>4 DEF Sure
  <2> QED
    BY <1>2, <2>3, <2>5
<1> QED
  BY <1>7, <1>8

\* What classify makes of a run.
Named(r, runs) == [r EXCEPT !.kind = IF @ = "monitored" THEN @ ELSE GapKind(r, runs)]

\* Classify marks the segments, joins them, and names the runs.
LEMMA ClassifyIsNamed ==
  ASSUME NEW spans
  PROVE  Classify(spans) = {Named(r, Coalesce(Marked(spans))) : r \in Coalesce(Marked(spans))}
BY DEF Classify, Named, Marked, Mark

\* The instant lies in a stretch without a run that counts which is longer than the
\* ceiling, and there is such a run.
OffAt(spans, from, to, t) ==
  /\ \E x \in Int : from <= x /\ x < to /\ Sure(spans, x)
  /\ \E a, b \in Int : /\ from <= a /\ a <= t /\ t < b /\ b <= to /\ b - a > Ceiling
                       /\ \A x \in Int : a <= x /\ x < b => ~ Sure(spans, x)

\* An instant is monitored iff it lies in a run that counts, and OFF_SESSION iff OffAt.
LEMMA ClassifyFacts ==
  ASSUME NEW from \in Int, NEW to \in Int, NEW spans, Tiling(spans, from, to)
  PROVE  /\ Tiling(Classify(spans), from, to)
         /\ \A c \in Classify(spans) : c.kind \in {"monitored", "OFF_SESSION", "MONITORING_GAP"}
         /\ \A t \in Int : from <= t /\ t < to =>
              /\ KindsAt(Classify(spans), t) = {"monitored"} <=> Sure(spans, t)
              /\ KindsAt(Classify(spans), t) = {"OFF_SESSION"} <=> OffAt(spans, from, to, t)
<1> DEFINE runs == Coalesce(Marked(spans))
           C == Classify(spans)
<1>1. Runs(runs, from, to)
  BY MarkedFacts, CoalesceKinds
<1>2. Tiling(runs, from, to) /\ \A q, r \in runs : ~ Continues(q, r)
  BY <1>1 DEF Runs
<1>3. \A t \in Int : from <= t /\ t < to =>
        KindsAt(runs, t) = {IF Sure(spans, t) THEN "monitored" ELSE "quiet"}
  BY MarkedFacts, CoalesceKinds
<1>4. \A r \in C : \E s \in runs : r = Named(s, runs)
  BY ClassifyIsNamed
<1>5. \A s \in runs : Named(s, runs) \in C
  BY ClassifyIsNamed
<1> HIDE DEF runs, C
<1>6. /\ \A s \in runs : /\ s.start \in Int /\ s.end \in Int
                         /\ from <= s.start /\ s.start < s.end /\ s.end <= to
      /\ \A s \in runs : \A t \in Int : Within(t, s) => KindsAt(runs, t) = {s.kind}
      /\ \A t \in Int : from <= t /\ t < to => \E s \in runs : Within(t, s)
      /\ \A r, s \in runs : r = s \/ r.end <= s.start \/ s.end <= r.start
  BY <1>2, TilingFacts
<1>7. \A s \in runs : \A t \in Int : Within(t, s) =>
        (Sure(spans, t) <=> s.kind = "monitored") /\ (~ Sure(spans, t) <=> s.kind = "quiet")
  <2> TAKE s \in runs
  <2> TAKE t \in Int
  <2> HAVE Within(t, s)
  <2>1. from <= t /\ t < to
    BY <1>6 DEF Within
  <2>2. {s.kind} = {IF Sure(spans, t) THEN "monitored" ELSE "quiet"}
    BY <1>3, <1>6, <2>1
  <2> QED
    BY <2>2
<1>8. \A s \in runs : s.kind = "monitored" \/ s.kind = "quiet"
  <2> TAKE s \in runs
  <2>1. Within(s.start, s)
    BY <1>6 DEF Within
  <2> QED
    BY <1>6, <1>7, <2>1
<1>9. \A s \in runs :
        /\ Named(s, runs) \in SpanSet
        /\ Named(s, runs).start = s.start /\ Named(s, runs).end = s.end
        /\ Named(s, runs).kind = IF s.kind = "monitored" THEN s.kind ELSE GapKind(s, runs)
  <2> TAKE s \in runs
  <2> DEFINE k == IF s.kind = "monitored" THEN s.kind ELSE GapKind(s, runs)
  <2>1. k \in Kinds
    BY DEF Kinds, GapKind
  <2>2. Named(s, runs) = [s EXCEPT !.kind = k]
    BY DEF Named
  <2>3. s \in [start : Int, end : Int, kind : Kinds]
    BY <1>2 DEF SpanSet, Tiling
  <2> HIDE DEF k
  <2>4. /\ Named(s, runs) \in SpanSet /\ Named(s, runs).start = s.start
        /\ Named(s, runs).end = s.end /\ Named(s, runs).kind = k
    BY <2>1, <2>2, <2>3 DEF SpanSet
  <2> QED
    BY <2>4 DEF k
<1>10. \A q, r \in C : q.start = r.start /\ q.end = r.end => q = r
  <2> TAKE q \in C, r \in C
  <2> HAVE q.start = r.start /\ q.end = r.end
  <2>1. PICK p \in runs : q = Named(p, runs)
    BY <1>4
  <2>2. PICK s \in runs : r = Named(s, runs)
    BY <1>4
  <2>3. p.start = s.start
    BY <1>9, <2>1, <2>2
  <2>4. p = s
    BY <1>6, <2>3
  <2> QED
    BY <2>1, <2>2, <2>4
<1>11. Tiling(C, from, to)
  <2>1. \A r \in C : \E s \in runs : r.start = s.start /\ r.end = s.end
    BY <1>4, <1>9
  <2>2. \A s \in runs : \E r \in C : r.start = s.start /\ r.end = s.end
    BY <1>5, <1>9
  <2>3. Partition(C, from, to)
    BY <1>2, <1>10, <2>1, <2>2, SameStretches DEF Tiling
  <2> QED
    BY <1>4, <1>9, <2>3 DEF Tiling
<1>12. \A c \in C : c.kind \in {"monitored", "OFF_SESSION", "MONITORING_GAP"}
  BY <1>4, <1>9 DEF GapKind
<1>13. ASSUME NEW t \in Int, from <= t, t < to, NEW r \in runs, Within(t, r)
       PROVE  KindsAt(C, t) = {Named(r, runs).kind}
  <2>1. Within(t, Named(r, runs))
    BY <1>9, <1>13 DEF Within
  <2> QED
    BY <1>5, <1>11, <2>1, TilingFacts
<1>14. ASSUME NEW r \in runs, r.kind = "quiet"
       PROVE  Anchored(r, runs) <=> \E x \in Int : from <= x /\ x < to /\ Sure(spans, x)
  <2>1. ASSUME Anchored(r, runs) PROVE \E x \in Int : from <= x /\ x < to /\ Sure(spans, x)
    <3>1. PICK q \in runs : q.kind = "monitored"
      BY <2>1 DEF Anchored
    <3>2. Within(q.start, q) /\ q.start \in Int /\ from <= q.start /\ q.start < to
      BY <1>6 DEF Within
    <3>3. Sure(spans, q.start)
      BY <1>7, <3>1, <3>2
    <3> QED
      BY <3>2, <3>3
  <2>2. ASSUME NEW x \in Int, from <= x, x < to, Sure(spans, x) PROVE Anchored(r, runs)
    <3>1. PICK q \in runs : Within(x, q)
      BY <1>6, <2>2
    <3>2. q.kind = "monitored"
      BY <1>7, <2>2, <3>1
    <3>3. r # q
      BY <1>14, <3>2
    <3>4. from < r.start \/ r.end < to
      BY <1>6, <3>3
    <3>5. \A p \in runs : p.end = r.start \/ p.start = r.end => p.kind = "monitored"
      BY <1>2, <1>8, <1>14 DEF Continues
    <3>6. \E p \in runs : p.end = r.start \/ p.start = r.end
      <4>1. CASE from < r.start
        BY <1>2, <1>6, <4>1, PartitionFacts DEF Tiling
      <4>2. CASE r.end < to
        BY <1>2, <1>6, <4>2, PartitionFacts DEF Tiling
      <4> QED
        BY <3>4, <4>1, <4>2
    <3> QED
      BY <3>5, <3>6 DEF Anchored
  <2> QED
    BY <2>1, <2>2
<1>15. ASSUME NEW t \in Int, from <= t, t < to
       PROVE  KindsAt(C, t) = {"monitored"} <=> Sure(spans, t)
  <2>1. PICK r \in runs : Within(t, r)
    BY <1>6, <1>15
  <2>2. KindsAt(C, t) = {Named(r, runs).kind}
    BY <1>13, <1>15, <2>1
  <2>3. Named(r, runs).kind = "monitored" <=> r.kind = "monitored"
    BY <1>9 DEF GapKind
  <2> QED
    BY <1>7, <2>1, <2>2, <2>3
<1>16. ASSUME NEW t \in Int, from <= t, t < to
       PROVE  KindsAt(C, t) = {"OFF_SESSION"} <=> OffAt(spans, from, to, t)
  <2> DEFINE Stretch(a, b) == /\ from <= a /\ a <= t /\ t < b /\ b <= to /\ b - a > Ceiling
                              /\ \A x \in Int : a <= x /\ x < b => ~ Sure(spans, x)
             Some == \E x \in Int : from <= x /\ x < to /\ Sure(spans, x)
  <2>1. PICK r \in runs : Within(t, r)
    BY <1>6, <1>16
  <2>2. KindsAt(C, t) = {Named(r, runs).kind}
    BY <1>13, <1>16, <2>1
  <2>3. Named(r, runs).kind = "OFF_SESSION" <=>
          r.kind # "monitored" /\ Anchored(r, runs) /\ Length(r) > Ceiling
    BY <1>9 DEF GapKind
  <2>4. r.kind = "quiet" => (Anchored(r, runs) <=> Some)
    BY <1>14
  <2>5. ASSUME r.kind = "quiet", Length(r) > Ceiling PROVE \E a, b \in Int : Stretch(a, b)
    <3>1. \A x \in Int : r.start <= x /\ x < r.end => ~ Sure(spans, x)
      BY <1>7, <2>5 DEF Within
    <3>2. /\ r.start \in Int /\ r.end \in Int /\ from <= r.start /\ r.end <= to
          /\ r.start <= t /\ t < r.end
      BY <1>6, <2>1 DEF Within
    <3>3. Stretch(r.start, r.end)
      BY <2>5, <3>1, <3>2 DEF Length
    <3> QED
      BY <3>2, <3>3
  <2>6. ASSUME NEW a \in Int, NEW b \in Int, Stretch(a, b)
        PROVE  r.kind = "quiet" /\ Length(r) > Ceiling
    <3>1. \A x \in Int : a <= x /\ x < b => KindsAt(runs, x) = {"quiet"}
      <4> TAKE x \in Int
      <4> HAVE a <= x /\ x < b
      <4>1. from <= x /\ x < to /\ ~ Sure(spans, x)
        BY <2>6
      <4> QED
        BY <1>3, <4>1
    <3>2. from <= a /\ a <= t /\ t < b /\ b <= to /\ b - a > Ceiling
      BY <2>6
    <3>3. a < b
      BY <3>2
    <3>4. PICK q \in runs : q.kind = "quiet" /\ q.start <= a /\ b <= q.end
      BY <1>1, <3>1, <3>2, <3>3, StretchInRun
    <3>5. q = r
      BY <1>6, <2>1, <3>2, <3>4 DEF Within
    <3>6. r.start \in Int /\ r.end \in Int /\ Ceiling \in Int
      BY <1>6, ClassifierAssumption
    <3> QED
      BY <3>2, <3>4, <3>5, <3>6 DEF Length
  <2>7. r.kind = "quiet" <=> r.kind # "monitored"
    BY <1>8
  <2>8. KindsAt(C, t) = {"OFF_SESSION"} <=> Named(r, runs).kind = "OFF_SESSION"
    BY <2>2
  <2>9. (\E a, b \in Int : Stretch(a, b)) <=> r.kind = "quiet" /\ Length(r) > Ceiling
    BY <2>5, <2>6
  <2> HIDE DEF Stretch, Some
  <2>10. KindsAt(C, t) = {"OFF_SESSION"} <=> Some /\ \E a, b \in Int : Stretch(a, b)
    BY <2>3, <2>4, <2>7, <2>8, <2>9
  <2> QED
    BY <2>10 DEF Stretch, Some, OffAt
<1> QED
  BY <1>11, <1>12, <1>15, <1>16 DEF C

\* No monitored run continues another.
LEMMA ClassifyApart ==
  ASSUME NEW from \in Int, NEW to \in Int, NEW spans, Tiling(spans, from, to),
         NEW q \in Classify(spans), NEW r \in Classify(spans),
         q.kind = "monitored", r.kind = "monitored"
  PROVE  q.start # r.end
<1> DEFINE runs == Coalesce(Marked(spans))
<1>1. \A e, f \in runs : ~ Continues(e, f)
  BY MarkedFacts, CoalesceKinds DEF Runs
<1>2. runs \subseteq SpanSet
  BY MarkedFacts, CoalesceKinds DEF Runs, Tiling
<1>3. Classify(spans) = {Named(e, runs) : e \in runs}
  BY ClassifyIsNamed
<1> HIDE DEF runs
<1>4. ASSUME NEW e \in runs, Named(e, runs).kind = "monitored"
      PROVE  e.kind = "monitored" /\ Named(e, runs) = e
  <2>1. e \in SpanSet
    BY <1>2
  <2>2. GapKind(e, runs) # "monitored"
    BY DEF GapKind
  <2>3. Named(e, runs) = [e EXCEPT !.kind = IF e.kind = "monitored" THEN e.kind ELSE GapKind(e, runs)]
    BY DEF Named
  <2>4. e.kind = "monitored"
    BY <1>4, <2>1, <2>2, <2>3 DEF SpanSet
  <2>5. [e EXCEPT !.kind = e.kind] = e
    BY <2>1 DEF SpanSet
  <2> QED
    BY <2>3, <2>4, <2>5
<1>5. PICK e \in runs : q = Named(e, runs)
  BY <1>3
<1>6. PICK f \in runs : r = Named(f, runs)
  BY <1>3
<1>7. q = e /\ r = f
  BY <1>4, <1>5, <1>6
<1> QED
  BY <1>1, <1>7 DEF Continues

\* An instant is sure iff it lies in a long enough stretch in which the device was heard.
LEMMA SureFacts ==
  ASSUME NEW from \in Int, NEW to \in Int, NEW runs, Runs(runs, from, to),
         NEW t \in Int, from <= t, t < to
  PROVE  Sure(runs, t) <=>
           \E u, v \in Int :
             /\ from <= u /\ u <= t /\ t < v /\ v <= to /\ v - u >= Sustained
             /\ \A x \in Int : u <= x /\ x < v => KindsAt(runs, x) = {"monitored"}
<1>0. Tiling(runs, from, to)
  BY DEF Runs
<1>1. /\ \A s \in runs : /\ s.start \in Int /\ s.end \in Int
                         /\ from <= s.start /\ s.start < s.end /\ s.end <= to
      /\ \A s \in runs : \A x \in Int : Within(x, s) => KindsAt(runs, x) = {s.kind}
      /\ \A r, s \in runs : r = s \/ r.end <= s.start \/ s.end <= r.start
  BY <1>0, TilingFacts
<1>2. ASSUME Sure(runs, t)
      PROVE  \E u, v \in Int :
               /\ from <= u /\ u <= t /\ t < v /\ v <= to /\ v - u >= Sustained
               /\ \A x \in Int : u <= x /\ x < v => KindsAt(runs, x) = {"monitored"}
  <2>1. PICK r \in runs : Confirmed(r) /\ Within(t, r)
    BY <1>2 DEF Sure
  <2>2. r.kind = "monitored" /\ r.end - r.start >= Sustained
    BY <2>1 DEF Confirmed, Length
  <2>3. \A x \in Int : r.start <= x /\ x < r.end => KindsAt(runs, x) = {"monitored"}
    BY <1>1, <2>2 DEF Within
  <2>4. /\ r.start \in Int /\ r.end \in Int /\ from <= r.start /\ r.end <= to
        /\ r.start <= t /\ t < r.end
    BY <1>1, <2>1 DEF Within
  <2> QED
    BY <2>2, <2>3, <2>4
<1>3. ASSUME NEW u \in Int, NEW v \in Int,
             from <= u, u <= t, t < v, v <= to, v - u >= Sustained,
             \A x \in Int : u <= x /\ x < v => KindsAt(runs, x) = {"monitored"}
      PROVE  Sure(runs, t)
  <2>0. u < v
    BY <1>3
  <2>1. PICK r \in runs : r.kind = "monitored" /\ r.start <= u /\ v <= r.end
    <3>1. \A x \in Int : u <= x /\ x < v => KindsAt(runs, x) = {"monitored"}
      BY <1>3
    <3>2. from <= u /\ v <= to
      BY <1>3
    <3> QED
      BY <2>0, <3>1, <3>2, StretchInRun
  <2>2. r.start \in Int /\ r.end \in Int /\ Sustained \in Int
    BY <1>1, ClassifierAssumption
  <2>3. r.start <= t /\ t < r.end /\ r.end - r.start >= Sustained
    BY <1>3, <2>1, <2>2
  <2>4. Confirmed(r) /\ Within(t, r)
    BY <2>1, <2>3 DEF Confirmed, Length, Within
  <2> QED
    BY <2>4 DEF Sure
<1> QED
  BY <1>2, <1>3

-----------------------------------------------------------------------------
(* From runs to what is shown.                                               *)

\* Idle events, and when one is going on.
PauseSet(pauses) == \A p \in pauses : p.start \in Int /\ p.end \in Int

Paused(pauses, t) == \E p \in pauses : Within(t, p)

\* A monitored run is IDLE where a pause holds the instant, and ACTIVE elsewhere.
LEMMA SplitFacts ==
  ASSUME NEW span \in SpanSet, span.start < span.end, NEW pauses, PauseSet(pauses)
  PROVE  /\ Tiling(Split(span, pauses), span.start, span.end)
         /\ \A q, r \in Split(span, pauses) : ~ Continues(q, r)
         /\ \A t \in Int : Within(t, span) =>
              KindsAt(Split(span, pauses), t) =
                IF span.kind # "monitored" THEN {span.kind}
                ELSE {IF Paused(pauses, t) THEN "IDLE" ELSE "ACTIVE"}
<1>0. span.start \in Int /\ span.end \in Int /\ span.kind \in Kinds
  BY DEF SpanSet
<1>1. CASE span.kind # "monitored"
  <2>1. Split(span, pauses) = {span}
    BY <1>1 DEF Split
  <2>2. Tiling({span}, span.start, span.end)
    BY <1>0 DEF Tiling, Partition, Within
  <2>3. \A t \in Int : Within(t, span) => KindsAt({span}, t) = {span.kind}
    BY <1>0, <2>2, TilingFacts
  <2>4. ~ Continues(span, span)
    BY <1>0 DEF Continues
  <2> QED
    BY <1>1, <2>1, <2>2, <2>3, <2>4
<1>2. CASE span.kind = "monitored"
  <2> DEFINE edges == {p.start : p \in pauses} \union {p.end : p \in pauses}
             cuts == {span.start, span.end} \union {t \in edges : Within(t, span)}
             presence(t) == IF Paused(pauses, t) THEN "IDLE" ELSE "ACTIVE"
             pieces == {Span(p.start, p.end, presence(p.start)) : p \in Pieces(cuts)}
  <2>1. Split(span, pauses) = Coalesce(pieces)
    BY <1>2 DEF Split, Paused
  <2>2. cuts \subseteq span.start..span.end /\ span.start \in cuts /\ span.end \in cuts
    <3>1. \A t \in edges : t \in Int
      BY DEF PauseSet
    <3> HIDE DEF edges
    <3>2. \A c \in cuts : c \in Int /\ span.start <= c /\ c <= span.end
      BY <1>0, <3>1 DEF Within
    <3> HIDE DEF cuts
    <3>3. cuts \subseteq span.start..span.end
      BY <1>0, <3>2
    <3>4. span.start \in cuts /\ span.end \in cuts
      BY DEF cuts
    <3> QED
      BY <3>3, <3>4
  <2>3. \A p \in pauses : /\ Within(p.start, span) => p.start \in cuts
                          /\ Within(p.end, span) => p.end \in cuts
    OBVIOUS
  <2> HIDE DEF edges, cuts
  <2>4. Partition(Pieces(cuts), span.start, span.end)
    BY <1>0, <2>2, PiecesFacts
  <2>5. \A p \in Pieces(cuts) : /\ p.start \in Int /\ p.end \in Int
                                /\ \A c \in cuts : c <= p.start \/ p.end <= c
    BY <1>0, <2>2, PiecesFacts
  <2>6. \A s \in pieces : \E p \in Pieces(cuts) :
          s.start = p.start /\ s.end = p.end /\ s.kind = presence(p.start)
    BY DEF Span
  <2>7. \A p \in Pieces(cuts) : \E s \in pieces :
          s.start = p.start /\ s.end = p.end
    <3> TAKE p \in Pieces(cuts)
    <3>1. Span(p.start, p.end, presence(p.start)) \in pieces
      OBVIOUS
    <3> HIDE DEF presence
    <3> QED
      BY <3>1 DEF Span
  <2>8. pieces \in SUBSET SpanSet
    <3> SUFFICES ASSUME NEW p \in Pieces(cuts)
                 PROVE  Span(p.start, p.end, presence(p.start)) \in SpanSet
      OBVIOUS
    <3>1. presence(p.start) \in Kinds
      BY DEF Kinds
    <3>2. p.start \in Int /\ p.end \in Int
      BY <2>5
    <3> HIDE DEF presence
    <3> QED
      BY <3>1, <3>2 DEF Span, SpanSet
  <2>9. \A r, s \in pieces : r.start = s.start /\ r.end = s.end => r = s
    BY DEF Span
  <2> HIDE DEF pieces, presence
  <2>10. Tiling(pieces, span.start, span.end)
    BY <1>0, <2>4, <2>6, <2>7, <2>8, <2>9, SameStretches DEF Tiling
  <2>11. /\ Tiling(Split(span, pauses), span.start, span.end)
         /\ \A q, r \in Split(span, pauses) : ~ Continues(q, r)
    BY <1>0, <2>1, <2>10, CoalesceKinds DEF Runs
  <2>12. ASSUME NEW t \in Int, Within(t, span)
         PROVE  KindsAt(Split(span, pauses), t) = {presence(t)}
    <3>1. span.start <= t /\ t < span.end
      BY <2>12 DEF Within
    <3>2. PICK s \in pieces : Within(t, s)
      BY <1>0, <2>10, <3>1, TilingFacts
    <3>3. PICK p \in Pieces(cuts) : s.start = p.start /\ s.end = p.end /\ s.kind = presence(p.start)
      BY <2>6
    <3>4. KindsAt(Split(span, pauses), t) = {presence(p.start)}
      BY <1>0, <2>1, <2>10, <3>1, <3>2, <3>3, CoalesceKinds, TilingFacts
    <3>5. /\ p.start \in Int /\ p.end \in Int /\ p.start <= t /\ t < p.end
          /\ span.start <= p.start /\ p.end <= span.end
          /\ \A c \in cuts : c <= p.start \/ p.end <= c
      BY <2>4, <2>5, <3>2, <3>3 DEF Within, Partition
    <3>6. \A q \in pauses : Within(p.start, q) <=> Within(t, q)
      <4> TAKE q \in pauses
      <4>1. q.start \in Int /\ q.end \in Int
        BY DEF PauseSet
      <4>2. ~ (p.start < q.start /\ q.start <= t)
        BY <1>0, <2>3, <3>1, <3>5, <4>1 DEF Within
      <4>3. ~ (p.start < q.end /\ q.end <= t)
        BY <1>0, <2>3, <3>1, <3>5, <4>1 DEF Within
      <4> QED
        BY <3>5, <4>1, <4>2, <4>3 DEF Within
    <3>7. Paused(pauses, p.start) <=> Paused(pauses, t)
      BY <3>6 DEF Paused
    <3> QED
      BY <3>4, <3>7 DEF presence
  <2> QED
    BY <1>2, <2>11, <2>12 DEF presence
<1> QED
  BY <1>1, <1>2

\* A tiling whose every span is tiled in turn.
LEMMA UnionFacts ==
  ASSUME NEW from \in Int, NEW to \in Int, NEW runs, Tiling(runs, from, to),
         NEW pauses, PauseSet(pauses)
  PROVE  LET all == UNION {Split(run, pauses) : run \in runs}
         IN /\ Tiling(all, from, to)
            /\ \A run \in runs : \A t \in Int : Within(t, run) =>
                 KindsAt(all, t) = KindsAt(Split(run, pauses), t)
<1> DEFINE all == UNION {Split(run, pauses) : run \in runs}
<1>0. runs \in SUBSET SpanSet
  BY DEF Tiling
<1>1. /\ \A s \in runs : /\ s.start \in Int /\ s.end \in Int
                         /\ from <= s.start /\ s.start < s.end /\ s.end <= to
      /\ \A t \in Int : from <= t /\ t < to => \E s \in runs : Within(t, s)
      /\ \A r, s \in runs : r = s \/ r.end <= s.start \/ s.end <= r.start
  BY TilingFacts
<1>2. \A run \in runs : Tiling(Split(run, pauses), run.start, run.end)
  BY <1>0, <1>1, SplitFacts
<1>3. \A run \in runs : \A s \in Split(run, pauses) :
        /\ s \in SpanSet /\ s.start \in Int /\ s.end \in Int
        /\ run.start <= s.start /\ s.start < s.end /\ s.end <= run.end
  BY <1>1, <1>2, TilingFacts DEF Tiling
<1>4. \A s \in all : \E run \in runs : s \in Split(run, pauses)
  OBVIOUS
<1>5. \A run \in runs : \A s \in Split(run, pauses) : s \in all
  OBVIOUS
<1> HIDE DEF all
<1>6. \A s \in all : from <= s.start /\ s.start < s.end /\ s.end <= to
  <2> TAKE s \in all
  <2>1. PICK run \in runs : s \in Split(run, pauses)
    BY <1>4
  <2> QED
    BY <1>1, <1>3, <2>1
<1>7. \A t \in from..(to - 1) : \E s \in all : Within(t, s)
  <2> TAKE t \in from..(to - 1)
  <2>1. t \in Int /\ from <= t /\ t < to
    OBVIOUS
  <2>2. PICK run \in runs : Within(t, run)
    BY <1>1, <2>1
  <2>3. run.start <= t /\ t < run.end
    BY <2>2 DEF Within
  <2>4. run.start \in Int /\ run.end \in Int /\ Tiling(Split(run, pauses), run.start, run.end)
    BY <1>1, <1>2
  <2>5. PICK s \in Split(run, pauses) : Within(t, s)
    BY <2>1, <2>3, <2>4, TilingFacts
  <2> QED
    BY <1>5, <2>5
<1>8. \A r, s \in all : r # s => r.end <= s.start \/ s.end <= r.start
  <2> TAKE r \in all, s \in all
  <2> HAVE r # s
  <2>1. PICK p \in runs : r \in Split(p, pauses)
    BY <1>4
  <2>2. PICK q \in runs : s \in Split(q, pauses)
    BY <1>4
  <2>3. CASE p = q
    <3>1. Tiling(Split(p, pauses), p.start, p.end) /\ p.start \in Int /\ p.end \in Int
      BY <1>1, <1>2
    <3> QED
      BY <2>1, <2>2, <2>3, <3>1, TilingFacts
  <2>4. CASE p # q
    <3>1. p.end <= q.start \/ q.end <= p.start
      BY <1>1, <2>4
    <3>2. r.start \in Int /\ r.end \in Int /\ p.start <= r.start /\ r.end <= p.end
      BY <1>3, <2>1
    <3>3. s.start \in Int /\ s.end \in Int /\ q.start <= s.start /\ s.end <= q.end
      BY <1>3, <2>2
    <3>4. p.start \in Int /\ p.end \in Int /\ q.start \in Int /\ q.end \in Int
      BY <1>1
    <3> QED
      BY <3>1, <3>2, <3>3, <3>4
  <2> QED
    BY <2>3, <2>4
<1>9. Partition(all, from, to)
  BY <1>6, <1>7, <1>8 DEF Partition
<1>10. Tiling(all, from, to)
  BY <1>3, <1>4, <1>9 DEF Tiling
<1>11. ASSUME NEW run \in runs, NEW t \in Int, Within(t, run)
       PROVE  KindsAt(all, t) = KindsAt(Split(run, pauses), t)
  <2>1. run.start <= t /\ t < run.end
    BY <1>11 DEF Within
  <2>2. run.start \in Int /\ run.end \in Int /\ Tiling(Split(run, pauses), run.start, run.end)
    BY <1>1, <1>2
  <2>3. PICK s \in Split(run, pauses) : Within(t, s)
    BY <2>1, <2>2, TilingFacts
  <2>4. KindsAt(Split(run, pauses), t) = {s.kind}
    BY <2>2, <2>3, TilingFacts
  <2>5. KindsAt(all, t) = {s.kind}
    BY <1>5, <1>10, <2>3, TilingFacts
  <2> QED
    BY <2>4, <2>5
<1> QED
  BY <1>10, <1>11 DEF all

\* Clipping keeps a partition of what is inside, and its kinds.
LEMMA ClipFacts ==
  ASSUME NEW from \in Int, NEW to \in Int, NEW spans, Tiling(spans, from, to),
         NEW a \in Int, NEW b \in Int, from <= a, b <= to
  PROVE  /\ Tiling(Clip(spans, a, b), a, b)
         /\ \A t \in Int : a <= t /\ t < b => KindsAt(Clip(spans, a, b), t) = KindsAt(spans, t)
<1> DEFINE part(s) == [s EXCEPT !.start = Max({@, a}), !.end = Min({@, b})]
           C == Clip(spans, a, b)
<1>0. spans \in SUBSET SpanSet
  BY DEF Tiling
<1>1. /\ \A s \in spans : /\ s.start \in Int /\ s.end \in Int
                          /\ from <= s.start /\ s.start < s.end /\ s.end <= to
      /\ \A t \in Int : from <= t /\ t < to => \E s \in spans : Within(t, s)
      /\ \A r, s \in spans : r = s \/ r.end <= s.start \/ s.end <= r.start
  BY TilingFacts
<1>2. \A s \in spans : /\ part(s) \in SpanSet
                       /\ part(s).start = IF s.start >= a THEN s.start ELSE a
                       /\ part(s).end = IF s.end <= b THEN s.end ELSE b
                       /\ part(s).kind = s.kind
  <2> TAKE s \in spans
  <2> DEFINE x == Max({s.start, a})
             y == Min({s.end, b})
  <2>1. x = IF s.start >= a THEN s.start ELSE a
    BY <1>1, MaxOfTwo
  <2>2. y = IF s.end <= b THEN s.end ELSE b
    BY <1>1, MinOfTwo
  <2>3. x \in Int /\ y \in Int
    BY <1>1, <2>1, <2>2
  <2>4. part(s) = [s EXCEPT !.start = x, !.end = y]
    OBVIOUS
  <2>5. s \in [start : Int, end : Int, kind : Kinds]
    BY <1>0 DEF SpanSet
  <2> HIDE DEF x, y, part
  <2>6. /\ part(s) \in SpanSet /\ part(s).start = x /\ part(s).end = y /\ part(s).kind = s.kind
    BY <2>3, <2>4, <2>5 DEF SpanSet
  <2> QED
    BY <2>1, <2>2, <2>6
<1>3. \A c \in C : (\E s \in spans : c = part(s)) /\ c.start < c.end
  BY DEF Clip
<1>4. \A s \in spans : part(s).start < part(s).end => part(s) \in C
  BY DEF Clip
<1> HIDE DEF part, C
<1>5. \A c \in C : a <= c.start /\ c.start < c.end /\ c.end <= b
  <2> TAKE c \in C
  <2>1. PICK s \in spans : c = part(s)
    BY <1>3
  <2> QED
    BY <1>1, <1>2, <1>3, <2>1
<1>6. ASSUME NEW t \in Int, a <= t, t < b, NEW s \in spans, Within(t, s)
      PROVE  part(s) \in C /\ Within(t, part(s))
  <2>1. s.start <= t /\ t < s.end
    BY <1>6 DEF Within
  <2>2. part(s).start <= t /\ t < part(s).end
    BY <1>1, <1>2, <1>6, <2>1
  <2>3. part(s).start \in Int /\ part(s).end \in Int
    BY <1>1, <1>2
  <2> QED
    BY <1>4, <2>2, <2>3 DEF Within
<1>7. \A t \in a..(b - 1) : \E c \in C : Within(t, c)
  <2> TAKE t \in a..(b - 1)
  <2>1. t \in Int /\ a <= t /\ t < b /\ from <= t /\ t < to
    OBVIOUS
  <2>2. PICK s \in spans : Within(t, s)
    BY <1>1, <2>1
  <2> QED
    BY <1>6, <2>1, <2>2
<1>8. \A c, d \in C : c # d => c.end <= d.start \/ d.end <= c.start
  <2> TAKE c \in C, d \in C
  <2> HAVE c # d
  <2>1. PICK r \in spans : c = part(r)
    BY <1>3
  <2>2. PICK s \in spans : d = part(s)
    BY <1>3
  <2>3. r.end <= s.start \/ s.end <= r.start
    BY <1>1, <2>1, <2>2
  <2> QED
    BY <1>1, <1>2, <2>1, <2>2, <2>3
<1>9. Tiling(C, a, b)
  <2>1. C \in SUBSET SpanSet
    BY <1>2, <1>3
  <2> QED
    BY <1>5, <1>7, <1>8, <2>1 DEF Tiling, Partition
<1>10. ASSUME NEW t \in Int, a <= t, t < b PROVE KindsAt(C, t) = KindsAt(spans, t)
  <2>1. PICK s \in spans : Within(t, s)
    BY <1>1, <1>10
  <2>2. part(s) \in C /\ Within(t, part(s))
    BY <1>6, <1>10, <2>1
  <2>3. KindsAt(C, t) = {part(s).kind}
    BY <1>9, <2>2, TilingFacts
  <2>4. KindsAt(spans, t) = {s.kind}
    BY <2>1, TilingFacts
  <2> QED
    BY <1>2, <2>3, <2>4
<1> QED
  BY <1>9, <1>10 DEF C

-----------------------------------------------------------------------------
(* What a state's views are made of.                                         *)

\* Windows with ends.
Interval(w) == w.start \in Int /\ w.end \in Int

\* What a state holds, in the words of these lemmas.
LEMMA StateFacts ==
  ASSUME TypeOK
  PROVE  /\ now \in Int /\ Beats \subseteq Int /\ Offset \in Int /\ Padding \in Int /\ Padding >= 0
         /\ \A s \in Known : Interval(Life(s)) /\ PauseSet(Idles(s))
         /\ \A d \in Int : Interval(DayWindow(d))
<1>0. /\ Offset \in Int /\ Padding \in Int /\ Padding >= 0 /\ Day \in Int
  BY TimeAssumption
<1>1. now \in Int
  BY TimeAssumption DEF TypeOK
<1>2. Beats \subseteq Int
  <2>1. \A b \in beats : NormalizeLocal(b) \in Int
    BY <1>0 DEF TypeOK, NormalizeLocal
  <2> QED
    BY <2>1 DEF Beats
<1>4. ASSUME NEW s \in Known PROVE Interval(Life(s))
  <2>1. sessions[s] \in [login : Int, logout : Int \union {Null}]
    BY DEF TypeOK, Known
  <2>2. sessions[s].login \in Int /\ sessions[s].logout \in Int \union {Null}
    BY <2>1
  <2>3. NormalizeLocal(sessions[s].login) \in Int /\ Until(sessions[s].logout) \in Int
    BY <1>0, <1>1, <2>2 DEF NormalizeLocal, Until
  <2> QED
    BY <2>3 DEF Interval, Life
<1>5. ASSUME NEW s \in Known PROVE PauseSet(Idles(s))
  <2> SUFFICES ASSUME NEW i \in IdleId, idles[i] # Null
               PROVE  NormalizeLocal(idles[i].start) \in Int /\ Until(idles[i].end) \in Int
    BY DEF PauseSet, Idles
  <2>1. idles[i] \in [session : SessionId, start : Int, end : Int \union {Null}]
    BY DEF TypeOK
  <2>2. idles[i].start \in Int /\ idles[i].end \in Int \union {Null}
    BY <2>1
  <2> QED
    BY <1>0, <1>1, <2>2 DEF NormalizeLocal, Until
<1>6. ASSUME NEW d \in Int PROVE Interval(DayWindow(d))
  <2>1. d * Day \in Int /\ (d + 1) * Day \in Int
    BY <1>0
  <2>2. NormalizeLocal(d * Day) \in Int /\ NormalizeLocal((d + 1) * Day) \in Int
    BY <1>0, <2>1 DEF NormalizeLocal
  <2>3. Min({NormalizeLocal((d + 1) * Day), now}) \in Int
    BY <1>1, <2>2, MinOfTwo
  <2> QED
    BY <2>2, <2>3 DEF Interval, DayWindow
<1> QED
  BY <1>0, <1>1, <1>2, <1>4, <1>5, <1>6

\* The ends of what two windows have in common.
LEMMA MeetFacts ==
  ASSUME NEW a, NEW b, Interval(a), Interval(b)
  PROVE  /\ Interval(Meet(a, b))
         /\ Meet(a, b).start = IF a.start >= b.start THEN a.start ELSE b.start
         /\ Meet(a, b).end = IF a.end <= b.end THEN a.end ELSE b.end
<1>1. /\ Meet(a, b).start = Max({a.start, b.start})
      /\ Meet(a, b).end = Min({a.end, b.end})
  BY DEF Meet
<1>2. a.start \in Int /\ b.start \in Int /\ a.end \in Int /\ b.end \in Int
  BY DEF Interval
<1>3. Max({a.start, b.start}) = IF a.start >= b.start THEN a.start ELSE b.start
  BY <1>2, MaxOfTwo
<1>4. Min({a.end, b.end}) = IF a.end <= b.end THEN a.end ELSE b.end
  BY <1>2, MinOfTwo
<1> QED
  BY <1>1, <1>2, <1>3, <1>4 DEF Interval

\* What a view classifies and shows of a session.
ShownIn(s, window) == Meet(window, Life(s))
Seen(s, window) == Padded(ShownIn(s, window), Life(s))
Raw(s, window) == Segments(Beats, Seen(s, window).start, Seen(s, window).end)

\* How a view, its padded window and the life of the session lie to each other.
LEMMA SeenFacts ==
  ASSUME TypeOK, NEW s \in Known, NEW window, Interval(window), ~ Empty(ShownIn(s, window))
  PROVE  /\ Interval(ShownIn(s, window)) /\ Interval(Seen(s, window)) /\ Interval(Life(s))
         /\ ShownIn(s, window).start < ShownIn(s, window).end
         /\ Life(s).start <= Seen(s, window).start /\ Seen(s, window).end <= Life(s).end
         /\ Seen(s, window).start <= ShownIn(s, window).start
         /\ ShownIn(s, window).end <= Seen(s, window).end
         /\ Seen(s, window).start = Life(s).start \/
              Seen(s, window).start = ShownIn(s, window).start - Padding
         /\ Seen(s, window).end = Life(s).end \/
              Seen(s, window).end = ShownIn(s, window).end + Padding
         /\ ShownIn(s, window).start = window.start \/ ShownIn(s, window).start = Life(s).start
         /\ Runs(Raw(s, window), Seen(s, window).start, Seen(s, window).end)
<1> DEFINE shown == ShownIn(s, window)
           seen == Seen(s, window)
           life == Life(s)
           padded == [start |-> shown.start - Padding, end |-> shown.end + Padding]
<1>0. Interval(life) /\ Padding \in Int /\ Padding >= 0 /\ Beats \subseteq Int
  BY StateFacts
<1>1. seen = Meet(life, padded) /\ shown = Meet(window, life)
  BY DEF Seen, Padded, ShownIn
<1> HIDE DEF seen, life, shown
<1>2. /\ Interval(shown)
      /\ shown.start = IF window.start >= life.start THEN window.start ELSE life.start
      /\ shown.end = IF window.end <= life.end THEN window.end ELSE life.end
  BY <1>0, <1>1, MeetFacts
<1>3. /\ padded.start = shown.start - Padding /\ padded.end = shown.end + Padding
      /\ Interval(padded)
  BY <1>0, <1>2 DEF Interval
<1> HIDE DEF padded
<1>4. /\ Interval(seen)
      /\ seen.start = IF life.start >= padded.start THEN life.start ELSE padded.start
      /\ seen.end = IF life.end <= padded.end THEN life.end ELSE padded.end
  BY <1>0, <1>1, <1>3, MeetFacts
<1>5. shown.start < shown.end
  BY <1>2 DEF Empty, Interval, shown
<1>6. /\ life.start <= seen.start /\ seen.end <= life.end
      /\ seen.start <= shown.start /\ shown.end <= seen.end
      /\ seen.start = life.start \/ seen.start = shown.start - Padding
      /\ seen.end = life.end \/ seen.end = shown.end + Padding
      /\ shown.start = window.start \/ shown.start = life.start
  BY <1>0, <1>2, <1>3, <1>4, <1>5 DEF Interval
<1>7. seen.start \in Int /\ seen.end \in Int /\ seen.start < seen.end
  BY <1>2, <1>4, <1>5, <1>6 DEF Interval
<1>8. Runs(Raw(s, window), seen.start, seen.end)
  BY <1>0, <1>7, SegmentsFacts DEF Raw, seen
<1> QED
  BY <1>0, <1>2, <1>4, <1>5, <1>6, <1>8 DEF shown, seen, life

\* A view tiles what it shows; an instant that is sure is IDLE or ACTIVE, and any other
\* one is what the classifier says.
LEMMA BuildFacts ==
  ASSUME TypeOK, NEW s \in Known, NEW window, Interval(window)
  PROVE  /\ Empty(ShownIn(s, window)) => Build(s, window) = {}
         /\ ~ Empty(ShownIn(s, window)) =>
              /\ Tiling(Build(s, window), ShownIn(s, window).start, ShownIn(s, window).end)
              /\ \A t \in Int : ShownIn(s, window).start <= t /\ t < ShownIn(s, window).end =>
                   IF Sure(Raw(s, window), t)
                   THEN KindsAt(Build(s, window), t) =
                          {IF Paused(Idles(s), t) THEN "IDLE" ELSE "ACTIVE"}
                   ELSE /\ KindsAt(Build(s, window), t) = KindsAt(Classified(Seen(s, window)), t)
                        /\ \E k \in {"OFF_SESSION", "MONITORING_GAP"} :
                             KindsAt(Build(s, window), t) = {k}
<1>1. Empty(ShownIn(s, window)) => Build(s, window) = {}
  BY DEF Build, ShownIn
<1>2. SUFFICES ASSUME ~ Empty(ShownIn(s, window))
      PROVE /\ Tiling(Build(s, window), ShownIn(s, window).start, ShownIn(s, window).end)
            /\ \A t \in Int : ShownIn(s, window).start <= t /\ t < ShownIn(s, window).end =>
                   IF Sure(Raw(s, window), t)
                   THEN KindsAt(Build(s, window), t) =
                          {IF Paused(Idles(s), t) THEN "IDLE" ELSE "ACTIVE"}
                   ELSE /\ KindsAt(Build(s, window), t) = KindsAt(Classified(Seen(s, window)), t)
                        /\ \E k \in {"OFF_SESSION", "MONITORING_GAP"} :
                             KindsAt(Build(s, window), t) = {k}
  BY <1>1
<1> DEFINE from == Seen(s, window).start
           to == Seen(s, window).end
           a == ShownIn(s, window).start
           b == ShownIn(s, window).end
           raw == Raw(s, window)
           runs == Classified(Seen(s, window))
           pauses == Idles(s)
           all == UNION {Split(run, pauses) : run \in runs}
           B == Build(s, window)
<1>3. /\ from \in Int /\ to \in Int /\ a \in Int /\ b \in Int
      /\ from <= a /\ a < b /\ b <= to
      /\ Life(s).start <= from /\ to <= Life(s).end
      /\ Life(s).start \in Int /\ Life(s).end \in Int
      /\ Runs(raw, from, to)
  BY <1>2, SeenFacts DEF Interval
<1>4. ~ Empty(Life(s))
  BY <1>3 DEF Empty
<1>5. B = Clip(all, a, b)
  BY <1>2, <1>4 DEF Build, ShownIn, Seen
<1>6. runs = Classify(raw)
  BY DEF Classified, Raw
<1>7. PauseSet(pauses)
  BY StateFacts
<1> HIDE DEF from, to, a, b, raw, runs, pauses, B
<1>8. Tiling(raw, from, to)
  BY <1>3 DEF Runs
<1>9. /\ Tiling(runs, from, to)
      /\ \A c \in runs : c.kind \in {"monitored", "OFF_SESSION", "MONITORING_GAP"}
      /\ \A t \in Int : from <= t /\ t < to => (KindsAt(runs, t) = {"monitored"} <=> Sure(raw, t))
  BY <1>3, <1>6, <1>8, ClassifyFacts
<1>10. /\ Tiling(all, from, to)
       /\ \A run \in runs : \A t \in Int : Within(t, run) =>
            KindsAt(all, t) = KindsAt(Split(run, pauses), t)
  BY <1>3, <1>7, <1>9, UnionFacts
<1> HIDE DEF all
<1>11. /\ Tiling(B, a, b)
       /\ \A t \in Int : a <= t /\ t < b => KindsAt(B, t) = KindsAt(all, t)
  BY <1>3, <1>5, <1>10, ClipFacts
<1>12. ASSUME NEW t \in Int, a <= t, t < b
       PROVE  IF Sure(raw, t)
              THEN KindsAt(B, t) = {IF Paused(pauses, t) THEN "IDLE" ELSE "ACTIVE"}
              ELSE /\ KindsAt(B, t) = KindsAt(runs, t)
                   /\ \E k \in {"OFF_SESSION", "MONITORING_GAP"} : KindsAt(B, t) = {k}
  <2>1. from <= t /\ t < to
    BY <1>3, <1>12
  <2>2. PICK r \in runs : Within(t, r)
    BY <1>3, <1>9, <2>1, TilingFacts
  <2>3. r \in SpanSet /\ r.start < r.end /\ r.start \in Int /\ r.end \in Int
    BY <1>3, <1>9, TilingFacts DEF Tiling
  <2>4. KindsAt(runs, t) = {r.kind}
    BY <1>3, <1>9, <2>2, TilingFacts
  <2>5. KindsAt(Split(r, pauses), t) =
          IF r.kind # "monitored" THEN {r.kind}
          ELSE {IF Paused(pauses, t) THEN "IDLE" ELSE "ACTIVE"}
    BY <1>7, <2>2, <2>3, SplitFacts
  <2>6. KindsAt(B, t) = KindsAt(Split(r, pauses), t)
    BY <1>10, <1>11, <1>12, <2>2
  <2>7. Sure(raw, t) <=> r.kind = "monitored"
    <3>1. {r.kind} = {"monitored"} <=> Sure(raw, t)
      BY <1>9, <2>1, <2>4
    <3> QED
      BY <3>1
  <2>8. r.kind # "monitored" => r.kind \in {"OFF_SESSION", "MONITORING_GAP"}
    BY <1>9
  <2>9. CASE Sure(raw, t)
    BY <2>5, <2>6, <2>7, <2>9
  <2>10. CASE ~ Sure(raw, t)
    BY <2>4, <2>5, <2>6, <2>7, <2>8, <2>10
  <2> QED
    BY <2>9, <2>10
<1> QED
  BY <1>11, <1>12 DEF a, b, B, raw, runs, pauses

-----------------------------------------------------------------------------
(* Types and partitions.                                                     *)

\* The inductive form of TypeOK: what it says of each row of the tables.
Ahead(time) == time # Null /\ time - Offset > now

\* The invariant of the tables.
TypeInv ==
  /\ now \in 0..MaxTime
  /\ \A b \in beats : b \in Int /\ b - Offset <= now
  /\ sessions \in [SessionId -> [login : Int, logout : Int \union {Null}] \union {Null}]
  /\ \A s \in SessionId : sessions[s] # Null =>
       ~ Ahead(sessions[s].login) /\ ~ Ahead(sessions[s].logout)
  /\ idles \in [IdleId -> [session : SessionId, start : Int, end : Int \union {Null}] \union {Null}]
  /\ \A i \in IdleId : idles[i] # Null =>
       /\ ~ Ahead(idles[i].start) /\ ~ Ahead(idles[i].end)
       /\ sessions[idles[i].session] # Null

\* The types follow from the invariant.
LEMMA TypeInvImplies == TypeInv => TypeOK
<1> SUFFICES ASSUME TypeInv PROVE TypeOK
  OBVIOUS
<1>0. Offset \in Int /\ MaxTime \in Nat /\ Null \notin Int
  BY TimeAssumption
<1>1. now \in Int /\ now \in 0..MaxTime
  BY <1>0 DEF TypeInv
<1>2. \A b \in beats : b \in Int /\ NormalizeLocal(b) <= now
  BY DEF TypeInv, NormalizeLocal
<1>3. ASSUME NEW s \in Known PROVE Life(s).start <= now /\ Life(s).end <= now
  <2>1. sessions[s] \in [login : Int, logout : Int \union {Null}]
    BY DEF TypeInv, Known
  <2>2. sessions[s].login \in Int /\ sessions[s].logout \in Int \union {Null}
    BY <2>1
  <2>3. ~ Ahead(sessions[s].login) /\ ~ Ahead(sessions[s].logout)
    BY DEF TypeInv, Known
  <2>4. NormalizeLocal(sessions[s].login) <= now /\ Until(sessions[s].logout) <= now
    BY <1>0, <1>1, <2>2, <2>3 DEF NormalizeLocal, Until, Ahead
  <2> QED
    BY <2>4 DEF Life
<1>4. ASSUME NEW i \in IdleId, idles[i] # Null
      PROVE  /\ idles[i].session \in Known
             /\ NormalizeLocal(idles[i].start) <= now /\ Until(idles[i].end) <= now
  <2>1. idles[i] \in [session : SessionId, start : Int, end : Int \union {Null}]
    BY <1>4 DEF TypeInv
  <2>2. idles[i].start \in Int /\ idles[i].end \in Int \union {Null} /\ idles[i].session \in SessionId
    BY <2>1
  <2>3. /\ ~ Ahead(idles[i].start) /\ ~ Ahead(idles[i].end)
        /\ sessions[idles[i].session] # Null
    BY <1>4 DEF TypeInv
  <2> QED
    BY <1>0, <1>1, <2>2, <2>3 DEF NormalizeLocal, Until, Ahead, Known
<1>5. \A s \in Known : \A pause \in Idles(s) : pause.start <= now /\ pause.end <= now
  BY <1>4 DEF Idles
<1>6. /\ sessions \in [SessionId -> [login : Int, logout : Int \union {Null}] \union {Null}]
      /\ idles \in [IdleId -> [session : SessionId, start : Int, end : Int \union {Null}] \union {Null}]
  BY DEF TypeInv
<1> QED
  BY <1>1, <1>2, <1>3, <1>4, <1>5, <1>6 DEF TypeOK

\* Every step keeps the invariant.
LEMMA TypeInvStep == TypeInv /\ [Next]_vars => TypeInv'
<1> SUFFICES ASSUME TypeInv, [Next]_vars PROVE TypeInv'
  OBVIOUS
<1>0. /\ Offset \in Int /\ MaxTime \in Nat /\ Null \notin Int
      /\ \A s \in SessionId :
           SessionReport[s] \subseteq [login : Int, logout : Int \union {Null}] \ {Null}
      /\ \A i \in IdleId :
           IdleReport[i] \subseteq [session : SessionId, start : Int, end : Int \union {Null}]
  BY TimeAssumption, ReportAssumption DEF SessionId, IdleId
<1>1. now \in Int
  BY <1>0 DEF TypeInv
<1>2. CASE Tick
  <2>1. now' = now + 1 /\ now' \in 0..MaxTime /\ UNCHANGED <<beats, sessions, idles>>
    BY <1>0, <1>1, <1>2 DEF Tick, TypeInv
  <2>2. \A time \in Int \union {Null} : ~ Ahead(time) => ~ Ahead(time)'
    BY <1>0, <1>1, <2>1 DEF Ahead
  <2>3. \A b \in beats : b \in Int /\ b - Offset <= now'
    BY <1>0, <1>1, <2>1 DEF TypeInv
  <2>4. ASSUME NEW s \in SessionId, sessions[s] # Null
        PROVE  (~ Ahead(sessions[s].login) /\ ~ Ahead(sessions[s].logout))'
    <3>1. sessions[s] \in [login : Int, logout : Int \union {Null}]
      BY <2>4 DEF TypeInv
    <3>2. sessions[s].login \in Int /\ sessions[s].logout \in Int \union {Null}
      BY <3>1
    <3>3. ~ Ahead(sessions[s].login) /\ ~ Ahead(sessions[s].logout)
      BY <2>4 DEF TypeInv
    <3> QED
      BY <1>0, <1>1, <2>1, <3>2, <3>3 DEF Ahead
  <2>5. ASSUME NEW i \in IdleId, idles[i] # Null
        PROVE  (~ Ahead(idles[i].start) /\ ~ Ahead(idles[i].end))'
    <3>1. idles[i] \in [session : SessionId, start : Int, end : Int \union {Null}]
      BY <2>5 DEF TypeInv
    <3>2. idles[i].start \in Int /\ idles[i].end \in Int \union {Null}
      BY <3>1
    <3>3. ~ Ahead(idles[i].start) /\ ~ Ahead(idles[i].end)
      BY <2>5 DEF TypeInv
    <3> QED
      BY <1>0, <1>1, <2>1, <3>2, <3>3 DEF Ahead
  <2> QED
    BY <2>1, <2>3, <2>4, <2>5 DEF TypeInv, SessionId, IdleId
<1>3. CASE Heartbeat
  <2>1. UNCHANGED <<now, sessions, idles>> /\ beats' = beats \union {Wall(now)}
    BY <1>3 DEF Heartbeat
  <2>2. Wall(now) \in Int /\ Wall(now) - Offset <= now
    BY <1>0, <1>1 DEF Wall
  <2> QED
    BY <2>1, <2>2 DEF TypeInv, Ahead, SessionId, IdleId
<1>4. ASSUME NEW s \in SessionId, ReportSession(s) PROVE TypeInv'
  <2>1. PICK report \in SessionReport[s] :
          /\ Past(report.login) /\ Past(report.logout)
          /\ sessions' = [sessions EXCEPT ![s] = report]
          /\ UNCHANGED <<now, beats, idles>>
    BY <1>4 DEF ReportSession
  <2>2. report \in [login : Int, logout : Int \union {Null}] /\ report # Null
    BY <1>0
  <2>3. report.login \in Int /\ report.logout \in Int \union {Null}
    BY <2>2
  <2>4. ~ Ahead(report.login) /\ ~ Ahead(report.logout)
    BY <1>0, <1>1, <2>1, <2>3 DEF Ahead, Past, Wall
  <2> QED
    BY <2>1, <2>2, <2>4 DEF TypeInv, Ahead, SessionId, IdleId
<1>5. ASSUME NEW i \in IdleId, ReportIdle(i) PROVE TypeInv'
  <2>1. PICK report \in IdleReport[i] :
          /\ report.session \in Known
          /\ Past(report.start) /\ Past(report.end)
          /\ idles' = [idles EXCEPT ![i] = report]
          /\ UNCHANGED <<now, beats, sessions>>
    BY <1>5 DEF ReportIdle
  <2>2. report \in [session : SessionId, start : Int, end : Int \union {Null}]
    BY <1>0
  <2>3. report.start \in Int /\ report.end \in Int \union {Null}
    BY <2>2
  <2>4. ~ Ahead(report.start) /\ ~ Ahead(report.end)
    BY <1>0, <1>1, <2>1, <2>3 DEF Ahead, Past, Wall
  <2>5. sessions[report.session] # Null
    BY <2>1 DEF Known
  <2> QED
    BY <2>1, <2>2, <2>4, <2>5 DEF TypeInv, Ahead, SessionId, IdleId
<1>6. CASE UNCHANGED vars
  BY <1>6 DEF vars, TypeInv, Ahead, SessionId, IdleId
<1> QED
  BY <1>2, <1>3, <1>4, <1>5, <1>6 DEF Next

\* What the tables hold has its types, and nothing in them lies ahead.
THEOREM TypeCorrect == Spec => []TypeOK
<1>1. Init => TypeInv
  BY TimeAssumption DEF Init, TypeInv, SessionId, IdleId
<1> QED
  BY <1>1, TypeInvStep, TypeInvImplies, PTL DEF Spec

\* What a session shows for a day is a partition of it, and so no instant is missing
\* or counted twice.
LEMMA TypeOKPartitioned == TypeOK => Partitioned
<1> SUFFICES ASSUME TypeOK, NEW s \in Known, NEW d \in Days
             PROVE  Partition(Build(s, DayWindow(d)),
                              ShownIn(s, DayWindow(d)).start, ShownIn(s, DayWindow(d)).end)
  BY DEF Partitioned, ShownIn
<1>1. d \in Int
  BY DEF Days
<1>2. Interval(DayWindow(d))
  BY <1>1, StateFacts
<1>3. CASE ~ Empty(ShownIn(s, DayWindow(d)))
  BY <1>2, <1>3, BuildFacts DEF Tiling
<1>4. CASE Empty(ShownIn(s, DayWindow(d)))
  <2>1. Build(s, DayWindow(d)) = {}
    BY <1>2, <1>4, BuildFacts
  <2>2. Interval(ShownIn(s, DayWindow(d)))
    BY <1>2, StateFacts, MeetFacts DEF ShownIn
  <2>3. Partition({}, ShownIn(s, DayWindow(d)).start, ShownIn(s, DayWindow(d)).end)
    BY <1>4, <2>2 DEF Partition, Empty, Interval
  <2> QED
    BY <2>1, <2>3
<1> QED
  BY <1>3, <1>4

-----------------------------------------------------------------------------
(* The day view.                                                             *)

\* No two sessions overlap.
Disjoint == \A r, s \in Known : r # s => Empty(Meet(Life(r), Life(s)))

\* The parts of the timeline of a day: the views of its sessions, what is before a session,
\* where the cursor is after some, who is seen, and from when to when.
Built(d, R) == UNION {Build(r, DayWindow(d)) : r \in R}
Earlier(d, s) == {r \in SessionsOf(d) : sessions[r].login < sessions[s].login}
CursorAfter(d, R) == Cursor(DayWindow(d), Built(d, R))
Visible(d) == {s \in Known : ~ Empty(ShownIn(s, DayWindow(d)))}
From(d, s) == ShownIn(s, DayWindow(d)).start
To(d, s) == ShownIn(s, DayWindow(d)).end

\* The timeline of a day that has begun.
LEMMA DayTimelineIs ==
  ASSUME NEW d, ~ Empty(DayWindow(d))
  PROVE  DayTimeline(d) =
           (UNION {Extended(CursorAfter(d, Earlier(d, s)), s, Build(s, DayWindow(d))) : s \in SessionsOf(d)})
             \union Closed(CursorAfter(d, SessionsOf(d)), DayWindow(d).end)
<1> DEFINE window == DayWindow(d)
           built == [s \in SessionsOf(d) |-> Build(s, window)]
           Before(s) == {r \in SessionsOf(d) : sessions[r].login < sessions[s].login}
           After(S) == Cursor(window, UNION {built[r] : r \in S})
<1>1. DayTimeline(d) =
        (UNION {Extended(After(Before(s)), s, built[s]) : s \in SessionsOf(d)})
          \union Closed(After(SessionsOf(d)), window.end)
  BY DEF DayTimeline
<1>2. \A R : R \subseteq SessionsOf(d) => After(R) = CursorAfter(d, R)
  <2> TAKE R
  <2> HAVE R \subseteq SessionsOf(d)
  <2>1. \A r \in R : built[r] = Build(r, window)
    OBVIOUS
  <2> HIDE DEF built
  <2>2. {built[r] : r \in R} = {Build(r, window) : r \in R}
    BY <2>1
  <2>3. UNION {built[r] : r \in R} = UNION {Build(r, window) : r \in R}
    BY <2>2
  <2> QED
    BY <2>3 DEF CursorAfter, Built
<1>3. \A s \in SessionsOf(d) : Before(s) = Earlier(d, s) /\ built[s] = Build(s, window)
  BY DEF Earlier
<1>4. \A s : Earlier(d, s) \subseteq SessionsOf(d)
  BY DEF Earlier
<1> HIDE DEF built, Before, After
<1>5. \A s \in SessionsOf(d) :
        Extended(After(Before(s)), s, built[s]) =
          Extended(CursorAfter(d, Earlier(d, s)), s, Build(s, DayWindow(d)))
  BY <1>2, <1>3, <1>4
<1>6. After(SessionsOf(d)) = CursorAfter(d, SessionsOf(d))
  BY <1>2
<1>7. {Extended(After(Before(s)), s, built[s]) : s \in SessionsOf(d)} =
        {Extended(CursorAfter(d, Earlier(d, s)), s, Build(s, DayWindow(d))) : s \in SessionsOf(d)}
  BY <1>5
<1> QED
  BY <1>1, <1>6, <1>7

\* The facts about visible sessions on which the view is built.
LEMMA VisibleFacts ==
  ASSUME TypeOK, NEW d \in Int, NEW s \in Visible(d)
  PROVE  /\ s \in SessionsOf(d) /\ s \in Known
         /\ From(d, s) \in Int /\ To(d, s) \in Int /\ From(d, s) < To(d, s)
         /\ DayWindow(d).start <= From(d, s) /\ To(d, s) <= DayWindow(d).end
         /\ Life(s).start <= From(d, s) /\ To(d, s) <= Life(s).end
         /\ \A t \in Int : /\ DayWindow(d).start <= t /\ t < DayWindow(d).end
                           /\ Life(s).start <= t /\ t < Life(s).end
                           => From(d, s) <= t /\ t < To(d, s)
         /\ Tiling(Build(s, DayWindow(d)), From(d, s), To(d, s))
<1> DEFINE window == DayWindow(d)
           life == Life(s)
<1>0. s \in Known /\ ~ Empty(ShownIn(s, window))
  BY DEF Visible
<1>1. Interval(window) /\ Interval(life)
  BY <1>0, StateFacts
<1>2. /\ Interval(ShownIn(s, window))
      /\ ShownIn(s, window).start = IF window.start >= life.start THEN window.start ELSE life.start
      /\ ShownIn(s, window).end = IF window.end <= life.end THEN window.end ELSE life.end
  BY <1>1, MeetFacts DEF ShownIn
<1>3. Tiling(Build(s, window), From(d, s), To(d, s))
  BY <1>0, <1>1, BuildFacts DEF From, To
<1>4. From(d, s) < To(d, s)
  BY <1>0, <1>2 DEF Empty, From, To, Interval
<1>5. /\ window.start = d * Day - Offset
      /\ window.end <= (d + 1) * Day - Offset
      /\ d * Day \in Int /\ (d + 1) * Day \in Int /\ Offset \in Int
  <2>1. Day \in Int /\ Offset \in Int /\ now \in Int
    BY TimeAssumption, StateFacts
  <2>2. d * Day \in Int /\ (d + 1) * Day \in Int
    BY <2>1
  <2>3. window.end = Min({(d + 1) * Day - Offset, now}) /\ window.start = d * Day - Offset
    BY DEF DayWindow, NormalizeLocal
  <2>4. (d + 1) * Day - Offset \in Int
    BY <2>1, <2>2
  <2>5. window.end <= (d + 1) * Day - Offset
    BY <2>1, <2>3, <2>4, MinOfTwo
  <2> QED
    BY <2>1, <2>2, <2>3, <2>5
<1>6. s \in SessionsOf(d)
  <2>1. sessions[s] \in [login : Int, logout : Int \union {Null}]
    BY <1>0 DEF TypeOK, Known
  <2>2. sessions[s].login \in Int /\ sessions[s].logout \in Int \union {Null}
    BY <2>1
  <2>3. life.start = sessions[s].login - Offset
    BY DEF Life, NormalizeLocal
  <2>4. sessions[s].logout # Null => life.end = sessions[s].logout - Offset
    BY DEF Life, NormalizeLocal, Until
  <2> HIDE DEF life, window
  <2>5. life.start < window.end /\ window.start < life.end
    BY <1>1, <1>2, <1>4 DEF From, To, Interval, window
  <2>6. sessions[s].login < (d + 1) * Day
    BY <1>1, <1>5, <2>2, <2>3, <2>5 DEF Interval
  <2>7. sessions[s].logout = Null \/ sessions[s].logout >= d * Day
    <3> DEFINE out == sessions[s].logout
    <3>1. SUFFICES ASSUME out # Null PROVE out >= d * Day
      OBVIOUS
    <3>2. out \in Int /\ life.end = out - Offset
      BY <2>2, <2>4, <3>1
    <3> HIDE DEF out
    <3> QED
      BY <1>1, <1>5, <2>5, <3>2 DEF Interval
  <2> QED
    BY <1>0, <2>6, <2>7 DEF SessionsOf
<1>7. /\ From(d, s) \in Int /\ To(d, s) \in Int
      /\ window.start <= From(d, s) /\ To(d, s) <= window.end
      /\ life.start <= From(d, s) /\ To(d, s) <= life.end
      /\ \A t \in Int : /\ window.start <= t /\ t < window.end
                        /\ life.start <= t /\ t < life.end
                        => From(d, s) <= t /\ t < To(d, s)
  <2> HIDE DEF life, window
  <2> QED
    BY <1>1, <1>2 DEF From, To, Interval, window
<1> QED
  BY <1>0, <1>3, <1>4, <1>6, <1>7

\* The cursor: the end of the last session so far, or the start of the day.
LEMMA CursorFacts ==
  ASSUME TypeOK, NEW d \in Int, ~ Empty(DayWindow(d)), NEW R, R \subseteq SessionsOf(d)
  PROVE  /\ CursorAfter(d, R) \in Int
         /\ DayWindow(d).start <= CursorAfter(d, R)
         /\ \A r \in R \cap Visible(d) : To(d, r) <= CursorAfter(d, R)
         /\ \A x \in Int : /\ DayWindow(d).start <= x
                           /\ \A r \in R \cap Visible(d) : To(d, r) <= x
                           => CursorAfter(d, R) <= x
<1> DEFINE window == DayWindow(d)
           E == {window.start} \union {s.end : s \in Built(d, R)}
<1>0. Interval(window) /\ window.start < window.end
  BY StateFacts DEF Empty, Interval
<1>1. CursorAfter(d, R) = Max(E)
  BY DEF CursorAfter, Cursor
<1>2. \A r \in R : r \in Known
  BY DEF SessionsOf
<1>3. \A r \in R : r \notin Visible(d) => Build(r, window) = {}
  BY <1>0, <1>2, BuildFacts DEF Visible
<1>4. \A r \in R \cap Visible(d) :
        /\ From(d, r) \in Int /\ To(d, r) \in Int /\ From(d, r) < To(d, r)
        /\ To(d, r) <= window.end
        /\ Tiling(Build(r, window), From(d, r), To(d, r))
  BY VisibleFacts
<1>5. \A s \in Built(d, R) : \E r \in R \cap Visible(d) : s.end \in Int /\ s.end <= To(d, r)
  <2> TAKE s \in Built(d, R)
  <2>1. PICK r \in R : s \in Build(r, window)
    BY DEF Built
  <2>2. r \in Visible(d)
    BY <1>3, <2>1
  <2>3. s.end \in Int /\ s.end <= To(d, r)
    BY <1>4, <2>1, <2>2, TilingFacts
  <2> QED
    BY <2>2, <2>3
<1>6. \A r \in R \cap Visible(d) : To(d, r) \in E
  <2> TAKE r \in R \cap Visible(d)
  <2> DEFINE t == To(d, r) - 1
  <2>1. t \in Int /\ From(d, r) <= t /\ t < To(d, r)
    BY <1>4
  <2>2. PICK s \in Build(r, window) : Within(t, s)
    BY <1>4, <2>1, TilingFacts
  <2>3. s.end \in Int /\ s.end <= To(d, r)
    BY <1>4, TilingFacts
  <2>4. s.end = To(d, r)
    BY <1>4, <2>1, <2>2, <2>3 DEF Within
  <2>5. s \in Built(d, R)
    BY DEF Built
  <2> QED
    BY <2>4, <2>5
<1>7. \A e \in E : e = window.start \/ \E r \in R \cap Visible(d) : e \in Int /\ e <= To(d, r)
  BY <1>5
<1>8. window.start \in E
  OBVIOUS
<1> HIDE DEF E
<1>9. \A e \in E : e \in Int /\ e <= window.end
  BY <1>0, <1>4, <1>7 DEF Interval
<1>10. Max(E) \in E /\ Max(E) \in Int /\ \A e \in E : e <= Max(E)
  <2>1. E \subseteq Int /\ E # {} /\ window.end \in Int
    BY <1>0, <1>8, <1>9 DEF Interval
  <2> QED
    BY <1>9, <2>1, MaxFacts
<1>11. ASSUME NEW x \in Int, window.start <= x, \A r \in R \cap Visible(d) : To(d, r) <= x
       PROVE  Max(E) <= x
  BY <1>4, <1>7, <1>10, <1>11
<1> QED
  BY <1>1, <1>6, <1>8, <1>10, <1>11

\* A session that is seen adds its spans and what fills the time before it.
LEMMA ExtendedFacts ==
  ASSUME TypeOK, NEW d \in Int, NEW s \in Visible(d), NEW c
  PROVE  Extended(c, s, Build(s, DayWindow(d))) =
           Closed(c, From(d, s)) \union Owned(s, Build(s, DayWindow(d)))
<1> DEFINE B == Build(s, DayWindow(d))
           S == {r.start : r \in B}
<1>1. /\ From(d, s) \in Int /\ To(d, s) \in Int /\ From(d, s) < To(d, s)
      /\ Tiling(B, From(d, s), To(d, s))
  BY VisibleFacts
<1> HIDE DEF B
<1>2. \A r \in B : /\ r.start \in Int /\ r.end \in Int
                   /\ From(d, s) <= r.start
  BY <1>1, TilingFacts
<1>3. PICK r \in B : Within(From(d, s), r)
  BY <1>1, TilingFacts
<1>4. r.start = From(d, s)
  BY <1>1, <1>2, <1>3 DEF Within
<1>5. From(d, s) \in S
  BY <1>4
<1>6. \A x \in S : x \in Int /\ From(d, s) <= x
  BY <1>2
<1> HIDE DEF S
<1>7. Min(S) \in S /\ Min(S) \in Int /\ \A x \in S : Min(S) <= x
  <2>1. S \subseteq Int /\ S # {}
    BY <1>5, <1>6
  <2> QED
    BY <1>1, <1>6, <2>1, MinFacts
<1>8. Min(S) = From(d, s)
  BY <1>1, <1>5, <1>6, <1>7
<1> QED
  BY <1>3, <1>8 DEF Extended, B, S

\* What the day view consists of: the spans of the visible sessions, and the closed time
\* before each of them and after all.
GapBefore(d, s) == Closed(CursorAfter(d, Earlier(d, s)), From(d, s))
GapAfter(d) == Closed(CursorAfter(d, SessionsOf(d)), DayWindow(d).end)

\* The rows of a day are those of the sessions that are seen and those that fill the gaps.
LEMMA RowsAre ==
  ASSUME TypeOK, NEW d \in Int, ~ Empty(DayWindow(d))
  PROVE  DayTimeline(d) =
           (UNION {GapBefore(d, s) \union Owned(s, Build(s, DayWindow(d))) : s \in Visible(d)})
             \union GapAfter(d)
<1> DEFINE ext(s) == Extended(CursorAfter(d, Earlier(d, s)), s, Build(s, DayWindow(d)))
           rows(s) == GapBefore(d, s) \union Owned(s, Build(s, DayWindow(d)))
<1>1. DayTimeline(d) = (UNION {ext(s) : s \in SessionsOf(d)}) \union GapAfter(d)
  BY DayTimelineIs DEF GapAfter
<1>2. \A s \in Visible(d) : ext(s) = rows(s)
  BY ExtendedFacts DEF GapBefore
<1>3. \A s \in Visible(d) : s \in SessionsOf(d)
  BY VisibleFacts
<1>4. ASSUME NEW s \in SessionsOf(d), s \notin Visible(d) PROVE ext(s) = {}
  <2>1. s \in Known /\ Interval(DayWindow(d))
    BY StateFacts DEF SessionsOf
  <2>2. Build(s, DayWindow(d)) = {}
    BY <1>4, <2>1, BuildFacts DEF Visible
  <2> QED
    BY <2>2 DEF Extended
<1> HIDE DEF ext, rows
<1>5. UNION {ext(s) : s \in SessionsOf(d)} = UNION {rows(s) : s \in Visible(d)}
  <2>1. \A row : (\E s \in SessionsOf(d) : row \in ext(s)) <=> (\E s \in Visible(d) : row \in rows(s))
    BY <1>2, <1>3, <1>4
  <2> QED
    BY <2>1
<1> QED
  BY <1>1, <1>5 DEF rows

\* A span as a row of its session.
OwnRow(s, r) == [owner |-> s, start |-> r.start, end |-> r.end, kind |-> r.kind]

\* Owned makes rows of spans, one of each.
LEMMA OwnedFacts ==
  ASSUME NEW s, NEW spans
  PROVE  /\ \A r : /\ OwnRow(s, r).start = r.start /\ OwnRow(s, r).end = r.end
                   /\ OwnRow(s, r).kind = r.kind
         /\ Owned(s, spans) = {OwnRow(s, r) : r \in spans}
BY DEF Owned, OwnRow

\* What fills a gap is one row, from its begin to its end.
LEMMA ClosedFacts ==
  ASSUME NEW a \in Int, NEW b \in Int
  PROVE  /\ \A row \in Closed(a, b) : /\ row.start = a /\ row.end = b /\ a < b
                                      /\ row.kind = "NO_SESSION"
         /\ \A q, r \in Closed(a, b) : q = r
         /\ a < b => \E row \in Closed(a, b) : row.start = a /\ row.end = b
<1> DEFINE span == Span(a, b, "NO_SESSION")
           row == OwnRow(Null, span)
<1>1. Closed(a, b) = IF a < b THEN {row} ELSE {}
  <2>1. Owned(Null, {span}) = {row}
    BY OwnedFacts
  <2> QED
    BY <2>1 DEF Closed
<1>2. span.start = a /\ span.end = b /\ span.kind = "NO_SESSION"
  BY DEF Span
<1> HIDE DEF span
<1>3. row.start = a /\ row.end = b /\ row.kind = "NO_SESSION"
  BY <1>2, OwnedFacts
<1> QED
  BY <1>1, <1>3

\* Visible sessions come one after the other.
LEMMA VisibleApart ==
  ASSUME TypeOK, Disjoint, NEW d \in Int, NEW r \in Visible(d), NEW s \in Visible(d), r # s
  PROVE  \/ r \in Earlier(d, s) /\ To(d, r) <= From(d, s)
         \/ s \in Earlier(d, r) /\ To(d, s) <= From(d, r)
<1>1. /\ r \in SessionsOf(d) /\ s \in SessionsOf(d) /\ r \in Known /\ s \in Known
      /\ From(d, r) \in Int /\ To(d, r) \in Int /\ From(d, r) < To(d, r)
      /\ From(d, s) \in Int /\ To(d, s) \in Int /\ From(d, s) < To(d, s)
      /\ Life(r).start <= From(d, r) /\ To(d, r) <= Life(r).end
      /\ Life(s).start <= From(d, s) /\ To(d, s) <= Life(s).end
  BY VisibleFacts
<1>2. Interval(Life(r)) /\ Interval(Life(s))
  BY <1>1, StateFacts
<1>3. Empty(Meet(Life(r), Life(s)))
  BY <1>1 DEF Disjoint
<1>4. Life(r).end <= Life(s).start \/ Life(s).end <= Life(r).start
  BY <1>1, <1>2, <1>3, MeetFacts DEF Empty, Interval
<1>5. /\ Life(r).start = sessions[r].login - Offset /\ Life(s).start = sessions[s].login - Offset
      /\ sessions[r].login \in Int /\ sessions[s].login \in Int /\ Offset \in Int
  <2>1. /\ sessions[r] \in [login : Int, logout : Int \union {Null}]
        /\ sessions[s] \in [login : Int, logout : Int \union {Null}]
    BY <1>1 DEF TypeOK, Known
  <2> QED
    BY <2>1, TimeAssumption DEF Life, NormalizeLocal
<1>6. CASE Life(r).end <= Life(s).start
  <2>1. Life(r).start < Life(s).start /\ To(d, r) <= From(d, s)
    BY <1>1, <1>2, <1>6 DEF Interval
  <2>2. sessions[r].login < sessions[s].login
    BY <1>5, <2>1
  <2> QED
    BY <1>1, <2>1, <2>2 DEF Earlier
<1>7. CASE Life(s).end <= Life(r).start
  <2>1. Life(s).start < Life(r).start /\ To(d, s) <= From(d, r)
    BY <1>1, <1>2, <1>7 DEF Interval
  <2>2. sessions[s].login < sessions[r].login
    BY <1>5, <2>1
  <2> QED
    BY <1>1, <2>1, <2>2 DEF Earlier
<1> QED
  BY <1>4, <1>6, <1>7

\* The time without a session before a session lies after all earlier ones.
LEMMA GapFacts ==
  ASSUME TypeOK, Disjoint, NEW d \in Int, ~ Empty(DayWindow(d))
  PROVE  /\ \A s \in Visible(d) :
              /\ CursorAfter(d, Earlier(d, s)) \in Int
              /\ DayWindow(d).start <= CursorAfter(d, Earlier(d, s))
              /\ CursorAfter(d, Earlier(d, s)) <= From(d, s)
              /\ \A r \in Visible(d) :
                   r \in Earlier(d, s) => To(d, r) <= CursorAfter(d, Earlier(d, s))
         /\ CursorAfter(d, SessionsOf(d)) \in Int
         /\ DayWindow(d).start <= CursorAfter(d, SessionsOf(d))
         /\ CursorAfter(d, SessionsOf(d)) <= DayWindow(d).end
         /\ \A r \in Visible(d) : To(d, r) <= CursorAfter(d, SessionsOf(d))
<1>1. \A s : Earlier(d, s) \subseteq SessionsOf(d)
  BY DEF Earlier
<1>2. \A s \in Visible(d) :
        /\ s \in SessionsOf(d) /\ s \in Known
        /\ From(d, s) \in Int /\ To(d, s) \in Int /\ From(d, s) < To(d, s)
        /\ DayWindow(d).start <= From(d, s) /\ To(d, s) <= DayWindow(d).end
  BY VisibleFacts
<1>3. ASSUME NEW s \in Visible(d)
      PROVE  CursorAfter(d, Earlier(d, s)) <= From(d, s)
  <2>1. \A r \in Earlier(d, s) \cap Visible(d) : To(d, r) <= From(d, s)
    <3> TAKE r \in Earlier(d, s) \cap Visible(d)
    <3>1. sessions[r].login < sessions[s].login
      BY DEF Earlier
    <3>2. ~ (sessions[s].login < sessions[r].login) /\ r # s
      <4>1. /\ sessions[r] \in [login : Int, logout : Int \union {Null}]
            /\ sessions[s] \in [login : Int, logout : Int \union {Null}]
        BY <1>2 DEF TypeOK, Known
      <4>2. sessions[r].login \in Int /\ sessions[s].login \in Int
        BY <4>1
      <4> QED
        BY <3>1, <4>2
    <3>3. s \notin Earlier(d, r)
      BY <3>2 DEF Earlier
    <3> QED
      BY <3>2, <3>3, VisibleApart
  <2>2. From(d, s) \in Int /\ DayWindow(d).start <= From(d, s)
    BY <1>2
  <2> QED
    BY <1>1, <2>1, <2>2, CursorFacts
<1>4. \A s \in Visible(d) :
              /\ CursorAfter(d, Earlier(d, s)) \in Int
              /\ DayWindow(d).start <= CursorAfter(d, Earlier(d, s))
              /\ \A r \in Visible(d) :
                   r \in Earlier(d, s) => To(d, r) <= CursorAfter(d, Earlier(d, s))
  BY <1>1, CursorFacts
<1>5. /\ CursorAfter(d, SessionsOf(d)) \in Int
      /\ DayWindow(d).start <= CursorAfter(d, SessionsOf(d))
      /\ \A r \in Visible(d) : To(d, r) <= CursorAfter(d, SessionsOf(d))
  BY <1>2, CursorFacts
<1>6. CursorAfter(d, SessionsOf(d)) <= DayWindow(d).end
  <2>1. Interval(DayWindow(d)) /\ DayWindow(d).start <= DayWindow(d).end
    BY StateFacts DEF Interval, Empty
  <2>2. DayWindow(d).end \in Int
    BY <2>1 DEF Interval
  <2>3. \A r \in SessionsOf(d) \cap Visible(d) : To(d, r) <= DayWindow(d).end
    BY <1>2
  <2> QED
    BY <2>1, <2>2, <2>3, CursorFacts
<1> QED
  BY <1>3, <1>4, <1>5, <1>6

\* A row of the day view is one of three.
SpanRow(d, s, row) == \E r \in Build(s, DayWindow(d)) : row = OwnRow(s, r)
GapRow(d, s, row) == row \in GapBefore(d, s)
LastRow(d, row) == row \in GapAfter(d)

\* Every row of a day is a span of a session, the row before one, or the last.
LEMMA RowCases ==
  ASSUME TypeOK, Disjoint, NEW d \in Int, ~ Empty(DayWindow(d)), NEW row
  PROVE  row \in DayTimeline(d) <=>
           \/ \E s \in Visible(d) : SpanRow(d, s, row) \/ GapRow(d, s, row)
           \/ LastRow(d, row)
<1> DEFINE rows(s) == GapBefore(d, s) \union Owned(s, Build(s, DayWindow(d)))
<1>1. \A s \in Visible(d) : row \in rows(s) <=> SpanRow(d, s, row) \/ GapRow(d, s, row)
  <2> TAKE s \in Visible(d)
  <2>1. Owned(s, Build(s, DayWindow(d))) = {OwnRow(s, r) : r \in Build(s, DayWindow(d))}
    BY OwnedFacts
  <2> QED
    BY <2>1 DEF SpanRow, GapRow
<1> DEFINE all == UNION {rows(s) : s \in Visible(d)}
<1>2. DayTimeline(d) = all \union GapAfter(d)
  <2>1. DayTimeline(d) =
          (UNION {GapBefore(d, s) \union Owned(s, Build(s, DayWindow(d))) : s \in Visible(d)})
            \union GapAfter(d)
    BY RowsAre
  <2> QED
    BY <2>1, Zenon
<1> HIDE DEF rows
<1>3. row \in all <=> \E s \in Visible(d) : row \in rows(s)
  OBVIOUS
<1> HIDE DEF all
<1>4. row \in DayTimeline(d) <=> (\E s \in Visible(d) : row \in rows(s)) \/ LastRow(d, row)
  BY <1>2, <1>3 DEF LastRow
<1>5. (\E s \in Visible(d) : row \in rows(s)) <=>
        \E s \in Visible(d) : SpanRow(d, s, row) \/ GapRow(d, s, row)
  BY <1>1
<1> QED
  BY <1>4, <1>5

\* Where the rows of a day begin and end.
LEMMA RowFacts ==
  ASSUME TypeOK, Disjoint, NEW d \in Int, ~ Empty(DayWindow(d)), NEW row
  PROVE  /\ \A s \in Visible(d) : SpanRow(d, s, row) =>
              /\ row.start \in Int /\ row.end \in Int /\ row.start < row.end
              /\ From(d, s) <= row.start /\ row.end <= To(d, s)
              /\ row.kind # "NO_SESSION"
         /\ \A s \in Visible(d) : GapRow(d, s, row) =>
              /\ row.start = CursorAfter(d, Earlier(d, s)) /\ row.end = From(d, s)
              /\ row.start < row.end /\ row.kind = "NO_SESSION"
         /\ LastRow(d, row) =>
              /\ row.start = CursorAfter(d, SessionsOf(d)) /\ row.end = DayWindow(d).end
              /\ row.start < row.end /\ row.kind = "NO_SESSION"
<1>1. ASSUME NEW s \in Visible(d), SpanRow(d, s, row)
      PROVE  /\ row.start \in Int /\ row.end \in Int /\ row.start < row.end
             /\ From(d, s) <= row.start /\ row.end <= To(d, s)
             /\ row.kind # "NO_SESSION"
  <2>1. /\ From(d, s) \in Int /\ To(d, s) \in Int
        /\ Tiling(Build(s, DayWindow(d)), From(d, s), To(d, s))
    BY VisibleFacts
  <2>2. PICK r \in Build(s, DayWindow(d)) : row = OwnRow(s, r)
    BY <1>1 DEF SpanRow
  <2>3. row.start = r.start /\ row.end = r.end /\ row.kind = r.kind
    BY <2>2, OwnedFacts
  <2>4. /\ r.start \in Int /\ r.end \in Int /\ r.kind \in Kinds
        /\ From(d, s) <= r.start /\ r.start < r.end /\ r.end <= To(d, s)
    BY <2>1, TilingFacts
  <2>5. r.kind # "NO_SESSION"
    BY <2>4 DEF Kinds
  <2> QED
    BY <2>3, <2>4, <2>5
<1>2. ASSUME NEW s \in Visible(d), GapRow(d, s, row)
      PROVE  /\ row.start = CursorAfter(d, Earlier(d, s)) /\ row.end = From(d, s)
             /\ row.start < row.end /\ row.kind = "NO_SESSION"
  <2>1. CursorAfter(d, Earlier(d, s)) \in Int /\ From(d, s) \in Int
    BY GapFacts, VisibleFacts
  <2> QED
    BY <1>2, <2>1, ClosedFacts DEF GapRow, GapBefore
<1>3. ASSUME LastRow(d, row)
      PROVE  /\ row.start = CursorAfter(d, SessionsOf(d)) /\ row.end = DayWindow(d).end
             /\ row.start < row.end /\ row.kind = "NO_SESSION"
  <2>1. CursorAfter(d, SessionsOf(d)) \in Int /\ DayWindow(d).end \in Int
    BY GapFacts, StateFacts DEF Interval
  <2> QED
    BY <1>3, <2>1, ClosedFacts DEF LastRow, GapAfter
<1> QED
  BY <1>1, <1>2, <1>3

\* No two rows of a day overlap.
LEMMA RowsApart ==
  ASSUME TypeOK, Disjoint, NEW d \in Int, ~ Empty(DayWindow(d)),
         NEW p \in DayTimeline(d), NEW q \in DayTimeline(d), p # q
  PROVE  p.end <= q.start \/ q.end <= p.start
<1> DEFINE V == Visible(d)
           cursor(s) == CursorAfter(d, Earlier(d, s))
           last == CursorAfter(d, SessionsOf(d))
           end == DayWindow(d).end
<1>1. \A s \in V : /\ From(d, s) \in Int /\ To(d, s) \in Int /\ From(d, s) < To(d, s)
                   /\ To(d, s) <= end /\ To(d, s) <= last
                   /\ cursor(s) \in Int /\ cursor(s) <= From(d, s)
                   /\ Tiling(Build(s, DayWindow(d)), From(d, s), To(d, s))
  BY VisibleFacts, GapFacts
<1>2. last \in Int /\ end \in Int
  BY GapFacts, StateFacts DEF Interval
<1>3. \A r, s \in V : r # s =>
        \/ To(d, r) <= cursor(s) /\ To(d, r) <= From(d, s)
        \/ To(d, s) <= cursor(r) /\ To(d, s) <= From(d, r)
  <2> TAKE r \in V, s \in V
  <2> HAVE r # s
  <2>1. \/ r \in Earlier(d, s) /\ To(d, r) <= From(d, s)
        \/ s \in Earlier(d, r) /\ To(d, s) <= From(d, r)
    BY VisibleApart
  <2> QED
    BY <2>1, GapFacts
<1> HIDE DEF V, cursor, last, end
<1>4. ASSUME NEW a \in DayTimeline(d)
      PROVE  \/ \E s \in V : /\ SpanRow(d, s, a)
                             /\ a.start \in Int /\ a.end \in Int /\ a.start < a.end
                             /\ From(d, s) <= a.start /\ a.end <= To(d, s)
             \/ \E s \in V : GapRow(d, s, a) /\ a.start = cursor(s) /\ a.end = From(d, s)
             \/ LastRow(d, a) /\ a.start = last /\ a.end = end
  <2>1. \/ \E s \in Visible(d) : SpanRow(d, s, a) \/ GapRow(d, s, a)
        \/ LastRow(d, a)
    BY RowCases
  <2> QED
    BY <2>1, RowFacts DEF V, cursor, last, end
<1>5. ASSUME NEW s \in V, SpanRow(d, s, p), SpanRow(d, s, q)
      PROVE  p.end <= q.start \/ q.end <= p.start
  <2>1. PICK a \in Build(s, DayWindow(d)) : p = OwnRow(s, a)
    BY <1>5 DEF SpanRow
  <2>2. PICK b \in Build(s, DayWindow(d)) : q = OwnRow(s, b)
    BY <1>5 DEF SpanRow
  <2>3. a # b
    BY <2>1, <2>2
  <2>4. a.end <= b.start \/ b.end <= a.start
    BY <1>1, <2>3, TilingFacts
  <2> QED
    BY <2>1, <2>2, <2>4, OwnedFacts
<1>6. ASSUME NEW s \in V, GapRow(d, s, p), GapRow(d, s, q) PROVE FALSE
  <2>1. cursor(s) \in Int /\ From(d, s) \in Int
    BY <1>1
  <2>2. p = q
    BY <1>6, <2>1, ClosedFacts DEF GapRow, GapBefore, cursor
  <2> QED
    BY <2>2
<1>7. ASSUME LastRow(d, p), LastRow(d, q) PROVE FALSE
  BY <1>2, <1>7, ClosedFacts DEF LastRow, GapAfter, last, end
<1>8. CASE \E r \in V : /\ SpanRow(d, r, p)
                        /\ p.start \in Int /\ p.end \in Int /\ p.start < p.end
                        /\ From(d, r) <= p.start /\ p.end <= To(d, r)
  <2>1. PICK r \in V : /\ SpanRow(d, r, p)
                       /\ p.start \in Int /\ p.end \in Int /\ p.start < p.end
                       /\ From(d, r) <= p.start /\ p.end <= To(d, r)
    BY <1>8
  <2>2. CASE \E s \in V : /\ SpanRow(d, s, q)
                        /\ q.start \in Int /\ q.end \in Int /\ q.start < q.end
                        /\ From(d, s) <= q.start /\ q.end <= To(d, s)
    <3>1. PICK s \in V : /\ SpanRow(d, s, q)
                         /\ q.start \in Int /\ q.end \in Int /\ q.start < q.end
                         /\ From(d, s) <= q.start /\ q.end <= To(d, s)
      BY <2>2
    <3>2. CASE r = s
      BY <1>5, <2>1, <3>1, <3>2
    <3>3. CASE r # s
      BY <1>1, <1>3, <2>1, <3>1, <3>3
    <3> QED
      BY <3>2, <3>3
  <2>3. CASE \E s \in V : GapRow(d, s, q) /\ q.start = cursor(s) /\ q.end = From(d, s)
    <3>1. PICK s \in V : q.start = cursor(s) /\ q.end = From(d, s)
      BY <2>3
    <3>2. CASE r = s
      BY <1>1, <2>1, <3>1, <3>2
    <3>3. CASE r # s
      BY <1>1, <1>3, <2>1, <3>1, <3>3
    <3> QED
      BY <3>2, <3>3
  <2>4. CASE LastRow(d, q) /\ q.start = last /\ q.end = end
    BY <1>1, <1>2, <2>1, <2>4
  <2> QED
    BY <1>4, <2>2, <2>3, <2>4
<1>9. CASE \E r \in V : GapRow(d, r, p) /\ p.start = cursor(r) /\ p.end = From(d, r)
  <2>1. PICK r \in V : GapRow(d, r, p) /\ p.start = cursor(r) /\ p.end = From(d, r)
    BY <1>9
  <2>2. CASE \E s \in V : /\ SpanRow(d, s, q)
                        /\ q.start \in Int /\ q.end \in Int /\ q.start < q.end
                        /\ From(d, s) <= q.start /\ q.end <= To(d, s)
    <3>1. PICK s \in V : /\ q.start \in Int /\ q.end \in Int /\ q.start < q.end
                         /\ From(d, s) <= q.start /\ q.end <= To(d, s)
      BY <2>2
    <3>2. CASE r = s
      BY <1>1, <2>1, <3>1, <3>2
    <3>3. CASE r # s
      BY <1>1, <1>3, <2>1, <3>1, <3>3
    <3> QED
      BY <3>2, <3>3
  <2>3. CASE \E s \in V : GapRow(d, s, q) /\ q.start = cursor(s) /\ q.end = From(d, s)
    <3>1. PICK s \in V : GapRow(d, s, q) /\ q.start = cursor(s) /\ q.end = From(d, s)
      BY <2>3
    <3>2. r # s
      BY <1>6, <2>1, <3>1
    <3> QED
      BY <1>1, <1>3, <2>1, <3>1, <3>2
  <2>4. CASE LastRow(d, q) /\ q.start = last /\ q.end = end
    BY <1>1, <1>2, <2>1, <2>4
  <2> QED
    BY <1>4, <2>2, <2>3, <2>4
<1>10. CASE LastRow(d, p) /\ p.start = last /\ p.end = end
  <2>1. CASE \E s \in V : /\ SpanRow(d, s, q)
                        /\ q.start \in Int /\ q.end \in Int /\ q.start < q.end
                        /\ From(d, s) <= q.start /\ q.end <= To(d, s)
    BY <1>1, <1>2, <1>10, <2>1
  <2>2. CASE \E s \in V : GapRow(d, s, q) /\ q.start = cursor(s) /\ q.end = From(d, s)
    BY <1>1, <1>2, <1>10, <2>2
  <2>3. CASE LastRow(d, q) /\ q.start = last /\ q.end = end
    BY <1>7, <1>10, <2>3
  <2> QED
    BY <1>4, <2>1, <2>2, <2>3
<1> QED
  BY <1>4, <1>8, <1>9, <1>10

\* Every instant of the day so far lies in a row.
LEMMA RowsCover ==
  ASSUME TypeOK, Disjoint, NEW d \in Int, ~ Empty(DayWindow(d)),
         NEW t \in Int, DayWindow(d).start <= t, t < DayWindow(d).end
  PROVE  \E row \in DayTimeline(d) : Within(t, row)
<1> DEFINE V == Visible(d)
           cursor(s) == CursorAfter(d, Earlier(d, s))
           last == CursorAfter(d, SessionsOf(d))
           end == DayWindow(d).end
<1>1. \A s \in V : /\ From(d, s) \in Int /\ To(d, s) \in Int /\ From(d, s) < To(d, s)
                   /\ To(d, s) <= end
                   /\ cursor(s) \in Int
                   /\ Tiling(Build(s, DayWindow(d)), From(d, s), To(d, s))
  BY VisibleFacts, GapFacts
<1>2. last \in Int /\ end \in Int
  BY GapFacts, StateFacts DEF Interval
<1>3. CASE \E s \in V : From(d, s) <= t /\ t < To(d, s)
  <2>1. PICK s \in V : From(d, s) <= t /\ t < To(d, s)
    BY <1>3
  <2>2. PICK r \in Build(s, DayWindow(d)) : Within(t, r)
    BY <1>1, <2>1, TilingFacts
  <2>3. Within(t, OwnRow(s, r))
    BY <2>2, OwnedFacts DEF Within
  <2>4. SpanRow(d, s, OwnRow(s, r))
    BY DEF SpanRow
  <2> QED
    BY <2>3, <2>4, RowCases
<1>4. CASE (\A s \in V : ~ (From(d, s) <= t /\ t < To(d, s))) /\ \E s \in V : t < From(d, s)
  <2> DEFINE F == {From(d, s) : s \in {r \in V : t < From(d, r)}}
  <2>1. \A f \in F : f \in Int /\ t <= f
    BY <1>1
  <2>2. F # {}
    BY <1>4
  <2>3. Min(F) \in F /\ \A f \in F : Min(F) <= f
    <3> HIDE DEF F
    <3>1. F \subseteq Int
      BY <2>1
    <3> QED
      BY <2>1, <2>2, <3>1, MinFacts
  <2>4. PICK s \in V : t < From(d, s) /\ From(d, s) = Min(F)
    BY <2>3
  <2>5. \A r \in V : t < From(d, r) => From(d, s) <= From(d, r)
    <3>1. \A r \in V : t < From(d, r) => From(d, r) \in F
      OBVIOUS
    <3> HIDE DEF F
    <3> QED
      BY <2>3, <2>4, <3>1
  <2> HIDE DEF F
  <2>6. \A r \in Earlier(d, s) \cap Visible(d) : To(d, r) <= t
    <3> TAKE r \in Earlier(d, s) \cap Visible(d)
    <3>1. r # s /\ s \notin Earlier(d, r)
      <4>0. r \in Known /\ s \in Known
        BY VisibleFacts
      <4>1. /\ sessions[r] \in [login : Int, logout : Int \union {Null}]
            /\ sessions[s] \in [login : Int, logout : Int \union {Null}]
        BY <4>0 DEF TypeOK, Known
      <4>2. sessions[r].login \in Int /\ sessions[s].login \in Int
        BY <4>1
      <4> QED
        BY <4>2 DEF Earlier
    <3>2. To(d, r) <= From(d, s)
      BY <3>1, VisibleApart
    <3>3. ~ (t < From(d, r))
      BY <1>1, <2>5, <3>2
    <3> QED
      BY <1>1, <1>4, <3>3
  <2>7. cursor(s) <= t
    <3>1. Earlier(d, s) \subseteq SessionsOf(d)
      BY DEF Earlier
    <3> QED
      BY <2>6, <3>1, CursorFacts
  <2>8. PICK row \in GapBefore(d, s) : row.start = cursor(s) /\ row.end = From(d, s)
    <3>1. cursor(s) < From(d, s)
      BY <1>1, <2>4, <2>7
    <3> QED
      BY <1>1, <3>1, ClosedFacts DEF GapBefore
  <2>9. Within(t, row)
    BY <2>4, <2>7, <2>8 DEF Within
  <2>10. GapRow(d, s, row)
    BY DEF GapRow
  <2> QED
    BY <2>9, <2>10, RowCases
<1>5. CASE \A s \in V : ~ (From(d, s) <= t /\ t < To(d, s)) /\ ~ (t < From(d, s))
  <2>1. \A s \in SessionsOf(d) \cap Visible(d) : To(d, s) <= t
    BY <1>1, <1>5
  <2>2. last <= t
    BY <2>1, CursorFacts
  <2>3. PICK row \in GapAfter(d) : row.start = last /\ row.end = end
    <3>1. last < end
      BY <1>2, <2>2
    <3> QED
      BY <1>2, <3>1, ClosedFacts DEF GapAfter
  <2>4. Within(t, row)
    BY <2>2, <2>3 DEF Within
  <2>5. LastRow(d, row)
    BY DEF LastRow
  <2> QED
    BY <2>4, <2>5, RowCases
<1> QED
  BY <1>3, <1>4, <1>5

\* A row says NO_SESSION iff it overlaps no session's life.
LEMMA NoSessionRows ==
  ASSUME TypeOK, Disjoint, NEW d \in Int, ~ Empty(DayWindow(d)), NEW row \in DayTimeline(d)
  PROVE  row.kind = "NO_SESSION" <=> \A s \in Known : Empty(Meet(Life(s), row))
<1> DEFINE V == Visible(d)
<1>0. \A s \in V : /\ s \in Known
                   /\ From(d, s) \in Int /\ To(d, s) \in Int /\ From(d, s) < To(d, s)
                   /\ DayWindow(d).start <= From(d, s) /\ To(d, s) <= DayWindow(d).end
                   /\ Life(s).start <= From(d, s) /\ To(d, s) <= Life(s).end
  BY VisibleFacts
<1>1. \A s \in Known : Interval(Life(s))
  BY StateFacts
<1>2. Interval(DayWindow(d))
  BY StateFacts
<1>3. CASE \E s \in V : SpanRow(d, s, row)
  <2>1. PICK s \in V : SpanRow(d, s, row)
    BY <1>3
  <2>2. /\ row.start \in Int /\ row.end \in Int /\ row.start < row.end
        /\ From(d, s) <= row.start /\ row.end <= To(d, s)
        /\ row.kind # "NO_SESSION"
    BY <2>1, RowFacts
  <2>3. Interval(row) /\ Interval(Life(s)) /\ s \in Known
    BY <1>0, <1>1, <2>2 DEF Interval
  <2>4. ~ Empty(Meet(Life(s), row))
    BY <1>0, <2>2, <2>3, MeetFacts DEF Empty, Interval
  <2> QED
    BY <2>2, <2>3, <2>4
<1>4. ASSUME row.start \in Int, row.end \in Int,
             DayWindow(d).start <= row.start, row.end <= DayWindow(d).end,
             \A s \in V : row.end <= From(d, s) \/ To(d, s) <= row.start,
             NEW s \in Known
      PROVE  Empty(Meet(Life(s), row))
  <2>1. Interval(row) /\ Interval(Life(s))
    BY <1>1, <1>4 DEF Interval
  <2>2. SUFFICES ASSUME NEW t \in Int, row.start <= t, t < row.end,
                        Life(s).start <= t, t < Life(s).end
                 PROVE  FALSE
    <3> DEFINE t == IF Life(s).start >= row.start THEN Life(s).start ELSE row.start
    <3>1. t \in Int /\ row.start <= t /\ Life(s).start <= t
      BY <2>1 DEF Interval
    <3>2. ~ (t < row.end /\ t < Life(s).end)
      BY <2>2, <3>1
    <3> QED
      BY <2>1, <3>1, <3>2, MeetFacts DEF Empty, Interval
  <2>3. DayWindow(d).start <= t /\ t < DayWindow(d).end
    BY <1>2, <1>4, <2>2 DEF Interval
  <2>4. s \in V
    BY <1>1, <1>2, <2>2, <2>3, MeetFacts DEF Visible, ShownIn, Empty, Interval
  <2>5. From(d, s) <= t /\ t < To(d, s)
    BY <2>2, <2>3, <2>4, VisibleFacts
  <2> QED
    BY <1>0, <1>4, <2>2, <2>4, <2>5
<1>5. CASE \E s \in V : GapRow(d, s, row)
  <2>1. PICK s \in V : GapRow(d, s, row)
    BY <1>5
  <2>2. /\ row.start = CursorAfter(d, Earlier(d, s)) /\ row.end = From(d, s)
        /\ row.start < row.end /\ row.kind = "NO_SESSION"
    BY <2>1, RowFacts
  <2>3. row.start \in Int /\ row.end \in Int /\ DayWindow(d).start <= row.start
    BY <1>0, <2>2, GapFacts
  <2>4. row.end <= DayWindow(d).end
    BY <1>0, <1>2, <2>2 DEF Interval
  <2>5. \A r \in V : row.end <= From(d, r) \/ To(d, r) <= row.start
    <3> TAKE r \in V
    <3>1. CASE r = s
      BY <1>0, <2>2, <3>1
    <3>2. CASE r # s
      <4>1. CASE r \in Earlier(d, s)
        BY <2>2, <4>1, GapFacts
      <4>2. CASE To(d, s) <= From(d, r)
        BY <1>0, <2>2, <4>2
      <4> QED
        BY <3>2, <4>1, <4>2, VisibleApart
    <3> QED
      BY <3>1, <3>2
  <2> QED
    BY <1>4, <2>2, <2>3, <2>4, <2>5
<1>6. CASE LastRow(d, row)
  <2>1. /\ row.start = CursorAfter(d, SessionsOf(d)) /\ row.end = DayWindow(d).end
        /\ row.start < row.end /\ row.kind = "NO_SESSION"
    BY <1>6, RowFacts
  <2>2. row.start \in Int /\ row.end \in Int /\ DayWindow(d).start <= row.start
    BY <1>2, <2>1, GapFacts DEF Interval
  <2>3. row.end <= DayWindow(d).end
    BY <2>1, <2>2
  <2>4. \A r \in V : To(d, r) <= row.start
    BY <2>1, GapFacts
  <2> QED
    BY <1>4, <2>1, <2>2, <2>3, <2>4
<1> QED
  BY <1>3, <1>5, <1>6, RowCases

\* The day view of sessions that do not overlap covers the day up to now, once, and says
\* NO_SESSION where there was none.
LEMMA TypeOKDayCovered == TypeOK => DayCovered
<1> SUFFICES ASSUME TypeOK, Disjoint, NEW d \in Days
             PROVE  /\ Partition(DayTimeline(d), DayWindow(d).start, DayWindow(d).end)
                    /\ \A row \in DayTimeline(d) : row.kind = "NO_SESSION" <=>
                         \A s \in Known : Empty(Meet(Life(s), row))
  BY DEF DayCovered, Disjoint
<1>0. d \in Int
  BY DEF Days
<1>1. Interval(DayWindow(d))
  BY <1>0, StateFacts
<1>2. CASE Empty(DayWindow(d))
  <2>1. DayTimeline(d) = {}
    BY <1>2 DEF DayTimeline
  <2>2. Partition({}, DayWindow(d).start, DayWindow(d).end)
    BY <1>1, <1>2 DEF Partition, Empty, Interval
  <2> QED
    BY <2>1, <2>2
<1>3. CASE ~ Empty(DayWindow(d))
  <2> DEFINE T == DayTimeline(d)
             from == DayWindow(d).start
             to == DayWindow(d).end
  <2>1. \A row \in T : from <= row.start /\ row.start < row.end /\ row.end <= to
    <3> TAKE row \in T
    <3>0. \A s \in Visible(d) :
            /\ From(d, s) \in Int /\ To(d, s) \in Int /\ from <= From(d, s) /\ To(d, s) <= to
            /\ From(d, s) < To(d, s)
      BY <1>0, VisibleFacts
    <3>1. from \in Int /\ to \in Int
      BY <1>1 DEF Interval
    <3>2. CASE \E s \in Visible(d) : SpanRow(d, s, row)
      BY <1>0, <1>3, <3>0, <3>1, <3>2, RowFacts
    <3>3. CASE \E s \in Visible(d) : GapRow(d, s, row)
      BY <1>0, <1>3, <3>0, <3>1, <3>3, RowFacts, GapFacts
    <3>4. CASE LastRow(d, row)
      BY <1>0, <1>3, <3>1, <3>4, RowFacts, GapFacts
    <3> QED
      BY <1>0, <1>3, <3>2, <3>3, <3>4, RowCases
  <2>2. \A t \in from..(to - 1) : \E row \in T : Within(t, row)
    <3> TAKE t \in from..(to - 1)
    <3>1. t \in Int /\ from <= t /\ t < to
      BY <1>1 DEF Interval
    <3> QED
      BY <1>0, <1>3, <3>1, RowsCover
  <2>3. \A p, q \in T : p # q => p.end <= q.start \/ q.end <= p.start
    BY <1>0, <1>3, RowsApart
  <2>4. Partition(T, from, to)
    <3> HIDE DEF T, from, to
    <3> QED
      BY <2>1, <2>2, <2>3 DEF Partition
  <2> QED
    BY <1>0, <1>3, <2>4, NoSessionRows
<1> QED
  BY <1>2, <1>3

-----------------------------------------------------------------------------
(* A session's own view.                                                     *)

\* From cut to cut in hops no longer than the threshold.
Chained(cuts, p) ==
  \A c \in cuts : Within(c, p) => \E e \in cuts : c < e /\ e <= c + Threshold

\* The stretches between cuts in which the device was heard for long enough.
Heard(cuts) == {p \in [start : cuts, end : cuts] : Length(p) >= Sustained /\ Chained(cuts, p)}

\* The segments confirm what the heartbeats of the window do.
LEMMA HeardIsSure ==
  ASSUME NEW B, B \subseteq Int, NEW from \in Int, NEW to \in Int, from < to,
         Inside(B, from, to) # {}, NEW t \in Int, from <= t, t < to
  PROVE  Sure(Segments(B, from, to), t) <=> \E p \in Heard(Cuts(B, from, to)) : Within(t, p)
<1> DEFINE S == Segments(B, from, to)
           cuts == Cuts(B, from, to)
<1>0. from < to /\ Inside(B, from, to) # {}
  OBVIOUS
<1>1. cuts \subseteq Int /\ \A c \in cuts : from <= c /\ c <= to
  <2>1. cuts \subseteq from..to
    BY <1>0, CutsFacts
  <2> HIDE DEF cuts
  <2> QED
    BY <2>1
<1>2. Runs(S, from, to)
  BY <1>0, SegmentsFacts
<1>3. \A x, a, b \in Int : Around(B, from, to, a, b, x) => KindsAt(S, x) = {Observed(a, b)}
  <2>1. KindsByCuts(B, from, to)
    BY <1>0, SegmentsFacts
  <2> QED
    BY <2>1 DEF KindsByCuts
<1>4. \A x \in Int : from <= x /\ x < to =>
        \E a, b \in Int : Around(B, from, to, a, b, x)
  BY AroundFacts
<1>5. \A x, a, b \in Int : Around(B, from, to, a, b, x) =>
        /\ a \in cuts /\ b \in cuts /\ a <= x /\ x < b
        /\ \A c \in cuts : c <= a \/ b <= c
  BY DEF Around
<1>6. Threshold \in Int /\ Sustained \in Int
  BY ThresholdAssumption, ClassifierAssumption
<1>7. \A a, b \in Int : {Observed(a, b)} = {"monitored"} <=> b - a <= Threshold
  BY <1>6 DEF Observed
<1> HIDE DEF S, cuts
<1>8. ASSUME Sure(S, t) PROVE \E p \in Heard(cuts) : Within(t, p)
  <2>1. PICK r \in S : Confirmed(r) /\ Within(t, r)
    BY <1>8 DEF Sure
  <2>2. /\ r.start \in Int /\ r.end \in Int /\ from <= r.start /\ r.start < r.end /\ r.end <= to
        /\ r.kind = "monitored" /\ r.end - r.start >= Sustained
        /\ r.start <= t /\ t < r.end
    BY <1>2, <2>1, TilingFacts DEF Runs, Confirmed, Length, Within
  <2>3. \A x \in Int : r.start <= x /\ x < r.end => KindsAt(S, x) = {"monitored"}
    BY <1>2, <2>2, TilingFacts DEF Runs, Within
  <2>4. r.start \in cuts
    <3>1. PICK a \in Int, b \in Int : Around(B, from, to, a, b, r.start)
      BY <1>4, <2>2
    <3>2. a \in cuts /\ a <= r.start /\ r.start < b /\ \A c \in cuts : c <= a \/ b <= c
      BY <1>5, <2>2, <3>1
    <3>3. SUFFICES ASSUME a < r.start PROVE FALSE
      BY <2>2, <3>2
    <3> DEFINE y == r.start - 1
    <3>4. y \in Int /\ from <= y /\ y < to /\ a <= y /\ y < b
      BY <1>1, <2>2, <3>2, <3>3
    <3>5. Around(B, from, to, a, b, y)
      BY <3>1, <3>4 DEF Around
    <3>6. KindsAt(S, y) = {Observed(a, b)} /\ KindsAt(S, r.start) = {Observed(a, b)}
      BY <1>3, <2>2, <3>1, <3>4, <3>5
    <3>7. KindsAt(S, r.start) = {"monitored"}
      BY <2>2, <2>3
    <3>8. KindsAt(S, y) = {"monitored"}
      BY <3>6, <3>7
    <3>9. \A x \in Int : y <= x /\ x < r.end => KindsAt(S, x) = {"monitored"}
      BY <2>2, <2>3, <3>8
    <3>10. PICK q \in S : q.kind = "monitored" /\ q.start <= y /\ r.end <= q.end
      <4>1. y \in Int /\ r.end \in Int /\ from <= y /\ y < r.end /\ r.end <= to
        BY <2>2, <3>4
      <4> HIDE DEF y
      <4> QED
        BY <1>2, <3>9, <4>1, MonitoredStretch
    <3>11. q = r
      BY <1>2, <2>2, <3>10, TilingFacts DEF Runs
    <3> QED
      BY <2>2, <3>10, <3>11
  <2>5. r.end \in cuts
    <3> DEFINE y == r.end - 1
    <3>0. y \in Int /\ from <= y /\ y < to /\ r.start <= y /\ y < r.end
      BY <2>2
    <3>1. PICK a \in Int, b \in Int : Around(B, from, to, a, b, y)
      BY <1>4, <3>0
    <3>2. a \in cuts /\ b \in cuts /\ a <= y /\ y < b /\ \A c \in cuts : c <= a \/ b <= c
      BY <1>5, <3>0, <3>1
    <3>3. SUFFICES ASSUME r.end < b PROVE FALSE
      BY <2>2, <3>2
    <3>4. Around(B, from, to, a, b, r.end)
      BY <2>2, <3>1, <3>2, <3>3 DEF Around
    <3>5. KindsAt(S, y) = {Observed(a, b)} /\ KindsAt(S, r.end) = {Observed(a, b)}
      BY <1>3, <2>2, <3>0, <3>1, <3>4
    <3>6. KindsAt(S, y) = {"monitored"}
      BY <2>3, <3>0
    <3> HIDE DEF y
    <3>7. KindsAt(S, r.end) = {"monitored"}
      BY <3>5, <3>6
    <3> DEFINE z == r.end + 1
    <3>8. \A x \in Int : r.start <= x /\ x < z => KindsAt(S, x) = {"monitored"}
      BY <2>2, <2>3, <3>7
    <3>9. PICK q \in S : q.kind = "monitored" /\ q.start <= r.start /\ z <= q.end
      <4> DEFINE u == r.start
      <4>1. u \in Int /\ z \in Int /\ from <= u /\ u < z /\ z <= to
        BY <1>1, <2>2, <3>2, <3>3
      <4>2. \A x \in Int : u <= x /\ x < z => KindsAt(S, x) = {"monitored"}
        BY <3>8
      <4> HIDE DEF z, u
      <4>3. \E q \in S : q.kind = "monitored" /\ q.start <= u /\ z <= q.end
        BY <1>2, <4>1, <4>2, MonitoredStretch
      <4> QED
        BY <4>3 DEF u
    <3>10. q = r
      BY <1>2, <2>2, <3>9, TilingFacts DEF Runs
    <3> QED
      BY <2>2, <3>9, <3>10
  <2> DEFINE p == [start |-> r.start, end |-> r.end]
  <2>6. Chained(cuts, p)
    <3> SUFFICES ASSUME NEW c \in cuts, r.start <= c, c < r.end
                 PROVE  \E e \in cuts : c < e /\ e <= c + Threshold
      BY DEF Chained, Within
    <3>0. c \in Int /\ from <= c /\ c < to
      BY <1>1, <2>2
    <3>1. PICK a \in Int, b \in Int : Around(B, from, to, a, b, c)
      BY <1>4, <3>0
    <3>2. a \in cuts /\ b \in cuts /\ a <= c /\ c < b /\ (c <= a \/ b <= c)
      BY <1>5, <3>0, <3>1
    <3>3. a = c
      BY <3>0, <3>2
    <3>4. {Observed(a, b)} = {"monitored"}
      BY <1>3, <2>3, <3>0, <3>1
    <3>5. b - a <= Threshold
      BY <1>7, <3>4
    <3> QED
      BY <1>6, <3>0, <3>2, <3>3, <3>5
  <2>7. p \in Heard(cuts)
    BY <2>2, <2>4, <2>5, <2>6 DEF Heard, Length
  <2> QED
    BY <2>2, <2>7 DEF Within
<1>9. ASSUME NEW p \in Heard(cuts), Within(t, p) PROVE Sure(S, t)
  <2> DEFINE u == p.start
             v == p.end
  <2>1. /\ u \in cuts /\ v \in cuts /\ v - u >= Sustained /\ u <= t /\ t < v
        /\ \A c \in cuts : u <= c /\ c < v => \E e \in cuts : c < e /\ e <= c + Threshold
    BY <1>9 DEF Heard, Length, Within, Chained
  <2>2. u \in Int /\ v \in Int /\ from <= u /\ v <= to
    BY <1>1, <2>1
  <2> HIDE DEF u, v
  <2>3. ASSUME NEW x \in Int, u <= x, x < v PROVE KindsAt(S, x) = {"monitored"}
    <3>0. from <= x /\ x < to
      BY <2>2, <2>3
    <3>1. PICK a \in Int, b \in Int : Around(B, from, to, a, b, x)
      BY <1>4, <3>0
    <3>2. a \in cuts /\ b \in cuts /\ a <= x /\ x < b /\ \A c \in cuts : c <= a \/ b <= c
      BY <1>5, <3>1
    <3>3. u <= a
      BY <2>1, <2>2, <2>3, <3>2
    <3>4. PICK e \in cuts : a < e /\ e <= a + Threshold
      BY <2>1, <2>2, <2>3, <3>2, <3>3
    <3>5. b <= e /\ e \in Int
      BY <1>1, <3>2, <3>4
    <3>6. b - a <= Threshold
      BY <1>6, <3>4, <3>5
    <3>7. {Observed(a, b)} = {"monitored"}
      BY <1>7, <3>6
    <3>8. KindsAt(S, x) = {Observed(a, b)}
      BY <1>3, <3>1
    <3> QED
      BY <3>7, <3>8
  <2> QED
    BY <1>2, <2>1, <2>2, <2>3, SureFacts, SMTT(30)
<1> QED
  BY <1>8, <1>9 DEF S, cuts

\* A session's own view looks at its life and nothing else.
LEMMA WholeFacts ==
  ASSUME TypeOK, NEW s \in Known, Life(s).start < Life(s).end
  PROVE  /\ ~ Empty(ShownIn(s, Life(s)))
         /\ ShownIn(s, Life(s)).start = Life(s).start /\ ShownIn(s, Life(s)).end = Life(s).end
         /\ Seen(s, Life(s)).start = Life(s).start /\ Seen(s, Life(s)).end = Life(s).end
         /\ Raw(s, Life(s)) = Segments(Beats, Life(s).start, Life(s).end)
         /\ Classified(Seen(s, Life(s))) = Classify(Raw(s, Life(s)))
<1> DEFINE life == Life(s)
<1>0. Interval(life) /\ Padding \in Int /\ Padding >= 0
  BY StateFacts
<1>1. /\ ShownIn(s, life).start = life.start /\ ShownIn(s, life).end = life.end
      /\ Interval(ShownIn(s, life))
  BY <1>0, MeetFacts DEF ShownIn, Interval
<1>2. ~ Empty(ShownIn(s, life))
  BY <1>0, <1>1 DEF Empty, Interval
<1>3. /\ Interval(Seen(s, life))
      /\ life.start <= Seen(s, life).start /\ Seen(s, life).end <= life.end
      /\ Seen(s, life).start <= ShownIn(s, life).start
      /\ ShownIn(s, life).end <= Seen(s, life).end
  BY <1>0, <1>2, SeenFacts
<1>4. Seen(s, life).start = life.start /\ Seen(s, life).end = life.end
  BY <1>0, <1>1, <1>3 DEF Interval
<1>5. Raw(s, life) = Segments(Beats, life.start, life.end)
  BY <1>4 DEF Raw
<1>6. Classified(Seen(s, life)) = Classify(Raw(s, life))
  BY DEF Classified, Raw
<1> QED
  BY <1>1, <1>2, <1>4, <1>5, <1>6

\* What a session's own view says of an instant, in terms of what is sure.
LEMMA WholeKinds ==
  ASSUME TypeOK, NEW s \in Known, Life(s).start < Life(s).end,
         NEW t \in Int, Life(s).start <= t, t < Life(s).end
  PROVE  LET raw == Segments(Beats, Life(s).start, Life(s).end)
             kinds == KindsAt(Build(s, Life(s)), t)
         IN /\ kinds = {"ACTIVE"} <=> Sure(raw, t) /\ ~ Paused(Idles(s), t)
            /\ kinds = {"IDLE"} <=> Sure(raw, t) /\ Paused(Idles(s), t)
            /\ kinds = {"OFF_SESSION"} <=> OffAt(raw, Life(s).start, Life(s).end, t)
<1> DEFINE from == Life(s).start
           to == Life(s).end
           raw == Segments(Beats, from, to)
           kinds == KindsAt(Build(s, Life(s)), t)
           classes == KindsAt(Classify(raw), t)
           off == OffAt(raw, from, to, t)
<1>1. Interval(Life(s)) /\ Beats \subseteq Int /\ from \in Int /\ to \in Int /\ from < to
  BY StateFacts DEF Interval
<1>2. /\ ~ Empty(ShownIn(s, Life(s)))
      /\ ShownIn(s, Life(s)).start = from /\ ShownIn(s, Life(s)).end = to
      /\ Raw(s, Life(s)) = raw
      /\ Classified(Seen(s, Life(s))) = Classify(raw)
  BY WholeFacts
<1>3. IF Sure(raw, t)
      THEN kinds = {IF Paused(Idles(s), t) THEN "IDLE" ELSE "ACTIVE"}
      ELSE /\ kinds = classes
           /\ \E k \in {"OFF_SESSION", "MONITORING_GAP"} : kinds = {k}
  BY <1>1, <1>2, BuildFacts
<1>4. Tiling(raw, from, to)
  BY <1>1, SegmentsFacts DEF Runs
<1>5. classes = {"OFF_SESSION"} <=> off
  BY <1>1, <1>4, ClassifyFacts
<1>6. off => ~ Sure(raw, t)
  BY <1>1 DEF OffAt
<1> HIDE DEF kinds, classes, off, raw
<1>7. kinds = {"ACTIVE"} <=> Sure(raw, t) /\ ~ Paused(Idles(s), t)
  BY <1>3
<1>8. kinds = {"IDLE"} <=> Sure(raw, t) /\ Paused(Idles(s), t)
  BY <1>3
<1>9. kinds = {"OFF_SESSION"} <=> off
  <2>1. CASE Sure(raw, t)
    BY <1>3, <1>6, <2>1
  <2>2. CASE ~ Sure(raw, t)
    BY <1>3, <1>5, <2>2
  <2> QED
    BY <2>1, <2>2
<1> QED
  BY <1>7, <1>8, <1>9 DEF kinds, off, raw

\* A session's own view says what the heartbeats and the idle events say.
LEMMA TypeOKMatchesReference == TypeOK => MatchesReference
<1> SUFFICES ASSUME TypeOK, NEW s \in Known,
                    Beats \cap (Life(s).start..Life(s).end) # {},
                    NEW t \in Life(s).start..(Life(s).end - 1)
    PROVE  LET life == Life(s)
               ends == life.start..life.end
               cuts == {b \in Beats : life.start <= b /\ b <= life.end} \union {life.start, life.end}
               Chnd(p) == \A c \in cuts : Within(c, p) =>
                            \E e \in cuts : c < e /\ e <= c + Threshold
               Covered(stretches) == UNION {p.start..(p.end - 1) : p \in stretches}
               seen == Covered({p \in [start : cuts, end : cuts] :
                           Length(p) >= Sustained /\ Chnd(p)})
               off == Covered({p \in [start : ends, end : ends] :
                          Length(p) > Ceiling /\ (p.start..(p.end - 1)) \cap seen = {}})
               idle == {x \in life.start..life.end : \E pause \in Idles(s) : Within(x, pause)}
               spans == Build(s, life)
           IN /\ t \in seen \ idle <=> KindsAt(spans, t) = {"ACTIVE"}
              /\ t \in seen \cap idle <=> KindsAt(spans, t) = {"IDLE"}
              /\ t \in off /\ seen # {} <=> KindsAt(spans, t) = {"OFF_SESSION"}
  BY DEF MatchesReference
<1> DEFINE from == Life(s).start
           to == Life(s).end
           ends == from..to
           cuts == Cuts(Beats, from, to)
           seen == UNION {p.start..(p.end - 1) : p \in Heard(cuts)}
           quiet == {p \in [start : ends, end : ends] :
                       Length(p) > Ceiling /\ (p.start..(p.end - 1)) \cap seen = {}}
           off == UNION {p.start..(p.end - 1) : p \in quiet}
           idle == {x \in from..to : \E pause \in Idles(s) : Within(x, pause)}
           spans == Build(s, Life(s))
           sure(x) == Sure(Segments(Beats, from, to), x)
<1>1. /\ from \in Int /\ to \in Int /\ Beats \subseteq Int
  BY StateFacts DEF Interval
<1>2. t \in Int /\ from <= t /\ t < to /\ from < to
  BY <1>1
<1>3. Inside(Beats, from, to) # {}
  BY <1>1 DEF Inside
<1>4. cuts \subseteq Int /\ \A c \in cuts : from <= c /\ c <= to
  <2>1. cuts \subseteq from..to
    BY <1>1, <1>2, CutsFacts
  <2> HIDE DEF cuts, from, to
  <2> QED
    BY <1>1, <2>1
<1>5. \A p \in Heard(cuts) : p.start \in Int /\ p.end \in Int /\ from <= p.start /\ p.end <= to
  BY <1>4 DEF Heard
<1>6. \A x : x \in seen <=> \E p \in Heard(cuts) : x \in p.start..(p.end - 1)
  OBVIOUS
<1>7. \A x : x \in off <=> \E p \in quiet : x \in p.start..(p.end - 1)
  OBVIOUS
<1>8. \A x \in Int : from <= x /\ x < to => (sure(x) <=> x \in seen)
  <2> TAKE x \in Int
  <2> HAVE from <= x /\ x < to
  <2>1. sure(x) <=> \E p \in Heard(cuts) : Within(x, p)
    BY <1>1, <1>2, <1>3, HeardIsSure
  <2> HIDE DEF seen, cuts, sure
  <2>2. \A p \in Heard(cuts) : Within(x, p) <=> x \in p.start..(p.end - 1)
    BY <1>5 DEF Within
  <2> QED
    BY <1>6, <2>1, <2>2
<1>9. \A x \in seen : x \in Int /\ from <= x /\ x < to
  <2> HIDE DEF seen, cuts
  <2> QED
    BY <1>1, <1>5, <1>6
<1>10. t \in idle <=> Paused(Idles(s), t)
  BY <1>1, <1>2 DEF Paused
<1> DEFINE some == \E x \in Int : from <= x /\ x < to /\ sure(x)
           stretch(a, b) == /\ from <= a /\ a <= t /\ t < b /\ b <= to /\ b - a > Ceiling
                            /\ \A x \in Int : a <= x /\ x < b => ~ sure(x)
<1>11. /\ KindsAt(spans, t) = {"ACTIVE"} <=> sure(t) /\ ~ Paused(Idles(s), t)
       /\ KindsAt(spans, t) = {"IDLE"} <=> sure(t) /\ Paused(Idles(s), t)
       /\ KindsAt(spans, t) = {"OFF_SESSION"} <=> some /\ \E a, b \in Int : stretch(a, b)
  BY <1>2, WholeKinds DEF OffAt
<1>12. some <=> seen # {}
  <2> HIDE DEF seen, sure
  <2> QED
    BY <1>8, <1>9
<1>13. (\E a, b \in Int : stretch(a, b)) <=> t \in off
  <2> HIDE DEF sure, seen, off
  <2>1. ASSUME NEW a \in Int, NEW b \in Int, stretch(a, b) PROVE t \in off
    <3> DEFINE p == [start |-> a, end |-> b]
    <3>1. a \in ends /\ b \in ends
      BY <1>1, <1>2, <2>1
    <3>2. \A x \in a..(b - 1) : x \notin seen
      BY <1>1, <1>8, <2>1
    <3>3. p \in quiet
      BY <2>1, <3>1, <3>2 DEF Length
    <3>4. t \in p.start..(p.end - 1)
      BY <1>2, <2>1
    <3> HIDE DEF p, quiet
    <3> QED
      BY <1>7, <3>3, <3>4
  <2>2. ASSUME t \in off PROVE \E a, b \in Int : stretch(a, b)
    <3>1. PICK p \in quiet : t \in p.start..(p.end - 1)
      BY <1>7, <2>2
    <3> DEFINE a == p.start
               b == p.end
    <3>2. a \in Int /\ b \in Int /\ from <= a /\ b <= to /\ b - a > Ceiling
      BY <1>1 DEF Length
    <3>3. a <= t /\ t < b
      BY <1>2, <3>1, <3>2
    <3>4. \A x \in Int : a <= x /\ x < b => ~ sure(x)
      <4>1. \A x \in a..(b - 1) : x \notin seen
        OBVIOUS
      <4> HIDE DEF a, b
      <4> QED
        BY <1>1, <1>8, <3>2, <4>1
    <3>5. stretch(a, b)
      BY <3>2, <3>3, <3>4
    <3> QED
      BY <3>2, <3>5
  <2> QED
    BY <2>1, <2>2
<1>14. /\ t \in seen \ idle <=> KindsAt(spans, t) = {"ACTIVE"}
       /\ t \in seen \cap idle <=> KindsAt(spans, t) = {"IDLE"}
       /\ t \in off /\ seen # {} <=> KindsAt(spans, t) = {"OFF_SESSION"}
  <2> HIDE DEF seen, idle, off, spans, some, stretch, sure
  <2> QED
    BY <1>2, <1>8, <1>10, <1>11, <1>12, <1>13
<1> QED
  BY <1>14 DEF Heard, Chained, Cuts, Inside

-----------------------------------------------------------------------------
(* What later heartbeats cannot change.                                      *)

\* A sure instant lies where the device was heard.
LEMMA SureIsMonitored ==
  ASSUME NEW from \in Int, NEW to \in Int, NEW runs, Tiling(runs, from, to),
         NEW t \in Int, Sure(runs, t)
  PROVE  KindsAt(runs, t) = {"monitored"}
<1>1. PICK r \in runs : Confirmed(r) /\ Within(t, r)
  BY DEF Sure
<1>2. r.kind = "monitored"
  BY <1>1 DEF Confirmed
<1>3. KindsAt(runs, t) = {r.kind}
  BY <1>1, TilingFacts
<1> QED
  BY <1>2, <1>3

\* The heartbeats until m.
UpTo(B, m) == {e \in B : e <= m}

\* The cuts around an instant before m: what comes after m can only move the later one.
LEMMA LaterCuts ==
  ASSUME NEW B, B \subseteq Int, NEW from \in Int, NEW m \in Int, NEW to \in Int,
         from < m, m <= to, NEW x \in Int,
         NEW a \in Int, NEW b \in Int, Around(UpTo(B, m), from, m, a, b, x),
         NEW c \in Int, NEW d \in Int, Around(B, from, to, c, d, x)
  PROVE  c = a /\ b <= d /\ (m <= b \/ d = b)
<1> DEFINE old == Cuts(UpTo(B, m), from, m)
           new == Cuts(B, from, to)
<1>1. \A e \in Int : e < m => (e \in old <=> e \in new)
  BY DEF Cuts, Inside, UpTo
<1>2. \A e \in new : e \in Int /\ (e <= m => e \in old)
  BY DEF Cuts, Inside, UpTo
<1>3. \A e \in old : e \in Int /\ e <= m
  BY DEF Cuts, Inside, UpTo
<1>4. /\ a \in old /\ b \in old /\ a <= x /\ x < b /\ \A e \in old : e <= a \/ b <= e
      /\ c \in new /\ d \in new /\ c <= x /\ x < d /\ \A e \in new : e <= c \/ d <= e
  BY DEF Around
<1> HIDE DEF old, new
<1>5. a < m /\ c < m
  BY <1>3, <1>4
<1>6. a \in new /\ c \in old
  BY <1>1, <1>4, <1>5
<1>7. c = a
  BY <1>4, <1>6
<1>8. b <= d
  <2>1. CASE d <= m
    BY <1>2, <1>4, <1>7, <2>1
  <2>2. CASE d > m
    BY <1>3, <1>4, <2>2
  <2> QED
    BY <2>1, <2>2
<1>9. m <= b \/ d = b
  <2> SUFFICES ASSUME b < m PROVE d = b
    BY <1>3, <1>4
  <2>1. b \in new
    BY <1>1, <1>3, <1>4
  <2> QED
    BY <1>4, <1>7, <1>8, <2>1
<1> QED
  BY <1>7, <1>8, <1>9

\* A silence seen before m after a run that counted stays OFF_SESSION.
LEMMA SilenceStays ==
  ASSUME NEW B, B \subseteq Int, NEW from \in Int, NEW m \in Int, NEW to \in Int,
         from < m, m <= to,
         NEW gap \in Segments(UpTo(B, m), from, m),
         gap.kind = "gap", Length(gap) > Ceiling,
         NEW y \in Int, from <= y, y < gap.start, Sure(Segments(UpTo(B, m), from, m), y),
         NEW t \in Int, Within(t, gap)
  PROVE  OffAt(Segments(B, from, to), from, to, t)
<1> DEFINE past == UpTo(B, m)
           old == Segments(past, from, m)
           new == Segments(B, from, to)
<1>a. past \subseteq Int
  BY DEF UpTo
<1>b. from < m /\ m <= to
  OBVIOUS
<1>c. from < to
  BY <1>b
<1>0. past \subseteq Int /\ from < m /\ from < to
  BY <1>a, <1>b, <1>c
<1>1. Runs(old, from, m) /\ Runs(new, from, to)
  BY <1>0, SegmentsFacts
<1>2. /\ \A s \in old : /\ s.start \in Int /\ s.end \in Int
                        /\ from <= s.start /\ s.start < s.end /\ s.end <= m
      /\ \A s \in old : \A x \in Int : Within(x, s) => KindsAt(old, x) = {s.kind}
      /\ \A r, s \in old : r = s \/ r.end <= s.start \/ s.end <= r.start
  <2>1. Tiling(old, from, m)
    BY <1>1 DEF Runs
  <2> HIDE DEF old
  <2> QED
    BY <2>1, TilingFacts
<1>3. /\ gap.start \in Int /\ gap.end \in Int
      /\ from <= gap.start /\ gap.start < gap.end /\ gap.end <= m
  BY <1>2
<1>4. \A x \in Int : gap.start <= x /\ x < gap.end => KindsAt(old, x) = {"gap"}
  BY <1>2 DEF Within
<1>5. KindsAt(old, y) = {"monitored"}
  BY <1>1, SureIsMonitored DEF Runs
<1>6. Inside(past, from, m) # {}
  <2>1. SUFFICES ASSUME Inside(past, from, m) = {} PROVE FALSE
    OBVIOUS
  <2>2. KindsUnheard(past, from, m)
    BY <1>0, <2>1, SegmentsFacts
  <2>3. KindsAt(old, y) = KindsAt(old, gap.start)
    <3>1. y < m /\ gap.start < m /\ from <= gap.start
      BY <1>3
    <3> QED
      BY <1>3, <2>2, <3>1 DEF KindsUnheard
  <2>4. KindsAt(old, gap.start) = {"gap"}
    BY <1>3, <1>4
  <2> HIDE DEF old
  <2>5. {"monitored"} = {"gap"}
    BY <1>5, <2>3, <2>4
  <2> QED
    BY <2>5
<1>7. Inside(B, from, to) # {}
  <2>1. PICK e : e \in Inside(past, from, m)
    BY <1>6
  <2>2. e \in Inside(B, from, to)
    BY <1>b, <2>1 DEF Inside, UpTo
  <2> QED
    BY <2>2
<1>8. KindsByCuts(past, from, m) /\ KindsByCuts(B, from, to)
  BY <1>0, <1>6, <1>7, SegmentsFacts
<1>9. Threshold \in Int /\ Sustained \in Int
  BY ThresholdAssumption, ClassifierAssumption
\* The kinds of an instant then and now.
<1>10. ASSUME NEW x \in Int, from <= x, x < m
       PROVE  \E a, b, d \in Int :
                /\ Around(past, from, m, a, b, x)
                /\ b <= d /\ (m <= b \/ d = b)
                /\ KindsAt(old, x) = {Observed(a, b)} /\ KindsAt(new, x) = {Observed(a, d)}
  <2>1. PICK a \in Int, b \in Int : Around(past, from, m, a, b, x)
    BY <1>0, <1>10, AroundFacts
  <2>2. PICK c \in Int, d \in Int : Around(B, from, to, c, d, x)
    <3>1. x < to
      BY <1>10
    <3> QED
      BY <1>0, <1>10, <3>1, AroundFacts
  <2>3. c = a /\ b <= d /\ (m <= b \/ d = b)
    BY <1>b, <2>1, <2>2, LaterCuts
  <2>4. KindsAt(old, x) = {Observed(a, b)}
    BY <1>8, <2>1 DEF KindsByCuts
  <2>5. KindsAt(new, x) = {Observed(c, d)}
    BY <1>8, <2>2 DEF KindsByCuts
  <2> HIDE DEF old, new, past
  <2> QED
    BY <2>1, <2>3, <2>4, <2>5
<1> HIDE DEF old, new, past
<1>11. ASSUME NEW x \in Int, gap.start <= x, x < gap.end PROVE ~ Sure(new, x)
  <2>1. PICK a \in Int, b \in Int, d \in Int :
          /\ Around(past, from, m, a, b, x)
          /\ b <= d /\ (m <= b \/ d = b)
          /\ KindsAt(old, x) = {Observed(a, b)} /\ KindsAt(new, x) = {Observed(a, d)}
    BY <1>3, <1>10, <1>11
  <2>2. {Observed(a, b)} = {"gap"}
    BY <1>4, <1>11, <2>1
  <2>3. Observed(a, d) = "gap"
    <3>1. Observed(a, b) = "gap"
      BY <2>2
    <3>2. ~ (b - a <= Threshold)
      BY <3>1 DEF Observed
    <3>3. ~ (d - a <= Threshold)
      BY <1>9, <2>1, <3>2
    <3> QED
      BY <3>3 DEF Observed
  <2>4. KindsAt(new, x) # {"monitored"}
    <3>1. KindsAt(new, x) = {"gap"}
      BY <2>1, <2>3
    <3>2. "gap" # "monitored"
      OBVIOUS
    <3> QED
      BY <3>1, <3>2
  <2> QED
    BY <1>1, <2>4, SureIsMonitored DEF Runs
<1>12. PICK r \in old : Confirmed(r) /\ Within(y, r)
  BY DEF Sure, old, past
<1>13. /\ r.kind = "monitored" /\ r.end - r.start >= Sustained
       /\ r.start <= y /\ y < r.end
  BY <1>12 DEF Confirmed, Length, Within
<1>14. /\ r.start \in Int /\ r.end \in Int /\ r.start < r.end /\ r.end <= gap.start
       /\ from <= r.start
  <2>1. r # gap
    BY <1>13
  <2>2. gap \in old
    BY DEF old, past
  <2> QED
    BY <1>2, <1>3, <1>13, <2>1, <2>2
<1>15. ASSUME NEW x \in Int, r.start <= x, x < r.end PROVE KindsAt(new, x) = {"monitored"}
  <2>0. from <= x /\ x < m /\ x < gap.start
    BY <1>3, <1>14, <1>15
  <2>1. PICK a \in Int, b \in Int, d \in Int :
          /\ Around(past, from, m, a, b, x)
          /\ b <= d /\ (m <= b \/ d = b)
          /\ KindsAt(old, x) = {Observed(a, b)} /\ KindsAt(new, x) = {Observed(a, d)}
    BY <1>10, <2>0
  <2>2. KindsAt(old, x) = {"monitored"}
    BY <1>2, <1>13, <1>15 DEF Within
  <2>3. b <= gap.start
    <3>1. SUFFICES ASSUME gap.start < b PROVE FALSE
      BY <1>3
    <3>2. Around(past, from, m, a, b, gap.start)
      BY <1>3, <2>0, <2>1, <3>1 DEF Around
    <3>3. KindsAt(old, gap.start) = {Observed(a, b)}
      BY <1>3, <1>8, <3>2 DEF KindsByCuts, old
    <3>4. KindsAt(old, gap.start) = {"gap"}
      BY <1>3, <1>4
    <3>5. {"monitored"} = {"gap"}
      BY <2>1, <2>2, <3>3, <3>4
    <3> QED
      BY <3>5
  <2>4. d = b
    BY <1>3, <2>1, <2>3
  <2> QED
    BY <2>1, <2>2, <2>4
<1>16. Sure(new, y)
  <2>1. r.end <= to /\ from <= y /\ y < to
    BY <1>3, <1>13, <1>14
  <2> QED
    BY <1>1, <1>13, <1>14, <1>15, <2>1, SureFacts
<1>17. /\ gap.start <= t /\ t < gap.end /\ gap.end <= to /\ y < to
       /\ gap.end - gap.start > Ceiling
  BY <1>3 DEF Within, Length
<1>18. \E x \in Int : from <= x /\ x < to /\ Sure(new, x)
  BY <1>16, <1>17
<1>19. \E a, b \in Int : /\ from <= a /\ a <= t /\ t < b /\ b <= to /\ b - a > Ceiling
                         /\ \A x \in Int : a <= x /\ x < b => ~ Sure(new, x)
  BY <1>3, <1>11, <1>17
<1> QED
  BY <1>18, <1>19 DEF OffAt, new

\* What was shown as OFF_SESSION after a run that counts, and is over or not, stays so.
LEMMA TypeOKOffSessionIsFinal == TypeOK => OffSessionIsFinal
<1> SUFFICES ASSUME TypeOK, NEW s \in Known, NEW m \in Life(s).start..Life(s).end,
                    NEW gap \in Segments({b \in Beats : b <= m}, Life(s).start, m),
                    gap.kind = "gap", Length(gap) > Ceiling,
                    NEW run \in Classify(Segments({b \in Beats : b <= m}, Life(s).start, m)),
                    run.kind = "monitored", run.end <= gap.start,
                    NEW t \in gap.start..(gap.end - 1)
             PROVE  KindsAt(Classified(Life(s)), t) = {"OFF_SESSION"}
  BY DEF OffSessionIsFinal
<1> DEFINE from == Life(s).start
           to == Life(s).end
           past == UpTo(Beats, m)
           raw == Segments(past, from, m)
           new == Segments(Beats, from, to)
           y == run.start
<1>1. Beats \subseteq Int /\ from \in Int /\ to \in Int /\ m \in Int /\ from <= m /\ m <= to
  BY StateFacts DEF Interval
<1>2. past \subseteq Int
  BY <1>1 DEF UpTo
<1>3. gap \in raw /\ run \in Classify(raw)
  BY DEF UpTo
<1>4. from < m
  <2>1. SUFFICES ASSUME m <= from PROVE raw = {}
    BY <1>1, <1>3
  <2> QED
    BY <2>1 DEF Segments
<1> HIDE DEF from, to, past
<1>5. Tiling(raw, from, m)
  BY <1>1, <1>2, <1>4, SegmentsFacts DEF Runs
<1>6. Tiling(Classify(raw), from, m)
  BY <1>1, <1>5, ClassifyFacts
<1> HIDE DEF raw
<1>7. gap.start \in Int /\ gap.end \in Int /\ from <= gap.start /\ gap.end <= m
  BY <1>1, <1>3, <1>5, TilingFacts
<1>8. y \in Int /\ run.end \in Int /\ from <= y /\ y < run.end /\ run.end <= m
  BY <1>1, <1>3, <1>6, TilingFacts
<1>9. Within(y, run)
  BY <1>8 DEF Within
<1>10. KindsAt(Classify(raw), y) = {"monitored"}
  <2>1. KindsAt(Classify(raw), y) = {run.kind}
    <3> HIDE DEF y
    <3> QED
      BY <1>1, <1>3, <1>6, <1>8, <1>9, TilingFacts
  <2> QED
    BY <2>1
<1>11. Sure(raw, y) /\ y < gap.start
  <2>1. from <= y /\ y < m /\ y < gap.start
    BY <1>1, <1>7, <1>8
  <2> HIDE DEF y
  <2>2. Sure(raw, y)
    BY <1>1, <1>5, <1>8, <1>10, <2>1, ClassifyFacts
  <2> QED
    BY <2>1, <2>2
<1> HIDE DEF y
<1>12. t \in Int /\ Within(t, gap) /\ from <= t /\ t < to
  BY <1>1, <1>7 DEF Within
<1>13. OffAt(new, from, to, t)
  <2>1. from <= y
    BY <1>8
  <2>2. gap.kind = "gap" /\ Length(gap) > Ceiling
    OBVIOUS
  <2> QED
    BY <1>1, <1>3, <1>4, <1>8, <1>11, <1>12, <2>1, <2>2, SilenceStays DEF raw, past
<1>14. Tiling(new, from, to)
  <2>1. from < to
    BY <1>1, <1>4
  <2> QED
    BY <1>1, <2>1, SegmentsFacts DEF Runs
<1> HIDE DEF new
<1>15. KindsAt(Classify(new), t) = {"OFF_SESSION"}
  BY <1>1, <1>12, <1>13, <1>14, ClassifyFacts
<1> QED
  BY <1>15 DEF Classified, new, from, to

-----------------------------------------------------------------------------
(* What a window that is padded enough shows of the whole.                   *)

\* An instant is in a monitored segment.
MonitoredAt(B, from, to, x) == KindsAt(Segments(B, from, to), x) = {"monitored"}

\* A window [wf, wt) of a life [ls, le) that shows [ss, se).
PaddedView(ls, le, wf, wt, ss, se) ==
  /\ ls <= wf /\ wf <= ss /\ ss < se /\ se <= wt /\ wt <= le
  /\ wf = ls \/ wf = ss - Padding
  /\ wt = le \/ wt = se + Padding

\* The last heartbeat before a window.
LastBefore(B, from, last) == last \in B /\ last < from /\ \A b \in B : b < from => b <= last

\* A window with heartbeats: what counts is the distance of the cuts around.
LEMMA MonitoredByCuts ==
  ASSUME NEW B, B \subseteq Int, NEW from \in Int, NEW to \in Int, from < to,
         Inside(B, from, to) # {}, NEW x \in Int, NEW a \in Int, NEW b \in Int,
         Around(B, from, to, a, b, x)
  PROVE  MonitoredAt(B, from, to, x) <=> b - a <= Threshold
<1>1. KindsByCuts(B, from, to)
  <2>1. from < to /\ Inside(B, from, to) # {}
    OBVIOUS
  <2> QED
    BY <2>1, SegmentsFacts
<1>2. KindsAt(Segments(B, from, to), x) = {Observed(a, b)}
  BY <1>1 DEF KindsByCuts
<1>3. {Observed(a, b)} = {"monitored"} <=> b - a <= Threshold
  BY ThresholdAssumption DEF Observed
<1> QED
  BY <1>2, <1>3 DEF MonitoredAt

\* A window without: what counts is the distance of its end from the last one before.
LEMMA MonitoredByLast ==
  ASSUME NEW B, B \subseteq Int, NEW from \in Int, NEW to \in Int, from < to,
         Inside(B, from, to) = {}, NEW h \in B, h <= from,
         NEW x \in Int, from <= x, x < to
  PROVE  \E last \in Int :
           /\ LastBefore(B, from, last)
           /\ MonitoredAt(B, from, to, x) <=> to - last <= Threshold
<1> DEFINE earlier == {b \in B : b < from}
           last == Max(earlier)
<1>0. from < to /\ Inside(B, from, to) = {} /\ h \in Int /\ h <= from /\ from <= x /\ x < to
  OBVIOUS
<1>1. h \in earlier
  BY <1>0 DEF Inside
<1>2. earlier \subseteq Int /\ earlier # {} /\ \A b \in earlier : b <= from
  <2>1. earlier # {}
    BY <1>1
  <2>2. ASSUME NEW b \in earlier PROVE b \in Int /\ b <= from
    BY <2>2
  <2> HIDE DEF earlier
  <2> QED
    BY <2>1, <2>2
<1>3. last \in earlier /\ last \in Int /\ \A b \in earlier : b <= last
  <2> HIDE DEF earlier
  <2> QED
    BY <1>2, MaxFacts
<1>4. LastBefore(B, from, last)
  <2> HIDE DEF last
  <2> QED
    BY <1>3 DEF LastBefore
<1>5. Unobserved(B, from, to) = Observed(last, to)
  BY <1>2 DEF Unobserved
<1> HIDE DEF last, earlier
<1>6. KindsUnheard(B, from, to)
  BY <1>0, SegmentsFacts
<1>7. KindsAt(Segments(B, from, to), x) = {Observed(last, to)}
  BY <1>0, <1>5, <1>6 DEF KindsUnheard
<1>8. {Observed(last, to)} = {"monitored"} <=> to - last <= Threshold
  BY <1>3, ThresholdAssumption DEF Observed
<1> QED
  BY <1>3, <1>4, <1>7, <1>8 DEF MonitoredAt

\* The heartbeats and the cuts of a stretch inside of another.
LEMMA CutsInside ==
  ASSUME NEW B, B \subseteq Int, NEW ls \in Int, NEW le \in Int, NEW wf \in Int, NEW wt \in Int,
         ls <= wf, wt <= le
  PROVE  /\ Inside(B, wf, wt) \subseteq Inside(B, ls, le)
         /\ \A y \in Cuts(B, ls, le) : wf <= y /\ y <= wt => y \in Cuts(B, wf, wt)
         /\ \A y \in Cuts(B, ls, le) : y \in Int
<1>1. ls <= wf /\ wt <= le
  OBVIOUS
<1>2. ASSUME NEW y \in Inside(B, wf, wt) PROVE y \in Inside(B, ls, le)
  BY <1>1, <1>2 DEF Inside
<1>3. ASSUME NEW y \in Cuts(B, ls, le) PROVE y \in Int
  BY <1>3 DEF Cuts, Inside
<1>4. ASSUME NEW y \in Cuts(B, ls, le), wf <= y, y <= wt PROVE y \in Cuts(B, wf, wt)
  <2>1. y \in B \/ y = ls \/ y = le
    BY <1>4 DEF Cuts, Inside
  <2>2. y \in B \/ y = wf \/ y = wt
    BY <1>1, <1>3, <1>4, <2>1
  <2> QED
    BY <1>4, <2>2 DEF Cuts, Inside
<1> QED
  BY <1>2, <1>3, <1>4

\* What is monitored in a whole life is monitored in a window of it.
LEMMA MonitoredInView ==
  ASSUME NEW B, B \subseteq Int, NEW ls \in Int, NEW le \in Int, NEW wf \in Int, NEW wt \in Int,
         NEW ss \in Int, NEW se \in Int, PaddedView(ls, le, wf, wt, ss, se),
         NEW h \in B, h <= ls, NEW x \in Int, wf <= x, x < wt,
         MonitoredAt(B, ls, le, x)
  PROVE  MonitoredAt(B, wf, wt, x)
<1>0. /\ ls <= wf /\ wf <= ss /\ ss < se /\ se <= wt /\ wt <= le
      /\ wf = ls \/ wf = ss - Padding
      /\ wt = le \/ wt = se + Padding
      /\ Padding \in Int /\ Threshold \in Int /\ Sustained \in Int
      /\ Padding >= Threshold /\ Padding >= 0
      /\ h \in Int /\ h <= ls /\ wf <= x /\ x < wt
  BY TimeAssumption, PaddingAssumption, ThresholdAssumption, ClassifierAssumption DEF PaddedView
<1>1. ls < le /\ wf < wt /\ ls <= x /\ x < le /\ h <= wf
  BY <1>0
<1>2. CASE Inside(B, ls, le) = {}
  <2>1. Inside(B, wf, wt) = {}
    BY <1>0, <1>2, CutsInside
  <2>2. PICK p \in Int : LastBefore(B, ls, p) /\ (MonitoredAt(B, ls, le, x) <=> le - p <= Threshold)
    BY <1>0, <1>1, <1>2, MonitoredByLast
  <2>3. PICK q \in Int : LastBefore(B, wf, q) /\ (MonitoredAt(B, wf, wt, x) <=> wt - q <= Threshold)
    BY <1>0, <1>1, <2>1, MonitoredByLast
  <2>4. p <= q
    BY <1>0, <2>2, <2>3 DEF LastBefore
  <2>5. le - p <= Threshold
    BY <2>2
  <2> QED
    BY <1>0, <2>3, <2>4, <2>5
<1>3. CASE Inside(B, ls, le) # {} /\ Inside(B, wf, wt) # {}
  <2>1. PICK a \in Int, b \in Int : Around(B, ls, le, a, b, x)
    BY <1>0, <1>1, AroundFacts
  <2>2. PICK c \in Int, e \in Int : Around(B, wf, wt, c, e, x)
    BY <1>0, <1>1, AroundFacts
  <2>3. b - a <= Threshold
    BY <1>1, <1>3, <2>1, MonitoredByCuts
  <2>4. a <= c /\ e <= b
    <3>1. \A y \in Cuts(B, ls, le) : y \in Int /\ (wf <= y /\ y <= wt => y \in Cuts(B, wf, wt))
      BY <1>0, CutsInside
    <3>2. wf \in Cuts(B, wf, wt) /\ wt \in Cuts(B, wf, wt)
      BY DEF Cuts
    <3> QED
      BY <1>0, <3>1, <3>2, <2>1, <2>2 DEF Around
  <2>5. e - c <= Threshold
    BY <1>0, <2>3, <2>4
  <2> QED
    BY <1>1, <1>3, <2>2, <2>5, MonitoredByCuts
<1>4. CASE Inside(B, ls, le) # {} /\ Inside(B, wf, wt) = {}
  <2>1. PICK a \in Int, b \in Int : Around(B, ls, le, a, b, x)
    BY <1>0, <1>1, AroundFacts
  <2>2. b - a <= Threshold
    BY <1>1, <1>4, <2>1, MonitoredByCuts
  <2>3. PICK q \in Int : LastBefore(B, wf, q) /\ (MonitoredAt(B, wf, wt, x) <=> wt - q <= Threshold)
    BY <1>0, <1>1, <1>4, MonitoredByLast
  <2>4. /\ a \in Cuts(B, ls, le) /\ b \in Cuts(B, ls, le) /\ a <= x /\ x < b
        /\ \A c \in Cuts(B, ls, le) : c <= a \/ b <= c
    BY <2>1 DEF Around
  <2>5. a <= wf /\ wt <= b
    <3>1. a \in B \/ a = ls \/ a = le
      BY <2>4 DEF Cuts, Inside
    <3>2. b \in B \/ b = ls \/ b = le
      BY <2>4 DEF Cuts, Inside
    <3>3. \A y \in B : y < wf \/ wt < y
      BY <1>4 DEF Inside
    <3> QED
      BY <1>0, <2>4, <3>1, <3>2, <3>3
  <2>6. CASE a \in B
    <3>1. a < wf
      BY <1>4, <2>5, <2>6, <1>0 DEF Inside
    <3>2. a <= q
      BY <2>3, <2>6, <3>1 DEF LastBefore
    <3>3. wt - q <= Threshold
      BY <1>0, <2>2, <2>5, <3>2
    <3> QED
      BY <2>3, <3>3
  <2>7. CASE a \notin B
    <3>1. a = ls
      BY <1>0, <2>4, <2>7 DEF Cuts, Inside
    <3>2. wt = le
      BY <1>0, <2>2, <2>5, <3>1
    <3>3. PICK y : y \in B /\ y \in Int /\ ls <= y /\ y <= le
      BY <1>4 DEF Inside
    <3>4. y \in Cuts(B, ls, le)
      BY <3>3 DEF Cuts, Inside
    <3>5. y <= a \/ b <= y
      BY <2>4, <3>4
    <3>6. y = ls \/ y = le
      BY <1>0, <2>5, <3>1, <3>2, <3>3, <3>5
    <3>7. y \in Inside(B, wf, wt)
      BY <1>0, <2>7, <3>1, <3>2, <3>3, <3>6 DEF Inside
    <3> QED
      BY <1>4, <3>7
  <2> QED
    BY <2>6, <2>7
<1> QED
  BY <1>2, <1>3, <1>4

\* What is monitored in a window, and far enough from where its padding ends, is
\* monitored in the whole life.
LEMMA MonitoredInLife ==
  ASSUME NEW B, B \subseteq Int, NEW ls \in Int, NEW le \in Int, NEW wf \in Int, NEW wt \in Int,
         NEW ss \in Int, NEW se \in Int, PaddedView(ls, le, wf, wt, ss, se),
         NEW h \in B, h <= ls, NEW x \in Int, wf <= x, x < wt,
         wf = ls \/ wf + Threshold <= x, wt = le \/ x < wt - Threshold,
         MonitoredAt(B, wf, wt, x)
  PROVE  MonitoredAt(B, ls, le, x)
<1>0. /\ ls <= wf /\ wf <= ss /\ ss < se /\ se <= wt /\ wt <= le
      /\ wf = ls \/ wf = ss - Padding
      /\ wt = le \/ wt = se + Padding
      /\ Padding \in Int /\ Threshold \in Int /\ Sustained \in Int
      /\ Padding >= Threshold /\ Padding >= 0
      /\ h \in Int /\ h <= ls /\ wf <= x /\ x < wt
      /\ wf = ls \/ wf + Threshold <= x
      /\ wt = le \/ x < wt - Threshold
  BY TimeAssumption, PaddingAssumption, ThresholdAssumption, ClassifierAssumption DEF PaddedView
<1>1. ls < le /\ wf < wt /\ ls <= x /\ x < le /\ h <= wf
  BY <1>0
<1>2. CASE Inside(B, wf, wt) = {}
  <2>1. PICK q \in Int : LastBefore(B, wf, q) /\ (MonitoredAt(B, wf, wt, x) <=> wt - q <= Threshold)
    BY <1>0, <1>1, <1>2, MonitoredByLast
  <2>2. q < wf /\ wt - q <= Threshold
    BY <2>1 DEF LastBefore
  <2>3. wf = ls /\ wt = le
    BY <1>0, <2>2
  <2> QED
    BY <2>3
<1>3. CASE Inside(B, wf, wt) # {}
  <2>1. PICK a \in Int, b \in Int : Around(B, wf, wt, a, b, x)
    BY <1>0, <1>1, AroundFacts
  <2>2. b - a <= Threshold
    BY <1>1, <1>3, <2>1, MonitoredByCuts
  <2>3. /\ a \in Cuts(B, wf, wt) /\ b \in Cuts(B, wf, wt) /\ a <= x /\ x < b
        /\ \A c \in Cuts(B, wf, wt) : c <= a \/ b <= c
    BY <2>1 DEF Around
  <2>4. a \in Cuts(B, ls, le)
    <3>1. a \in B \/ a = wf \/ a = wt
      BY <2>3 DEF Cuts, Inside
    <3>2. a \in B \/ a = ls
      BY <1>0, <2>2, <2>3, <3>1
    <3>3. wf <= a
      BY <1>0, <2>3 DEF Cuts, Inside
    <3> QED
      BY <1>0, <2>3, <3>2, <3>3 DEF Cuts, Inside
  <2>5. b \in Cuts(B, ls, le)
    <3>1. b \in B \/ b = wf \/ b = wt
      BY <2>3 DEF Cuts, Inside
    <3>2. b \in B \/ b = le
      BY <1>0, <2>2, <2>3, <3>1
    <3>3. b <= wt
      BY <1>0, <2>3 DEF Cuts, Inside
    <3> QED
      BY <1>0, <2>3, <3>2, <3>3 DEF Cuts, Inside
  <2>6. wf <= a /\ b <= wt
    BY <1>0, <2>3 DEF Cuts, Inside
  <2>7. \A c \in Cuts(B, ls, le) : c \in Int /\ (wf <= c /\ c <= wt => c \in Cuts(B, wf, wt))
    BY <1>0, CutsInside
  <2>8. \A c \in Cuts(B, ls, le) : c <= a \/ b <= c
    BY <1>0, <2>3, <2>6, <2>7
  <2>9. Around(B, ls, le, a, b, x)
    BY <2>3, <2>4, <2>5, <2>8 DEF Around
  <2>10. Inside(B, ls, le) # {}
    BY <1>0, <1>3, CutsInside
  <2> QED
    BY <1>1, <2>2, <2>9, <2>10, MonitoredByCuts
<1> QED
  BY <1>2, <1>3

\* What a window shows lies in a run that counts iff it does in the whole life.
LEMMA SureAgrees ==
  ASSUME NEW B, B \subseteq Int, NEW ls \in Int, NEW le \in Int, NEW wf \in Int, NEW wt \in Int,
         NEW ss \in Int, NEW se \in Int, PaddedView(ls, le, wf, wt, ss, se),
         NEW h \in B, h <= ls, NEW t \in Int, ss <= t, t < se
  PROVE  Sure(Segments(B, wf, wt), t) <=> Sure(Segments(B, ls, le), t)
<1>0. /\ ls <= wf /\ wf <= ss /\ ss < se /\ se <= wt /\ wt <= le
      /\ wf = ls \/ wf = ss - Padding
      /\ wt = le \/ wt = se + Padding
      /\ Padding \in Int /\ Threshold \in Int /\ Sustained \in Int
      /\ Padding >= Threshold + Sustained /\ Threshold >= 0 /\ Sustained >= 0
      /\ h <= ls /\ ss <= t /\ t < se
  BY TimeAssumption, PaddingAssumption, ThresholdAssumption, ClassifierAssumption DEF PaddedView
<1>1. ls < le /\ wf < wt /\ ls <= t /\ t < le /\ wf <= t /\ t < wt
  BY <1>0
<1> DEFINE win == Segments(B, wf, wt)
           full == Segments(B, ls, le)
<1>2. Runs(win, wf, wt) /\ Runs(full, ls, le)
  BY <1>1, SegmentsFacts
<1>3. Sure(win, t) <=> \E u, v \in Int :
             /\ wf <= u /\ u <= t /\ t < v /\ v <= wt /\ v - u >= Sustained
             /\ \A x \in Int : u <= x /\ x < v => KindsAt(win, x) = {"monitored"}
  BY <1>1, <1>2, SureFacts, SMTT(30)
<1>4. Sure(full, t) <=> \E u, v \in Int :
             /\ ls <= u /\ u <= t /\ t < v /\ v <= le /\ v - u >= Sustained
             /\ \A x \in Int : u <= x /\ x < v => KindsAt(full, x) = {"monitored"}
  BY <1>1, <1>2, SureFacts
<1>5. ASSUME NEW x \in Int, wf <= x, x < wt, KindsAt(full, x) = {"monitored"}
      PROVE  KindsAt(win, x) = {"monitored"}
  <2>1. MonitoredAt(B, ls, le, x)
    BY <1>5 DEF MonitoredAt
  <2>2. wf <= x /\ x < wt /\ h <= ls /\ PaddedView(ls, le, wf, wt, ss, se)
    BY <1>0, <1>5
  <2> HIDE DEF win, full
  <2>3. MonitoredAt(B, wf, wt, x)
    BY <2>1, <2>2, MonitoredInView
  <2> QED
    BY <2>3 DEF MonitoredAt, win
<1>6. ASSUME NEW x \in Int, wf <= x, x < wt, KindsAt(win, x) = {"monitored"},
             wf = ls \/ wf + Threshold <= x, wt = le \/ x < wt - Threshold
      PROVE  KindsAt(full, x) = {"monitored"}
  <2>1. MonitoredAt(B, wf, wt, x)
    BY <1>6 DEF MonitoredAt
  <2>2. wf <= x /\ x < wt /\ h <= ls /\ PaddedView(ls, le, wf, wt, ss, se)
    BY <1>0, <1>6
  <2>3. wf = ls \/ wf + Threshold <= x
    BY <1>6
  <2>4. wt = le \/ x < wt - Threshold
    BY <1>6
  <2> HIDE DEF win, full
  <2>5. MonitoredAt(B, ls, le, x)
    BY <2>1, <2>2, <2>3, <2>4, MonitoredInLife
  <2> QED
    BY <2>5 DEF MonitoredAt, full
<1> HIDE DEF win, full
<1>7. ASSUME Sure(full, t) PROVE Sure(win, t)
  <2>1. PICK u \in Int, v \in Int :
             /\ ls <= u /\ u <= t /\ t < v /\ v <= le /\ v - u >= Sustained
             /\ \A x \in Int : u <= x /\ x < v => KindsAt(full, x) = {"monitored"}
    BY <1>4, <1>7
  <2> DEFINE p == IF u < wf THEN wf ELSE u
             q == IF v > wt THEN wt ELSE v
  <2>2. p \in Int /\ q \in Int /\ wf <= p /\ p <= t /\ t < q /\ q <= wt /\ u <= p /\ q <= v
    BY <1>1, <2>1
  <2>3. q - p >= Sustained
    BY <1>0, <2>1
  <2> HIDE DEF p, q
  <2>4. ASSUME NEW x \in Int, p <= x, x < q PROVE KindsAt(win, x) = {"monitored"}
    <3>1. u <= x /\ x < v /\ wf <= x /\ x < wt
      BY <2>2, <2>4
    <3>2. KindsAt(full, x) = {"monitored"}
      BY <2>1, <3>1
    <3> QED
      BY <1>5, <3>1, <3>2
  <2> QED
    BY <1>3, <2>2, <2>3, <2>4
<1>8. ASSUME Sure(win, t) PROVE Sure(full, t)
  <2>1. PICK u \in Int, v \in Int :
             /\ wf <= u /\ u <= t /\ t < v /\ v <= wt /\ v - u >= Sustained
             /\ \A x \in Int : u <= x /\ x < v => KindsAt(win, x) = {"monitored"}
    BY <1>3, <1>8
  <2> DEFINE p == IF wf # ls /\ u < wf + Threshold THEN wf + Threshold ELSE u
             q == IF wt # le /\ v > wt - Threshold THEN wt - Threshold ELSE v
  <2>2. /\ p \in Int /\ q \in Int /\ wf <= p /\ p <= t /\ t < q /\ q <= wt /\ u <= p /\ q <= v
        /\ wf = ls \/ wf + Threshold <= p
        /\ wt = le \/ q <= wt - Threshold
    BY <1>0, <1>1, <2>1
  <2>3. q - p >= Sustained
    BY <1>0, <2>1
  <2> HIDE DEF p, q
  <2>4. ASSUME NEW x \in Int, p <= x, x < q PROVE KindsAt(full, x) = {"monitored"}
    <3>1. /\ u <= x /\ x < v /\ wf <= x /\ x < wt
          /\ wf = ls \/ wf + Threshold <= x
          /\ wt = le \/ x < wt - Threshold
      BY <1>0, <2>2, <2>4
    <3>2. KindsAt(win, x) = {"monitored"}
      BY <2>1, <3>1
    <3> QED
      BY <1>6, <3>1, <3>2
  <2>5. ls <= p /\ q <= le
    BY <1>0, <2>2
  <2> QED
    BY <1>4, <2>2, <2>3, <2>4, <2>5
<1> QED
  BY <1>7, <1>8 DEF win, full

\* What it takes for that, in one formula.
ViewAt(B, ls, le, wf, wt, ss, se, h, t) ==
  /\ B \subseteq Int /\ ls \in Int /\ le \in Int /\ wf \in Int /\ wt \in Int
  /\ ss \in Int /\ se \in Int /\ t \in Int
  /\ PaddedView(ls, le, wf, wt, ss, se) /\ h \in B /\ h <= ls /\ ss <= t /\ t < se

\* The window confirms an instant it shows iff the whole life does.
LEMMA SureAgreesAt ==
  ASSUME NEW B, NEW ls, NEW le, NEW wf, NEW wt, NEW ss, NEW se, NEW h, NEW t,
         ViewAt(B, ls, le, wf, wt, ss, se, h, t)
  PROVE  Sure(Segments(B, wf, wt), t) <=> Sure(Segments(B, ls, le), t)
<1>1. /\ B \subseteq Int /\ ls \in Int /\ le \in Int /\ wf \in Int /\ wt \in Int
      /\ ss \in Int /\ se \in Int /\ t \in Int
      /\ PaddedView(ls, le, wf, wt, ss, se) /\ h \in B /\ h <= ls /\ ss <= t /\ t < se
  BY DEF ViewAt
<1> QED
  BY <1>1, SureAgrees

\* Presence in a view, in terms of what is sure.
LEMMA PresentKinds ==
  ASSUME TypeOK, NEW s \in Known, NEW window, Interval(window), ~ Empty(ShownIn(s, window)),
         NEW t \in Int, ShownIn(s, window).start <= t, t < ShownIn(s, window).end
  PROVE  KindsAt(Build(s, window), t) \cap Present =
           IF Sure(Raw(s, window), t) THEN {IF Paused(Idles(s), t) THEN "IDLE" ELSE "ACTIVE"}
           ELSE {}
<1> DEFINE kinds == KindsAt(Build(s, window), t)
<1>1. IF Sure(Raw(s, window), t)
      THEN kinds = {IF Paused(Idles(s), t) THEN "IDLE" ELSE "ACTIVE"}
      ELSE \E k \in {"OFF_SESSION", "MONITORING_GAP"} : kinds = {k}
  BY BuildFacts
<1> HIDE DEF kinds
<1>2. CASE Sure(Raw(s, window), t)
  BY <1>1, <1>2 DEF Present, kinds
<1>3. CASE ~ Sure(Raw(s, window), t)
  <2>1. PICK k \in {"OFF_SESSION", "MONITORING_GAP"} : kinds = {k}
    BY <1>1, <1>3
  <2>2. k \notin Present
    BY DEF Present
  <2> QED
    BY <1>3, <2>1, <2>2 DEF kinds
<1> QED
  BY <1>2, <1>3

\* Any window shows the presence that the whole session shows.
LEMMA PresenceSame ==
  ASSUME TypeOK, NEW s \in Known, HeardBefore(s),
         NEW window, Interval(window), ~ Empty(ShownIn(s, window)),
         NEW t \in Int, ShownIn(s, window).start <= t, t < ShownIn(s, window).end
  PROVE  KindsAt(Build(s, window), t) \cap Present = KindsAt(Build(s, Life(s)), t) \cap Present
<1> DEFINE ss == ShownIn(s, window).start
           se == ShownIn(s, window).end
           wf == Seen(s, window).start
           wt == Seen(s, window).end
           ls == Life(s).start
           le == Life(s).end
<1>2. /\ Beats \subseteq Int /\ Interval(Life(s))
  BY StateFacts
<1>3. ~ Empty(ShownIn(s, window)) /\ Interval(window)
  OBVIOUS
<1>4. /\ ss \in Int /\ se \in Int /\ wf \in Int /\ wt \in Int /\ ls \in Int /\ le \in Int
      /\ ss < se /\ ls <= wf /\ wf <= ss /\ se <= wt /\ wt <= le
      /\ wf = ls \/ wf = ss - Padding
      /\ wt = le \/ wt = se + Padding
  BY <1>2, <1>3, SeenFacts DEF Interval
<1>6. t \in Int /\ ss <= t /\ t < se
  OBVIOUS
<1>7. PICK h \in Beats : h <= ls
  BY DEF HeardBefore
<1>8. PaddedView(ls, le, wf, wt, ss, se)
  BY <1>4 DEF PaddedView
<1>9. ls < le /\ ls <= t /\ t < le
  BY <1>4, <1>6
<1>10. Sure(Segments(Beats, wf, wt), t) <=> Sure(Segments(Beats, ls, le), t)
  <2> DEFINE B == Beats
  <2>1. B \subseteq Int /\ h \in B
    BY <1>2
  <2> HIDE DEF ls, le, wf, wt, ss, se, B
  <2>2. ViewAt(B, ls, le, wf, wt, ss, se, h, t)
    BY <1>4, <1>6, <1>7, <1>8, <2>1 DEF ViewAt
  <2>3. Sure(Segments(B, wf, wt), t) <=> Sure(Segments(B, ls, le), t)
    BY <2>2, SureAgreesAt
  <2> QED
    BY <2>3 DEF B
<1>11. /\ ~ Empty(ShownIn(s, Life(s)))
       /\ ShownIn(s, Life(s)).start = ls /\ ShownIn(s, Life(s)).end = le
       /\ Raw(s, Life(s)) = Segments(Beats, ls, le)
  BY <1>9, WholeFacts
<1>12. Raw(s, window) = Segments(Beats, wf, wt)
  BY DEF Raw
<1>13. KindsAt(Build(s, window), t) \cap Present =
         IF Sure(Raw(s, window), t) THEN {IF Paused(Idles(s), t) THEN "IDLE" ELSE "ACTIVE"} ELSE {}
  BY <1>2, <1>3, <1>6, PresentKinds
<1>14. KindsAt(Build(s, Life(s)), t) \cap Present =
         IF Sure(Raw(s, Life(s)), t) THEN {IF Paused(Idles(s), t) THEN "IDLE" ELSE "ACTIVE"} ELSE {}
  BY <1>2, <1>9, <1>11, PresentKinds
<1>15. Sure(Raw(s, window), t) <=> Sure(Raw(s, Life(s)), t)
  BY <1>10, <1>11, <1>12
<1> QED
  BY <1>13, <1>14, <1>15

\* A day shows the presence that the whole session shows.
LEMMA TypeOKPresenceAgrees == TypeOK => PresenceAgrees
<1> SUFFICES ASSUME TypeOK, NEW s \in Known, NEW d \in Days, HeardBefore(s),
                    NEW run \in Build(s, DayWindow(d)), NEW t \in run.start..(run.end - 1)
             PROVE  KindsAt(Build(s, DayWindow(d)), t) \cap Present =
                      KindsAt(Build(s, Life(s)), t) \cap Present
  BY DEF PresenceAgrees
<1> DEFINE window == DayWindow(d)
           ss == ShownIn(s, window).start
           se == ShownIn(s, window).end
<1>1. d \in Int
  BY TimeAssumption DEF Days, Wall
<1>2. Interval(window) /\ run \in Build(s, window) /\ t \in run.start..(run.end - 1)
  BY <1>1, StateFacts
<1> HIDE DEF window
<1>3. ~ Empty(ShownIn(s, window))
  BY <1>2, BuildFacts
<1>4. Tiling(Build(s, window), ss, se) /\ ss \in Int /\ se \in Int
  BY <1>2, <1>3, BuildFacts, SeenFacts DEF Interval
<1>5. t \in Int /\ ss <= t /\ t < se
  <2> HIDE DEF ss, se
  <2>1. run.start \in Int /\ run.end \in Int /\ ss <= run.start /\ run.end <= se
    BY <1>2, <1>4, TilingFacts
  <2> QED
    BY <1>2, <1>4, <2>1
<1>6. KindsAt(Build(s, window), t) \cap Present = KindsAt(Build(s, Life(s)), t) \cap Present
  BY <1>2, <1>3, <1>5, PresenceSame
<1> QED
  BY <1>6 DEF window

-----------------------------------------------------------------------------
(* Sums.                                                                     *)

\* One element of a set.
Chosen(s) == CHOOSE x \in s : TRUE

\* g sums f up over the subsets of its domain, element by element.
SumRec(f, g) ==
  g = [s \in SUBSET DOMAIN f |->
         IF s = {} THEN 0 ELSE f[Chosen(s)] + g[s \ {Chosen(s)}]]

\* SumFunction is its recursive function.
LEMMA SumIs ==
  ASSUME NEW f
  PROVE  SumFunction(f) = (CHOOSE g : SumRec(f, g))[DOMAIN f]
BY Zenon DEF SumFunction, SumFunctionOnSet, FoldFunctionOnSet, MapThenFoldSet, Chosen, SumRec

\* The union of some sets of a family.
AllOf(A, T) == UNION {A[u] : u \in T}

\* Finitely many finite sets are finite.
LEMMA AllFinite ==
  ASSUME NEW T, IsFiniteSet(T), NEW A, \A u \in T : IsFiniteSet(A[u])
  PROVE  IsFiniteSet(AllOf(A, T))
<1> DEFINE sets == {A[u] : u \in T}
           f == [u \in T |-> A[u]]
<1>1. f \in Surjection(T, sets)
  BY DEF Surjection
<1>2. IsFiniteSet(sets)
  BY <1>1, FS_Surjection
<1>3. \A t \in sets : IsFiniteSet(t)
  OBVIOUS
<1> HIDE DEF sets
<1>4. IsFiniteSet(UNION sets)
  BY <1>2, <1>3, FS_UNION
<1> QED
  BY <1>4 DEF sets, AllOf

\* The sum of the sizes of disjoint sets is the size of their union.
LEMMA SumOfSizes ==
  ASSUME NEW S, IsFiniteSet(S), NEW f \in [S -> Nat], NEW A,
         \A u \in S : IsFiniteSet(A[u]) /\ Cardinality(A[u]) = f[u],
         \A u, v \in S : u # v => A[u] \cap A[v] = {}
  PROVE  SumFunction(f) = Cardinality(AllOf(A, S))
<1> DEFINE h == [s \in SUBSET S |-> Cardinality(AllOf(A, s))]
           g == CHOOSE e : SumRec(f, e)
<1>1. ASSUME NEW s \in SUBSET S PROVE IsFiniteSet(s) /\ IsFiniteSet(AllOf(A, s))
  <2>1. IsFiniteSet(s)
    BY FS_Subset
  <2>2. \A u \in s : IsFiniteSet(A[u])
    OBVIOUS
  <2> QED
    BY <2>1, <2>2, AllFinite
<1>2. ASSUME NEW s \in SUBSET S, s # {}
      PROVE  h[s] = f[Chosen(s)] + h[s \ {Chosen(s)}]
  <2> DEFINE c == Chosen(s)
             rest == s \ {c}
  <2>1. c \in s
    BY <1>2 DEF Chosen
  <2> HIDE DEF c
  <2>2. AllOf(A, s) = A[c] \cup AllOf(A, rest)
    BY <2>1 DEF AllOf
  <2>3. A[c] \cap AllOf(A, rest) = {}
    <3> SUFFICES ASSUME NEW x \in A[c], x \in AllOf(A, rest) PROVE FALSE
      OBVIOUS
    <3>1. PICK u \in rest : x \in A[u]
      BY DEF AllOf
    <3>2. u # c /\ u \in S /\ c \in S
      BY <2>1
    <3> QED
      BY <3>1, <3>2
  <2>4. rest \in SUBSET S
    OBVIOUS
  <2>5. IsFiniteSet(A[c]) /\ IsFiniteSet(AllOf(A, rest)) /\ Cardinality(A[c]) = f[c]
    BY <1>1, <2>1, <2>4
  <2> HIDE DEF rest
  <2>6. Cardinality(A[c] \cup AllOf(A, rest)) =
          Cardinality(A[c]) + Cardinality(AllOf(A, rest)) - Cardinality(A[c] \cap AllOf(A, rest))
    BY <2>5, FS_Union
  <2>7. Cardinality(A[c] \cap AllOf(A, rest)) = 0
    BY <2>3, FS_EmptySet
  <2>8. f[c] \in Nat /\ Cardinality(AllOf(A, rest)) \in Nat
    BY <2>1, <2>5, FS_CardinalityType
  <2>9. Cardinality(AllOf(A, s)) = f[c] + Cardinality(AllOf(A, rest))
    BY <2>2, <2>5, <2>6, <2>7, <2>8
  <2> QED
    BY <2>4, <2>9 DEF c, rest
<1>3. h[{}] = 0
  <2>1. AllOf(A, {}) = {}
    BY DEF AllOf
  <2> QED
    BY <2>1, FS_EmptySet
<1>4. SumRec(f, h)
  <2>1. DOMAIN f = S
    OBVIOUS
  <2>2. \A s \in SUBSET S : h[s] = IF s = {} THEN 0 ELSE f[Chosen(s)] + h[s \ {Chosen(s)}]
    BY <1>2, <1>3
  <2>3. h = [s \in SUBSET S |-> h[s]]
    OBVIOUS
  <2> HIDE DEF h
  <2>4. h = [s \in SUBSET S |-> IF s = {} THEN 0 ELSE f[Chosen(s)] + h[s \ {Chosen(s)}]]
    BY <2>2, <2>3
  <2> QED
    BY <2>1, <2>4 DEF SumRec
<1>5. SumRec(f, g)
  BY <1>4
<1>6. \A s \in SUBSET S : g[s] = IF s = {} THEN 0 ELSE f[Chosen(s)] + g[s \ {Chosen(s)}]
  <2> HIDE DEF g
  <2>1. DOMAIN f = S
    OBVIOUS
  <2>2. g = [s \in SUBSET S |-> IF s = {} THEN 0 ELSE f[Chosen(s)] + g[s \ {Chosen(s)}]]
    BY <1>5, <2>1 DEF SumRec
  <2> QED
    BY <2>2
<1> HIDE DEF g, h
<1>7. \A s \in SUBSET S : g[s] = h[s]
  <2> DEFINE bad == {s \in SUBSET S : g[s] # h[s]}
             sizes == {Cardinality(s) : s \in bad}
  <2> SUFFICES ASSUME bad # {} PROVE FALSE
    OBVIOUS
  <2>1. sizes # {} /\ sizes \subseteq Nat
    BY <1>1, FS_CardinalityType
  <2>2. PICK n \in sizes : \A k \in sizes : n <= k
    BY <2>1, MinNat
  <2>3. PICK s \in bad : n = Cardinality(s)
    OBVIOUS
  <2>4. s \in SUBSET S /\ g[s] # h[s]
    OBVIOUS
  <2>5. s # {}
    BY <1>3, <1>6, <2>4
  <2> DEFINE c == Chosen(s)
             rest == s \ {c}
  <2>6. c \in s
    BY <2>5 DEF Chosen
  <2>7. Cardinality(rest) = Cardinality(s) - 1 /\ Cardinality(s) \in Nat
    <3> HIDE DEF c
    <3> QED
      BY <1>1, <2>4, <2>6, FS_RemoveElement, FS_CardinalityType
  <2>8. rest \in SUBSET S /\ rest \notin bad
    <3>1. rest \in SUBSET S
      BY <2>4
    <3>2. rest \in bad => n <= Cardinality(rest)
      BY <2>2
    <3> QED
      BY <2>3, <2>7, <3>1, <3>2
  <2>9. g[rest] = h[rest]
    BY <2>8
  <2> QED
    BY <1>2, <1>6, <2>4, <2>5, <2>9
<1>8. SumFunction(f) = g[S]
  <2>1. SumFunction(f) = g[DOMAIN f]
    BY SumIs DEF g
  <2> QED
    BY <2>1
<1>9. h[S] = Cardinality(AllOf(A, S))
  BY DEF h
<1> QED
  BY <1>7, <1>8, <1>9

\* The sum of the weights of a set.
Weight(w, X) == SumFunction([x \in X |-> w[x]])

\* Weights, unit by unit.
UnitsOf(w, X) == {u \in X \X Nat : 1 <= u[2] /\ u[2] <= w[u[1]]}

\* Weights are natural numbers.
Weighs(w, X) == \A x \in X : w[x] \in Nat

\* A set, as many times as a number says.
LEMMA Copies ==
  ASSUME NEW S, IsFiniteSet(S), NEW n \in Nat
  PROVE  /\ IsFiniteSet(S \X (1..n)) /\ Cardinality(S \X (1..n)) = Cardinality(S) * n
         /\ IsFiniteSet((1..n) \X S) /\ Cardinality((1..n) \X S) = n * Cardinality(S)
<1> DEFINE T == 1..n
<1>1. IsFiniteSet(T) /\ Cardinality(T) = n
  BY FS_Interval, SMTT(30)
<1> HIDE DEF T
<1>2. IsFiniteSet(S \X T) /\ Cardinality(S \X T) = Cardinality(S) * Cardinality(T)
  BY <1>1, FS_Product
<1>3. IsFiniteSet(T \X S) /\ Cardinality(T \X S) = Cardinality(T) * Cardinality(S)
  BY <1>1, FS_Product
<1> QED
  BY <1>1, <1>2, <1>3 DEF T

\* One element has as many units as it weighs.
LEMMA UnitsOfOne ==
  ASSUME NEW y, NEW v, v[y] \in Nat
  PROVE  IsFiniteSet(UnitsOf(v, {y})) /\ Cardinality(UnitsOf(v, {y})) = v[y]
<1> DEFINE n == v[y]
<1>1. n \in Nat
  OBVIOUS
<1>2. IsFiniteSet({y}) /\ Cardinality({y}) = 1
  BY FS_Singleton
<1>3. IsFiniteSet({y} \X (1..n)) /\ Cardinality({y} \X (1..n)) = 1 * n
  <2> HIDE DEF n
  <2>1. /\ IsFiniteSet({y} \X (1..n))
        /\ Cardinality({y} \X (1..n)) = Cardinality({y}) * n
    BY ONLY <1>1, <1>2, Copies
  <2> QED
    BY <1>2, <2>1
<1>4. ASSUME NEW u \in UnitsOf(v, {y}) PROVE u \in {y} \X (1..n)
  <2>1. u[1] = y /\ u = <<u[1], u[2]>> /\ u[2] \in Nat /\ 1 <= u[2] /\ u[2] <= v[u[1]]
    BY <1>4 DEF UnitsOf
  <2>2. u[2] \in 1..n
    BY <2>1
  <2> QED
    BY <2>1, <2>2
<1>5. ASSUME NEW u \in {y} \X (1..n) PROVE u \in UnitsOf(v, {y})
  <2>1. u[1] = y /\ u = <<u[1], u[2]>> /\ u[2] \in 1..n
    BY <1>5
  <2>2. u[2] \in Nat /\ 1 <= u[2] /\ u[2] <= v[u[1]]
    BY <2>1
  <2> QED
    BY <2>1, <2>2 DEF UnitsOf
<1>6. UnitsOf(v, {y}) = {y} \X (1..n)
  BY <1>4, <1>5
<1> QED
  BY <1>3, <1>6

\* A sum counts units.
LEMMA WeightIsSize ==
  ASSUME NEW X, IsFiniteSet(X), NEW w, Weighs(w, X)
  PROVE  /\ Weight(w, X) = Cardinality(UnitsOf(w, X))
         /\ IsFiniteSet(UnitsOf(w, X))
         /\ Weight(w, X) \in Nat
<1> DEFINE f == [x \in X |-> w[x]]
           A == [x \in X |-> UnitsOf(w, {x})]
<1>1. f \in [X -> Nat]
  BY DEF Weighs
<1>2. ASSUME NEW x \in X PROVE IsFiniteSet(A[x]) /\ Cardinality(A[x]) = f[x]
  <2>1. w[x] \in Nat
    BY DEF Weighs
  <2> QED
    BY <2>1, UnitsOfOne
<1>3. \A x, y \in X : x # y => A[x] \cap A[y] = {}
  <2> SUFFICES ASSUME NEW x \in X, NEW y \in X, NEW u \in A[x], u \in A[y] PROVE x = y
    OBVIOUS
  <2> QED
    BY DEF UnitsOf
<1>4. AllOf(A, X) = UnitsOf(w, X)
  <2>1. ASSUME NEW u \in AllOf(A, X) PROVE u \in UnitsOf(w, X)
    BY <2>1 DEF AllOf, UnitsOf
  <2>2. ASSUME NEW u \in UnitsOf(w, X) PROVE u \in AllOf(A, X)
    <3>1. u[1] \in X /\ u \in {u[1]} \X Nat /\ 1 <= u[2] /\ u[2] <= w[u[1]]
      BY <2>2 DEF UnitsOf
    <3>2. u \in A[u[1]]
      BY <3>1 DEF UnitsOf
    <3> HIDE DEF A
    <3> QED
      BY <3>1, <3>2 DEF AllOf
  <2> QED
    BY <2>1, <2>2
<1>5. IsFiniteSet(UnitsOf(w, X))
  <2>1. \A x \in X : IsFiniteSet(A[x])
    BY <1>2
  <2> HIDE DEF A
  <2> QED
    BY <1>4, <2>1, AllFinite
<1>6. Weight(w, X) = Cardinality(UnitsOf(w, X))
  <2> HIDE DEF f, A
  <2>1. SumFunction(f) = Cardinality(AllOf(A, X))
    BY <1>1, <1>2, <1>3, SumOfSizes
  <2> QED
    BY <1>4, <2>1 DEF Weight, f
<1> QED
  BY <1>5, <1>6, FS_CardinalityType

\* A sum of smaller terms is no greater.
LEMMA WeightGrows ==
  ASSUME NEW X, IsFiniteSet(X), NEW w, Weighs(w, X), NEW v, Weighs(v, X),
         \A x \in X : w[x] <= v[x]
  PROVE  Weight(w, X) <= Weight(v, X)
<1>1. UnitsOf(w, X) \in SUBSET UnitsOf(v, X)
  <2> SUFFICES ASSUME NEW u \in UnitsOf(w, X) PROVE u \in UnitsOf(v, X)
    OBVIOUS
  <2>1. u \in X \X Nat /\ 1 <= u[2] /\ u[2] <= w[u[1]]
    BY DEF UnitsOf
  <2>2. u[1] \in X /\ u[2] \in Nat
    BY <2>1
  <2>3. w[u[1]] \in Nat /\ v[u[1]] \in Nat /\ w[u[1]] <= v[u[1]]
    BY <2>2 DEF Weighs
  <2>4. u[2] <= v[u[1]]
    BY <2>1, <2>2, <2>3
  <2> QED
    BY <2>1, <2>4 DEF UnitsOf
<1>2. /\ Weight(w, X) = Cardinality(UnitsOf(w, X))
      /\ Weight(v, X) = Cardinality(UnitsOf(v, X)) /\ IsFiniteSet(UnitsOf(v, X))
  BY WeightIsSize
<1> QED
  BY <1>1, <1>2, FS_Subset

\* A sum over disjoint parts, part by part.
LEMMA WeightOfParts ==
  ASSUME NEW U, IsFiniteSet(U), NEW P, NEW w,
         \A u \in U : IsFiniteSet(P[u]) /\ Weighs(w, P[u]),
         \A u, v \in U : u # v => P[u] \cap P[v] = {}
  PROVE  /\ SumFunction([u \in U |-> Weight(w, P[u])]) = Weight(w, AllOf(P, U))
         /\ IsFiniteSet(AllOf(P, U)) /\ Weighs(w, AllOf(P, U))
<1> DEFINE f == [u \in U |-> Weight(w, P[u])]
           A == [u \in U |-> UnitsOf(w, P[u])]
           X == AllOf(P, U)
<1>1. IsFiniteSet(X)
  BY AllFinite
<1>2. Weighs(w, X)
  BY DEF Weighs, AllOf
<1>3. ASSUME NEW u \in U
      PROVE  IsFiniteSet(A[u]) /\ Cardinality(A[u]) = f[u] /\ f[u] \in Nat
  BY WeightIsSize
<1>4. ASSUME NEW u \in U, NEW v \in U, u # v PROVE A[u] \cap A[v] = {}
  <2> SUFFICES ASSUME NEW x \in A[u], x \in A[v] PROVE FALSE
    OBVIOUS
  <2>1. x[1] \in P[u] /\ x[1] \in P[v]
    BY DEF UnitsOf
  <2> QED
    BY <1>4, <2>1
<1>5. AllOf(A, U) = UnitsOf(w, X)
  <2>1. ASSUME NEW x \in AllOf(A, U) PROVE x \in UnitsOf(w, X)
    <3>1. PICK u \in U : x \in UnitsOf(w, P[u])
      BY <2>1 DEF AllOf
    <3>2. P[u] \subseteq X
      BY DEF AllOf
    <3> QED
      BY <3>1, <3>2 DEF UnitsOf
  <2>2. ASSUME NEW x \in UnitsOf(w, X) PROVE x \in AllOf(A, U)
    <3>1. x \in X \X Nat /\ 1 <= x[2] /\ x[2] <= w[x[1]]
      BY <2>2 DEF UnitsOf
    <3>2. PICK u \in U : x[1] \in P[u]
      BY <3>1 DEF AllOf
    <3>3. x \in P[u] \X Nat
      <4> HIDE DEF X
      <4> QED
        BY <3>1, <3>2
    <3>4. x \in A[u]
      BY <3>1, <3>3 DEF UnitsOf
    <3> HIDE DEF A
    <3> QED
      BY <3>4 DEF AllOf
  <2> QED
    BY <2>1, <2>2
<1>6. f \in [U -> Nat]
  BY <1>3
<1>7. SumFunction(f) = Cardinality(AllOf(A, U))
  <2> HIDE DEF f, A
  <2> QED
    BY <1>3, <1>4, <1>6, SumOfSizes
<1>8. Weight(w, X) = Cardinality(UnitsOf(w, X))
  <2> HIDE DEF X
  <2> QED
    BY <1>1, <1>2, WeightIsSize
<1> QED
  BY <1>1, <1>2, <1>5, <1>7, <1>8

\* A sum whose terms are renamed.
LEMMA WeightRenamed ==
  ASSUME NEW X, IsFiniteSet(X), NEW w, Weighs(w, X), NEW Y, NEW v,
         NEW h \in [X -> Y], \A y \in Y : \E x \in X : h[x] = y,
         \A x, z \in X : h[x] = h[z] => x = z,
         \A x \in X : v[h[x]] = w[x]
  PROVE  Weight(w, X) = Weight(v, Y) /\ IsFiniteSet(Y) /\ Weighs(v, Y)
<1>1. h \in Surjection(X, Y)
  BY DEF Surjection
<1>2. IsFiniteSet(Y)
  BY <1>1, FS_Surjection
<1>3. Weighs(v, Y)
  BY DEF Weighs
<1> DEFINE f == [x \in X |-> w[x]]
           A == [x \in X |-> UnitsOf(v, {h[x]})]
<1>4. f \in [X -> Nat]
  BY DEF Weighs
<1>5. ASSUME NEW x \in X PROVE IsFiniteSet(A[x]) /\ Cardinality(A[x]) = f[x]
  <2>1. v[h[x]] = w[x] /\ w[x] \in Nat
    BY DEF Weighs
  <2>2. v[h[x]] \in Nat
    BY <2>1
  <2>3. IsFiniteSet(UnitsOf(v, {h[x]})) /\ Cardinality(UnitsOf(v, {h[x]})) = v[h[x]]
    BY <2>2, UnitsOfOne
  <2> QED
    BY <2>1, <2>3
<1>6. ASSUME NEW x \in X, NEW z \in X, x # z PROVE A[x] \cap A[z] = {}
  <2> SUFFICES ASSUME NEW u \in A[x], u \in A[z] PROVE FALSE
    OBVIOUS
  <2>1. u[1] = h[x] /\ u[1] = h[z]
    BY DEF UnitsOf
  <2> QED
    BY <1>6, <2>1
<1>7. AllOf(A, X) = UnitsOf(v, Y)
  <2>1. ASSUME NEW u \in AllOf(A, X) PROVE u \in UnitsOf(v, Y)
    BY <2>1 DEF AllOf, UnitsOf
  <2>2. ASSUME NEW u \in UnitsOf(v, Y) PROVE u \in AllOf(A, X)
    <3>1. u \in Y \X Nat /\ 1 <= u[2] /\ u[2] <= v[u[1]]
      BY <2>2 DEF UnitsOf
    <3>2. PICK x \in X : u[1] = h[x]
      BY <3>1
    <3>3. u \in {h[x]} \X Nat
      BY <3>1, <3>2
    <3>4. u \in A[x]
      BY <3>1, <3>3 DEF UnitsOf
    <3> HIDE DEF A
    <3> QED
      BY <3>4 DEF AllOf
  <2> QED
    BY <2>1, <2>2
<1>8. SumFunction(f) = Cardinality(AllOf(A, X))
  <2> HIDE DEF f, A
  <2> QED
    BY <1>4, <1>5, <1>6, SumOfSizes
<1>9. Weight(v, Y) = Cardinality(UnitsOf(v, Y))
  BY <1>2, <1>3, WeightIsSize
<1> QED
  BY <1>2, <1>3, <1>7, <1>8, <1>9 DEF Weight

\* Equal terms.
LEMMA WeightOfEqual ==
  ASSUME NEW X, IsFiniteSet(X), NEW k \in Nat
  PROVE  Weight([x \in X |-> k], X) = Cardinality(X) * k
<1> DEFINE f == [x \in X |-> k]
           A == [x \in X |-> {x} \X (1..k)]
<1>1. ASSUME NEW x \in X PROVE IsFiniteSet(A[x]) /\ Cardinality(A[x]) = f[x]
  <2>1. IsFiniteSet({x}) /\ Cardinality({x}) = 1
    BY FS_Singleton
  <2>2. IsFiniteSet({x} \X (1..k)) /\ Cardinality({x} \X (1..k)) = 1 * k
    BY <2>1, Copies
  <2> QED
    BY <2>2
<1>2. \A x, y \in X : x # y => A[x] \cap A[y] = {}
  OBVIOUS
<1>3. AllOf(A, X) = X \X (1..k)
  BY DEF AllOf
<1>4. f \in [X -> Nat] /\ [x \in X |-> f[x]] = f
  OBVIOUS
<1>5. SumFunction(f) = Cardinality(AllOf(A, X))
  <2> HIDE DEF f, A
  <2> QED
    BY <1>1, <1>2, <1>4, SumOfSizes
<1>6. Cardinality(X \X (1..k)) = Cardinality(X) * k
  BY Copies
<1> QED
  BY <1>3, <1>4, <1>5, <1>6 DEF Weight

\* Multiples.
LEMMA WeightOfMultiples ==
  ASSUME NEW X, IsFiniteSet(X), NEW w, Weighs(w, X), NEW k \in Nat
  PROVE  Weight([x \in X |-> k * w[x]], X) = k * Weight(w, X)
<1> DEFINE f == [x \in X |-> k * w[x]]
           A == [x \in X |-> (1..k) \X UnitsOf(w, {x})]
<1>1. IsFiniteSet(1..k) /\ Cardinality(1..k) = k
  BY FS_Interval
<1>2. ASSUME NEW x \in X PROVE IsFiniteSet(A[x]) /\ Cardinality(A[x]) = f[x]
  <2>1. w[x] \in Nat
    BY DEF Weighs
  <2>2. IsFiniteSet(UnitsOf(w, {x})) /\ Cardinality(UnitsOf(w, {x})) = w[x]
    BY <2>1, UnitsOfOne
  <2>3. /\ IsFiniteSet((1..k) \X UnitsOf(w, {x}))
        /\ Cardinality((1..k) \X UnitsOf(w, {x})) = k * w[x]
    <3> DEFINE S == 1..k
               T == UnitsOf(w, {x})
               n == w[x]
    <3>1. IsFiniteSet(S) /\ IsFiniteSet(T) /\ Cardinality(S) = k /\ Cardinality(T) = n
      BY <1>1, <2>2
    <3> HIDE DEF S, T, n
    <3>2. IsFiniteSet(S \X T) /\ Cardinality(S \X T) = k * n
      BY <3>1, FS_Product
    <3> QED
      BY <3>2 DEF S, T, n
  <2> QED
    BY <2>3
<1>3. \A x, y \in X : x # y => A[x] \cap A[y] = {}
  <2> SUFFICES ASSUME NEW x \in X, NEW y \in X, NEW u \in A[x], u \in A[y] PROVE x = y
    OBVIOUS
  <2>1. u[2] \in UnitsOf(w, {x}) /\ u[2] \in UnitsOf(w, {y})
    OBVIOUS
  <2> QED
    BY <2>1 DEF UnitsOf
<1>4. AllOf(A, X) = (1..k) \X UnitsOf(w, X)
  <2>1. ASSUME NEW u \in AllOf(A, X) PROVE u \in (1..k) \X UnitsOf(w, X)
    <3>1. PICK x \in X : u \in (1..k) \X UnitsOf(w, {x})
      BY <2>1 DEF AllOf
    <3>2. UnitsOf(w, {x}) \subseteq UnitsOf(w, X)
      BY DEF UnitsOf
    <3> QED
      BY <3>1, <3>2
  <2>2. ASSUME NEW u \in (1..k) \X UnitsOf(w, X) PROVE u \in AllOf(A, X)
    <3> DEFINE e == u[2]
    <3>1. u = <<u[1], e>> /\ u[1] \in 1..k /\ e \in UnitsOf(w, X)
      BY <2>2
    <3> HIDE DEF e
    <3>2. e[1] \in X /\ e \in {e[1]} \X Nat /\ 1 <= e[2] /\ e[2] <= w[e[1]]
      BY <3>1 DEF UnitsOf
    <3>3. e \in UnitsOf(w, {e[1]})
      BY <3>2 DEF UnitsOf
    <3>4. u \in A[e[1]]
      BY <3>1, <3>2, <3>3
    <3> HIDE DEF A
    <3> QED
      BY <3>2, <3>4 DEF AllOf
  <2> QED
    BY <2>1, <2>2
<1>5. f \in [X -> Nat] /\ [x \in X |-> f[x]] = f
  BY DEF Weighs
<1>6. SumFunction(f) = Cardinality(AllOf(A, X))
  <2> HIDE DEF f, A
  <2> QED
    BY <1>2, <1>3, <1>5, SumOfSizes
<1>7. Weight(w, X) = Cardinality(UnitsOf(w, X)) /\ IsFiniteSet(UnitsOf(w, X))
  BY WeightIsSize
<1>8. Cardinality((1..k) \X UnitsOf(w, X)) = k * Cardinality(UnitsOf(w, X))
  BY <1>7, Copies
<1> QED
  BY <1>4, <1>5, <1>6, <1>7, <1>8 DEF Weight

\* A sum of sums.
LEMMA WeightOfSums ==
  ASSUME NEW X, IsFiniteSet(X), NEW w, Weighs(w, X), NEW v, Weighs(v, X)
  PROVE  Weight([x \in X |-> w[x] + v[x]], X) = Weight(w, X) + Weight(v, X)
<1> DEFINE z == [x \in X |-> w[x] + v[x]]
           f == [x \in X |-> v[x]]
           A == [x \in X |-> {x} \X ((w[x] + 1)..(w[x] + v[x]))]
           more == {u \in X \X Nat : w[u[1]] + 1 <= u[2] /\ u[2] <= w[u[1]] + v[u[1]]}
<1>1. ASSUME NEW x \in X PROVE IsFiniteSet(A[x]) /\ Cardinality(A[x]) = f[x]
  <2> DEFINE a == w[x] + 1
             b == w[x] + v[x]
  <2>1. w[x] \in Nat /\ v[x] \in Nat
    BY DEF Weighs
  <2>2. a \in Int /\ b \in Int /\ (IF a > b THEN 0 ELSE b - a + 1) = v[x]
    BY <2>1
  <2> HIDE DEF a, b
  <2>3. IsFiniteSet(a..b) /\ Cardinality(a..b) = v[x]
    BY <2>2, FS_Interval
  <2>4. IsFiniteSet({x}) /\ Cardinality({x}) = 1
    BY FS_Singleton
  <2>5. IsFiniteSet({x} \X (a..b)) /\ Cardinality({x} \X (a..b)) = v[x]
    <3> DEFINE S == {x}
               T == a..b
               n == v[x]
    <3>1. IsFiniteSet(S) /\ IsFiniteSet(T) /\ Cardinality(S) = 1 /\ Cardinality(T) = n /\ n \in Nat
      BY <2>1, <2>3, <2>4
    <3> HIDE DEF S, T, n
    <3>2. IsFiniteSet(S \X T) /\ Cardinality(S \X T) = 1 * n
      BY <3>1, FS_Product
    <3>3. Cardinality(S \X T) = n
      BY <3>1, <3>2
    <3> QED
      BY <3>2, <3>3 DEF S, T, n
  <2> QED
    BY <2>1, <2>5 DEF a, b
<1>2. \A x, y \in X : x # y => A[x] \cap A[y] = {}
  OBVIOUS
<1>3. AllOf(A, X) = more
  <2>1. ASSUME NEW u \in AllOf(A, X) PROVE u \in more
    <3>1. PICK x \in X : u \in {x} \X ((w[x] + 1)..(w[x] + v[x]))
      BY <2>1 DEF AllOf
    <3>2. u = <<x, u[2]>> /\ u[2] \in (w[x] + 1)..(w[x] + v[x]) /\ w[x] \in Nat /\ v[x] \in Nat
      BY <3>1 DEF Weighs
    <3>3. u[2] \in Nat /\ w[x] + 1 <= u[2] /\ u[2] <= w[x] + v[x]
      BY <3>2
    <3> QED
      BY <3>2, <3>3
  <2>2. ASSUME NEW u \in more PROVE u \in AllOf(A, X)
    <3>1. u[1] \in X /\ u = <<u[1], u[2]>> /\ u[2] \in Nat
      BY <2>2
    <3>2. w[u[1]] \in Nat /\ v[u[1]] \in Nat
      BY <3>1 DEF Weighs
    <3>3. u[2] \in (w[u[1]] + 1)..(w[u[1]] + v[u[1]])
      BY <2>2, <3>1, <3>2
    <3>4. u \in A[u[1]]
      BY <3>1, <3>3
    <3> HIDE DEF A
    <3> QED
      BY <3>1, <3>4 DEF AllOf
  <2> QED
    BY <2>1, <2>2
<1>4. f \in [X -> Nat]
  BY DEF Weighs
<1>5. Weight(v, X) = Cardinality(more) /\ IsFiniteSet(more)
  <2>1. SumFunction(f) = Cardinality(AllOf(A, X))
    <3> HIDE DEF f, A
    <3> QED
      BY <1>1, <1>2, <1>4, SumOfSizes
  <2>2. IsFiniteSet(AllOf(A, X))
    <3> HIDE DEF A
    <3> QED
      BY <1>1, AllFinite
  <2> QED
    BY <1>3, <2>1, <2>2 DEF Weight
<1>6. Weighs(z, X)
  BY DEF Weighs
<1>7. UnitsOf(z, X) = UnitsOf(w, X) \cup more /\ UnitsOf(w, X) \cap more = {}
  <2>1. ASSUME NEW u \in X \X Nat
        PROVE  /\ (1 <= u[2] /\ u[2] <= w[u[1]] + v[u[1]]) <=>
                    \/ 1 <= u[2] /\ u[2] <= w[u[1]]
                    \/ w[u[1]] + 1 <= u[2] /\ u[2] <= w[u[1]] + v[u[1]]
               /\ ~ (u[2] <= w[u[1]] /\ w[u[1]] + 1 <= u[2])
               /\ z[u[1]] = w[u[1]] + v[u[1]]
    <3>1. u[1] \in X /\ u[2] \in Nat
      OBVIOUS
    <3>2. w[u[1]] \in Nat /\ v[u[1]] \in Nat
      BY <3>1 DEF Weighs
    <3> QED
      BY <3>1, <3>2
  <2> HIDE DEF z
  <2> QED
    BY <2>1 DEF UnitsOf
<1>8. /\ Weight(z, X) = Cardinality(UnitsOf(z, X))
      /\ Weight(w, X) = Cardinality(UnitsOf(w, X))
      /\ IsFiniteSet(UnitsOf(w, X))
  <2> HIDE DEF z
  <2> QED
    BY <1>6, WeightIsSize
<1> HIDE DEF more, z
<1>9. Cardinality(UnitsOf(w, X) \cup more) =
        Cardinality(UnitsOf(w, X)) + Cardinality(more) - Cardinality(UnitsOf(w, X) \cap more)
  BY <1>5, <1>8, FS_Union
<1>10. Cardinality(UnitsOf(w, X) \cap more) = 0
  BY <1>7, FS_EmptySet
<1>11. Cardinality(UnitsOf(w, X)) \in Nat /\ Cardinality(more) \in Nat
  BY <1>5, <1>8, FS_CardinalityType
<1>12. Weight(z, X) = Weight(w, X) + Weight(v, X)
  BY <1>5, <1>7, <1>8, <1>9, <1>10, <1>11
<1> QED
  BY <1>12 DEF z

\* Whole seconds.
LEMMA SecondsFacts ==
  ASSUME NEW n \in Nat, NEW k \in Nat \ {0}
  PROVE  /\ n \div k \in Nat
         /\ n - k * (n \div k) \in 0..(k - 1)
         /\ \A m \in Nat : k * m <= n => m <= n \div k
<1> DEFINE q == n \div k
           r == n % k
<1>1. q \in Int /\ r \in Int /\ 0 <= r /\ r < k /\ n = k * q + r
  BY Z3
<1> HIDE DEF q, r
<1>2. q >= 0
  <2>1. SUFFICES ASSUME q <= -1 PROVE FALSE
    BY <1>1
  <2>2. k * q <= -k
    BY <1>1, <2>1
  <2> QED
    BY <1>1, <2>2
<1>3. n - k * q = r
  BY <1>1
<1>4. ASSUME NEW m \in Nat, k * m <= n PROVE m <= q
  <2>1. SUFFICES ASSUME m >= q + 1 PROVE FALSE
    BY <1>1
  <2>2. k * m >= k * (q + 1)
    BY <1>1, <2>1
  <2>3. k * (q + 1) = k * q + k
    BY <1>1
  <2> QED
    BY <1>1, <1>4, <2>2, <2>3
<1> QED
  BY <1>1, <1>2, <1>3, <1>4 DEF q

-----------------------------------------------------------------------------
(* Sums over spans.                                                          *)

\* Finite sets of spans that last, their seconds and their lengths.
Proper(X) ==
  IsFiniteSet(X) /\ \A x \in X : x.start \in Int /\ x.end \in Int /\ x.start < x.end

SecondsOf(X) == [x \in X |-> Seconds(x)]
LengthOf(X) == [x \in X |-> Length(x)]

\* The whole seconds of a span.
LEMMA SpanSeconds ==
  ASSUME NEW x, x.start \in Int, x.end \in Int, x.start < x.end
  PROVE  /\ Length(x) \in Nat /\ Seconds(x) \in Nat /\ Second \in Nat
         /\ Length(x) - Second * Seconds(x) \in 0..(Second - 1)
         /\ \A m \in Nat : Second * m <= Length(x) => m <= Seconds(x)
<1>1. Length(x) \in Nat
  BY DEF Length
<1>2. Second \in Nat \ {0}
  BY ReportsAssumption
<1> QED
  BY <1>1, <1>2, SecondsFacts DEF Seconds

\* What is lost by cutting off.
LEMMA CutOffFacts ==
  ASSUME NEW X, Proper(X)
  PROVE  CutOff(Ticks(X), Weight(SecondsOf(X), X), Cardinality(X))
<1> DEFINE w == SecondsOf(X)
           v == [x \in X |-> Length(x) - Second * Seconds(x)]
           e == [x \in X |-> Second - 1]
           sw == [x \in X |-> Second * w[x]]
           all == [x \in X |-> sw[x] + v[x]]
           n == Cardinality(X)
<1>1. IsFiniteSet(X) /\ n \in Nat /\ Second \in Nat /\ Second - 1 \in Nat
  BY FS_CardinalityType, ReportsAssumption DEF Proper
<1>2. ASSUME NEW x \in X
      PROVE  /\ Length(x) \in Nat /\ Seconds(x) \in Nat
             /\ Length(x) - Second * Seconds(x) \in 0..(Second - 1)
  BY SpanSeconds DEF Proper
<1>3. Weighs(w, X) /\ Weighs(v, X) /\ Weighs(e, X) /\ \A x \in X : v[x] <= e[x]
  BY <1>1, <1>2 DEF Weighs, SecondsOf
<1>4. Weighs(sw, X)
  <2>1. \A x \in X : w[x] \in Nat
    BY <1>3 DEF Weighs
  <2> HIDE DEF w
  <2>2. \A x \in X : Second * w[x] \in Nat
    BY <1>1, <2>1
  <2> QED
    BY <2>2 DEF Weighs
<1>5. \A x \in X : all[x] = Length(x)
  <2> SUFFICES ASSUME NEW x \in X PROVE Second * Seconds(x) + (Length(x) - Second * Seconds(x)) = Length(x)
    BY DEF SecondsOf
  <2> DEFINE m == Second * Seconds(x)
  <2>1. m \in Int
    BY <1>1, <1>2
  <2> HIDE DEF m
  <2>2. m + (Length(x) - m) = Length(x)
    BY <1>2, <2>1
  <2> QED
    BY <2>2 DEF m
<1>6. Ticks(X) = Weight(all, X)
  <2> HIDE DEF all
  <2>1. [x \in X |-> Length(x)] = [x \in X |-> all[x]]
    BY <1>5
  <2> QED
    BY <2>1 DEF Ticks, Weight
<1>7. Weight(all, X) = Weight(sw, X) + Weight(v, X)
  <2> HIDE DEF sw, v
  <2> QED
    BY <1>1, <1>3, <1>4, WeightOfSums
<1>8. Weight(sw, X) = Second * Weight(w, X)
  <2> HIDE DEF w
  <2> QED
    BY <1>1, <1>3, WeightOfMultiples
<1>9. Weight(v, X) \in Nat /\ Weight(v, X) <= Weight(e, X) /\ Weight(w, X) \in Nat
  <2> HIDE DEF v, e, w
  <2> QED
    BY <1>1, <1>3, WeightIsSize, WeightGrows
<1>10. Weight(e, X) = n * (Second - 1)
  <2> DEFINE k == Second - 1
  <2>1. k \in Nat
    BY <1>1
  <2> HIDE DEF k
  <2>2. Weight([x \in X |-> k], X) = Cardinality(X) * k
    BY <1>1, <2>1, WeightOfEqual
  <2> QED
    BY <2>2 DEF k
<1> HIDE DEF w, v, e, sw, all, n
<1> DEFINE a == Second * Weight(w, X)
           b == n * (Second - 1)
<1>11. a \in Int /\ b \in Int
  BY <1>1, <1>9
<1> HIDE DEF a, b
<1>12. Ticks(X) = a + Weight(v, X) /\ Weight(v, X) <= b
  BY <1>6, <1>7, <1>8, <1>9, <1>10 DEF a, b
<1>13. Ticks(X) - a \in 0..b
  BY <1>9, <1>11, <1>12
<1> QED
  BY <1>13 DEF CutOff, a, b, w, n

\* Pieces inside of a span that do not overlap are no longer than the span.
LEMMA PiecesInside ==
  ASSUME NEW x, x.start \in Int, x.end \in Int, x.start < x.end,
         NEW Q, Proper(Q), \A q \in Q : x.start <= q.start /\ q.end <= x.end,
         \A q, r \in Q : q = r \/ q.end <= r.start \/ r.end <= q.start
  PROVE  Weight(SecondsOf(Q), Q) <= Seconds(x)
<1> DEFINE w == SecondsOf(Q)
           len == LengthOf(Q)
           sw == [q \in Q |-> Second * w[q]]
           A == [q \in Q |-> q.start..(q.end - 1)]
           T == x.start..(x.end - 1)
<1>1. IsFiniteSet(Q) /\ Second \in Nat
  BY ReportsAssumption DEF Proper
<1>2. ASSUME NEW q \in Q
      PROVE  /\ q.start \in Int /\ q.end \in Int /\ q.start < q.end
             /\ Length(q) \in Nat /\ Seconds(q) \in Nat
             /\ Length(q) - Second * Seconds(q) \in 0..(Second - 1)
  BY SpanSeconds DEF Proper
<1>3. Weighs(w, Q) /\ Weighs(len, Q)
  BY <1>2 DEF Weighs, SecondsOf, LengthOf
<1>4. Weighs(sw, Q)
  <2>1. \A q \in Q : w[q] \in Nat
    BY <1>3 DEF Weighs
  <2> HIDE DEF w
  <2>2. \A q \in Q : Second * w[q] \in Nat
    BY <1>1, <2>1
  <2> QED
    BY <2>2 DEF Weighs
<1>5. \A q \in Q : sw[q] <= len[q]
  <2> SUFFICES ASSUME NEW q \in Q PROVE Second * Seconds(q) <= Length(q)
    BY DEF SecondsOf, LengthOf
  <2> DEFINE m == Second * Seconds(q)
  <2>1. m \in Int /\ Length(q) - m \in 0..(Second - 1) /\ Length(q) \in Nat
    BY <1>1, <1>2
  <2> HIDE DEF m
  <2>2. m <= Length(q)
    BY <1>1, <2>1
  <2> QED
    BY <2>2 DEF m
<1>6. Weight(sw, Q) <= Weight(len, Q)
  <2> HIDE DEF sw, len
  <2> QED
    BY <1>1, <1>3, <1>4, <1>5, WeightGrows
<1>7. Weight(sw, Q) = Second * Weight(w, Q) /\ Weight(w, Q) \in Nat
  <2> HIDE DEF w
  <2> QED
    BY <1>1, <1>3, WeightOfMultiples, WeightIsSize
<1>8. ASSUME NEW q \in Q PROVE IsFiniteSet(A[q]) /\ Cardinality(A[q]) = len[q]
  <2> DEFINE a == q.start
             b == q.end - 1
  <2>1. a \in Int /\ b \in Int /\ (IF a > b THEN 0 ELSE b - a + 1) = Length(q)
    BY <1>2 DEF Length
  <2> HIDE DEF a, b
  <2>2. IsFiniteSet(a..b) /\ Cardinality(a..b) = Length(q)
    BY <2>1, FS_Interval
  <2> QED
    BY <2>2 DEF a, b, LengthOf
<1>9. ASSUME NEW q \in Q, NEW r \in Q, q # r PROVE A[q] \cap A[r] = {}
  BY <1>2, <1>9
<1>10. Weight(len, Q) = Cardinality(AllOf(A, Q))
  <2>1. len \in [Q -> Nat] /\ [q \in Q |-> len[q]] = len
    BY <1>2 DEF LengthOf
  <2> HIDE DEF len, A
  <2>2. SumFunction(len) = Cardinality(AllOf(A, Q))
    BY <1>1, <1>8, <1>9, <2>1, SumOfSizes
  <2> QED
    BY <2>1, <2>2 DEF Weight
<1>11. AllOf(A, Q) \in SUBSET T
  <2> SUFFICES ASSUME NEW q \in Q, NEW t \in q.start..(q.end - 1) PROVE t \in T
    BY DEF AllOf
  <2>1. q.start \in Int /\ q.end \in Int /\ x.start <= q.start /\ q.end <= x.end
    BY <1>2
  <2> QED
    BY <2>1
<1>12. IsFiniteSet(T) /\ Cardinality(T) = Length(x)
  <2> DEFINE a == x.start
             b == x.end - 1
  <2>1. a \in Int /\ b \in Int /\ (IF a > b THEN 0 ELSE b - a + 1) = Length(x)
    BY DEF Length
  <2> HIDE DEF a, b
  <2>2. IsFiniteSet(a..b) /\ Cardinality(a..b) = Length(x)
    BY <2>1, FS_Interval
  <2> QED
    BY <2>2 DEF a, b
<1>13. Cardinality(AllOf(A, Q)) <= Length(x) /\ Cardinality(AllOf(A, Q)) \in Nat
  <2> HIDE DEF A, T
  <2> QED
    BY <1>11, <1>12, FS_Subset, FS_CardinalityType
<1>14. \A m \in Nat : Second * m <= Length(x) => m <= Seconds(x)
  BY SpanSeconds
<1>15. Second * Weight(w, Q) <= Length(x)
  <2>1. Length(x) \in Nat /\ Weight(sw, Q) \in Int
    <3>1. Weight(sw, Q) \in Nat
      <4> HIDE DEF sw
      <4> QED
        BY <1>1, <1>4, WeightIsSize
    <3> QED
      BY <3>1, SpanSeconds
  <2> HIDE DEF w, len, sw, A, T
  <2> QED
    BY <1>6, <1>7, <1>10, <1>13, <2>1
<1> QED
  BY <1>7, <1>14, <1>15

\* Pieces that lie in spans, and do not overlap in one, add up to no more than the spans.
LEMMA PiecesOfSpans ==
  ASSUME NEW X, Proper(X), NEW Q, Proper(Q), NEW p \in [Q -> X],
         \A q \in Q : p[q].start <= q.start /\ q.end <= p[q].end,
         \A q, r \in Q : p[q] = p[r] => q = r \/ q.end <= r.start \/ r.end <= q.start
  PROVE  Weight(SecondsOf(Q), Q) <= Weight(SecondsOf(X), X)
<1> DEFINE w == SecondsOf(Q)
           P == [x \in X |-> {q \in Q : p[q] = x}]
           v == [x \in X |-> Weight(w, P[x])]
<1>1. IsFiniteSet(X) /\ IsFiniteSet(Q)
  BY DEF Proper
<1>2. \A q \in Q : Seconds(q) \in Nat
  BY SpanSeconds DEF Proper
<1>3. \A x \in X : x.start \in Int /\ x.end \in Int /\ x.start < x.end /\ Seconds(x) \in Nat
  BY SpanSeconds DEF Proper
<1>4. ASSUME NEW x \in X PROVE IsFiniteSet(P[x]) /\ Proper(P[x]) /\ Weighs(w, P[x])
  <2>1. P[x] \in SUBSET Q
    OBVIOUS
  <2>2. IsFiniteSet(P[x])
    <3> HIDE DEF P
    <3> QED
      BY <1>1, <2>1, FS_Subset
  <2>3. \A q \in P[x] : q.start \in Int /\ q.end \in Int /\ q.start < q.end
    <3> HIDE DEF P
    <3> QED
      BY <2>1 DEF Proper
  <2> QED
    BY <1>2, <2>1, <2>2, <2>3 DEF Proper, Weighs, SecondsOf
<1>5. \A x, y \in X : x # y => P[x] \cap P[y] = {}
  OBVIOUS
<1>6. AllOf(P, X) = Q
  BY DEF AllOf
<1>7. SumFunction(v) = Weight(w, Q)
  <2> HIDE DEF P, w
  <2>1. SumFunction([x \in X |-> Weight(w, P[x])]) = Weight(w, AllOf(P, X))
    BY <1>1, <1>4, <1>5, WeightOfParts
  <2> QED
    BY <1>6, <2>1
<1>8. ASSUME NEW x \in X PROVE v[x] \in Nat /\ v[x] <= Seconds(x)
  <2>1. Weight(w, P[x]) \in Nat
    <3> HIDE DEF P, w
    <3> QED
      BY <1>4, WeightIsSize
  <2>2. /\ \A q \in P[x] : x.start <= q.start /\ q.end <= x.end
        /\ \A q, r \in P[x] : q = r \/ q.end <= r.start \/ r.end <= q.start
    OBVIOUS
  <2> DEFINE R == P[x]
  <2>3. Proper(R) /\ R \subseteq Q
    BY <1>4
  <2> HIDE DEF R
  <2>4. Weight(SecondsOf(R), R) <= Seconds(x)
    BY <1>3, <2>2, <2>3, PiecesInside DEF R
  <2>5. Weight(SecondsOf(R), R) = Weight(w, R)
    <3>1. [q \in R |-> SecondsOf(R)[q]] = [q \in R |-> w[q]]
      BY <2>3 DEF SecondsOf
    <3> QED
      BY <3>1 DEF Weight
  <2> QED
    BY <2>1, <2>4, <2>5 DEF R
<1>9. Weight(v, X) <= Weight(SecondsOf(X), X)
  <2>1. Weighs(v, X) /\ Weighs(SecondsOf(X), X) /\ \A x \in X : v[x] <= SecondsOf(X)[x]
    BY <1>3, <1>8 DEF Weighs, SecondsOf
  <2> HIDE DEF v
  <2> QED
    BY <1>1, <2>1, WeightGrows
<1>10. Weight(v, X) = SumFunction(v)
  <2>1. v = [x \in X |-> v[x]]
    OBVIOUS
  <2> QED
    BY <2>1 DEF Weight
<1> QED
  BY <1>7, <1>9, <1>10

\* The whole seconds of a set of spans.
Sec(X) == SumFunction([x \in X |-> Seconds(x)])

\* The spans of some kinds.
OfKind(spans, kinds) == {r \in spans : r.kind \in kinds}

\* Total sums up the spans of its kinds.
LEMMA TotalIs ==
  ASSUME NEW spans, NEW kinds
  PROVE  Total(spans, kinds) = Sec(OfKind(spans, kinds))
BY DEF Total, Sec, OfKind

\* Seconds as a weight.
LEMMA SecIsWeight ==
  ASSUME NEW Y, NEW X \in SUBSET Y
  PROVE  Sec(X) = Weight(SecondsOf(Y), X)
<1>1. [x \in X |-> SecondsOf(Y)[x]] = [x \in X |-> Seconds(x)]
  BY DEF SecondsOf
<1> QED
  BY <1>1 DEF Sec, Weight

\* The seconds of proper spans are weights.
LEMMA ProperWeighs ==
  ASSUME NEW X, Proper(X)
  PROVE  IsFiniteSet(X) /\ Weighs(SecondsOf(X), X)
BY SpanSeconds DEF Proper, Weighs, SecondsOf

\* Parts of proper sets are proper.
LEMMA ProperSubset ==
  ASSUME NEW X, Proper(X), NEW Y \in SUBSET X
  PROVE  Proper(Y) /\ Sec(Y) \in Nat
<1>1. Proper(Y)
  BY FS_Subset DEF Proper
<1>2. Sec(Y) = Weight(SecondsOf(Y), Y)
  BY SecIsWeight
<1>3. Weight(SecondsOf(Y), Y) \in Nat
  BY <1>1, ProperWeighs, WeightIsSize
<1> QED
  BY <1>1, <1>2, <1>3

\* Seconds add up over disjoint sets.
LEMMA SecOfParts ==
  ASSUME NEW U, IsFiniteSet(U), NEW P, \A u \in U : Proper(P[u]),
         \A u, v \in U : u # v => P[u] \cap P[v] = {}
  PROVE  /\ Proper(AllOf(P, U))
         /\ SumFunction([u \in U |-> Sec(P[u])]) = Sec(AllOf(P, U))
<1> DEFINE w == SecondsOf(AllOf(P, U))
<1>1. ASSUME NEW u \in U PROVE IsFiniteSet(P[u]) /\ Weighs(w, P[u]) /\ Sec(P[u]) = Weight(w, P[u])
  <2>1. P[u] \in SUBSET AllOf(P, U)
    BY DEF AllOf
  <2>2. IsFiniteSet(P[u]) /\ Weighs(SecondsOf(P[u]), P[u])
    BY ProperWeighs
  <2>3. \A x \in P[u] : SecondsOf(P[u])[x] = w[x]
    BY <2>1 DEF SecondsOf
  <2>4. Weighs(w, P[u])
    BY <2>2, <2>3 DEF Weighs
  <2> QED
    BY <2>1, <2>2, <2>4, SecIsWeight
<1> HIDE DEF w
<1>2. SumFunction([u \in U |-> Weight(w, P[u])]) = Weight(w, AllOf(P, U)) /\ IsFiniteSet(AllOf(P, U))
  BY <1>1, WeightOfParts
<1>3. [u \in U |-> Sec(P[u])] = [u \in U |-> Weight(w, P[u])]
  BY <1>1
<1>4. Weight(w, AllOf(P, U)) = Sec(AllOf(P, U))
  <2>1. AllOf(P, U) \in SUBSET AllOf(P, U)
    OBVIOUS
  <2> QED
    BY <2>1, SecIsWeight DEF w
<1>5. Proper(AllOf(P, U))
  BY <1>2 DEF Proper, AllOf
<1> QED
  BY <1>2, <1>3, <1>4, <1>5

\* Seconds of spans do not change with what the spans are called.
LEMMA SecRenamed ==
  ASSUME NEW X, Proper(X), NEW Y, NEW h \in [X -> Y],
         \A y \in Y : \E x \in X : h[x] = y,
         \A x, z \in X : h[x] = h[z] => x = z,
         \A x \in X : h[x].start = x.start /\ h[x].end = x.end
  PROVE  Proper(Y) /\ Sec(Y) = Sec(X)
<1>1. IsFiniteSet(X) /\ Weighs(SecondsOf(X), X)
  BY ProperWeighs
<1>2. \A x \in X : SecondsOf(Y)[h[x]] = SecondsOf(X)[x]
  <2> SUFFICES ASSUME NEW x \in X PROVE SecondsOf(Y)[h[x]] = SecondsOf(X)[x]
    OBVIOUS
  <2>1. SecondsOf(Y)[h[x]] = Seconds(h[x]) /\ SecondsOf(X)[x] = Seconds(x)
    BY DEF SecondsOf
  <2>2. Length(h[x]) = Length(x)
    BY DEF Length
  <2> QED
    BY <2>1, <2>2 DEF Seconds
<1>3. Weight(SecondsOf(X), X) = Weight(SecondsOf(Y), Y) /\ IsFiniteSet(Y)
  BY <1>1, <1>2, WeightRenamed
<1>4. Sec(X) = Weight(SecondsOf(X), X) /\ Sec(Y) = Weight(SecondsOf(Y), Y)
  <2>1. X \in SUBSET X /\ Y \in SUBSET Y
    OBVIOUS
  <2> QED
    BY <2>1, SecIsWeight
<1>5. Proper(Y)
  BY <1>3 DEF Proper
<1> QED
  BY <1>3, <1>4, <1>5

\* Two kinds of spans add up.
LEMMA SecOfTwo ==
  ASSUME NEW X, NEW Y, Proper(X), Proper(Y), X \cap Y = {}
  PROVE  Proper(X \union Y) /\ Sec(X \union Y) = Sec(X) + Sec(Y)
<1> DEFINE Z == X \union Y
           w == SecondsOf(Z)
<1>1. Proper(Z)
  <2>1. IsFiniteSet(Z)
    BY FS_Union DEF Proper
  <2> QED
    BY <2>1 DEF Proper
<1>2. Sec(X) = Weight(w, X) /\ Sec(Y) = Weight(w, Y) /\ Sec(Z) = Weight(w, Z)
  <2>1. X \in SUBSET Z /\ Y \in SUBSET Z /\ Z \in SUBSET Z
    OBVIOUS
  <2> HIDE DEF Z
  <2> QED
    BY <2>1, SecIsWeight
<1>3. Weighs(w, Z) /\ IsFiniteSet(Z)
  <2> HIDE DEF Z
  <2> QED
    BY <1>1, ProperWeighs
<1>4. Weighs(w, X) /\ Weighs(w, Y) /\ IsFiniteSet(X) /\ IsFiniteSet(Y)
  BY <1>3 DEF Weighs, Proper
<1> HIDE DEF w
<1>5. /\ Weight(w, X) = Cardinality(UnitsOf(w, X)) /\ IsFiniteSet(UnitsOf(w, X))
      /\ Weight(w, Y) = Cardinality(UnitsOf(w, Y)) /\ IsFiniteSet(UnitsOf(w, Y))
  BY <1>4, WeightIsSize
<1>6. Weight(w, Z) = Cardinality(UnitsOf(w, Z))
  <2> HIDE DEF Z
  <2> QED
    BY <1>3, WeightIsSize
<1>7. UnitsOf(w, Z) = UnitsOf(w, X) \union UnitsOf(w, Y) /\ UnitsOf(w, X) \cap UnitsOf(w, Y) = {}
  BY DEF UnitsOf
<1>8. Cardinality(UnitsOf(w, X) \union UnitsOf(w, Y)) =
        Cardinality(UnitsOf(w, X)) + Cardinality(UnitsOf(w, Y))
  <2> DEFINE A == UnitsOf(w, X)
             B == UnitsOf(w, Y)
  <2>1. IsFiniteSet(A) /\ IsFiniteSet(B) /\ A \cap B = {}
    BY <1>5, <1>7
  <2> HIDE DEF A, B
  <2>2. Cardinality(A \union B) = Cardinality(A) + Cardinality(B) - Cardinality(A \cap B)
    BY <2>1, FS_Union
  <2>3. Cardinality(A) \in Nat /\ Cardinality(B) \in Nat /\ Cardinality(A \cap B) = 0
    BY <2>1, FS_CardinalityType, FS_EmptySet
  <2>4. Cardinality(A \union B) = Cardinality(A) + Cardinality(B)
    BY <2>2, <2>3
  <2> QED
    BY <2>4 DEF A, B
<1> QED
  BY <1>1, <1>2, <1>5, <1>6, <1>7, <1>8

\* Spans of a partition are finitely many.
LEMMA TilingProper ==
  ASSUME NEW from \in Int, NEW to \in Int, NEW spans, Tiling(spans, from, to)
  PROVE  Proper(spans)
<1> DEFINE f == [s \in spans |-> s.start]
           I == from .. to
<1>1. /\ \A s \in spans : /\ s.start \in Int /\ s.end \in Int
                          /\ from <= s.start /\ s.start < s.end /\ s.end <= to
      /\ \A r, s \in spans : r = s \/ r.end <= s.start \/ s.end <= r.start
  BY TilingFacts
<1>2. f \in Injection(spans, I)
  <2>1. f \in [spans -> I]
    BY <1>1
  <2>2. \A r, s \in spans : f[r] = f[s] => r = s
    <3> SUFFICES ASSUME NEW r \in spans, NEW s \in spans, f[r] = f[s] PROVE r = s
      OBVIOUS
    <3>1. r.start = s.start
      OBVIOUS
    <3>2. /\ r.start < r.end /\ s.start < s.end /\ r.start \in Int /\ r.end \in Int /\ s.end \in Int
          /\ r = s \/ r.end <= s.start \/ s.end <= r.start
      BY <1>1
    <3> QED
      BY <3>1, <3>2
  <2> HIDE DEF f
  <2>3. DOMAIN f = spans
    BY <2>1
  <2> QED
    BY <2>1, <2>2, <2>3 DEF Injection, IsInjective
<1>3. IsFiniteSet(I)
  BY FS_Interval
<1> HIDE DEF I
<1>4. IsFiniteSet(spans)
  BY <1>2, <1>3, FS_Injection
<1> QED
  BY <1>1, <1>4 DEF Proper

\* Different spans make different rows.
LEMMA OwnRowIn ==
  ASSUME NEW o, NEW X, X \subseteq SpanSet
  PROVE  \A x, z \in X : OwnRow(o, x) = OwnRow(o, z) => x = z
<1> SUFFICES ASSUME NEW x \in X, NEW z \in X, OwnRow(o, x) = OwnRow(o, z) PROVE x = z
  OBVIOUS
<1>1. x \in SpanSet /\ z \in SpanSet
  OBVIOUS
<1>2. x.start = z.start /\ x.end = z.end /\ x.kind = z.kind
  BY OwnedFacts
<1> QED
  BY <1>1, <1>2 DEF SpanSet

\* To say what spans belong to changes neither their number nor their length.
LEMMA SecOwned ==
  ASSUME NEW o, NEW X, X \subseteq SpanSet, Proper(X)
  PROVE  Proper(Owned(o, X)) /\ Sec(Owned(o, X)) = Sec(X)
<1> DEFINE Y == Owned(o, X)
           h == [x \in X |-> OwnRow(o, x)]
<1>1. Y = {OwnRow(o, x) : x \in X}
  BY OwnedFacts
<1>2. h \in [X -> Y] /\ \A y \in Y : \E x \in X : h[x] = y
  BY <1>1
<1>3. \A x, z \in X : h[x] = h[z] => x = z
  BY OwnRowIn
<1>4. \A x \in X : h[x].start = x.start /\ h[x].end = x.end
  BY OwnedFacts
<1> HIDE DEF Y, h
<1>5. Proper(Y) /\ Sec(Y) = Sec(X)
  BY <1>2, <1>3, <1>4, SecRenamed
<1> QED
  BY <1>5 DEF Y

\* Rows keep their kinds.
LEMMA OwnedOfKind ==
  ASSUME NEW o, NEW X, NEW kinds
  PROVE  OfKind(Owned(o, X), kinds) = Owned(o, OfKind(X, kinds))
BY OwnedFacts DEF OfKind

\* What is of some kinds is a part.
LEMMA OfKindFacts ==
  ASSUME NEW X, NEW kinds
  PROVE  /\ OfKind(X, kinds) \in SUBSET X
         /\ Proper(X) => Proper(OfKind(X, kinds)) /\ Sec(OfKind(X, kinds)) \in Nat
<1>1. OfKind(X, kinds) \in SUBSET X
  BY DEF OfKind
<1> QED
  BY <1>1, ProperSubset

\* A part of a span.
Part(s, from, to) == [s EXCEPT !.start = Max({@, from}), !.end = Min({@, to})]

\* Clip cuts every span, and keeps what is not empty.
LEMMA ClipIs ==
  ASSUME NEW X, X \subseteq SpanSet, NEW from \in Int, NEW to \in Int
  PROVE  /\ Clip(X, from, to) = {c \in {Part(s, from, to) : s \in X} : c.start < c.end}
         /\ \A s \in X :
              /\ Part(s, from, to) \in SpanSet /\ Part(s, from, to).kind = s.kind
              /\ Part(s, from, to).start = IF s.start >= from THEN s.start ELSE from
              /\ Part(s, from, to).end = IF s.end <= to THEN s.end ELSE to
<1>1. Clip(X, from, to) = {c \in {Part(s, from, to) : s \in X} : c.start < c.end}
  BY DEF Clip, Part
<1>2. ASSUME NEW s \in X
      PROVE  /\ Part(s, from, to) \in SpanSet /\ Part(s, from, to).kind = s.kind
             /\ Part(s, from, to).start = IF s.start >= from THEN s.start ELSE from
             /\ Part(s, from, to).end = IF s.end <= to THEN s.end ELSE to
  <2>1. s \in SpanSet
    OBVIOUS
  <2>2. s.start \in Int /\ s.end \in Int
    BY <2>1 DEF SpanSet
  <2>3. /\ Max({s.start, from}) = IF s.start >= from THEN s.start ELSE from
        /\ Min({s.end, to}) = IF s.end <= to THEN s.end ELSE to
    BY <2>2, MaxOfTwo, MinOfTwo
  <2> DEFINE p == [s EXCEPT !.start = IF s.start >= from THEN s.start ELSE from,
                            !.end = IF s.end <= to THEN s.end ELSE to]
  <2>4. Part(s, from, to) = p
    BY <2>3 DEF Part
  <2>5. /\ p \in SpanSet /\ p.kind = s.kind
        /\ p.start = IF s.start >= from THEN s.start ELSE from
        /\ p.end = IF s.end <= to THEN s.end ELSE to
    BY <2>1, <2>2 DEF SpanSet
  <2> QED
    BY <2>4, <2>5
<1> QED
  BY <1>1, <1>2

\* Spans that do not overlap.
Apart(X) == \A q, r \in X : q = r \/ q.end <= r.start \/ r.end <= q.start

\* What a clip keeps of spans that do not overlap.
LEMMA ClipParts ==
  ASSUME NEW X, X \subseteq SpanSet, Proper(X), Apart(X), NEW from \in Int, NEW to \in Int
  PROVE  LET C == Clip(X, from, to)
         IN /\ C \subseteq SpanSet /\ Proper(C) /\ Apart(C)
            /\ \A c \in C : /\ from <= c.start /\ c.end <= to
                            /\ \E s \in X : /\ c = Part(s, from, to) /\ c.kind = s.kind
                                            /\ s.start <= c.start /\ c.end <= s.end
<1> DEFINE C == Clip(X, from, to)
           S == {s \in X : Part(s, from, to).start < Part(s, from, to).end}
           h == [s \in S |-> Part(s, from, to)]
<1>1. /\ C = {c \in {Part(s, from, to) : s \in X} : c.start < c.end}
      /\ \A s \in X :
              /\ Part(s, from, to) \in SpanSet /\ Part(s, from, to).kind = s.kind
              /\ Part(s, from, to).start = IF s.start >= from THEN s.start ELSE from
              /\ Part(s, from, to).end = IF s.end <= to THEN s.end ELSE to
  BY ClipIs
<1>2. \A s \in X : s.start \in Int /\ s.end \in Int /\ s.start < s.end
  BY DEF Proper
<1> HIDE DEF C
<1>3. C \subseteq SpanSet
  BY <1>1
<1>4. \A c \in C : c.start \in Int /\ c.end \in Int /\ c.start < c.end
  BY <1>1, <1>3 DEF SpanSet
<1>5. ASSUME NEW c \in C
      PROVE  \E s \in X : /\ c = Part(s, from, to) /\ c.kind = s.kind
                          /\ s.start <= c.start /\ c.end <= s.end /\ from <= c.start /\ c.end <= to
  <2>1. PICK s \in X : c = Part(s, from, to)
    BY <1>1
  <2>2. /\ c.kind = s.kind
        /\ c.start = IF s.start >= from THEN s.start ELSE from
        /\ c.end = IF s.end <= to THEN s.end ELSE to
    BY <1>1, <2>1
  <2>3. s.start <= c.start /\ c.end <= s.end /\ from <= c.start /\ c.end <= to
    BY <1>2, <2>2
  <2> QED
    BY <2>1, <2>2, <2>3
<1>6. Apart(C)
  <2> SUFFICES ASSUME NEW c \in C, NEW e \in C PROVE c = e \/ c.end <= e.start \/ e.end <= c.start
    BY DEF Apart
  <2>1. PICK s \in X : c = Part(s, from, to) /\ s.start <= c.start /\ c.end <= s.end
    BY <1>5
  <2>2. PICK r \in X : e = Part(r, from, to) /\ r.start <= e.start /\ e.end <= r.end
    BY <1>5
  <2>3. s = r \/ s.end <= r.start \/ r.end <= s.start
    BY DEF Apart
  <2>4. CASE s = r
    BY <2>1, <2>2, <2>4
  <2>5. CASE s.end <= r.start \/ r.end <= s.start
    BY <1>2, <1>4, <2>1, <2>2, <2>5
  <2> QED
    BY <2>3, <2>4, <2>5
<1>7. IsFiniteSet(C)
  <2>1. S \in SUBSET X /\ IsFiniteSet(X)
    BY DEF Proper
  <2>2. h \in Surjection(S, C)
    BY <1>1 DEF Surjection
  <2> HIDE DEF S, h
  <2>3. IsFiniteSet(S)
    BY <2>1, FS_Subset
  <2> QED
    BY <2>2, <2>3, FS_Surjection
<1> QED
  BY <1>3, <1>4, <1>5, <1>6, <1>7 DEF Proper, C

-----------------------------------------------------------------------------
(* The uses of applications. *)

\* The types of the table of applications.
AppsOK ==
  apps \in [AppId -> [session : SessionId, name : Names, start : Int, end : Int \union {Null}]
                       \union {Null}]

\* The rows of that table.
UseSet == [session : SessionId, name : Names, start : Int, end : Int \union {Null}]

\* The table begins empty.
LEMMA AppsInit == ReportsInit => AppsOK
BY DEF ReportsInit, AppsOK

\* An upload of a use stores a use.
LEMMA AppsStep == AppsOK /\ [ReportsNext]_reportsVars => AppsOK'
<1> SUFFICES ASSUME AppsOK, [ReportsNext]_reportsVars PROVE AppsOK'
  OBVIOUS
<1>1. CASE apps' = apps
  BY <1>1 DEF AppsOK
<1>2. ASSUME NEW a \in AppId, ReportApp(a) PROVE AppsOK'
  <2>1. PICK report \in AppReport[a] : apps' = [apps EXCEPT ![a] = report]
    BY <1>2 DEF ReportApp
  <2>2. report \in UseSet
    BY <2>1, UseAssumption DEF UseSet
  <2>3. apps \in [AppId -> UseSet \union {Null}]
    BY DEF AppsOK, UseSet
  <2>4. apps' \in [AppId -> UseSet \union {Null}]
    BY <2>1, <2>2, <2>3
  <2> QED
    BY <2>4 DEF AppsOK, UseSet
<1>3. CASE Next /\ UNCHANGED apps
  BY <1>1, <1>3
<1>4. CASE UNCHANGED reportsVars
  BY <1>1, <1>4 DEF reportsVars
<1> QED
  BY <1>2, <1>3, <1>4 DEF ReportsNext

\* The tables of the timeline are filled by its own steps: uses change none of them.
LEMMA ReportsStep == [ReportsNext]_reportsVars => [Next]_vars
BY DEF ReportsNext, reportsVars, ReportApp

\* The tables always have their types.
LEMMA ReportsTypes == ReportsSpec => [](TypeOK /\ AppsOK)
<1>1. ReportsSpec => Spec
  BY ReportsStep, PTL DEF ReportsSpec, ReportsInit, Spec
<1>2. ReportsSpec => []AppsOK
  BY AppsInit, AppsStep, PTL DEF ReportsSpec
<1> QED
  BY <1>1, <1>2, TypeCorrect, PTL

\* The uses of a session under a name, and their stretches.
LEMMA UsesFacts ==
  ASSUME TypeOK, AppsOK, NEW s, NEW name
  PROVE  /\ IsFiniteSet(Uses(s, name))
         /\ \A a \in Uses(s, name) : /\ a \in AppId /\ apps[a] # Null /\ Interval(Use(a))
                                     /\ apps[a].session = s /\ apps[a].name = name
<1>1. IsFiniteSet(Uses(s, name))
  <2>1. Uses(s, name) \in SUBSET AppId
    BY DEF Uses
  <2> QED
    BY <2>1, FS_Subset, UseAssumption
<1>2. ASSUME NEW a \in Uses(s, name) PROVE Interval(Use(a))
  <2>1. a \in AppId /\ apps[a] # Null
    BY DEF Uses
  <2>2. apps[a] \in UseSet
    BY <2>1 DEF AppsOK, UseSet
  <2>3. apps[a].start \in Int /\ apps[a].end \in Int \union {Null}
    BY <2>2 DEF UseSet
  <2>4. now \in Int /\ Offset \in Int
    BY StateFacts
  <2>5. NormalizeLocal(apps[a].start) \in Int /\ Until(apps[a].end) \in Int
    BY <2>3, <2>4 DEF NormalizeLocal, Until
  <2> QED
    BY <2>5 DEF Use, Interval
<1>3. \A a \in Uses(s, name) : /\ a \in AppId /\ apps[a] # Null
                               /\ apps[a].session = s /\ apps[a].name = name
  BY DEF Uses
<1> QED
  BY <1>1, <1>2, <1>3

\* Spans of the sessions S, and what the uses of a name take of them in the windows W.
RowsOf(S, B) == UNION {Owned(s, B[s]) : s \in S}
Cuttings(B, W, s, name) == UNION {Owned(a, Clip(B[s], W[a].start, W[a].end)) : a \in Uses(s, name)}
BitsOf(S, B, W, name) == UNION {Cuttings(B, W, s, name) : s \in S}

\* Spans are proper and apart, and windows have ends.
BuiltOf(S, B) == \A s \in S : B[s] \subseteq SpanSet /\ Proper(B[s]) /\ Apart(B[s])
Windows(S, W) == \A s \in S : \A name \in Names : \A a \in Uses(s, name) : Interval(W[a])

\* The rows of sessions are proper.
LEMMA RowsProper ==
  ASSUME NEW S, IsFiniteSet(S), NEW B, BuiltOf(S, B)
  PROVE  /\ Proper(RowsOf(S, B))
         /\ \A x : x \in RowsOf(S, B) <=> \E s \in S : \E r \in B[s] : x = OwnRow(s, r)
<1> DEFINE P == [s \in S |-> Owned(s, B[s])]
<1>1. \A s \in S : Proper(P[s])
  BY SecOwned DEF BuiltOf
<1>2. \A r, s \in S : r # s => P[r] \cap P[s] = {}
  BY DEF Owned
<1>3. AllOf(P, S) = RowsOf(S, B)
  BY DEF AllOf, RowsOf
<1> HIDE DEF P
<1>4. Proper(AllOf(P, S))
  BY <1>1, <1>2, SecOfParts
<1>5. ASSUME NEW x
      PROVE  x \in RowsOf(S, B) <=> \E s \in S : \E r \in B[s] : x = OwnRow(s, r)
  <2>1. \A s \in S : x \in Owned(s, B[s]) <=> \E r \in B[s] : x = OwnRow(s, r)
    BY OwnedFacts
  <2> QED
    BY <2>1 DEF RowsOf
<1> QED
  BY <1>3, <1>4, <1>5

\* The bits of one name, one by one.
LEMMA BitsProper ==
  ASSUME TypeOK, AppsOK, NEW S, IsFiniteSet(S), NEW B, BuiltOf(S, B), NEW W, Windows(S, W),
         NEW name \in Names
  PROVE  /\ Proper(BitsOf(S, B, W, name))
         /\ \A q : q \in BitsOf(S, B, W, name) <=>
              \E s \in S : \E a \in Uses(s, name) :
                \E c \in Clip(B[s], W[a].start, W[a].end) : q = OwnRow(a, c)
<1> DEFINE C(s, a) == Clip(B[s], W[a].start, W[a].end)
<1>1. ASSUME NEW s \in S, NEW a \in Uses(s, name)
      PROVE  C(s, a) \subseteq SpanSet /\ Proper(C(s, a))
  <2>1. W[a].start \in Int /\ W[a].end \in Int
    BY DEF Windows, Interval
  <2>2. B[s] \subseteq SpanSet /\ Proper(B[s]) /\ Apart(B[s])
    BY DEF BuiltOf
  <2> QED
    BY <2>1, <2>2, ClipParts
<1>2. \A q : q \in BitsOf(S, B, W, name) <=>
        \E s \in S : \E a \in Uses(s, name) : \E c \in C(s, a) : q = OwnRow(a, c)
  <2>1. \A s, a, q : q \in Owned(a, C(s, a)) <=> \E c \in C(s, a) : q = OwnRow(a, c)
    BY OwnedFacts
  <2>2. \A s, q : q \in Cuttings(B, W, s, name) <=> \E a \in Uses(s, name) : q \in Owned(a, C(s, a))
    BY DEF Cuttings
  <2>3. \A q : q \in BitsOf(S, B, W, name) <=> \E s \in S : q \in Cuttings(B, W, s, name)
    BY DEF BitsOf
  <2> HIDE DEF C
  <2> QED
    BY <2>1, <2>2, <2>3
<1>3. ASSUME NEW s \in S PROVE Proper(Cuttings(B, W, s, name))
  <2> DEFINE U == Uses(s, name)
             P == [a \in U |-> Owned(a, C(s, a))]
  <2>1. IsFiniteSet(U)
    BY UsesFacts
  <2>2. \A a \in U : Proper(P[a])
    BY <1>1, SecOwned
  <2>3. \A a, b \in U : a # b => P[a] \cap P[b] = {}
    BY DEF Owned
  <2>4. AllOf(P, U) = Cuttings(B, W, s, name)
    BY DEF AllOf, Cuttings
  <2> HIDE DEF P, U
  <2> QED
    BY <2>1, <2>2, <2>3, <2>4, SecOfParts
<1>4. Proper(BitsOf(S, B, W, name))
  <2> DEFINE P == [s \in S |-> Cuttings(B, W, s, name)]
  <2>1. \A s \in S : Proper(P[s])
    BY <1>3
  <2>2. \A r, s \in S : r # s => P[r] \cap P[s] = {}
    <3> SUFFICES ASSUME NEW r \in S, NEW s \in S, r # s, NEW q, q \in P[r], q \in P[s]
                 PROVE  FALSE
      OBVIOUS
    <3>1. PICK a \in Uses(r, name) : q.owner = a
      BY DEF Cuttings, Owned
    <3>2. PICK b \in Uses(s, name) : q.owner = b
      BY DEF Cuttings, Owned
    <3> QED
      BY <3>1, <3>2, UsesFacts
  <2>3. AllOf(P, S) = BitsOf(S, B, W, name)
    BY DEF AllOf, BitsOf
  <2> HIDE DEF P
  <2> QED
    BY <2>1, <2>2, <2>3, SecOfParts
<1> QED
  BY <1>2, <1>4

\* No two uses of a session overlap.
WindowsApart(S, W) ==
  \A s \in S : \A m, n \in Names : \A a \in Uses(s, m) : \A b \in Uses(s, n) :
    a # b => Empty(Meet(W[a], W[b]))

\* What lies within windows that do not meet does not overlap.
LEMMA MeetApart ==
  ASSUME NEW v, NEW w, Interval(v), Interval(w), Empty(Meet(v, w)),
         NEW c, NEW e, c.start \in Int, c.end \in Int, e.start \in Int, e.end \in Int,
         c.start < c.end, e.start < e.end,
         v.start <= c.start, c.end <= v.end, w.start <= e.start, e.end <= w.end
  PROVE  c.end <= e.start \/ e.end <= c.start
<1>1. Meet(v, w).start = IF v.start >= w.start THEN v.start ELSE w.start
  BY MeetFacts
<1>2. Meet(v, w).end = IF v.end <= w.end THEN v.end ELSE w.end
  BY MeetFacts
<1>3. Meet(v, w).end <= Meet(v, w).start
  BY DEF Empty
<1>4. v.start \in Int /\ v.end \in Int /\ w.start \in Int /\ w.end \in Int
  BY DEF Interval
<1> QED
  BY <1>1, <1>2, <1>3, <1>4

\* Uses that do not overlap take no more of a kind of time than there is.
LEMMA UsageInside ==
  ASSUME TypeOK, AppsOK, NEW S, IsFiniteSet(S), NEW B, BuiltOf(S, B), NEW W, Windows(S, W),
         WindowsApart(S, W), NEW kind
  PROVE  SumFunction([name \in Names |-> Sec(OfKind(BitsOf(S, B, W, name), {kind}))])
           <= Sec(OfKind(RowsOf(S, B), {kind}))
<1> DEFINE P == [name \in Names |-> OfKind(BitsOf(S, B, W, name), {kind})]
           Q == AllOf(P, Names)
           X == OfKind(RowsOf(S, B), {kind})
<1>1. ASSUME NEW name \in Names PROVE Proper(P[name])
  <2>1. Proper(BitsOf(S, B, W, name))
    BY BitsProper
  <2> QED
    BY <2>1, OfKindFacts
<1>2. ASSUME NEW name \in Names, NEW q \in P[name]
      PROVE  \E s \in S : \E a \in Uses(s, name) : \E c \in Clip(B[s], W[a].start, W[a].end) :
               q = OwnRow(a, c) /\ c.kind = kind
  <2>1. q \in BitsOf(S, B, W, name) /\ q.kind = kind
    BY DEF OfKind
  <2>2. \E s \in S : \E a \in Uses(s, name) : \E c \in Clip(B[s], W[a].start, W[a].end) : q = OwnRow(a, c)
    BY <2>1, BitsProper
  <2>3. PICK s \in S : \E a \in Uses(s, name) : \E c \in Clip(B[s], W[a].start, W[a].end) : q = OwnRow(a, c)
    BY <2>2
  <2>4. PICK a \in Uses(s, name) : \E c \in Clip(B[s], W[a].start, W[a].end) : q = OwnRow(a, c)
    BY <2>3
  <2>5. PICK c \in Clip(B[s], W[a].start, W[a].end) : q = OwnRow(a, c)
    BY <2>4
  <2>6. c.kind = kind
    BY <2>1, <2>5, OwnedFacts
  <2> QED
    BY <2>5, <2>6
<1>3. ASSUME NEW m \in Names, NEW n \in Names, m # n PROVE P[m] \cap P[n] = {}
  <2> SUFFICES ASSUME NEW q, q \in P[m], q \in P[n] PROVE FALSE
    OBVIOUS
  <2>0. \A a, c : OwnRow(a, c).owner = a
    BY DEF OwnRow
  <2>1. PICK r \in S : \E a \in Uses(r, m) : q.owner = a
    <3>1. \E s \in S : \E a \in Uses(s, m) : \E c : q = OwnRow(a, c)
      BY <1>2
    <3> QED
      BY <2>0, <3>1
  <2>2. PICK s \in S : \E a \in Uses(s, n) : q.owner = a
    <3>1. \E t \in S : \E a \in Uses(t, n) : \E c : q = OwnRow(a, c)
      BY <1>2
    <3> QED
      BY <2>0, <3>1
  <2> QED
    BY <1>3, <2>1, <2>2, UsesFacts
<1>4. /\ Proper(Q)
      /\ SumFunction([name \in Names |-> Sec(P[name])]) = Sec(Q)
  <2>1. IsFiniteSet(Names)
    BY UseAssumption
  <2> HIDE DEF P
  <2> QED
    BY <1>1, <1>3, <2>1, SecOfParts
<1>5. Proper(X)
  BY RowsProper, OfKindFacts
<1>6. ASSUME NEW q \in Q
      PROVE  \E s \in S : \E name \in Names : \E a \in Uses(s, name) :
               \E c \in Clip(B[s], W[a].start, W[a].end) : q = OwnRow(a, c) /\ c.kind = kind
  <2>1. PICK name \in Names : q \in P[name]
    BY DEF AllOf
  <2> HIDE DEF P, Q
  <2>2. \E s \in S : \E a \in Uses(s, name) : \E c \in Clip(B[s], W[a].start, W[a].end) :
               q = OwnRow(a, c) /\ c.kind = kind
    BY <1>2, <2>1
  <2> QED
    BY <2>2
<1> HIDE DEF P, Q, X
<1> DEFINE Holds(x, q) == /\ x.owner = apps[q.owner].session
                          /\ x.start <= q.start /\ q.end <= x.end
<1>7. ASSUME NEW s \in S, NEW name \in Names, NEW a \in Uses(s, name)
      PROVE  /\ Interval(W[a])
             /\ LET C == Clip(B[s], W[a].start, W[a].end)
                IN /\ C \subseteq SpanSet /\ Proper(C) /\ Apart(C)
                   /\ \A c \in C : /\ W[a].start <= c.start /\ c.end <= W[a].end
                                   /\ \E r \in B[s] : /\ c.kind = r.kind
                                                      /\ r.start <= c.start /\ c.end <= r.end
  <2>1. Interval(W[a]) /\ W[a].start \in Int /\ W[a].end \in Int
    BY DEF Windows, Interval
  <2>2. B[s] \subseteq SpanSet /\ Proper(B[s]) /\ Apart(B[s])
    BY DEF BuiltOf
  <2> DEFINE C == Clip(B[s], W[a].start, W[a].end)
  <2>3. /\ C \subseteq SpanSet /\ Proper(C) /\ Apart(C)
        /\ \A c \in C : /\ W[a].start <= c.start /\ c.end <= W[a].end
                        /\ \E r \in B[s] : /\ c = Part(r, W[a].start, W[a].end) /\ c.kind = r.kind
                                           /\ r.start <= c.start /\ c.end <= r.end
    BY <2>1, <2>2, ClipParts
  <2> HIDE DEF C
  <2>4. \A c \in C : /\ W[a].start <= c.start /\ c.end <= W[a].end
                     /\ \E r \in B[s] : /\ c.kind = r.kind
                                        /\ r.start <= c.start /\ c.end <= r.end
    BY <2>3
  <2> QED
    BY <2>1, <2>3, <2>4 DEF C
<1>8. ASSUME NEW q \in Q PROVE \E x \in X : Holds(x, q)
  <2>0. PICK s \in S, name \in Names : \E a \in Uses(s, name) :
          \E c \in Clip(B[s], W[a].start, W[a].end) : q = OwnRow(a, c) /\ c.kind = kind
    BY <1>6
  <2>a. PICK a \in Uses(s, name) :
          \E c \in Clip(B[s], W[a].start, W[a].end) : q = OwnRow(a, c) /\ c.kind = kind
    BY <2>0
  <2>1. PICK c \in Clip(B[s], W[a].start, W[a].end) : q = OwnRow(a, c) /\ c.kind = kind
    BY <2>a
  <2>2. PICK r \in B[s] : c.kind = r.kind /\ r.start <= c.start /\ c.end <= r.end
    BY <1>7
  <2>3. apps[a].session = s
    BY UsesFacts
  <2>4. OwnRow(s, r) \in RowsOf(S, B)
    BY RowsProper
  <2>5. OwnRow(s, r).kind = r.kind
    BY OwnedFacts
  <2>6. OwnRow(s, r) \in X
    BY <2>1, <2>2, <2>4, <2>5 DEF X, OfKind
  <2>7. Holds(OwnRow(s, r), q)
    BY <2>1, <2>2, <2>3 DEF OwnRow
  <2> QED
    BY <2>6, <2>7
<1> DEFINE p == [q \in Q |-> CHOOSE x \in X : Holds(x, q)]
<1>9. \A q \in Q : p[q] \in X /\ Holds(p[q], q)
  <2> HIDE DEF Holds
  <2> QED
    BY <1>8
<1>10. p \in [Q -> X]
  BY <1>9
<1>11. \A q \in Q : /\ p[q].start <= q.start /\ q.end <= p[q].end
                    /\ p[q].owner = apps[q.owner].session
  BY <1>9
<1> HIDE DEF p
<1>12. ASSUME NEW q \in Q, NEW r \in Q, p[q] = p[r]
       PROVE  q = r \/ q.end <= r.start \/ r.end <= q.start
  <2>a. PICK s \in S, m \in Names : \E a \in Uses(s, m) :
          \E c \in Clip(B[s], W[a].start, W[a].end) : q = OwnRow(a, c)
    BY <1>6
  <2>b. PICK a \in Uses(s, m) : \E c \in Clip(B[s], W[a].start, W[a].end) : q = OwnRow(a, c)
    BY <2>a
  <2>1. PICK c \in Clip(B[s], W[a].start, W[a].end) : q = OwnRow(a, c)
    BY <2>b
  <2>c. PICK t \in S, n \in Names : \E b \in Uses(t, n) :
          \E e \in Clip(B[t], W[b].start, W[b].end) : r = OwnRow(b, e)
    BY <1>6
  <2>d. PICK b \in Uses(t, n) : \E e \in Clip(B[t], W[b].start, W[b].end) : r = OwnRow(b, e)
    BY <2>c
  <2>2. PICK e \in Clip(B[t], W[b].start, W[b].end) : r = OwnRow(b, e)
    BY <2>d
  <2>3. /\ q.owner = a /\ q.start = c.start /\ q.end = c.end
        /\ r.owner = b /\ r.start = e.start /\ r.end = e.end
    BY <2>1, <2>2 DEF OwnRow
  <2>4. apps[a].session = s /\ apps[b].session = t
    BY UsesFacts
  <2>5. s = t
    BY <1>11, <1>12, <2>3, <2>4
  <2>6. CASE a = b
    <3>1. Apart(Clip(B[s], W[a].start, W[a].end))
      BY <1>7
    <3>2. c = e \/ c.end <= e.start \/ e.end <= c.start
      BY <2>5, <2>6, <3>1 DEF Apart
    <3> QED
      BY <2>1, <2>2, <2>3, <2>6, <3>2
  <2>7. CASE a # b
    <3>1. Empty(Meet(W[a], W[b])) /\ Interval(W[a]) /\ Interval(W[b])
      BY <1>7, <2>5, <2>7 DEF WindowsApart
    <3>2. /\ c.start \in Int /\ c.end \in Int /\ c.start < c.end
          /\ W[a].start <= c.start /\ c.end <= W[a].end
      BY <1>7 DEF Proper
    <3>3. /\ e.start \in Int /\ e.end \in Int /\ e.start < e.end
          /\ W[b].start <= e.start /\ e.end <= W[b].end
      BY <1>7 DEF Proper
    <3> QED
      BY <2>3, <3>1, <3>2, <3>3, MeetApart
  <2> QED
    BY <2>6, <2>7
<1>13. Sec(Q) <= Sec(X)
  <2>1. Weight(SecondsOf(Q), Q) <= Weight(SecondsOf(X), X)
    BY <1>4, <1>5, <1>10, <1>11, <1>12, PiecesOfSpans
  <2>2. Q \in SUBSET Q /\ X \in SUBSET X
    OBVIOUS
  <2> QED
    BY <2>1, <2>2, SecIsWeight
<1> QED
  BY <1>4, <1>13 DEF P, X

-----------------------------------------------------------------------------
(* Periods and what a session shows of them. *)

\* A view depends on the part of the session in the window alone.
LEMMA BuildShown ==
  ASSUME NEW s, NEW v, NEW w, ShownIn(s, v) = ShownIn(s, w)
  PROVE  Build(s, v) = Build(s, w)
BY DEF Build, ShownIn

\* What two windows have in common.
LEMMA MeetIs ==
  ASSUME NEW a, NEW b, Interval(a), Interval(b)
  PROVE  Meet(a, b) = [start |-> IF a.start >= b.start THEN a.start ELSE b.start,
                       end |-> IF a.end <= b.end THEN a.end ELSE b.end]
<1>1. a.start \in Int /\ b.start \in Int /\ a.end \in Int /\ b.end \in Int
  BY DEF Interval
<1>2. /\ Max({a.start, b.start}) = IF a.start >= b.start THEN a.start ELSE b.start
      /\ Min({a.end, b.end}) = IF a.end <= b.end THEN a.end ELSE b.end
  BY <1>1, MaxOfTwo, MinOfTwo
<1> QED
  BY <1>2 DEF Meet

\* What a session shows of a period is a window of its life.
LEMMA PeriodFacts ==
  ASSUME TypeOK, NEW s \in Known, NEW p, p.first \in Int, p.next \in Int
  PROVE  /\ Interval(PeriodWindow(p)) /\ Interval(Shown(s, p)) /\ Interval(Life(s))
         /\ ShownIn(s, Shown(s, p)) = Shown(s, p)
<1>1. Offset \in Int /\ Interval(Life(s))
  BY StateFacts
<1>2. Interval(PeriodWindow(p))
  <2>1. Day \in Int
    BY TimeAssumption
  <2>2. p.first * Day \in Int /\ p.next * Day \in Int
    BY <2>1
  <2>3. NormalizeLocal(p.first * Day) \in Int /\ NormalizeLocal(p.next * Day) \in Int
    BY <1>1, <2>2 DEF NormalizeLocal
  <2> QED
    BY <2>3 DEF PeriodWindow, Interval
<1> DEFINE l == Life(s)
           w == PeriodWindow(p)
           a == IF l.start >= w.start THEN l.start ELSE w.start
           b == IF l.end <= w.end THEN l.end ELSE w.end
           m == [start |-> a, end |-> b]
<1>3. Shown(s, p) = m
  BY <1>1, <1>2, MeetIs DEF Shown
<1>4. Interval(m)
  BY <1>1, <1>2 DEF Interval
<1>5. Meet(m, l) = m
  <2>1. Meet(m, l) = [start |-> IF m.start >= l.start THEN m.start ELSE l.start,
                      end |-> IF m.end <= l.end THEN m.end ELSE l.end]
    <3> HIDE DEF m, l
    <3> QED
      BY <1>1, <1>4, MeetIs DEF l
  <2>2. /\ l.start \in Int /\ l.end \in Int /\ w.start \in Int /\ w.end \in Int
    BY <1>1, <1>2 DEF Interval
  <2>3. m.start = a /\ m.end = b
    OBVIOUS
  <2> HIDE DEF l, w
  <2>4. a >= l.start /\ b <= l.end
    BY <2>2
  <2> QED
    BY <2>1, <2>3, <2>4
<1> QED
  BY <1>1, <1>2, <1>3, <1>4, <1>5 DEF ShownIn

\* A day of a report shows of a session what the timeline of the day shows.
LEMMA DayShown ==
  ASSUME TypeOK, NEW s \in Known, NEW d \in Int
  PROVE  /\ Shown(s, Period(d, d + 1)) = ShownIn(s, DayWindow(d))
         /\ Build(s, Shown(s, Period(d, d + 1))) = Build(s, DayWindow(d))
<1> DEFINE p == Period(d, d + 1)
           v == PeriodWindow(p)
           w == DayWindow(d)
           l == Life(s)
<1>1. p.first = d /\ p.next = d + 1
  BY DEF Period
<1>2. /\ Interval(v) /\ Interval(l) /\ Interval(w) /\ now \in Int
      /\ ShownIn(s, Shown(s, p)) = Shown(s, p)
  BY <1>1, PeriodFacts, StateFacts
<1>3. l.end <= now
  BY DEF TypeOK
<1>4. w.start = v.start /\ w.end = IF v.end <= now THEN v.end ELSE now
  <2> DEFINE e == NormalizeLocal((d + 1) * Day)
  <2>1. v.start = NormalizeLocal(d * Day) /\ v.end = e
    BY <1>1 DEF PeriodWindow
  <2>2. w.start = NormalizeLocal(d * Day) /\ w.end = Min({e, now})
    BY DEF DayWindow
  <2>3. e \in Int
    BY <1>2, <2>1 DEF Interval
  <2> HIDE DEF e, v, w
  <2>4. Min({e, now}) = IF e <= now THEN e ELSE now
    BY <1>2, <2>3, MinOfTwo
  <2> QED
    BY <2>1, <2>2, <2>4
<1>5. /\ l.start \in Int /\ l.end \in Int /\ v.start \in Int /\ v.end \in Int
      /\ w.start \in Int /\ w.end \in Int
  BY <1>2 DEF Interval
<1>6. /\ Meet(l, v) = [start |-> IF l.start >= v.start THEN l.start ELSE v.start,
                       end |-> IF l.end <= v.end THEN l.end ELSE v.end]
      /\ Meet(w, l) = [start |-> IF w.start >= l.start THEN w.start ELSE l.start,
                       end |-> IF w.end <= l.end THEN w.end ELSE l.end]
  <2> HIDE DEF l, v, w
  <2> QED
    BY <1>2, MeetIs
<1>7. Meet(l, v) = Meet(w, l)
  <2> HIDE DEF l, v, w
  <2>1. /\ (IF l.start >= v.start THEN l.start ELSE v.start) =
             (IF w.start >= l.start THEN w.start ELSE l.start)
        /\ (IF l.end <= v.end THEN l.end ELSE v.end) =
             (IF w.end <= l.end THEN w.end ELSE l.end)
    BY <1>2, <1>3, <1>4, <1>5
  <2> QED
    BY <1>6, <2>1
<1>8. Shown(s, p) = ShownIn(s, w)
  BY <1>7 DEF Shown, ShownIn
<1>9. ShownIn(s, Shown(s, p)) = ShownIn(s, w)
  BY <1>2, <1>8
<1>10. Build(s, Shown(s, p)) = Build(s, w)
  <2> HIDE DEF p, w
  <2> QED
    BY <1>9, BuildShown
<1> QED
  BY <1>8, <1>10

\* The view of a session for a window, as a set of spans to sum up.
LEMMA BuildProper ==
  ASSUME TypeOK, NEW s \in Known, NEW w, Interval(w)
  PROVE  /\ Build(s, w) \subseteq SpanSet /\ Proper(Build(s, w)) /\ Apart(Build(s, w))
         /\ \A r \in Build(s, w) : ShownIn(s, w).start <= r.start /\ r.end <= ShownIn(s, w).end
<1> DEFINE X == Build(s, w)
           from == ShownIn(s, w).start
           to == ShownIn(s, w).end
<1>1. CASE Empty(ShownIn(s, w))
  <2>1. X = {}
    BY <1>1, BuildFacts
  <2>2. IsFiniteSet({})
    BY FS_EmptySet
  <2> HIDE DEF X
  <2>3. X \subseteq SpanSet /\ Proper(X) /\ Apart(X)
    BY <2>1, <2>2 DEF Proper, Apart
  <2>4. \A r \in X : ShownIn(s, w).start <= r.start /\ r.end <= ShownIn(s, w).end
    BY <2>1
  <2> QED
    BY <2>3, <2>4 DEF X
<1>2. CASE ~ Empty(ShownIn(s, w))
  <2>1. Tiling(X, from, to) /\ from \in Int /\ to \in Int
    BY <1>2, BuildFacts, SeenFacts DEF Interval
  <2> HIDE DEF X, from, to
  <2>2. Proper(X)
    BY <2>1, TilingProper
  <2>3. X \subseteq SpanSet
    BY <2>1 DEF Tiling
  <2>4. Apart(X) /\ \A r \in X : from <= r.start /\ r.end <= to
    BY <2>1, TilingFacts DEF Apart
  <2> QED
    BY <2>2, <2>3, <2>4 DEF X, from, to
<1> QED
  BY <1>1, <1>2

-----------------------------------------------------------------------------
(* Usage within work. *)

\* Usage in seconds of spans.
LEMMA UsageIs ==
  ASSUME NEW spans
  PROVE  /\ Usage(spans).active = Sec(OfKind(spans, {"ACTIVE"}))
         /\ Usage(spans).idle = Sec(OfKind(spans, {"IDLE"}))
BY TotalIs DEF Usage

\* Totals in seconds of spans.
LEMMA TotalsAre ==
  ASSUME NEW spans
  PROVE  /\ Totals(spans).active = Sec(OfKind(spans, {"ACTIVE"}))
         /\ Totals(spans).idle = Sec(OfKind(spans, {"IDLE"}))
         /\ Totals(spans).gap = Sec(OfKind(spans, {"MONITORING_GAP"}))
         /\ Totals(spans).off = Sec(OfKind(spans, {"OFF_SESSION"}))
         /\ DOMAIN Totals(spans) = {"active", "idle", "gap", "off"}
BY TotalIs DEF Totals

\* What the uses of each name take adds up to no more than the session's time.
LEMMA WithinRows ==
  ASSUME TypeOK, AppsOK, NEW S, IsFiniteSet(S), NEW B, BuiltOf(S, B), NEW W, Windows(S, W),
         WindowsApart(S, W), NEW time,
         time.active = Sec(OfKind(RowsOf(S, B), {"ACTIVE"})),
         time.idle = Sec(OfKind(RowsOf(S, B), {"IDLE"}))
  PROVE  WithinTime([name \in Names |-> Usage(BitsOf(S, B, W, name))], time)
<1> DEFINE used == [name \in Names |-> Usage(BitsOf(S, B, W, name))]
<1>1. DOMAIN used = Names
  OBVIOUS
<1>2. SumFunction([name \in Names |-> used[name]["active"]]) <= time.active
  <2>1. [name \in Names |-> used[name]["active"]] =
          [name \in Names |-> Sec(OfKind(BitsOf(S, B, W, name), {"ACTIVE"}))]
    BY UsageIs
  <2>2. SumFunction([name \in Names |-> Sec(OfKind(BitsOf(S, B, W, name), {"ACTIVE"}))])
          <= Sec(OfKind(RowsOf(S, B), {"ACTIVE"}))
    BY UsageInside
  <2> QED
    BY <2>1, <2>2
<1>3. SumFunction([name \in Names |-> used[name]["idle"]]) <= time.idle
  <2>1. [name \in Names |-> used[name]["idle"]] =
          [name \in Names |-> Sec(OfKind(BitsOf(S, B, W, name), {"IDLE"}))]
    BY UsageIs
  <2>2. SumFunction([name \in Names |-> Sec(OfKind(BitsOf(S, B, W, name), {"IDLE"}))])
          <= Sec(OfKind(RowsOf(S, B), {"IDLE"}))
    BY UsageInside
  <2> QED
    BY <2>1, <2>2
<1> HIDE DEF used
<1> QED
  BY <1>1, <1>2, <1>3 DEF WithinTime, SumOver, used

\* The views of the sessions for a period, and the stretches of their uses.
Views(p) == [s \in Known |-> Build(s, Shown(s, p))]
Stretches(p) == [a \in AppId |-> Meet(Use(a), Shown(apps[a].session, p))]

\* A report sums up the rows of sessions and what uses cut out of them.
LEMMA ReportIs ==
  ASSUME TypeOK, AppsOK, NEW p, p.first \in Int, p.next \in Int, NEW S, S \subseteq Known
  PROVE  /\ IsFiniteSet(S) /\ BuiltOf(S, Views(p)) /\ Windows(S, Stretches(p))
         /\ UNION {Owned(s, Build(s, Shown(s, p))) : s \in S} = RowsOf(S, Views(p))
         /\ \A name \in Names :
              UNION {UNION {Counted(a, s, p) : a \in Uses(s, name)} : s \in S} =
                BitsOf(S, Views(p), Stretches(p), name)
<1>1. IsFiniteSet(S)
  <2>1. S \in SUBSET SessionId
    BY DEF Known
  <2> QED
    BY <2>1, ReportsAssumption, FS_Subset
<1>2. BuiltOf(S, Views(p))
  <2> SUFFICES ASSUME NEW s \in S
               PROVE  Views(p)[s] \subseteq SpanSet /\ Proper(Views(p)[s]) /\ Apart(Views(p)[s])
    BY DEF BuiltOf
  <2>1. Interval(Shown(s, p))
    BY PeriodFacts
  <2>2. Views(p)[s] = Build(s, Shown(s, p))
    BY DEF Views
  <2> QED
    BY <2>1, <2>2, BuildProper
<1>3. ASSUME NEW s \in S, NEW name \in Names, NEW a \in Uses(s, name)
      PROVE  /\ Stretches(p)[a] = Meet(Use(a), Shown(s, p))
             /\ Interval(Stretches(p)[a])
             /\ Counted(a, s, p) =
                  Owned(a, Clip(Views(p)[s], Stretches(p)[a].start, Stretches(p)[a].end))
  <2>1. a \in AppId /\ apps[a].session = s /\ Interval(Use(a)) /\ Interval(Shown(s, p))
    BY UsesFacts, PeriodFacts
  <2>2. Stretches(p)[a] = Meet(Use(a), Shown(s, p))
    BY <2>1 DEF Stretches
  <2>3. Interval(Stretches(p)[a])
    BY <2>1, <2>2, MeetFacts
  <2>4. Views(p)[s] = Build(s, Shown(s, p))
    BY DEF Views
  <2> QED
    BY <2>2, <2>3, <2>4 DEF Counted, Overlap
<1>4. Windows(S, Stretches(p))
  BY <1>3 DEF Windows
<1>5. UNION {Owned(s, Build(s, Shown(s, p))) : s \in S} = RowsOf(S, Views(p))
  BY DEF Views, RowsOf
<1>6. ASSUME NEW name \in Names
      PROVE  UNION {UNION {Counted(a, s, p) : a \in Uses(s, name)} : s \in S} =
                BitsOf(S, Views(p), Stretches(p), name)
  <2>1. \A s \in S : UNION {Counted(a, s, p) : a \in Uses(s, name)} =
                       Cuttings(Views(p), Stretches(p), s, name)
    <3> SUFFICES ASSUME NEW s \in S
                 PROVE  UNION {Counted(a, s, p) : a \in Uses(s, name)} =
                          Cuttings(Views(p), Stretches(p), s, name)
      OBVIOUS
    <3>1. {Counted(a, s, p) : a \in Uses(s, name)} =
            {Owned(a, Clip(Views(p)[s], Stretches(p)[a].start, Stretches(p)[a].end)) :
               a \in Uses(s, name)}
      BY <1>3
    <3> QED
      BY <3>1 DEF Cuttings
  <2> QED
    BY <2>1 DEF BitsOf
<1> QED
  BY <1>1, <1>2, <1>4, <1>5, <1>6

\* Uses that do not overlap do not overlap in any part of their session.
LEMMA StretchesApart ==
  ASSUME TypeOK, AppsOK, NEW p, p.first \in Int, p.next \in Int, NEW S, S \subseteq Known,
         \A s \in S : UsesDisjoint(s)
  PROVE  WindowsApart(S, Stretches(p))
<1> SUFFICES ASSUME NEW s \in S, NEW m \in Names, NEW n \in Names,
                    NEW a \in Uses(s, m), NEW b \in Uses(s, n), a # b
             PROVE  Empty(Meet(Stretches(p)[a], Stretches(p)[b]))
  BY DEF WindowsApart
<1> DEFINE v == Use(a)
           w == Use(b)
           z == Shown(s, p)
<1>1. Empty(Meet(v, w))
  BY DEF UsesDisjoint
<1>2. Interval(v) /\ Interval(w) /\ Interval(z) /\ apps[a].session = s /\ apps[b].session = s
      /\ a \in AppId /\ b \in AppId
  BY UsesFacts, PeriodFacts
<1>3. Stretches(p)[a] = Meet(v, z) /\ Stretches(p)[b] = Meet(w, z)
  BY <1>2 DEF Stretches
<1> HIDE DEF v, w, z
<1> DEFINE x == Meet(v, z)
           y == Meet(w, z)
<1>4. /\ Interval(x) /\ Interval(y)
      /\ x.start = IF v.start >= z.start THEN v.start ELSE z.start
      /\ x.end = IF v.end <= z.end THEN v.end ELSE z.end
      /\ y.start = IF w.start >= z.start THEN w.start ELSE z.start
      /\ y.end = IF w.end <= z.end THEN w.end ELSE z.end
  BY <1>2, MeetFacts
<1>5. /\ Meet(v, w).start = IF v.start >= w.start THEN v.start ELSE w.start
      /\ Meet(v, w).end = IF v.end <= w.end THEN v.end ELSE w.end
  BY <1>2, MeetFacts
<1> HIDE DEF x, y
<1>6. /\ Meet(x, y).start = IF x.start >= y.start THEN x.start ELSE y.start
      /\ Meet(x, y).end = IF x.end <= y.end THEN x.end ELSE y.end
  BY <1>4, MeetFacts
<1>7. Meet(v, w).end <= Meet(v, w).start
  BY <1>1 DEF Empty
<1>8. /\ v.start \in Int /\ v.end \in Int /\ w.start \in Int /\ w.end \in Int
      /\ z.start \in Int /\ z.end \in Int
  BY <1>2 DEF Interval
<1>9. Meet(x, y).end <= Meet(x, y).start
  BY <1>4, <1>5, <1>6, <1>7, <1>8
<1> QED
  BY <1>3, <1>9 DEF Empty, x, y

\* There is a latest open session.
LEMMA CurrentOpen ==
  ASSUME TypeOK, Open # {}
  PROVE  Current \in Open /\ Current \in Known
<1> DEFINE T == {sessions[r].login : r \in Open}
<1>1. ASSUME NEW r \in Open PROVE sessions[r].login \in Int /\ sessions[r].login <= now + Offset
  <2>1. r \in Known
    BY DEF Open
  <2>2. Interval(Life(r)) /\ Offset \in Int /\ now \in Int
    BY <2>1, StateFacts
  <2>3. sessions[r] \in [login : Int, logout : Int \union {Null}]
    BY <2>1 DEF TypeOK, Known
  <2>4. sessions[r].login \in Int
    BY <2>3
  <2>5. Life(r).start <= now
    BY <2>1 DEF TypeOK
  <2>6. Life(r).start = sessions[r].login - Offset
    BY DEF Life, NormalizeLocal
  <2> QED
    BY <2>2, <2>4, <2>5, <2>6
<1>2. /\ now + Offset \in Int /\ T \subseteq Int /\ T # {}
      /\ \A x \in T : x <= now + Offset
  BY <1>1, StateFacts
<1> HIDE DEF T
<1>3. Max(T) \in T /\ \A x \in T : x <= Max(T)
  BY <1>2, MaxFacts
<1>4. \E s \in Open : \A r \in Open : sessions[r].login <= sessions[s].login
  <2>1. PICK s \in Open : Max(T) = sessions[s].login
    BY <1>3 DEF T
  <2>2. \A r \in Open : sessions[r].login \in T
    BY DEF T
  <2> QED
    BY <1>3, <2>1, <2>2
<1>5. Current \in Open
  BY <1>4 DEF Current
<1> QED
  BY <1>5 DEF Open

\* Of the current session.
LEMMA ProductivityWithin ==
  ASSUME TypeOK, AppsOK, Open # {}, UsesDisjoint(Current)
  PROVE  WithinTime(Productivity.applications, Productivity.time)
<1> DEFINE c == Current
           spans == Build(c, Life(c))
           S == {c}
           B == [s \in S |-> spans]
           W == [a \in AppId |-> Use(a)]
           used == [name \in Names |-> Usage(BitsOf(S, B, W, name))]
<1>1. c \in Known /\ Interval(Life(c))
  BY CurrentOpen, StateFacts
<1>2. spans \subseteq SpanSet /\ Proper(spans) /\ Apart(spans)
  BY <1>1, BuildProper
<1>3. IsFiniteSet(S)
  BY FS_Singleton
<1>4. BuiltOf(S, B)
  BY <1>2 DEF BuiltOf
<1>5. \A name : \A a \in Uses(c, name) : W[a] = Use(a) /\ Interval(W[a])
  BY UsesFacts
<1>6. Windows(S, W)
  BY <1>5 DEF Windows
<1>7. WindowsApart(S, W)
  <2> SUFFICES ASSUME NEW m \in Names, NEW n \in Names,
                      NEW a \in Uses(c, m), NEW b \in Uses(c, n), a # b
               PROVE  Empty(Meet(W[a], W[b]))
    BY DEF WindowsApart
  <2>1. Empty(Meet(Use(a), Use(b)))
    BY DEF UsesDisjoint
  <2> QED
    BY <1>5, <2>1
<1>8. RowsOf(S, B) = Owned(c, spans)
  BY DEF RowsOf
<1>9. \A kinds : Sec(OfKind(RowsOf(S, B), kinds)) = Sec(OfKind(spans, kinds))
  <2> SUFFICES ASSUME NEW kinds
               PROVE  Sec(OfKind(Owned(c, spans), kinds)) = Sec(OfKind(spans, kinds))
    BY <1>8
  <2> HIDE DEF spans, c
  <2>1. OfKind(spans, kinds) \subseteq SpanSet /\ Proper(OfKind(spans, kinds))
    BY <1>2, OfKindFacts
  <2> QED
    BY <2>1, OwnedOfKind, SecOwned
<1>10. Productivity.time = Totals(spans)
  BY DEF Productivity
<1>11. Productivity.applications = used
  <2>1. \A name \in Names : BitsOf(S, B, W, name) =
          UNION {Owned(a, Overlap(spans, Use(a))) : a \in Uses(c, name)}
    <3> SUFFICES ASSUME NEW name \in Names
                 PROVE  BitsOf(S, B, W, name) =
                          UNION {Owned(a, Overlap(spans, Use(a))) : a \in Uses(c, name)}
      OBVIOUS
    <3>1. BitsOf(S, B, W, name) = Cuttings(B, W, c, name)
      BY DEF BitsOf
    <3>2. {Owned(a, Clip(B[c], W[a].start, W[a].end)) : a \in Uses(c, name)} =
            {Owned(a, Overlap(spans, Use(a))) : a \in Uses(c, name)}
      BY <1>5 DEF Overlap
    <3> QED
      BY <3>1, <3>2 DEF Cuttings
  <2>2. Productivity.applications =
          [name \in Names |-> Usage(UNION {Owned(a, Overlap(spans, Use(a))) : a \in Uses(c, name)})]
    BY DEF Productivity
  <2> QED
    BY <2>1, <2>2
<1> DEFINE time == Totals(spans)
<1>12. /\ time.active = Sec(OfKind(RowsOf(S, B), {"ACTIVE"}))
       /\ time.idle = Sec(OfKind(RowsOf(S, B), {"IDLE"}))
  BY <1>9, TotalsAre
<1> HIDE DEF c, spans, S, B, W, time
<1>13. WithinTime(used, time)
  BY <1>3, <1>4, <1>6, <1>7, <1>12, WithinRows
<1> QED
  BY <1>10, <1>11, <1>13 DEF time

\* Uses that do not overlap never take more than there is, in what is computed of the
\* current session and in the reports of days.
LEMMA UsageStays == TypeOK /\ AppsOK => UsageWithinWork
<1> SUFFICES ASSUME TypeOK, AppsOK PROVE UsageWithinWork
  OBVIOUS
<1>1. Open # {} /\ UsesDisjoint(Current) => WithinTime(Productivity.applications, Productivity.time)
  BY ProductivityWithin
<1>2. ASSUME \A s \in Known : UsesDisjoint(s), NEW d \in Days, NEW u \in Users
      PROVE  WithinTime(Report(Period(d, d + 1), u).applications, Report(Period(d, d + 1), u).time)
  <2> DEFINE p == Period(d, d + 1)
             S == Reported(p, u)
             B == Views(p)
             W == Stretches(p)
             time == Report(p, u).time
  <2>1. p.first \in Int /\ p.next \in Int
    BY TimeAssumption DEF Days, Period
  <2> HIDE DEF p
  <2>2. S \subseteq Known
    BY DEF Reported
  <2>3. Report(p, u).time = Totals(UNION {Owned(s, Build(s, Shown(s, p))) : s \in S})
    BY DEF Report
  <2>4. Report(p, u).applications =
          [name \in Names |-> Usage(UNION {UNION {Counted(a, s, p) : a \in Uses(s, name)} : s \in S})]
    BY DEF Report
  <2> HIDE DEF S, time
  <2>5. /\ IsFiniteSet(S) /\ BuiltOf(S, B) /\ Windows(S, W)
        /\ UNION {Owned(s, Build(s, Shown(s, p))) : s \in S} = RowsOf(S, B)
        /\ \A name \in Names :
             UNION {UNION {Counted(a, s, p) : a \in Uses(s, name)} : s \in S} = BitsOf(S, B, W, name)
    BY <2>1, <2>2, ReportIs
  <2>6. WindowsApart(S, W)
    BY <1>2, <2>1, <2>2, StretchesApart
  <2>7. /\ time.active = Sec(OfKind(RowsOf(S, B), {"ACTIVE"}))
        /\ time.idle = Sec(OfKind(RowsOf(S, B), {"IDLE"}))
    BY <2>3, <2>5, TotalsAre DEF time
  <2>8. Report(p, u).applications = [name \in Names |-> Usage(BitsOf(S, B, W, name))]
    BY <2>4, <2>5
  <2>9. WithinTime([name \in Names |-> Usage(BitsOf(S, B, W, name))], time)
    <3> HIDE DEF B, W
    <3> QED
      BY <2>5, <2>6, <2>7, WithinRows
  <2> QED
    BY <2>8, <2>9 DEF p, time
<1> QED
  BY <1>1, <1>2 DEF UsageWithinWork

-----------------------------------------------------------------------------
(* The reports of all users. *)

\* The sessions that show something of a period.
Viewed(p) == {s \in Known : ~ Empty(Shown(s, p))}

\* There are finitely many users.
LEMMA UsersFinite == IsFiniteSet(Users)
<1> DEFINE f == [s \in SessionId |-> User[s]]
<1>1. f \in Surjection(SessionId, Users)
  BY DEF Surjection, Users
<1> HIDE DEF f
<1> QED
  BY <1>1, ReportsAssumption, FS_Surjection

\* Every session of a period is in the report of one user.
LEMMA ReportedFacts ==
  ASSUME NEW p
  PROVE  /\ \A u : Reported(p, u) \subseteq Viewed(p) /\ Reported(p, u) \subseteq Known
         /\ \A u, v : \A s \in Reported(p, u) \cap Reported(p, v) : u = v
         /\ \A s \in Viewed(p) : \E u \in Users : s \in Reported(p, u)
         /\ Viewed(p) \subseteq Known
BY DEF Reported, Viewed, Users, Known

\* The times of the users are those of all sessions.
LEMMA RowsByUser ==
  ASSUME TypeOK, AppsOK, NEW p, p.first \in Int, p.next \in Int, NEW kinds
  PROVE  SumFunction([u \in Users |-> Sec(OfKind(RowsOf(Reported(p, u), Views(p)), kinds))]) =
           Sec(OfKind(RowsOf(Viewed(p), Views(p)), kinds))
<1> DEFINE B == Views(p)
           P == [u \in Users |-> OfKind(RowsOf(Reported(p, u), B), kinds)]
<1>1. \A S \in SUBSET Known : IsFiniteSet(S) /\ BuiltOf(S, B)
  BY ReportIs
<1> HIDE DEF B
<1>2. ASSUME NEW S, S \subseteq Known
      PROVE  /\ Proper(OfKind(RowsOf(S, B), kinds))
             /\ \A x : x \in RowsOf(S, B) <=> \E s \in S : \E r \in B[s] : x = OwnRow(s, r)
  <2>1. IsFiniteSet(S) /\ BuiltOf(S, B)
    BY <1>1, <1>2
  <2>2. /\ Proper(RowsOf(S, B))
        /\ \A x : x \in RowsOf(S, B) <=> \E s \in S : \E r \in B[s] : x = OwnRow(s, r)
    BY <2>1, RowsProper
  <2> QED
    BY <2>2, OfKindFacts
<1>3. \A u \in Users : Proper(P[u])
  BY <1>2, ReportedFacts
<1>4. ASSUME NEW u \in Users, NEW v \in Users, u # v PROVE P[u] \cap P[v] = {}
  <2> SUFFICES ASSUME NEW x, x \in P[u], x \in P[v] PROVE FALSE
    OBVIOUS
  <2>1. x \in RowsOf(Reported(p, u), B) /\ x \in RowsOf(Reported(p, v), B)
    BY DEF OfKind
  <2>2. PICK r \in Reported(p, u) : \E e \in B[r] : x = OwnRow(r, e)
    BY <1>2, <2>1, ReportedFacts
  <2>3. PICK s \in Reported(p, v) : \E e \in B[s] : x = OwnRow(s, e)
    BY <1>2, <2>1, ReportedFacts
  <2>4. r = s
    BY <2>2, <2>3 DEF OwnRow
  <2> QED
    BY <1>4, <2>4, ReportedFacts
<1>5. AllOf(P, Users) = OfKind(RowsOf(Viewed(p), B), kinds)
  <2>1. ASSUME NEW x
        PROVE  x \in RowsOf(Viewed(p), B) <=> \E u \in Users : x \in RowsOf(Reported(p, u), B)
    <3>1. x \in RowsOf(Viewed(p), B) <=> \E s \in Viewed(p) : \E r \in B[s] : x = OwnRow(s, r)
      BY <1>2, ReportedFacts
    <3>2. \A u \in Users : x \in RowsOf(Reported(p, u), B) <=>
            \E s \in Reported(p, u) : \E r \in B[s] : x = OwnRow(s, r)
      BY <1>2, ReportedFacts
    <3> QED
      BY <3>1, <3>2, ReportedFacts
  <2>2. \A x : x \in AllOf(P, Users) <=>
                 \E u \in Users : x \in RowsOf(Reported(p, u), B) /\ x.kind \in kinds
    BY DEF AllOf, OfKind
  <2> QED
    BY <2>1, <2>2 DEF OfKind
<1>6. SumFunction([u \in Users |-> Sec(P[u])]) = Sec(AllOf(P, Users))
  <2> HIDE DEF P
  <2> QED
    BY <1>3, <1>4, UsersFinite, SecOfParts
<1>7. SumFunction([u \in Users |-> Sec(P[u])]) =
        SumFunction([u \in Users |-> Sec(OfKind(RowsOf(Reported(p, u), B), kinds))])
  OBVIOUS
<1> QED
  BY <1>5, <1>6, <1>7 DEF B

\* And what the users' applications take is what all applications take.
LEMMA BitsByUser ==
  ASSUME TypeOK, AppsOK, NEW p, p.first \in Int, p.next \in Int, NEW name \in Names, NEW kinds
  PROVE  SumFunction([u \in Users |->
           Sec(OfKind(BitsOf(Reported(p, u), Views(p), Stretches(p), name), kinds))]) =
             Sec(OfKind(BitsOf(Viewed(p), Views(p), Stretches(p), name), kinds))
<1> DEFINE B == Views(p)
           W == Stretches(p)
           P == [u \in Users |-> OfKind(BitsOf(Reported(p, u), B, W, name), kinds)]
           In(S, x) == \E s \in S : \E a \in Uses(s, name) :
                         \E c \in Clip(B[s], W[a].start, W[a].end) : x = OwnRow(a, c)
<1>1. \A S \in SUBSET Known : IsFiniteSet(S) /\ BuiltOf(S, B) /\ Windows(S, W)
  BY ReportIs
<1> HIDE DEF B, W
<1>2. ASSUME NEW S, S \subseteq Known
      PROVE  /\ Proper(OfKind(BitsOf(S, B, W, name), kinds))
             /\ \A x : x \in BitsOf(S, B, W, name) <=> In(S, x)
  <2>1. IsFiniteSet(S) /\ BuiltOf(S, B) /\ Windows(S, W)
    BY <1>1, <1>2
  <2>2. /\ Proper(BitsOf(S, B, W, name))
        /\ \A x : x \in BitsOf(S, B, W, name) <=> In(S, x)
    BY <2>1, BitsProper
  <2> QED
    BY <2>2, OfKindFacts
<1>3. \A u \in Users : Proper(P[u])
  <2> HIDE DEF In
  <2> QED
    BY <1>2, ReportedFacts
<1>4. ASSUME NEW u \in Users, NEW v \in Users, u # v PROVE P[u] \cap P[v] = {}
  <2> SUFFICES ASSUME NEW x, x \in P[u], x \in P[v] PROVE FALSE
    OBVIOUS
  <2>1. x \in BitsOf(Reported(p, u), B, W, name) /\ x \in BitsOf(Reported(p, v), B, W, name)
    BY DEF OfKind
  <2>2. In(Reported(p, u), x) /\ In(Reported(p, v), x)
    <3> HIDE DEF In
    <3> QED
      BY <1>2, <2>1, ReportedFacts
  <2>3. \A a, c : OwnRow(a, c).owner = a
    BY DEF OwnRow
  <2> HIDE DEF P
  <2>a. \A S : In(S, x) => \E s \in S : x.owner \in Uses(s, name)
    BY <2>3
  <2> HIDE DEF In
  <2>4. PICK r \in Reported(p, u) : x.owner \in Uses(r, name)
    BY <2>2, <2>a
  <2>5. PICK s \in Reported(p, v) : x.owner \in Uses(s, name)
    BY <2>2, <2>a
  <2>6. r = s
    BY <2>4, <2>5, UsesFacts
  <2> QED
    BY <1>4, <2>6, ReportedFacts
<1>5. AllOf(P, Users) = OfKind(BitsOf(Viewed(p), B, W, name), kinds)
  <2>1. ASSUME NEW x
        PROVE  x \in BitsOf(Viewed(p), B, W, name) <=>
                 \E u \in Users : x \in BitsOf(Reported(p, u), B, W, name)
    <3>1. x \in BitsOf(Viewed(p), B, W, name) <=> In(Viewed(p), x)
      <4> HIDE DEF In
      <4> QED
        BY <1>2, ReportedFacts
    <3>2. \A u \in Users : x \in BitsOf(Reported(p, u), B, W, name) <=> In(Reported(p, u), x)
      <4> HIDE DEF In
      <4> QED
        BY <1>2, ReportedFacts
    <3>3. In(Viewed(p), x) <=> \E u \in Users : In(Reported(p, u), x)
      BY ReportedFacts
    <3> QED
      BY <3>1, <3>2, <3>3
  <2>2. \A x : x \in AllOf(P, Users) <=>
                 \E u \in Users : x \in BitsOf(Reported(p, u), B, W, name) /\ x.kind \in kinds
    BY DEF AllOf, OfKind
  <2> QED
    BY <2>1, <2>2 DEF OfKind
<1>6. SumFunction([u \in Users |-> Sec(P[u])]) = Sec(AllOf(P, Users))
  <2> HIDE DEF P
  <2> QED
    BY <1>3, <1>4, UsersFinite, SecOfParts
<1>7. SumFunction([u \in Users |-> Sec(P[u])]) =
        SumFunction([u \in Users |-> Sec(OfKind(BitsOf(Reported(p, u), B, W, name), kinds))])
  OBVIOUS
<1> QED
  BY <1>5, <1>6, <1>7 DEF B, W

-----------------------------------------------------------------------------
(* The timeline of a day, its report and the page of its applications. *)

\* The sessions of a day's timeline are those in its report, and their views are the same.
LEMMA DayViews ==
  ASSUME TypeOK, NEW d \in Int
  PROVE  /\ Viewed(Period(d, d + 1)) = Visible(d)
         /\ \A s \in Known : Views(Period(d, d + 1))[s] = Build(s, DayWindow(d))
         /\ Empty(DayWindow(d)) => Visible(d) = {}
         /\ \A s \in Visible(d) : s \in SessionsOf(d) /\ s \in Known
<1>1. \A s \in Known : /\ Shown(s, Period(d, d + 1)) = ShownIn(s, DayWindow(d))
                       /\ Build(s, Shown(s, Period(d, d + 1))) = Build(s, DayWindow(d))
  BY DayShown
<1>2. ASSUME NEW s \in Visible(d)
      PROVE  s \in SessionsOf(d) /\ s \in Known /\ ~ Empty(DayWindow(d))
  <2>1. /\ s \in SessionsOf(d) /\ s \in Known
        /\ From(d, s) \in Int /\ To(d, s) \in Int /\ From(d, s) < To(d, s)
        /\ DayWindow(d).start <= From(d, s) /\ To(d, s) <= DayWindow(d).end
    BY VisibleFacts
  <2>2. DayWindow(d).start \in Int /\ DayWindow(d).end \in Int
    BY StateFacts DEF Interval
  <2> QED
    BY <2>1, <2>2 DEF Empty
<1>3. Viewed(Period(d, d + 1)) = Visible(d)
  BY <1>1 DEF Viewed, Visible
<1>4. \A s \in Known : Views(Period(d, d + 1))[s] = Build(s, DayWindow(d))
  BY <1>1 DEF Views
<1> QED
  BY <1>2, <1>3, <1>4

\* Of each kind of time, the view of a day shows what its sessions show.
LEMMA DayKinds ==
  ASSUME TypeOK, AppsOK, NEW d \in Int,
         NEW kind \in {"ACTIVE", "IDLE", "MONITORING_GAP", "OFF_SESSION"}
  PROVE  OfKind(DayTimeline(d), {kind}) =
           OfKind(RowsOf(Viewed(Period(d, d + 1)), Views(Period(d, d + 1))), {kind})
<1> DEFINE p == Period(d, d + 1)
           V == Visible(d)
           all == UNION {Owned(s, Build(s, DayWindow(d))) : s \in V}
<1>1. RowsOf(Viewed(p), Views(p)) = all
  <2>1. Viewed(p) = V /\ \A s \in V : Views(p)[s] = Build(s, DayWindow(d))
    BY DayViews
  <2>2. {Owned(s, Views(p)[s]) : s \in V} = {Owned(s, Build(s, DayWindow(d))) : s \in V}
    BY <2>1
  <2> QED
    BY <2>1, <2>2 DEF RowsOf
<1>2. CASE Empty(DayWindow(d))
  <2>1. DayTimeline(d) = {}
    BY <1>2 DEF DayTimeline
  <2>2. all = {}
    BY <1>2, DayViews
  <2> QED
    BY <1>1, <2>1, <2>2
<1>3. CASE ~ Empty(DayWindow(d))
  <2>1. DayTimeline(d) =
          (UNION {GapBefore(d, s) \union Owned(s, Build(s, DayWindow(d))) : s \in V}) \union GapAfter(d)
    BY <1>3, RowsAre
  <2>2. \A a, b : \A row \in Closed(a, b) : row.kind = "NO_SESSION"
    BY DEF Closed, Owned, Span
  <2>3. /\ \A s \in V : \A row \in GapBefore(d, s) : row.kind = "NO_SESSION"
        /\ \A row \in GapAfter(d) : row.kind = "NO_SESSION"
    BY <2>2 DEF GapBefore, GapAfter
  <2>4. ASSUME NEW row, row.kind = kind
        PROVE  row \in DayTimeline(d) <=> row \in all
    <3>1. row.kind # "NO_SESSION"
      BY <2>4
    <3> HIDE DEF V
    <3> QED
      BY <2>1, <2>3, <3>1
  <2> QED
    BY <1>1, <2>4 DEF OfKind
<1> QED
  BY <1>2, <1>3

\* Of spans that are shown, a use takes the same whether it is first cut to what is
\* shown or not.
LEMMA ClipSame ==
  ASSUME NEW X, X \subseteq SpanSet, NEW u, Interval(u), NEW z, Interval(z),
         \A r \in X : z.start <= r.start /\ r.end <= z.end, NEW c
  PROVE  /\ c \in Clip({r \in X : Attributable(r)}, u.start, u.end) <=>
              c \in Clip(X, Meet(u, z).start, Meet(u, z).end) /\ c.kind \in Present
<1> DEFINE Y == {r \in X : Attributable(r)}
           m == Meet(u, z)
<1>1. /\ u.start \in Int /\ u.end \in Int /\ z.start \in Int /\ z.end \in Int
      /\ m.start = IF u.start >= z.start THEN u.start ELSE z.start
      /\ m.end = IF u.end <= z.end THEN u.end ELSE z.end
  BY MeetFacts DEF Interval
<1> HIDE DEF m
<1>2. m.start \in Int /\ m.end \in Int
  BY <1>1
<1>3. ASSUME NEW r \in X
      PROVE  /\ Part(r, u.start, u.end) = Part(r, m.start, m.end)
             /\ Part(r, u.start, u.end).kind = r.kind
  <2>1. r \in SpanSet
    OBVIOUS
  <2>2. r.start \in Int /\ r.end \in Int
    BY <2>1 DEF SpanSet
  <2>3. /\ Max({r.start, u.start}) = IF r.start >= u.start THEN r.start ELSE u.start
        /\ Max({r.start, m.start}) = IF r.start >= m.start THEN r.start ELSE m.start
        /\ Min({r.end, u.end}) = IF r.end <= u.end THEN r.end ELSE u.end
        /\ Min({r.end, m.end}) = IF r.end <= m.end THEN r.end ELSE m.end
    BY <1>1, <1>2, <2>2, MaxOfTwo, MinOfTwo
  <2>4. z.start <= r.start /\ r.end <= z.end
    OBVIOUS
  <2>5. /\ Max({r.start, u.start}) = Max({r.start, m.start})
        /\ Min({r.end, u.end}) = Min({r.end, m.end})
    BY <1>1, <2>2, <2>3, <2>4
  <2>6. Part(r, u.start, u.end).kind = r.kind
    BY <2>1 DEF Part, SpanSet
  <2> QED
    BY <2>5, <2>6 DEF Part
<1>4. /\ Clip(Y, u.start, u.end) = {e \in {Part(s, u.start, u.end) : s \in Y} : e.start < e.end}
      /\ Clip(X, m.start, m.end) = {e \in {Part(s, m.start, m.end) : s \in X} : e.start < e.end}
  <2> HIDE DEF Y
  <2> QED
    BY DEF Clip, Part
<1>5. \A r : r \in Y <=> r \in X /\ r.kind \in Present
  BY DEF Attributable
<1> HIDE DEF Y
<1>6. c \in Clip(Y, u.start, u.end) <=> \E r \in Y : c = Part(r, u.start, u.end) /\ c.start < c.end
  BY <1>4
<1>7. c \in Clip(X, m.start, m.end) <=> \E r \in X : c = Part(r, m.start, m.end) /\ c.start < c.end
  BY <1>4
<1>8. c \in Clip(Y, u.start, u.end) <=> c \in Clip(X, m.start, m.end) /\ c.kind \in Present
  BY <1>3, <1>5, <1>6, <1>7
<1> QED
  BY <1>8 DEF Y, m

\* The page of a day counts what the report of the day counts.
LEMMA PageBits ==
  ASSUME TypeOK, AppsOK, NEW d \in Int, NEW name \in Names, NEW x
  PROVE  x \in UNION {UNION {DayUse(a, Build(s, DayWindow(d))) : a \in Uses(s, name)} :
                        s \in IF Empty(DayWindow(d)) THEN {} ELSE SessionsOf(d)}
           <=> /\ x \in BitsOf(Viewed(Period(d, d + 1)), Views(Period(d, d + 1)),
                               Stretches(Period(d, d + 1)), name)
               /\ x.kind \in Present
<1> DEFINE p == Period(d, d + 1)
           D == IF Empty(DayWindow(d)) THEN {} ELSE SessionsOf(d)
           V == Viewed(p)
           B == Views(p)
           W == Stretches(p)
           Page(s, a) == Clip({r \in Build(s, DayWindow(d)) : Attributable(r)}, Use(a).start, Use(a).end)
           Line(s, a) == Clip(B[s], W[a].start, W[a].end)
<1>1. p.first \in Int /\ p.next \in Int
  BY DEF Period
<1>2. /\ V = Visible(d) /\ \A s \in V : s \in D /\ s \in Known
      /\ \A s \in Known : B[s] = Build(s, DayWindow(d))
  BY DayViews
<1>3. x \in UNION {UNION {DayUse(a, Build(s, DayWindow(d))) : a \in Uses(s, name)} : s \in D} <=>
        \E s \in D : \E a \in Uses(s, name) : \E c \in Page(s, a) : x = OwnRow(a, c)
  <2>1. \A s, a : x \in DayUse(a, Build(s, DayWindow(d))) <=> \E c \in Page(s, a) : x = OwnRow(a, c)
    <3>1. \A s, a : DayUse(a, Build(s, DayWindow(d))) = Owned(a, Page(s, a))
      BY DEF DayUse
    <3> HIDE DEF Page
    <3> QED
      BY <3>1, OwnedFacts
  <2> HIDE DEF Page, D
  <2> QED
    BY <2>1
<1>4. x \in BitsOf(V, B, W, name) <=>
        \E s \in V : \E a \in Uses(s, name) : \E c \in Line(s, a) : x = OwnRow(a, c)
  <2>1. V \subseteq Known
    BY <1>2
  <2> HIDE DEF V, p
  <2>2. IsFiniteSet(V) /\ BuiltOf(V, B) /\ Windows(V, W)
    BY <1>1, <2>1, ReportIs
  <2> HIDE DEF B, W
  <2> QED
    BY <2>2, BitsProper
<1>5. ASSUME NEW s \in V, NEW a \in Uses(s, name), NEW c
      PROVE  c \in Page(s, a) <=> c \in Line(s, a) /\ c.kind \in Present
  <2> DEFINE X == Build(s, DayWindow(d))
             z == Shown(s, p)
             u == Use(a)
  <2>1. /\ s \in Known /\ Interval(u) /\ a \in AppId /\ apps[a].session = s
    BY <1>2, UsesFacts
  <2>2. Interval(z) /\ Interval(DayWindow(d)) /\ z = ShownIn(s, DayWindow(d))
    BY <1>1, <2>1, PeriodFacts, StateFacts, DayShown
  <2>3. X \subseteq SpanSet /\ \A r \in X : z.start <= r.start /\ r.end <= z.end
    BY <2>1, <2>2, BuildProper
  <2>4. B[s] = X /\ W[a] = Meet(u, z)
    BY <1>2, <2>1 DEF Stretches
  <2> HIDE DEF X, z, u, B, W
  <2>5. c \in Clip({r \in X : Attributable(r)}, u.start, u.end) <=>
              c \in Clip(X, Meet(u, z).start, Meet(u, z).end) /\ c.kind \in Present
    BY <2>1, <2>2, <2>3, ClipSame
  <2> QED
    BY <2>4, <2>5 DEF X, u
<1>6. ASSUME NEW s \in D, s \notin V, NEW a \in Uses(s, name) PROVE Page(s, a) = {}
  <2>1. s \in Known
    BY DEF SessionsOf
  <2>2. Build(s, DayWindow(d)) = {}
    <3>1. Empty(ShownIn(s, DayWindow(d)))
      BY <1>2, <1>6, <2>1 DEF Visible
    <3> QED
      BY <2>1, <3>1, StateFacts, BuildFacts
  <2> QED
    BY <2>2 DEF Clip
<1> HIDE DEF Page, Line, D, V, B, W
<1>7. \A a, c : OwnRow(a, c).kind = c.kind
  BY DEF OwnRow
<1>8. (\E s \in D : \E a \in Uses(s, name) : \E c \in Page(s, a) : x = OwnRow(a, c)) <=>
        /\ \E s \in V : \E a \in Uses(s, name) : \E c \in Line(s, a) : x = OwnRow(a, c)
        /\ x.kind \in Present
  <2>1. ASSUME NEW s \in D, NEW a \in Uses(s, name), NEW c \in Page(s, a), x = OwnRow(a, c)
        PROVE  /\ \E r \in V : \E b \in Uses(r, name) : \E e \in Line(r, b) : x = OwnRow(b, e)
               /\ x.kind \in Present
    <3>1. s \in V
      BY <1>6
    <3>2. c \in Line(s, a) /\ c.kind \in Present
      BY <1>5, <3>1
    <3> QED
      BY <1>7, <2>1, <3>1, <3>2
  <2>2. ASSUME NEW s \in V, NEW a \in Uses(s, name), NEW c \in Line(s, a), x = OwnRow(a, c),
               x.kind \in Present
        PROVE  \E r \in D : \E b \in Uses(r, name) : \E e \in Page(r, b) : x = OwnRow(b, e)
    <3>1. c \in Page(s, a) /\ s \in D
      BY <1>2, <1>5, <1>7, <2>2
    <3> QED
      BY <2>2, <3>1
  <2> QED
    BY <2>1, <2>2
<1> QED
  BY <1>3, <1>4, <1>8 DEF D, V, B, W

\* The timeline of a day, the report of the day and the page of its applications agree.
LEMMA DayStays == TypeOK /\ AppsOK => DayAgrees
<1> SUFFICES ASSUME TypeOK, AppsOK, NEW d \in Days
             PROVE  LET p == Period(d, d + 1)
                        day == Totals(DayTimeline(d))
                    IN /\ \A kind \in DOMAIN day :
                            day[kind] = SumOver(Users, LAMBDA u : Report(p, u).time[kind])
                       /\ \A name \in Names :
                            LET page == DayUsage(d, name)
                            IN \A kind \in DOMAIN page :
                                 page[kind] =
                                   SumOver(Users, LAMBDA u : Report(p, u).applications[name][kind])
  BY DEF DayAgrees
<1> DEFINE p == Period(d, d + 1)
           V == Viewed(p)
           B == Views(p)
           W == Stretches(p)
           day == Totals(DayTimeline(d))
<1>1. d \in Int /\ p.first \in Int /\ p.next \in Int
  BY TimeAssumption DEF Days, Period
<1>2. ASSUME NEW u
      PROVE  /\ Report(p, u).time = Totals(RowsOf(Reported(p, u), B))
             /\ Report(p, u).applications =
                  [name \in Names |-> Usage(BitsOf(Reported(p, u), B, W, name))]
  <2> HIDE DEF p
  <2> DEFINE S == Reported(p, u)
  <2>1. Report(p, u).time = Totals(UNION {Owned(s, Build(s, Shown(s, p))) : s \in S})
    BY DEF Report
  <2>2. Report(p, u).applications =
          [name \in Names |-> Usage(UNION {UNION {Counted(a, s, p) : a \in Uses(s, name)} : s \in S})]
    BY DEF Report
  <2>3. S \subseteq Known
    BY DEF Reported
  <2> HIDE DEF S
  <2>4. /\ UNION {Owned(s, Build(s, Shown(s, p))) : s \in S} = RowsOf(S, B)
        /\ \A name \in Names :
             UNION {UNION {Counted(a, s, p) : a \in Uses(s, name)} : s \in S} = BitsOf(S, B, W, name)
    BY <1>1, <2>3, ReportIs
  <2> QED
    BY <2>1, <2>2, <2>4 DEF S
<1> DEFINE Sums(kind) ==
      SumFunction([u \in Users |-> Sec(OfKind(RowsOf(Reported(p, u), B), {kind}))])
<1>3. \A kind \in {"ACTIVE", "IDLE", "MONITORING_GAP", "OFF_SESSION"} :
        Sec(OfKind(DayTimeline(d), {kind})) = Sums(kind)
  <2> SUFFICES ASSUME NEW kind \in {"ACTIVE", "IDLE", "MONITORING_GAP", "OFF_SESSION"}
               PROVE  Sec(OfKind(DayTimeline(d), {kind})) = Sums(kind)
    OBVIOUS
  <2>1. OfKind(DayTimeline(d), {kind}) = OfKind(RowsOf(V, B), {kind})
    BY <1>1, DayKinds
  <2>2. Sums(kind) = Sec(OfKind(RowsOf(V, B), {kind}))
    <3> HIDE DEF p
    <3> QED
      BY <1>1, RowsByUser
  <2> QED
    BY <2>1, <2>2
<1>4. \A kind \in DOMAIN day :
        day[kind] = SumFunction([u \in Users |-> Report(p, u).time[kind]])
  <2> HIDE DEF p
  <2>1. /\ DOMAIN day = {"active", "idle", "gap", "off"}
        /\ day["active"] = Sec(OfKind(DayTimeline(d), {"ACTIVE"}))
        /\ day["idle"] = Sec(OfKind(DayTimeline(d), {"IDLE"}))
        /\ day["gap"] = Sec(OfKind(DayTimeline(d), {"MONITORING_GAP"}))
        /\ day["off"] = Sec(OfKind(DayTimeline(d), {"OFF_SESSION"}))
    BY TotalsAre
  <2>2. \A u \in Users :
          /\ Report(p, u).time["active"] = Sec(OfKind(RowsOf(Reported(p, u), B), {"ACTIVE"}))
          /\ Report(p, u).time["idle"] = Sec(OfKind(RowsOf(Reported(p, u), B), {"IDLE"}))
          /\ Report(p, u).time["gap"] = Sec(OfKind(RowsOf(Reported(p, u), B), {"MONITORING_GAP"}))
          /\ Report(p, u).time["off"] = Sec(OfKind(RowsOf(Reported(p, u), B), {"OFF_SESSION"}))
    BY <1>2, TotalsAre
  <2> HIDE DEF day, B
  <2>3. day["active"] = SumFunction([u \in Users |-> Report(p, u).time["active"]])
    <3>1. [u \in Users |-> Report(p, u).time["active"]] =
            [u \in Users |-> Sec(OfKind(RowsOf(Reported(p, u), B), {"ACTIVE"}))]
      BY <2>2
    <3> QED
      BY <1>3, <2>1, <3>1
  <2>4. day["idle"] = SumFunction([u \in Users |-> Report(p, u).time["idle"]])
    <3>1. [u \in Users |-> Report(p, u).time["idle"]] =
            [u \in Users |-> Sec(OfKind(RowsOf(Reported(p, u), B), {"IDLE"}))]
      BY <2>2
    <3> QED
      BY <1>3, <2>1, <3>1
  <2>5. day["gap"] = SumFunction([u \in Users |-> Report(p, u).time["gap"]])
    <3>1. [u \in Users |-> Report(p, u).time["gap"]] =
            [u \in Users |-> Sec(OfKind(RowsOf(Reported(p, u), B), {"MONITORING_GAP"}))]
      BY <2>2
    <3> QED
      BY <1>3, <2>1, <3>1
  <2>6. day["off"] = SumFunction([u \in Users |-> Report(p, u).time["off"]])
    <3>1. [u \in Users |-> Report(p, u).time["off"]] =
            [u \in Users |-> Sec(OfKind(RowsOf(Reported(p, u), B), {"OFF_SESSION"}))]
      BY <2>2
    <3> QED
      BY <1>3, <2>1, <3>1
  <2> QED
    BY <2>1, <2>3, <2>4, <2>5, <2>6
<1>5. ASSUME NEW name \in Names
      PROVE  LET page == DayUsage(d, name)
             IN \A kind \in DOMAIN page :
                  page[kind] = SumFunction([u \in Users |-> Report(p, u).applications[name][kind]])
  <2> DEFINE page == DayUsage(d, name)
             D == IF Empty(DayWindow(d)) THEN {} ELSE SessionsOf(d)
             spans == UNION {UNION {DayUse(a, Build(s, DayWindow(d))) : a \in Uses(s, name)} : s \in D}
             bits == BitsOf(V, B, W, name)
  <2>1. /\ page.active = Total(spans, {"ACTIVE"})
        /\ page.idle = Total(spans, {"IDLE", "MONITORING_GAP", "OFF_SESSION"})
        /\ DOMAIN page = {"active", "idle"}
    BY DEF DayUsage
  <2>2. \A x : x \in spans <=> x \in bits /\ x.kind \in Present
    BY <1>1, PageBits
  <2> HIDE DEF spans, bits, D, page
  <2>3. /\ OfKind(spans, {"ACTIVE"}) = OfKind(bits, {"ACTIVE"})
        /\ OfKind(spans, {"IDLE", "MONITORING_GAP", "OFF_SESSION"}) = OfKind(bits, {"IDLE"})
    BY <2>2 DEF OfKind, Present
  <2>4. /\ page.active = Sec(OfKind(bits, {"ACTIVE"}))
        /\ page.idle = Sec(OfKind(bits, {"IDLE"}))
    BY <2>1, <2>3, TotalIs
  <2>5. \A kind : SumFunction([u \in Users |-> Sec(OfKind(BitsOf(Reported(p, u), B, W, name), {kind}))]) =
                    Sec(OfKind(bits, {kind}))
    <3> HIDE DEF p
    <3> QED
      BY <1>1, BitsByUser DEF bits
  <2>6. \A u \in Users :
          /\ Report(p, u).applications[name]["active"] =
               Sec(OfKind(BitsOf(Reported(p, u), B, W, name), {"ACTIVE"}))
          /\ Report(p, u).applications[name]["idle"] =
               Sec(OfKind(BitsOf(Reported(p, u), B, W, name), {"IDLE"}))
    <3> HIDE DEF p, B, W
    <3>1. \A u \in Users : Report(p, u).applications[name] = Usage(BitsOf(Reported(p, u), B, W, name))
      <4> SUFFICES ASSUME NEW u \in Users
                   PROVE  Report(p, u).applications[name] = Usage(BitsOf(Reported(p, u), B, W, name))
        OBVIOUS
      <4>1. Report(p, u).applications = [n \in Names |-> Usage(BitsOf(Reported(p, u), B, W, n))]
        BY <1>2
      <4> QED
        BY <4>1
    <3> QED
      BY <3>1, UsageIs
  <2> HIDE DEF p, B, W
  <2>7. page["active"] = SumFunction([u \in Users |-> Report(p, u).applications[name]["active"]])
    <3>1. [u \in Users |-> Report(p, u).applications[name]["active"]] =
            [u \in Users |-> Sec(OfKind(BitsOf(Reported(p, u), B, W, name), {"ACTIVE"}))]
      BY <2>6
    <3> QED
      BY <2>4, <2>5, <3>1
  <2>8. page["idle"] = SumFunction([u \in Users |-> Report(p, u).applications[name]["idle"]])
    <3>1. [u \in Users |-> Report(p, u).applications[name]["idle"]] =
            [u \in Users |-> Sec(OfKind(BitsOf(Reported(p, u), B, W, name), {"IDLE"}))]
      BY <2>6
    <3> QED
      BY <2>4, <2>5, <3>1
  <2>9. \A kind \in DOMAIN page :
          page[kind] = SumFunction([u \in Users |-> Report(p, u).applications[name][kind]])
    BY <2>1, <2>7, <2>8
  <2> QED
    BY <2>9 DEF page
<1> QED
  BY <1>4, <1>5 DEF SumOver

-----------------------------------------------------------------------------
(* What periods show of a session adds up. *)

\* Spans of presence that follow one another in a view differ in kind.
LEMMA BuildApart ==
  ASSUME TypeOK, NEW s \in Known, NEW window, Interval(window),
         NEW q \in Build(s, window), NEW r \in Build(s, window),
         q.kind \in Present, r.kind \in Present
  PROVE  ~ Continues(q, r)
<1> DEFINE from == Seen(s, window).start
           to == Seen(s, window).end
           a == ShownIn(s, window).start
           b == ShownIn(s, window).end
           raw == Raw(s, window)
           runs == Classified(Seen(s, window))
           pauses == Idles(s)
           all == UNION {Split(run, pauses) : run \in runs}
<1>1. SUFFICES ASSUME Continues(q, r) PROVE FALSE
  OBVIOUS
<1>2. ~ Empty(ShownIn(s, window))
  BY BuildFacts
<1>3. /\ from \in Int /\ to \in Int /\ a \in Int /\ b \in Int
      /\ from <= a /\ a < b /\ b <= to
      /\ Life(s).start <= from /\ to <= Life(s).end
      /\ Life(s).start \in Int /\ Life(s).end \in Int
      /\ Runs(raw, from, to)
  BY <1>2, SeenFacts DEF Interval
<1>4. ~ Empty(Life(s))
  BY <1>3 DEF Empty
<1>5. Build(s, window) = Clip(all, a, b)
  BY <1>2, <1>4 DEF Build, ShownIn, Seen
<1>6. runs = Classify(raw)
  BY DEF Classified, Raw
<1>7. PauseSet(pauses)
  BY StateFacts
<1>8. q \in Clip(all, a, b) /\ r \in Clip(all, a, b)
  BY <1>5
<1> HIDE DEF from, to, a, b, raw, runs, pauses
<1>9. Tiling(raw, from, to)
  BY <1>3 DEF Runs
<1>10. /\ Tiling(runs, from, to)
       /\ \A e, f \in runs : e.kind = "monitored" /\ f.kind = "monitored" => e.start # f.end
  <2>1. Tiling(runs, from, to)
    BY <1>3, <1>6, <1>9, ClassifyFacts
  <2>2. \A e, f \in Classify(raw) : e.kind = "monitored" /\ f.kind = "monitored" => e.start # f.end
    BY <1>3, <1>9, ClassifyApart
  <2> QED
    BY <1>6, <2>1, <2>2
<1>11. /\ \A e \in runs : /\ e \in SpanSet /\ e.start \in Int /\ e.end \in Int
                          /\ from <= e.start /\ e.start < e.end /\ e.end <= to
       /\ \A e, f \in runs : e = f \/ e.end <= f.start \/ f.end <= e.start
  BY <1>3, <1>10, TilingFacts DEF Tiling
<1>12. Tiling(all, from, to)
  BY <1>3, <1>7, <1>10, UnionFacts
<1>13. all \subseteq SpanSet /\ Proper(all) /\ Apart(all)
  <2> HIDE DEF all
  <2>1. Proper(all)
    BY <1>3, <1>12, TilingProper
  <2>2. all \subseteq SpanSet
    BY <1>12 DEF Tiling
  <2>3. Apart(all)
    BY <1>3, <1>12, TilingFacts DEF Apart
  <2> QED
    BY <2>1, <2>2, <2>3
<1>14. ASSUME NEW x \in Clip(all, a, b)
       PROVE  /\ x.start \in Int /\ x.end \in Int /\ x.start < x.end /\ a <= x.start /\ x.end <= b
              /\ \E e \in all : /\ x.kind = e.kind /\ e.start \in Int /\ e.end \in Int
                                /\ e.start <= x.start /\ x.end <= e.end
                                /\ x.start = a \/ x.start = e.start
                                /\ x.end = b \/ x.end = e.end
  <2> HIDE DEF all
  <2> DEFINE C == Clip(all, a, b)
  <2>1. /\ C \subseteq SpanSet /\ Proper(C)
        /\ \A c \in C : /\ a <= c.start /\ c.end <= b
                        /\ \E e \in all : /\ c = Part(e, a, b) /\ c.kind = e.kind
                                          /\ e.start <= c.start /\ c.end <= e.end
    BY <1>3, <1>13, ClipParts
  <2>2. x \in C
    OBVIOUS
  <2> HIDE DEF C
  <2>3. x.start \in Int /\ x.end \in Int /\ x.start < x.end /\ a <= x.start /\ x.end <= b
    BY <2>1, <2>2 DEF Proper
  <2>4. PICK e \in all : x = Part(e, a, b) /\ x.kind = e.kind /\ e.start <= x.start /\ x.end <= e.end
    BY <2>1, <2>2
  <2>5. /\ Part(e, a, b).start = IF e.start >= a THEN e.start ELSE a
        /\ Part(e, a, b).end = IF e.end <= b THEN e.end ELSE b
    BY <1>3, <1>13, ClipIs
  <2>6. (x.start = a \/ x.start = e.start) /\ (x.end = b \/ x.end = e.end)
    BY <2>4, <2>5
  <2>7. e.start \in Int /\ e.end \in Int
    BY <1>13 DEF Proper
  <2> QED
    BY <2>3, <2>4, <2>6, <2>7
<1>15. PICK e \in all : /\ q.kind = e.kind /\ e.start \in Int /\ e.end \in Int
                        /\ e.start <= q.start /\ q.end <= e.end
                        /\ q.start = a \/ q.start = e.start
  BY <1>8, <1>14
<1>16. PICK f \in all : /\ r.kind = f.kind /\ f.start \in Int /\ f.end \in Int
                        /\ f.start <= r.start /\ r.end <= f.end
                        /\ r.end = b \/ r.end = f.end
  BY <1>8, <1>14
<1>17. q.start = r.end /\ q.kind = r.kind
  BY <1>1 DEF Continues
<1>18. /\ q.start \in Int /\ q.end \in Int /\ q.start < q.end /\ q.end <= b
       /\ r.start \in Int /\ r.end \in Int /\ r.start < r.end /\ a <= r.start
  BY <1>8, <1>14
<1>19. e.start = f.end /\ e.kind = f.kind /\ e.kind \in Present
  BY <1>3, <1>15, <1>16, <1>17, <1>18
<1>20. PICK u \in runs : e \in Split(u, pauses)
  OBVIOUS
<1>21. PICK v \in runs : f \in Split(v, pauses)
  OBVIOUS
<1>22. ASSUME NEW run \in runs, NEW x \in Split(run, pauses), x.kind \in Present
       PROVE  run.kind = "monitored"
  <2>1. CASE run.kind # "monitored"
    <3>1. Split(run, pauses) = {run}
      BY <2>1 DEF Split
    <3>2. run.kind \in {"monitored", "OFF_SESSION", "MONITORING_GAP"}
      BY <1>3, <1>6, <1>9, ClassifyFacts
    <3> QED
      BY <1>22, <2>1, <3>1, <3>2 DEF Present
  <2> QED
    BY <2>1
<1>23. u.kind = "monitored" /\ v.kind = "monitored"
  BY <1>19, <1>20, <1>21, <1>22
<1>24. ASSUME NEW run \in runs
       PROVE  /\ Tiling(Split(run, pauses), run.start, run.end)
              /\ \A x, y \in Split(run, pauses) : ~ Continues(x, y)
              /\ \A x \in Split(run, pauses) :
                   /\ x.start \in Int /\ x.end \in Int
                   /\ run.start <= x.start /\ x.start < x.end /\ x.end <= run.end
  <2>1. /\ Tiling(Split(run, pauses), run.start, run.end)
        /\ \A x, y \in Split(run, pauses) : ~ Continues(x, y)
    BY <1>7, <1>11, SplitFacts
  <2> QED
    BY <1>11, <2>1, TilingFacts
<1>25. CASE u = v
  BY <1>19, <1>20, <1>21, <1>24, <1>25 DEF Continues
<1>26. CASE u # v
  <2>1. /\ u.start <= e.start /\ e.start < e.end /\ e.end <= u.end
        /\ v.start <= f.start /\ f.start < f.end /\ f.end <= v.end
    BY <1>20, <1>21, <1>24
  <2>2. /\ u.start \in Int /\ u.end \in Int /\ v.start \in Int /\ v.end \in Int
        /\ u.end <= v.start \/ v.end <= u.start
    BY <1>11, <1>26
  <2>3. u.start = v.end
    BY <1>15, <1>16, <1>19, <2>1, <2>2
  <2> QED
    BY <1>10, <1>23, <2>3
<1> QED
  BY <1>25, <1>26

\* Spans of which none overlaps or continues another.
Maximal(X) ==
  X \subseteq SpanSet /\ Proper(X) /\ Apart(X) /\ \A q, r \in X : ~ Continues(q, r)

\* In maximal spans, instants of a span have its kind and others have none.
LEMMA MaximalKinds ==
  ASSUME NEW X, Maximal(X)
  PROVE  /\ \A r \in X : /\ r.start \in Int /\ r.end \in Int /\ r.start < r.end
                         /\ \A t \in Int : Within(t, r) => KindsAt(X, t) = {r.kind}
         /\ \A t : (\A r \in X : ~ Within(t, r)) => KindsAt(X, t) = {}
<1>1. \A r \in X : r.start \in Int /\ r.end \in Int /\ r.start < r.end
  BY DEF Maximal, Proper
<1>2. ASSUME NEW r \in X, NEW t \in Int, Within(t, r) PROVE KindsAt(X, t) = {r.kind}
  <2>1. \A q \in X : Within(t, q) => q = r
    BY <1>1, <1>2 DEF Maximal, Apart, Within
  <2> QED
    BY <1>2, <2>1 DEF KindsAt
<1>3. \A t : (\A r \in X : ~ Within(t, r)) => KindsAt(X, t) = {}
  BY DEF KindsAt
<1> QED
  BY <1>1, <1>2, <1>3

\* All instants from u to v are of a kind.
Uniform(X, kind, u, v) == \A t \in Int : u <= t /\ t < v => KindsAt(X, t) = {kind}

\* A stretch of one kind lies in one of them.
LEMMA StretchInMaximal ==
  ASSUME NEW X, Maximal(X), NEW kind, NEW u \in Int, NEW v \in Int, u < v, Uniform(X, kind, u, v)
  PROVE  \E r \in X : r.kind = kind /\ r.start <= u /\ v <= r.end
<1>0. \A t \in Int : u <= t /\ t < v => KindsAt(X, t) = {kind}
  BY DEF Uniform
<1>1. /\ \A r \in X : /\ r.start \in Int /\ r.end \in Int /\ r.start < r.end
                      /\ \A t \in Int : Within(t, r) => KindsAt(X, t) = {r.kind}
      /\ \A t : (\A r \in X : ~ Within(t, r)) => KindsAt(X, t) = {}
  BY MaximalKinds
<1>2. \A t \in Int : u <= t /\ t < v => \E r \in X : Within(t, r) /\ r.kind = kind
  <2> SUFFICES ASSUME NEW t \in Int, u <= t, t < v PROVE \E r \in X : Within(t, r) /\ r.kind = kind
    OBVIOUS
  <2>1. KindsAt(X, t) = {kind}
    BY <1>0
  <2>2. PICK r \in X : Within(t, r)
    BY <1>1, <2>1
  <2>3. {r.kind} = {kind}
    BY <1>1, <2>1, <2>2
  <2> QED
    BY <2>2, <2>3
<1>3. PICK r \in X : Within(u, r) /\ r.kind = kind
  BY <1>2
<1>4. r.start <= u /\ u < r.end
  BY <1>3 DEF Within
<1>5. ASSUME r.end < v PROVE FALSE
  <2>1. r.end \in Int /\ u <= r.end
    BY <1>1, <1>4
  <2>2. PICK q \in X : Within(r.end, q) /\ q.kind = kind
    BY <1>2, <1>5, <2>1
  <2>3. q.start <= r.end /\ r.end < q.end
    BY <2>2 DEF Within
  <2>4. q = r \/ q.end <= r.start \/ r.end <= q.start
    BY DEF Maximal, Apart
  <2>5. q.start = r.end
    BY <1>1, <2>3, <2>4
  <2> QED
    BY <1>3, <2>2, <2>5 DEF Maximal, Continues
<1>6. v <= r.end
  BY <1>1, <1>5
<1> QED
  BY <1>3, <1>4, <1>6

\* Such spans are determined by the kind of each instant.
LEMMA MaximalSubset ==
  ASSUME NEW X, Maximal(X), NEW Y, Maximal(Y), \A t \in Int : KindsAt(X, t) = KindsAt(Y, t)
  PROVE  X \subseteq Y
<1> SUFFICES ASSUME NEW x \in X PROVE x \in Y
  OBVIOUS
<1>1. /\ \A r \in X : /\ r.start \in Int /\ r.end \in Int /\ r.start < r.end
                      /\ \A t \in Int : Within(t, r) => KindsAt(X, t) = {r.kind}
      /\ \A r \in Y : /\ r.start \in Int /\ r.end \in Int /\ r.start < r.end
                      /\ \A t \in Int : Within(t, r) => KindsAt(Y, t) = {r.kind}
  BY MaximalKinds
<1>2. \A t \in Int : x.start <= t /\ t < x.end => KindsAt(Y, t) = {x.kind}
  BY <1>1 DEF Within
<1>3. PICK y \in Y : y.kind = x.kind /\ y.start <= x.start /\ x.end <= y.end
  <2> DEFINE k == x.kind
             u == x.start
             v == x.end
  <2>1. u \in Int /\ v \in Int /\ u < v /\ Uniform(Y, k, u, v)
    BY <1>1, <1>2 DEF Uniform
  <2> HIDE DEF k, u, v
  <2>2. \E y \in Y : y.kind = k /\ y.start <= u /\ v <= y.end
    BY <2>1, StretchInMaximal
  <2> QED
    BY <2>2 DEF k, u, v
<1>4. \A t \in Int : y.start <= t /\ t < y.end => KindsAt(X, t) = {y.kind}
  BY <1>1 DEF Within
<1>5. PICK z \in X : z.kind = y.kind /\ z.start <= y.start /\ y.end <= z.end
  <2> DEFINE k == y.kind
             u == y.start
             v == y.end
  <2>1. u \in Int /\ v \in Int /\ u < v /\ Uniform(X, k, u, v)
    BY <1>1, <1>4 DEF Uniform
  <2> HIDE DEF k, u, v
  <2>2. \E z \in X : z.kind = k /\ z.start <= u /\ v <= z.end
    BY <2>1, StretchInMaximal
  <2> QED
    BY <2>2 DEF k, u, v
<1>6. z = x
  <2>1. z = x \/ z.end <= x.start \/ x.end <= z.start
    BY DEF Maximal, Apart
  <2> QED
    BY <1>1, <1>3, <1>5, <2>1
<1>7. x.start = y.start /\ x.end = y.end
  BY <1>1, <1>3, <1>5, <1>6
<1>8. x \in SpanSet /\ y \in SpanSet
  BY DEF Maximal
<1>9. x = y
  BY <1>3, <1>7, <1>8 DEF SpanSet
<1> QED
  BY <1>9

\* Clipping keeps them so.
LEMMA ClipMaximal ==
  ASSUME NEW X, Maximal(X), NEW from \in Int, NEW to \in Int
  PROVE  /\ Maximal(Clip(X, from, to))
         /\ \A t \in Int : KindsAt(Clip(X, from, to), t) =
                             IF from <= t /\ t < to THEN KindsAt(X, t) ELSE {}
<1> DEFINE C == Clip(X, from, to)
<1>1. X \subseteq SpanSet /\ Proper(X) /\ Apart(X)
  BY DEF Maximal
<1>2. \A s \in X : s.start \in Int /\ s.end \in Int /\ s.start < s.end
  BY <1>1 DEF Proper
<1>3. /\ C = {c \in {Part(s, from, to) : s \in X} : c.start < c.end}
      /\ \A s \in X :
              /\ Part(s, from, to).kind = s.kind
              /\ Part(s, from, to).start = IF s.start >= from THEN s.start ELSE from
              /\ Part(s, from, to).end = IF s.end <= to THEN s.end ELSE to
  BY <1>1, ClipIs
<1>4. C \subseteq SpanSet /\ Proper(C) /\ Apart(C)
  BY <1>1, ClipParts
<1> HIDE DEF C
<1>5. ASSUME NEW q \in C, NEW r \in C, Continues(q, r) PROVE FALSE
  <2>1. PICK e \in X : q = Part(e, from, to)
    BY <1>3
  <2>2. PICK f \in X : r = Part(f, from, to)
    BY <1>3
  <2>3. /\ q.start \in Int /\ q.end \in Int /\ q.start < q.end
        /\ r.start \in Int /\ r.end \in Int /\ r.start < r.end
    BY <1>4 DEF Proper
  <2>4. q.start = r.end /\ q.kind = r.kind
    BY <1>5 DEF Continues
  <2>5. /\ q.kind = e.kind /\ r.kind = f.kind
        /\ q.start = IF e.start >= from THEN e.start ELSE from
        /\ q.end = IF e.end <= to THEN e.end ELSE to
        /\ r.start = IF f.start >= from THEN f.start ELSE from
        /\ r.end = IF f.end <= to THEN f.end ELSE to
    BY <1>3, <2>1, <2>2
  <2>6. e.start = f.end
    <3>1. e.start \in Int /\ e.end \in Int /\ f.start \in Int /\ f.end \in Int
      BY <1>2
    <3>2. from <= r.start /\ q.end <= to
      BY <2>5, <3>1
    <3>3. q.start = e.start
      BY <2>3, <2>4, <2>5, <3>1, <3>2
    <3>4. r.end # to
      BY <2>3, <2>4, <3>2
    <3>5. r.end = IF f.end <= to THEN f.end ELSE to
      BY <2>5
    <3>6. r.end = f.end
      BY <3>4, <3>5
    <3> QED
      BY <2>4, <3>3, <3>6
  <2> QED
    BY <2>4, <2>5, <2>6 DEF Maximal, Continues
<1>6. Maximal(C)
  BY <1>4, <1>5 DEF Maximal
<1>7. ASSUME NEW t \in Int
      PROVE  KindsAt(C, t) = IF from <= t /\ t < to THEN KindsAt(X, t) ELSE {}
  <2>1. ASSUME NEW s \in X
        PROVE  /\ from <= t /\ t < to /\ Within(t, s) => Part(s, from, to) \in C
               /\ Within(t, Part(s, from, to)) <=> from <= t /\ t < to /\ Within(t, s)
               /\ Part(s, from, to).kind = s.kind
    <3>1. Within(t, Part(s, from, to)) <=> from <= t /\ t < to /\ Within(t, s)
      BY <1>2, <1>3 DEF Within
    <3>2. from <= t /\ t < to /\ Within(t, s) => Part(s, from, to).start < Part(s, from, to).end
      BY <1>2, <1>3 DEF Within
    <3> QED
      BY <1>3, <3>1, <3>2
  <2>2. \A c \in C : \E s \in X : c = Part(s, from, to)
    BY <1>3
  <2>3. CASE from <= t /\ t < to
    <3>1. \A k : k \in KindsAt(C, t) <=> k \in KindsAt(X, t)
      <4> SUFFICES ASSUME NEW k PROVE k \in KindsAt(C, t) <=> k \in KindsAt(X, t)
        OBVIOUS
      <4>1. k \in KindsAt(C, t) <=> \E c \in C : Within(t, c) /\ c.kind = k
        BY DEF KindsAt
      <4>2. k \in KindsAt(X, t) <=> \E s \in X : Within(t, s) /\ s.kind = k
        BY DEF KindsAt
      <4> QED
        BY <2>1, <2>2, <2>3, <4>1, <4>2
    <3>2. KindsAt(C, t) = KindsAt(X, t)
      BY <3>1
    <3> QED
      BY <2>3, <3>2
  <2>4. CASE ~ (from <= t /\ t < to)
    <3>1. \A c \in C : ~ Within(t, c)
      BY <2>1, <2>2, <2>4
    <3>2. KindsAt(C, t) = {}
      BY <3>1 DEF KindsAt
    <3> QED
      BY <2>4, <3>2
  <2> QED
    BY <2>3, <2>4
<1> QED
  BY <1>6, <1>7 DEF C

\* The days asked for.
LEMMA DaysFacts ==
  ASSUME NEW d \in Days
  PROVE  /\ Days \subseteq Int /\ Max(Days) \in Days
         /\ \A e \in Days : e <= Max(Days)
         /\ \A e \in Int : d <= e /\ e <= Max(Days) => e \in Days
<1> DEFINE k == Wall(MaxTime) \div Day
<1>1. k \in Int
  BY TimeAssumption DEF Wall
<1>2. Days = 0..k
  BY DEF Days
<1> HIDE DEF k
<1>3. Days \subseteq Int /\ Days # {} /\ \A e \in Days : e <= k
  BY <1>1, <1>2
<1>4. Max(Days) \in Days /\ \A e \in Days : e <= Max(Days)
  BY <1>1, <1>3, MaxFacts
<1>5. \A e \in Int : d <= e /\ e <= Max(Days) => e \in Days
  BY <1>1, <1>2, <1>4
<1> QED
  BY <1>3, <1>4, <1>5

\* Months have a begin and an end around the days of the model.
LEMMA MonthsFacts ==
  ASSUME NEW d \in Days
  PROVE  /\ Max({m \in MonthStart : m <= d}) \in MonthStart
         /\ Max({m \in MonthStart : m <= d}) <= d
         /\ \A m \in MonthStart : m <= d => m <= Max({e \in MonthStart : e <= d})
         /\ \A m \in MonthStart : m <= d =>
              /\ Min({n \in MonthStart : n > m}) \in MonthStart
              /\ m < Min({n \in MonthStart : n > m})
              /\ \A n \in MonthStart : n > m => Min({e \in MonthStart : e > m}) <= n
<1>1. d \in Int /\ MonthStart \subseteq Int
  BY DaysFacts, ReportsAssumption
<1>2. (\E m \in MonthStart : m <= d) /\ (\E n \in MonthStart : n > d)
  BY MonthAssumption
<1> DEFINE T == {m \in MonthStart : m <= d}
<1>3. T \subseteq Int /\ T # {} /\ \A m \in T : m <= d
  BY <1>1, <1>2
<1>4. Max(T) \in T /\ \A m \in T : m <= Max(T)
  <2> HIDE DEF T
  <2> QED
    BY <1>1, <1>3, MaxFacts
<1>5. ASSUME NEW m \in MonthStart, m <= d
      PROVE  /\ Min({n \in MonthStart : n > m}) \in MonthStart
             /\ m < Min({n \in MonthStart : n > m})
             /\ \A n \in MonthStart : n > m => Min({e \in MonthStart : e > m}) <= n
  <2> DEFINE U == {n \in MonthStart : n > m}
  <2>0. PICK n \in MonthStart : n > d
    BY <1>2
  <2>a. n \in U
    BY <1>1, <1>5, <2>0
  <2>b. \A e \in U : e \in Int /\ m <= e
    BY <1>1
  <2>1. m \in Int /\ U \subseteq Int /\ U # {} /\ \A e \in U : m <= e
    <3> HIDE DEF U
    <3> QED
      BY <1>1, <2>a, <2>b
  <2>2. Min(U) \in U /\ \A e \in U : Min(U) <= e
    <3> HIDE DEF U
    <3> QED
      BY <2>1, MinFacts
  <2>3. Min(U) \in MonthStart /\ Min(U) > m
    BY <2>2
  <2>4. \A e \in MonthStart : e > m => Min(U) <= e
    BY <2>2
  <2>5. Min(U) \in Int
    BY <1>1, <2>3
  <2> QED
    BY <2>1, <2>3, <2>4, <2>5
<1>6. Max(T) \in MonthStart /\ Max(T) <= d /\ \A m \in MonthStart : m <= d => m <= Max(T)
  BY <1>4
<1> QED
  BY <1>5, <1>6

\* Division with a remainder.
LEMMA WeekFacts ==
  ASSUME NEW n \in Nat, NEW k \in Nat \ {0}
  PROVE  /\ n % k \in 0..(k - 1)
         /\ \E q \in Nat : n = k * q + (n % k)
<1> DEFINE q == n \div k
           r == n % k
<1>1. q \in Int /\ r \in Int /\ 0 <= r /\ r < k /\ n = k * q + r
  BY Z3
<1>2. q \in Nat
  BY SecondsFacts
<1> HIDE DEF q, r
<1>3. r \in 0..(k - 1)
  BY <1>1
<1> QED
  BY <1>1, <1>2, <1>3 DEF r

\* Two multiples of a length are equal or at least that length apart.
LEMMA MultiplesApart ==
  ASSUME NEW k \in Nat \ {0}, NEW a \in Int, NEW b \in Int
  PROVE  k * a = k * b \/ k * a + k <= k * b \/ k * b + k <= k * a
<1>1. CASE a = b
  BY <1>1
<1>2. CASE a + 1 <= b
  <2>1. k * (a + 1) <= k * b
    BY <1>2
  <2>2. k * (a + 1) = k * a + k
    OBVIOUS
  <2> QED
    BY <2>1, <2>2
<1>3. CASE b + 1 <= a
  <2>1. k * (b + 1) <= k * a
    BY <1>3
  <2>2. k * (b + 1) = k * b + k
    OBVIOUS
  <2> QED
    BY <2>1, <2>2
<1> QED
  BY <1>1, <1>2, <1>3

\* The start of the week a day lies in, counted from a first day.
LEMMA WeekOf ==
  ASSUME NEW first \in Int, NEW d \in Int, first <= d, NEW k \in Nat \ {0}
  PROVE  \E e \in first..d : (e - first) % k = 0 /\ d < e + k
<1> DEFINE n == d - first
<1>1. n \in Nat
  OBVIOUS
<1> HIDE DEF n
<1>2. PICK q \in Nat : n = k * q + (n % k)
  BY <1>1, WeekFacts
<1>3. n % k \in 0..(k - 1)
  BY <1>1, WeekFacts
<1> DEFINE m == k * q
           e == first + m
<1>4. m \in Nat
  OBVIOUS
<1>5. PICK p \in Nat : m = k * p + (m % k)
  <2> HIDE DEF m
  <2> QED
    BY <1>4, WeekFacts
<1>6. m % k \in 0..(k - 1)
  <2> HIDE DEF m
  <2> QED
    BY <1>4, WeekFacts
<1>7. m % k = 0
  <2>1. m = k * p \/ m + k <= k * p \/ k * p + k <= m
    BY MultiplesApart
  <2>2. k * p \in Int
    OBVIOUS
  <2> DEFINE x == k * p
             y == m % k
  <2>3. x \in Int /\ y \in 0..(k - 1) /\ m = x + y /\ (m = x \/ m + k <= x \/ x + k <= m)
    BY <1>5, <1>6, <2>1, <2>2
  <2> HIDE DEF x, y, m
  <2>4. y = 0
    BY <1>4, <2>3
  <2> QED
    BY <2>4 DEF y
<1>8. e - first = m /\ e \in first..d /\ d < e + k
  <2> DEFINE y == n % k
  <2>1. y \in 0..(k - 1) /\ n = m + y
    BY <1>2, <1>3
  <2> HIDE DEF y, m
  <2>2. e - first = m
    BY <1>4
  <2>3. e \in Int /\ first <= e
    BY <1>4
  <2>4. e <= d /\ d < e + k
    BY <1>1, <1>4, <2>1 DEF n
  <2> QED
    BY <2>2, <2>3, <2>4
<1> QED
  BY <1>7, <1>8

\* Weeks that begin at multiples do not overlap.
LEMMA WeeksApart ==
  ASSUME NEW first \in Int, NEW d \in Int, NEW e \in Int, first <= d, first <= e,
         NEW k \in Nat \ {0}, (d - first) % k = 0, (e - first) % k = 0
  PROVE  d = e \/ d + k <= e \/ e + k <= d
<1> DEFINE m == d - first
           n == e - first
<1>1. m \in Nat /\ n \in Nat /\ m % k = 0 /\ n % k = 0
  OBVIOUS
<1>2. m = d - first /\ n = e - first
  OBVIOUS
<1> HIDE DEF m, n
<1>3. PICK p \in Nat : m = k * p + (m % k)
  BY <1>1, WeekFacts
<1>4. PICK q \in Nat : n = k * q + (n % k)
  BY <1>1, WeekFacts
<1> DEFINE x == k * p
           y == k * q
<1>5. x \in Int /\ y \in Int /\ (x = y \/ x + k <= y \/ y + k <= x)
  BY MultiplesApart
<1>6. m = x /\ n = y
  BY <1>1, <1>3, <1>4, <1>5
<1> HIDE DEF x, y
<1> QED
  BY <1>2, <1>5, <1>6

\* One of the periods holds the day, and no other meets it.
HeldOnce(periods, d) ==
  \E p \in periods :
    /\ p.first <= d /\ d < p.next
    /\ \A q \in periods \ {p} : q.next <= p.first \/ p.next <= q.first

\* The days of a range hold each day once.
LEMMA DailyHeld ==
  ASSUME NEW first \in Int, NEW last \in Int, NEW d \in first..last
  PROVE  HeldOnce(Daily(first, last), d)
<1> DEFINE p == Period(d, d + 1)
<1>1. p \in Daily(first, last) /\ p.first = d /\ p.next = d + 1
  BY DEF Daily, Period
<1>2. \A q \in Daily(first, last) \ {p} : q.next <= d \/ d + 1 <= q.first
  <2> SUFFICES ASSUME NEW e \in first..last, Period(e, e + 1) # p
               PROVE  Period(e, e + 1).next <= d \/ d + 1 <= Period(e, e + 1).first
    BY DEF Daily
  <2>1. e # d /\ e \in Int /\ d \in Int
    OBVIOUS
  <2>2. e + 1 <= d \/ d + 1 <= e
    BY <2>1
  <2> QED
    BY <2>2 DEF Period
<1> QED
  BY <1>1, <1>2 DEF HeldOnce

\* Its weeks do.
LEMMA WeeklyHeld ==
  ASSUME NEW first \in Int, NEW last \in Int, NEW d \in first..last
  PROVE  HeldOnce(Weekly(first, last), d)
<1> DEFINE W == {e \in first..last : (e - first) % Week = 0}
<1>1. Week \in Nat \ {0} /\ Week \in Int
  BY ReportsAssumption
<1>2. PICK e \in first..d : (e - first) % Week = 0 /\ d < e + Week
  <2> DEFINE k == Week
  <2>1. d \in Int /\ first <= d /\ k \in Nat \ {0}
    BY <1>1
  <2> HIDE DEF k
  <2>2. \E e \in first..d : (e - first) % k = 0 /\ d < e + k
    BY <2>1, WeekOf
  <2> QED
    BY <2>2 DEF k
<1>3. e \in W
  BY <1>2
<1> DEFINE p == Period(e, e + Week)
<1>4. p \in Weekly(first, last) /\ p.first = e /\ p.next = e + Week
  BY <1>3 DEF Weekly, Period
<1>5. ASSUME NEW q \in Weekly(first, last), q # p
      PROVE  q.next <= p.first \/ p.next <= q.first
  <2>1. PICK f \in W : q = Period(f, f + Week)
    BY DEF Weekly
  <2>2. f # e /\ q.first = f /\ q.next = f + Week
    BY <1>5, <2>1 DEF Period
  <2>3. f \in Int /\ first <= f /\ (f - first) % Week = 0
    OBVIOUS
  <2>4. e \in Int /\ first <= e
    OBVIOUS
  <2>5. f + Week <= e \/ e + Week <= f
    BY <1>1, <1>2, <2>2, <2>3, <2>4, WeeksApart
  <2> QED
    BY <1>4, <2>2, <2>5
<1>6. p.first <= d /\ d < p.next
  BY <1>2, <1>4
<1> QED
  BY <1>4, <1>5, <1>6 DEF HeldOnce

\* Its months do.
LEMMA MonthlyHeld ==
  ASSUME NEW first \in Days, NEW last \in first..Max(Days), NEW d \in first..last
  PROVE  HeldOnce(Monthly(first, last), d)
<1> DEFINE start == Max({m \in MonthStart : m <= first})
           m == Max({e \in MonthStart : e <= d})
           Following(e) == Min({n \in MonthStart : n > e})
           p == Period(m, Following(m))
<1>1. /\ first \in Int /\ last \in Int /\ d \in Int /\ first <= d /\ d <= last
      /\ last \in Days /\ d \in Days /\ MonthStart \subseteq Int
  <2>1. first \in Int /\ Max(Days) \in Int /\ \A e \in Int : first <= e /\ e <= Max(Days) => e \in Days
    BY DaysFacts
  <2>2. last \in Int /\ d \in Int /\ first <= d /\ d <= last /\ last <= Max(Days) /\ first <= last
    BY <2>1
  <2>3. last \in Days /\ d \in Days
    BY <2>1, <2>2
  <2> QED
    BY <2>1, <2>2, <2>3, ReportsAssumption
<1>2. start \in MonthStart /\ start <= first
  BY MonthsFacts
<1>3. m \in MonthStart /\ m <= d /\ \A e \in MonthStart : e <= d => e <= m
  BY <1>1, MonthsFacts
<1>4. \A e \in MonthStart : e <= last =>
        Following(e) \in MonthStart /\ e < Following(e) /\ \A n \in MonthStart : n > e => Following(e) <= n
  BY <1>1, MonthsFacts, ZenonT(30)
<1>5. Monthly(first, last) = {Period(e, Following(e)) : e \in MonthStart \cap start..last}
  BY DEF Monthly
<1> HIDE DEF start, m, Following
<1>6. m \in Int /\ start \in Int /\ m <= last /\ start <= m /\ m \in MonthStart \cap start..last
  <2>1. m \in Int /\ start \in Int
    BY <1>1, <1>2, <1>3
  <2>2. start <= d
    BY <1>1, <1>2, <2>1
  <2>3. start <= m /\ m <= last
    BY <1>1, <1>2, <1>3, <2>1, <2>2
  <2> QED
    BY <1>1, <1>3, <2>1, <2>3
<1>7. p \in Monthly(first, last) /\ p.first = m /\ p.next = Following(m)
  BY <1>5, <1>6 DEF Period
<1>8. d < Following(m)
  <2>1. Following(m) \in MonthStart /\ m < Following(m) /\ Following(m) \in Int
    BY <1>1, <1>3, <1>4, <1>6
  <2> QED
    BY <1>1, <1>3, <1>6, <2>1
<1>9. ASSUME NEW q \in Monthly(first, last), q # p
      PROVE  q.next <= p.first \/ p.next <= q.first
  <2>1. PICK e \in MonthStart \cap start..last : q = Period(e, Following(e))
    BY <1>5
  <2>2. e # m /\ q.first = e /\ q.next = Following(e)
    BY <1>9, <2>1 DEF Period
  <2>3. e \in Int /\ e \in MonthStart /\ e <= last
    BY <1>6
  <2>4. CASE e < m
    <3>1. Following(e) <= m
      BY <1>3, <1>4, <1>6, <2>3, <2>4
    <3> QED
      BY <1>7, <2>2, <3>1
  <2>5. CASE m < e
    <3>1. Following(m) <= e
      BY <1>3, <1>4, <1>6, <2>3, <2>5
    <3> QED
      BY <1>7, <2>2, <3>1
  <2> QED
    BY <1>6, <2>2, <2>3, <2>4, <2>5
<1> QED
  BY <1>3, <1>7, <1>8, <1>9 DEF HeldOnce

\* The periods of a report tile the days asked for.
LEMMA PeriodsHeld == PeriodsTile
<1> SUFFICES ASSUME NEW first \in Days, NEW last \in first..Max(Days), NEW d \in first..last
             PROVE  /\ HeldOnce(Daily(first, last), d)
                    /\ HeldOnce(Weekly(first, last), d)
                    /\ HeldOnce(Monthly(first, last), d)
  BY DEF PeriodsTile, HeldOnce
<1>1. first \in Int /\ last \in Int
  <2>1. first \in Int /\ Max(Days) \in Int
    BY DaysFacts
  <2> QED
    BY <2>1
<1> QED
  BY <1>1, DailyHeld, WeeklyHeld, MonthlyHeld

\* Every period of a report lies between whole days.
LEMMA AllPeriodsFacts ==
  ASSUME NEW p \in AllPeriods
  PROVE  p.first \in Int /\ p.next \in Int
<1>1. PICK first \in Days, last \in Days :
        p \in Daily(first, last) \union Weekly(first, last) \union Monthly(first, last)
  BY DEF AllPeriods
<1>2. first \in Int /\ last \in Int /\ Week \in Int /\ MonthStart \subseteq Int
  BY DaysFacts, ReportsAssumption
<1>3. CASE p \in Daily(first, last)
  BY <1>2, <1>3 DEF Daily, Period
<1>4. CASE p \in Weekly(first, last)
  <2>1. PICK e \in first..last : p = Period(e, e + Week)
    BY <1>4 DEF Weekly
  <2> QED
    BY <1>2, <2>1 DEF Period
<1>5. CASE p \in Monthly(first, last)
  <2> DEFINE start == Max({m \in MonthStart : m <= first})
             Following(e) == Min({n \in MonthStart : n > e})
  <2>1. PICK e \in MonthStart \cap start..last : p = Period(e, Following(e))
    BY <1>5 DEF Monthly
  <2>2. e \in MonthStart /\ e <= last /\ e \in Int
    <3>1. start \in Int
      BY <1>2, MonthsFacts
    <3> HIDE DEF start
    <3> QED
      BY <1>2, <3>1
  <2>3. Following(e) \in MonthStart
    BY <2>2, MonthsFacts
  <2> HIDE DEF Following
  <2> QED
    BY <1>2, <2>1, <2>2, <2>3 DEF Period
<1> QED
  BY <1>1, <1>3, <1>4, <1>5

\* What a session alone in a period works is the presence its own view shows there.
LEMMA PeriodAddsUp ==
  ASSUME TypeOK, AppsOK, NEW s \in Known, HeardBefore(s), NEW p \in AllPeriods,
         Reported(p, User[s]) = {s}
  PROVE  LET whole == {r \in Build(s, Life(s)) : Attributable(r)}
             seen == Clip(whole, Shown(s, p).start, Shown(s, p).end)
         IN CutOff(Ticks(seen), Working(Report(p, User[s]).time), Cardinality(seen))
<1> DEFINE whole == {r \in Build(s, Life(s)) : Attributable(r)}
           w == Shown(s, p)
           seen == Clip(whole, w.start, w.end)
           B == Build(s, w)
           here == OfKind(B, Present)
<1>1. /\ Interval(w) /\ Interval(Life(s)) /\ ShownIn(s, w) = w /\ ~ Empty(w)
  <2>1. p.first \in Int /\ p.next \in Int
    BY AllPeriodsFacts
  <2>2. s \in Reported(p, User[s])
    OBVIOUS
  <2>3. ~ Empty(w)
    BY <2>2 DEF Reported
  <2> QED
    BY <2>1, <2>3, PeriodFacts
<1>2. /\ Maximal(whole) /\ whole = OfKind(Build(s, Life(s)), Present)
  <2>1. whole = OfKind(Build(s, Life(s)), Present)
    BY DEF OfKind, Attributable
  <2>2. /\ Build(s, Life(s)) \subseteq SpanSet /\ Proper(Build(s, Life(s)))
        /\ Apart(Build(s, Life(s)))
    BY <1>1, BuildProper
  <2>3. \A q, r \in whole : ~ Continues(q, r)
    BY <1>1, BuildApart DEF Attributable
  <2>4. whole \in SUBSET Build(s, Life(s))
    OBVIOUS
  <2> HIDE DEF whole
  <2>5. Proper(whole)
    BY <2>2, <2>4, ProperSubset
  <2> QED
    BY <2>1, <2>2, <2>3, <2>4, <2>5 DEF Maximal, Apart
<1>3. B \subseteq SpanSet /\ Proper(B) /\ Apart(B)
      /\ \A r \in B : w.start <= r.start /\ r.end <= w.end
  BY <1>1, BuildProper
<1>4. Maximal(here)
  <2>1. here \in SUBSET B /\ \A r \in here : r \in B /\ r.kind \in Present
    BY DEF OfKind
  <2>2. \A q, r \in here : ~ Continues(q, r)
    BY <1>1, <2>1, BuildApart
  <2> HIDE DEF here, B
  <2>3. Proper(here)
    BY <1>3, <2>1, ProperSubset
  <2> QED
    BY <1>3, <2>1, <2>2, <2>3 DEF Maximal, Apart
<1>5. \A X, t : KindsAt(OfKind(X, Present), t) = KindsAt(X, t) \cap Present
  BY DEF KindsAt, OfKind
<1>6. w.start \in Int /\ w.end \in Int /\ w.start < w.end
  BY <1>1 DEF Interval, Empty
<1>7. /\ Maximal(seen)
      /\ \A t \in Int : KindsAt(seen, t) =
                          IF w.start <= t /\ t < w.end THEN KindsAt(whole, t) ELSE {}
  <2> HIDE DEF whole, w
  <2> QED
    BY <1>2, <1>6, ClipMaximal
<1>8. ASSUME NEW t \in Int PROVE KindsAt(seen, t) = KindsAt(here, t)
  <2>1. CASE w.start <= t /\ t < w.end
    <3>1. KindsAt(B, t) \cap Present = KindsAt(Build(s, Life(s)), t) \cap Present
      <4>1. ShownIn(s, w).start <= t /\ t < ShownIn(s, w).end /\ ~ Empty(ShownIn(s, w))
        BY <1>1, <2>1
      <4> HIDE DEF w
      <4> QED
        BY <1>1, <4>1, PresenceSame
    <3> QED
      BY <1>2, <1>5, <1>7, <2>1, <3>1
  <2>2. CASE ~ (w.start <= t /\ t < w.end)
    <3>1. KindsAt(seen, t) = {}
      BY <1>7, <2>2
    <3>2. \A r \in here : ~ Within(t, r)
      <4> SUFFICES ASSUME NEW r \in here, Within(t, r) PROVE FALSE
        OBVIOUS
      <4>1. r \in B
        BY DEF OfKind
      <4>2. r.start \in Int /\ r.end \in Int /\ w.start <= r.start /\ r.end <= w.end
        BY <1>3, <4>1 DEF Proper
      <4>3. r.start <= t /\ t < r.end
        BY DEF Within
      <4> QED
        BY <1>6, <2>2, <4>2, <4>3
    <3>3. KindsAt(here, t) = {}
      BY <1>4, <3>2, MaximalKinds
    <3> QED
      BY <3>1, <3>3
  <2> QED
    BY <2>1, <2>2
<1>9. seen = here
  <2> HIDE DEF seen, here
  <2>1. seen \subseteq here
    BY <1>4, <1>7, <1>8, MaximalSubset
  <2>2. here \subseteq seen
    BY <1>4, <1>7, <1>8, MaximalSubset
  <2> QED
    BY <2>1, <2>2
<1>10. Working(Report(p, User[s]).time) = Sec(here)
  <2> DEFINE rows == Owned(s, B)
             active == OfKind(B, {"ACTIVE"})
             idle == OfKind(B, {"IDLE"})
  <2>1. Report(p, User[s]).time = Totals(rows)
    <3>1. Report(p, User[s]).time =
            Totals(UNION {Owned(r, Build(r, Shown(r, p))) : r \in Reported(p, User[s])})
      BY DEF Report
    <3>2. UNION {Owned(r, Build(r, Shown(r, p))) : r \in {s}} = rows
      OBVIOUS
    <3> QED
      BY <3>1, <3>2
  <2>2. /\ Proper(active) /\ Proper(idle) /\ active \subseteq SpanSet /\ idle \subseteq SpanSet
    <3> HIDE DEF B
    <3> QED
      BY <1>3, OfKindFacts
  <2>3. /\ Totals(rows).active = Sec(Owned(s, active))
        /\ Totals(rows).idle = Sec(Owned(s, idle))
    BY TotalsAre, OwnedOfKind
  <2>4. active \cap idle = {} /\ active \union idle = here
    BY DEF OfKind, Present
  <2> HIDE DEF active, idle, rows, here
  <2>5. Sec(Owned(s, active)) = Sec(active) /\ Sec(Owned(s, idle)) = Sec(idle)
    BY <2>2, SecOwned
  <2>6. Sec(here) = Sec(active) + Sec(idle)
    BY <2>2, <2>4, SecOfTwo
  <2> QED
    BY <2>1, <2>3, <2>5, <2>6 DEF Working
<1>11. CutOff(Ticks(here), Sec(here), Cardinality(here))
  <2> HIDE DEF here
  <2>1. Proper(here) /\ here \in SUBSET here
    BY <1>4 DEF Maximal
  <2>2. Sec(here) = Weight(SecondsOf(here), here)
    BY <2>1, SecIsWeight
  <2> QED
    BY <2>1, <2>2, CutOffFacts
<1> HIDE DEF here
<1> QED
  BY <1>9, <1>10, <1>11

\* What days, weeks and months say adds up.
LEMMA ReportsStay == TypeOK /\ AppsOK => ReportsAddUp
BY PeriodsHeld, PeriodAddsUp DEF ReportsAddUp

-----------------------------------------------------------------------------
(* The theorems.                                                             *)

\* What a session shows for a day is a partition of it: in every state that uploads can
\* lead to no instant is missing and none is counted twice (TimelineService.build).
THEOREM PartitionedCorrect == Spec => []Partitioned
BY TypeCorrect, TypeOKPartitioned, PTL

\* The day view covers the day up to now without a hole or an overlap, and says
\* NO_SESSION where there was none (_build_day_timeline, for sessions that do not overlap).
THEOREM DayCoveredCorrect == Spec => []DayCovered
BY TypeCorrect, TypeOKDayCovered, PTL

\* The segments, the confirmation of runs, the folding and the clipping together say of
\* every instant of a session what its heartbeats and idle events say
\* (MonitoringWindowService, WorkSessionClassifier and TimelineService).
THEOREM MatchesReferenceCorrect == Spec => []MatchesReference
BY TypeCorrect, TypeOKMatchesReference, PTL

\* Presence does not depend on the window one looks through: PADDING is enough
\* (TimelineService.build).
THEOREM PresenceAgreesCorrect == Spec => []PresenceAgrees
BY TypeCorrect, TypeOKPresenceAgrees, PTL

\* What was OFF_SESSION once after a run that counts is so for good
\* (WorkSessionClassifier.classify).
THEOREM OffSessionIsFinalCorrect == Spec => []OffSessionIsFinal
BY TypeCorrect, TypeOKOffSessionIsFinal, PTL

\* What days, weeks and months say adds up: their periods hold every day once, and the
\* work in a report is the presence that the session shows there, less a part of a second
\* for each piece (ProductivityReportService, TimelineService.totals_by_type).
THEOREM ReportsAddUpCorrect == ReportsSpec => []ReportsAddUp
BY ReportsTypes, ReportsStay, PTL

\* The timeline of a day, its report and the page of its applications say the same
\* (TimelineService.build, from which all of them are made).
THEOREM DayAgreesCorrect == ReportsSpec => []DayAgrees
BY ReportsTypes, DayStays, PTL

\* Uses of applications that do not overlap never add up to more than their session
\* (overlap_seconds_by_type in ProductivityService and ProductivityReportService).
THEOREM UsageWithinWorkCorrect == ReportsSpec => []UsageWithinWork
BY ReportsTypes, UsageStays, PTL

=============================================================================
