----------------------- MODULE ServerLifecycleProofs -----------------------
(***************************************************************************)
(* Proofs about ServerLifecycle: for every padding and every bound, what a  *)
(* CONFIRMED and an UNCERTAIN interval say of the server is true, unless    *)
(* the write of a startup row failed inside the interval.                   *)
(***************************************************************************)
EXTENDS ServerLifecycle, TLAPS

USE DEF Time

-----------------------------------------------------------------------------
(* The table.                                                               *)

\* The new row comes last and moves no other.
LEMMA AppendRow ==
  ASSUME NEW s \in Seq(Row), NEW r \in Row
  PROVE  /\ Append(s, r) \in Seq(Row)
         /\ Len(s) \in Nat
         /\ Len(Append(s, r)) = Len(s) + 1
         /\ \A i \in 1..Len(s) : Append(s, r)[i] = s[i]
         /\ Append(s, r)[Len(s) + 1] = r
  OBVIOUS

\* The rows have times.
LEMMA RowTimes ==
  ASSUME NEW s \in Seq(Row), NEW i \in 1..Len(s)
  PROVE  s[i].at \in Nat
<1>1. s[i] \in Row
  OBVIOUS
<1> QED
  BY <1>1, BoundAssumption DEF Row

\* The intervals of a whole table.
PairsOf(s) ==
  {Interval(s[i], s[i + 1]) : i \in {j \in 1..(Len(s) - 1) : s[j + 1].type = "startup"}}

LEMMA AdjacentOfAll ==
  ASSUME NEW n \in Nat
  PROVE  /\ \A p \in Adjacent(1..n) : p[1] \in 1..(n - 1) /\ p[2] = p[1] + 1
         /\ \A i \in 1..(n - 1) : <<i, i + 1>> \in Adjacent(1..n)
<1>1. ASSUME NEW p \in Adjacent(1..n) PROVE p[1] \in 1..(n - 1) /\ p[2] = p[1] + 1
  <2>1. /\ p[1] \in 1..n /\ p[2] \in 1..n /\ p[1] < p[2]
        /\ ~\E k \in 1..n : p[1] < k /\ k < p[2]
    BY DEF Adjacent
  <2>2. ~(p[1] < p[1] + 1 /\ p[1] + 1 < p[2])
    BY <2>1
  <2> QED
    BY <2>1, <2>2
<1>2. ASSUME NEW i \in 1..(n - 1) PROVE <<i, i + 1>> \in Adjacent(1..n)
  <2>1. <<i, i + 1>> \in (1..n) \X (1..n)
    OBVIOUS
  <2>2. i < i + 1 /\ ~\E k \in 1..n : i < k /\ k < i + 1
    OBVIOUS
  <2> QED
    BY <2>1, <2>2 DEF Adjacent
<1> QED
  BY <1>1, <1>2

\* The table and the one after a step.
LEMMA IntervalsAreAdjacent ==
  /\ rows \in Seq(Row) => AllIntervals = PairsOf(rows)
  /\ rows' \in Seq(Row) => AllIntervals' = PairsOf(rows')
<1>1. ASSUME NEW s \in Seq(Row)
      PROVE  {Interval(s[p[1]], s[p[2]]) :
                p \in {q \in Adjacent(DOMAIN s) : s[q[2]].type = "startup"}} = PairsOf(s)
  <2>1. DOMAIN s = 1..Len(s) /\ Len(s) \in Nat
    OBVIOUS
  <2>2. ASSUME NEW p \in Adjacent(DOMAIN s), s[p[2]].type = "startup"
        PROVE  Interval(s[p[1]], s[p[2]]) \in PairsOf(s)
    <3>1. p[1] \in 1..(Len(s) - 1) /\ p[2] = p[1] + 1
      BY <2>1, AdjacentOfAll
    <3> QED
      BY <2>2, <3>1 DEF PairsOf
  <2>3. ASSUME NEW i \in 1..(Len(s) - 1), s[i + 1].type = "startup"
        PROVE  \E p \in Adjacent(DOMAIN s) :
                 s[p[2]].type = "startup" /\ Interval(s[p[1]], s[p[2]]) = Interval(s[i], s[i + 1])
    <3>1. <<i, i + 1>> \in Adjacent(DOMAIN s)
      BY <2>1, AdjacentOfAll
    <3> QED
      BY <2>3, <3>1
  <2> QED
    BY <2>2, <2>3 DEF PairsOf
<1>2. rows \in Seq(Row) => AllIntervals = PairsOf(rows)
  BY <1>1 DEF AllIntervals, Intervals
<1>3. rows' \in Seq(Row) => AllIntervals' = PairsOf(rows')
  BY <1>1 DEF AllIntervals, Intervals
<1> QED
  BY <1>2, <1>3

\* An interval is bounded by two adjacent rows, the second a startup.
LEMMA IntervalRows ==
  ASSUME NEW s \in Seq(Row), NEW iv \in PairsOf(s)
  PROVE  \E i \in 1..(Len(s) - 1) :
           /\ i \in Nat /\ i + 1 \in 1..Len(s) /\ i \in 1..Len(s)
           /\ s[i + 1].type = "startup"
           /\ iv.start = s[i].at /\ iv.end = s[i + 1].at
           /\ iv.confidence = "CONFIRMED" <=> s[i].type = "shutdown"
           /\ iv.confidence = "UNCERTAIN" <=> s[i].type = "startup"
           /\ iv = Interval(s[i], s[i + 1])
<1>1. PICK i \in 1..(Len(s) - 1) :
        s[i + 1].type = "startup" /\ iv = Interval(s[i], s[i + 1])
  BY DEF PairsOf
<1>2. i \in Nat /\ i + 1 \in 1..Len(s) /\ i \in 1..Len(s)
  OBVIOUS
<1>3. s[i].type \in {"startup", "shutdown"}
  <2>1. s[i] \in Row
    BY <1>2
  <2> QED
    BY <2>1 DEF Row
<1>4. /\ iv.start = s[i].at /\ iv.end = s[i + 1].at
      /\ iv.confidence = IF s[i].type = "shutdown" THEN "CONFIRMED" ELSE "UNCERTAIN"
  BY <1>1 DEF Interval, Confidence
<1>5. /\ iv.confidence = "CONFIRMED" <=> s[i].type = "shutdown"
      /\ iv.confidence = "UNCERTAIN" <=> s[i].type = "startup"
  BY <1>3, <1>4
<1> WITNESS i \in 1..(Len(s) - 1)
<1> QED
  BY <1>1, <1>2, <1>4, <1>5

\* The intervals of a longer table are those of the shorter one and the one
\* that ends with the new row.
LEMMA IntervalsAppend ==
  ASSUME NEW s \in Seq(Row), NEW r \in Row, NEW iv \in PairsOf(Append(s, r))
  PROVE  \/ iv \in PairsOf(s)
         \/ /\ Len(s) > 0
            /\ r.type = "startup"
            /\ iv = Interval(s[Len(s)], r)
<1> DEFINE q == Append(s, r)
<1>1. q \in Seq(Row) /\ Len(s) \in Nat /\ Len(q) = Len(s) + 1
      /\ q[Len(s) + 1] = r /\ \A i \in 1..Len(s) : q[i] = s[i]
  BY AppendRow
<1> HIDE DEF q
<1>2. iv \in PairsOf(q)
  BY DEF q
<1>3. PICK i \in 1..(Len(q) - 1) :
        q[i + 1].type = "startup" /\ iv = Interval(q[i], q[i + 1])
  BY <1>2 DEF PairsOf
<1>4. CASE i = Len(s)
  BY <1>1, <1>3, <1>4
<1>5. CASE i < Len(s)
  <2>1. i \in 1..(Len(s) - 1) /\ q[i] = s[i] /\ q[i + 1] = s[i + 1]
    BY <1>1, <1>5
  <2> QED
    BY <1>3, <2>1 DEF PairsOf
<1> QED
  BY <1>1, <1>4, <1>5

-----------------------------------------------------------------------------
(* The invariant.                                                           *)

LEMMA InitIInv == Init => IInv
<1> SUFFICES ASSUME Init PROVE IInv
  OBVIOUS
<1>1. rows = <<>> /\ served = {} /\ lost = {} /\ dark = {} /\ Len(rows) = 0
  BY DEF Init
<1>2. TypeOK
  BY BoundAssumption DEF Init, TypeOK
<1>3. AllIntervals = {}
  <2>1. PairsOf(rows) = {} /\ rows \in Seq(Row)
    BY <1>1 DEF PairsOf
  <2> QED
    BY <2>1, IntervalsAreAdjacent
<1> QED
  BY <1>1, <1>2, <1>3 DEF Init, IInv, Past, Writing, QuietSinceShutdown,
     OneLifeSinceStartup, StartedSince, ConfirmedSound, UncertainSound, Covered

LEMMA TypeStep == TypeOK /\ [Next]_vars => TypeOK'
<1> SUFFICES ASSUME TypeOK, [Next]_vars PROVE TypeOK'
  OBVIOUS
<1> USE BoundAssumption DEF TypeOK
<1>1. CASE Tick
  BY <1>1 DEF Tick
<1>2. CASE Boot
  BY <1>2 DEF Boot, history
<1>3. CASE Stop
  BY <1>3 DEF Stop, history
<1>4. CASE Record
  BY <1>4 DEF Record, Resume, Writing, history, Row
<1>5. CASE FailToRecord
  BY <1>5 DEF FailToRecord, Resume, Writing, history
<1>6. CASE Crash
  BY <1>6 DEF Crash, history
<1>7. CASE UNCHANGED vars
  BY <1>7 DEF vars, history
<1> QED
  BY <1>1, <1>2, <1>3, <1>4, <1>5, <1>6, <1>7 DEF Next

\* Times are numbers.
LEMMA Numbers ==
  ASSUME TypeOK
  PROVE  /\ now \in Nat /\ stamp \in Nat /\ rows \in Seq(Row) /\ Len(rows) \in Nat
         /\ served \subseteq Nat /\ lost \subseteq Nat /\ dark \subseteq Nat
         /\ DOMAIN rows = 1..Len(rows)
         /\ \A i \in DOMAIN rows : rows[i].at \in Nat
<1>1. now \in Nat /\ stamp \in Nat /\ rows \in Seq(Row)
      /\ served \subseteq Nat /\ lost \subseteq Nat /\ dark \subseteq Nat
  BY BoundAssumption DEF TypeOK
<1> QED
  BY <1>1, RowTimes

\* What Record writes, and what it does to the table and the process.
LEMMA RecordFacts ==
  ASSUME TypeOK, Record
  PROVE  \E r \in Row :
           /\ rows' = Append(rows, r)
           /\ r.at = stamp /\ r = Last'
           /\ rows' \in Seq(Row)
           /\ Len(rows) \in Nat /\ Len(rows') = Len(rows) + 1
           /\ \A i \in 1..Len(rows) : rows'[i] = rows[i]
           /\ rows'[Len(rows) + 1] = r
           /\ \/ phase = "starting" /\ phase' = "serving" /\ r.type = "startup"
              \/ phase = "stopping" /\ phase' = "down" /\ r.type = "shutdown"
           /\ UNCHANGED <<now, lost, served, dark>>
<1> DEFINE r == [type |-> IF phase = "starting" THEN "startup" ELSE "shutdown",
                 at |-> stamp]
<1>1. r \in Row /\ rows \in Seq(Row)
  BY DEF TypeOK, Row
<1>2. rows' = Append(rows, r)
  BY DEF Record
<1>3. /\ rows' \in Seq(Row)
      /\ Len(rows) \in Nat /\ Len(rows') = Len(rows) + 1
      /\ \A i \in 1..Len(rows) : rows'[i] = rows[i]
      /\ rows'[Len(rows) + 1] = r
  BY <1>1, <1>2, AppendRow
<1>4. \/ phase = "starting" /\ phase' = "serving" /\ r.type = "startup"
      \/ phase = "stopping" /\ phase' = "down" /\ r.type = "shutdown"
  BY DEF Record, Writing, Resume
<1>5. UNCHANGED <<now, lost, served, dark>>
  BY DEF Record, history
<1>6. r.at = stamp
  OBVIOUS
<1> HIDE DEF r
<1>7. r = Last'
  BY <1>3 DEF Last
<1> WITNESS r \in Row
<1> QED
  BY <1>2, <1>3, <1>4, <1>5, <1>6, <1>7

LEMMA PastStep == TypeOK /\ Past /\ [Next]_vars => Past'
<1> SUFFICES ASSUME TypeOK, Past, [Next]_vars PROVE Past'
  OBVIOUS
<1> USE BoundAssumption DEF Past, Writing
<1>0. /\ now \in Nat /\ stamp \in Nat /\ rows \in Seq(Row)
      /\ served \subseteq Nat /\ lost \subseteq Nat /\ dark \subseteq Nat
      /\ DOMAIN rows = 1..Len(rows)
      /\ \A i \in DOMAIN rows : rows[i].at \in Nat
  BY Numbers
<1>1. CASE Tick
  BY <1>0, <1>1 DEF Tick
<1>2. CASE Boot
  <2>1. UNCHANGED <<now, rows, served, dark, lost>> /\ stamp' = now
    BY <1>2 DEF Boot, history
  <2>2. /\ (\A t \in lost : t <= now) /\ (\A t \in served \union dark : t < now)
        /\ \A i \in DOMAIN rows : rows[i].at <= now
        /\ \A i, j \in DOMAIN rows : i <= j => rows[i].at <= rows[j].at
    OBVIOUS
  <2>3. now <= now
    BY <1>0
  <2> QED
    BY <2>1, <2>2, <2>3, Zenon
<1>3. CASE Stop
  BY <1>0, <1>3 DEF Stop, history
<1>4. CASE Record
  <2>1. PICK r \in Row :
          /\ r.at = stamp /\ r = rows'[Len(rows) + 1]
          /\ rows' \in Seq(Row)
          /\ Len(rows) \in Nat /\ Len(rows') = Len(rows) + 1
          /\ \A i \in 1..Len(rows) : rows'[i] = rows[i]
          /\ phase' \in {"serving", "down"}
          /\ UNCHANGED <<now, served, lost, dark>>
    BY <1>4, RecordFacts
  <2>2. \A i \in DOMAIN rows' : rows'[i].at <= now'
    BY <1>0, <1>4, <2>1 DEF Record
  <2>3. ASSUME NEW i \in DOMAIN rows', NEW j \in DOMAIN rows', i <= j
        PROVE  rows'[i].at <= rows'[j].at
    <3>1. CASE j \in DOMAIN rows
      <4>1. i \in 1..Len(rows) /\ j \in 1..Len(rows)
        BY <1>0, <2>1, <2>3, <3>1
      <4>2. rows'[i] = rows[i] /\ rows'[j] = rows[j] /\ i \in DOMAIN rows
        BY <1>0, <2>1, <4>1
      <4>3. rows[i].at <= rows[j].at
        BY <2>3, <3>1, <4>2
      <4> QED
        BY <4>2, <4>3
    <3>2. CASE j = Len(rows) + 1 /\ i \in DOMAIN rows
      BY <1>0, <1>4, <2>1, <3>2 DEF Record
    <3>3. CASE j = Len(rows) + 1 /\ i = j
      BY <1>0, <2>1, <3>3
    <3> QED
      BY <1>0, <2>1, <2>3, <3>1, <3>2, <3>3
  <2>4. ~Writing'
    BY <2>1
  <2> QED
    BY <2>1, <2>2, <2>3, <2>4
<1>5. CASE FailToRecord
  BY <1>0, <1>5 DEF FailToRecord, Resume, history
<1>6. CASE Crash
  BY <1>0, <1>6 DEF Crash, history
<1>7. CASE UNCHANGED vars
  BY <1>7 DEF vars, history
<1> QED
  BY <1>1, <1>2, <1>3, <1>4, <1>5, <1>6, <1>7 DEF Next

LEMMA QuietStep ==
  TypeOK /\ Past /\ QuietSinceShutdown /\ [Next]_vars => QuietSinceShutdown'
<1> SUFFICES ASSUME TypeOK, Past, QuietSinceShutdown, [Next]_vars
             PROVE  QuietSinceShutdown'
  OBVIOUS
<1> USE DEF QuietSinceShutdown, NoneLostSince, Last
<1>0. /\ now \in Nat /\ stamp \in Nat /\ rows \in Seq(Row) /\ Len(rows) \in Nat
      /\ served \subseteq Nat /\ lost \subseteq Nat
      /\ DOMAIN rows = 1..Len(rows)
      /\ \A i \in DOMAIN rows : rows[i].at \in Nat
  BY Numbers
<1>1. CASE Tick
  BY <1>0, <1>1 DEF Tick
<1>2. CASE Boot
  BY <1>0, <1>2 DEF Boot, history
<1>3. CASE Stop
  BY <1>0, <1>3 DEF Stop, history
<1>4. CASE Record
  BY <1>0, <1>4, RecordFacts DEF Past, Writing
<1>5. CASE FailToRecord
  <2>1. CASE phase = "starting"
    <3>1. rows' = rows /\ stamp \in lost'
      BY <1>5, <2>1 DEF FailToRecord
    <3>2. Len(rows) > 0 => Last.at <= stamp
      BY <1>0, <2>1 DEF Past, Writing
    <3> QED
      BY <1>0, <3>1, <3>2
  <2>2. CASE phase = "stopping"
    BY <1>0, <1>5, <2>2 DEF FailToRecord
  <2> QED
    BY <1>5, <2>1, <2>2 DEF FailToRecord, Writing
<1>6. CASE Crash
  BY <1>0, <1>6 DEF Crash, history
<1>7. CASE UNCHANGED vars
  BY <1>7 DEF vars, history
<1> QED
  BY <1>1, <1>2, <1>3, <1>4, <1>5, <1>6, <1>7 DEF Next

LEMMA OneLifeStep ==
  TypeOK /\ Past /\ OneLifeSinceStartup /\ [Next]_vars => OneLifeSinceStartup'
<1> SUFFICES ASSUME TypeOK, Past, OneLifeSinceStartup, [Next]_vars
             PROVE  OneLifeSinceStartup'
  OBVIOUS
<1> USE DEF OneLifeSinceStartup, NoneLostSince, Last
<1>0. /\ now \in Nat /\ stamp \in Nat /\ rows \in Seq(Row) /\ Len(rows) \in Nat
      /\ served \subseteq Nat /\ lost \subseteq Nat
      /\ DOMAIN rows = 1..Len(rows)
      /\ \A i \in DOMAIN rows : rows[i].at \in Nat
  BY Numbers
<1>1. CASE Tick
  <2>1. CASE phase # "serving"
    BY <1>0, <1>1, <2>1 DEF Tick
  <2>2. CASE phase = "serving"
    <3>1. SUFFICES ASSUME Len(rows) > 0, Last.type = "startup", NoneLostSince(Last.at),
                          NEW t \in served', Last.at <= t
                   PROVE  /\ \A u \in served' : t < u => \A v \in t..u : v \in served'
                          /\ \A v \in t..now : v \in served'
      BY <1>0, <1>1 DEF Tick
    <3>2. served' = served \union {now} /\ t \in Nat
      BY <1>0, <1>1, <2>2 DEF Tick
    <3>3. \A v \in t..now : v \in served'
      <4>1. CASE t \in served
        BY <1>0, <2>2, <3>1, <3>2, <4>1
      <4>2. CASE t = now
        BY <1>0, <3>2, <4>2
      <4> QED
        BY <3>1, <3>2, <4>1, <4>2
    <3>4. \A u \in served' : u \in Nat /\ u <= now
      BY <1>0, <3>2 DEF Past
    <3> QED
      BY <1>0, <3>2, <3>3, <3>4
  <2> QED
    BY <2>1, <2>2
<1>2. CASE Boot
  BY <1>0, <1>2 DEF Boot, history
<1>3. CASE Stop
  BY <1>0, <1>3 DEF Stop, history
<1>4. CASE Record
  <2>1. PICK r \in Row :
          r.at = stamp /\ r = rows'[Len(rows')] /\ served' = served
    BY <1>4, RecordFacts
  <2>2. \A t \in served : t \in Nat /\ t < stamp
    BY <1>0, <1>4 DEF Past, Record
  <2> QED
    BY <1>0, <2>1, <2>2
<1>5. CASE FailToRecord
  <2>1. CASE phase = "starting"
    <3>1. rows' = rows /\ stamp \in lost'
      BY <1>5, <2>1 DEF FailToRecord
    <3>2. Len(rows) > 0 => Last.at <= stamp
      BY <1>0, <2>1 DEF Past, Writing
    <3> QED
      BY <1>0, <3>1, <3>2
  <2>2. CASE phase = "stopping"
    BY <1>0, <1>5, <2>2 DEF FailToRecord, Resume
  <2> QED
    BY <1>5, <2>1, <2>2 DEF FailToRecord, Writing
<1>6. CASE Crash
  BY <1>0, <1>6 DEF Crash, history
<1>7. CASE UNCHANGED vars
  BY <1>7 DEF vars, history
<1> QED
  BY <1>1, <1>2, <1>3, <1>4, <1>5, <1>6, <1>7 DEF Next

\* A new row ends an interval, or none: what is known of the time since the
\* row before it is what the interval says.
LEMMA ConfirmedStep ==
  TypeOK /\ Past /\ QuietSinceShutdown /\ ConfirmedSound /\ [Next]_vars
    => ConfirmedSound'
<1> SUFFICES ASSUME TypeOK, Past, QuietSinceShutdown, ConfirmedSound, [Next]_vars,
                    NEW iv \in AllIntervals',
                    iv.confidence = "CONFIRMED",
                    \A t \in lost' : ~(iv.start <= t /\ t <= iv.end),
                    NEW t \in served'
             PROVE  ~(iv.start <= t /\ t < iv.end)
  BY DEF ConfirmedSound
<1>p. iv \in PairsOf(rows') /\ AllIntervals = PairsOf(rows)
  BY TypeStep, IntervalsAreAdjacent DEF TypeOK
<1>0. /\ now \in Nat /\ stamp \in Nat /\ rows \in Seq(Row) /\ Len(rows) \in Nat
      /\ served \subseteq Nat /\ lost \subseteq Nat
      /\ DOMAIN rows = 1..Len(rows)
      /\ \A i \in DOMAIN rows : rows[i].at \in Nat
  BY Numbers
<1>1. CASE iv \in PairsOf(rows)
  <2>1. lost \subseteq lost'
    BY DEF Next, Tick, Boot, Stop, Record, FailToRecord, Crash, vars, history
  <2>2. CASE t \in served
    BY <1>1, <1>p, <2>1, <2>2 DEF ConfirmedSound
  <2>3. CASE t \notin served
    <3>1. t = now
      BY <2>3 DEF Next, Tick, Boot, Stop, Record, FailToRecord, Crash, vars, history
    <3>2. iv.end \in Nat /\ iv.end <= now
      BY <1>0, <1>1, IntervalRows DEF Past
    <3> QED
      BY <1>0, <3>1, <3>2
  <2> QED
    BY <2>2, <2>3
<1>2. CASE iv \notin PairsOf(rows)
  <2>1. Record
    BY <1>2, <1>p DEF Next, Tick, Boot, Stop, FailToRecord, Crash, vars, history
  <2>2. PICK r \in Row :
          /\ rows' = Append(rows, r)
          /\ r.at = stamp
          /\ phase = "starting" \/ r.type = "shutdown"
          /\ UNCHANGED <<lost, served>>
    BY <2>1, RecordFacts
  <2>3. Len(rows) > 0 /\ r.type = "startup" /\ iv = Interval(Last, r)
    BY <1>0, <1>2, <1>p, <2>2, IntervalsAppend DEF Last
  <2>4. iv.start = Last.at /\ iv.end = stamp /\ Last.type = "shutdown"
    BY <2>2, <2>3 DEF Interval, Confidence
  <2>5. phase = "starting"
    BY <2>2, <2>3
  <2>6. NoneLostSince(Last.at)
    BY <1>0, <2>2, <2>3, <2>4, <2>5 DEF Past, Writing, NoneLostSince, Last
  <2> QED
    <3>1. t \in served /\ t < Last.at
      BY <2>2, <2>3, <2>4, <2>6 DEF QuietSinceShutdown
    <3>2. Last.at \in Nat /\ t \in Nat
      BY <1>0, <2>3, <3>1 DEF Last
    <3> QED
      BY <2>4, <3>1, <3>2
<1> QED
  BY <1>1, <1>2

LEMMA UncertainStep ==
  TypeOK /\ Past /\ OneLifeSinceStartup /\ UncertainSound /\ [Next]_vars
    => UncertainSound'
<1> SUFFICES ASSUME TypeOK, Past, OneLifeSinceStartup, UncertainSound, [Next]_vars,
                    NEW iv \in AllIntervals',
                    iv.confidence = "UNCERTAIN",
                    \A x \in lost' : ~(iv.start <= x /\ x <= iv.end),
                    NEW t \in served', NEW u \in served',
                    iv.start <= t, t < u, u < iv.end,
                    NEW v \in t..u
             PROVE  v \in served'
  BY DEF UncertainSound
<1>p. iv \in PairsOf(rows') /\ AllIntervals = PairsOf(rows)
  BY TypeStep, IntervalsAreAdjacent DEF TypeOK
<1>0. /\ now \in Nat /\ stamp \in Nat /\ rows \in Seq(Row) /\ Len(rows) \in Nat
      /\ served \subseteq Nat /\ lost \subseteq Nat
      /\ DOMAIN rows = 1..Len(rows)
      /\ \A i \in DOMAIN rows : rows[i].at \in Nat
  BY Numbers
<1>1. CASE iv \in PairsOf(rows)
  <2>1. lost \subseteq lost' /\ served \subseteq served' /\ served' \subseteq served \union {now}
    BY DEF Next, Tick, Boot, Stop, Record, FailToRecord, Crash, vars, history
  <2>2. iv.end \in Nat /\ iv.end <= now
    BY <1>0, <1>1, IntervalRows DEF Past
  <2>3. t \in served /\ u \in served
    BY <1>0, <2>1, <2>2
  <2> QED
    BY <1>1, <1>p, <2>1, <2>3 DEF UncertainSound
<1>2. CASE iv \notin PairsOf(rows)
  <2>1. Record
    BY <1>2, <1>p DEF Next, Tick, Boot, Stop, FailToRecord, Crash, vars, history
  <2>2. PICK r \in Row :
          /\ rows' = Append(rows, r)
          /\ r.at = stamp
          /\ phase = "starting" \/ r.type = "shutdown"
          /\ UNCHANGED <<lost, served>>
    BY <2>1, RecordFacts
  <2>3. Len(rows) > 0 /\ r.type = "startup" /\ iv = Interval(Last, r)
    BY <1>0, <1>2, <1>p, <2>2, IntervalsAppend DEF Last
  <2>4. iv.start = Last.at /\ iv.end = stamp /\ Last.type # "shutdown"
    BY <2>2, <2>3 DEF Interval, Confidence
  <2>5. Last.type = "startup"
    <3>1. Last \in Row
      BY <1>0, <2>3 DEF Last
    <3> QED
      BY <2>4, <3>1 DEF Row
  <2>6. phase = "starting"
    BY <2>2, <2>3
  <2>7. NoneLostSince(Last.at)
    BY <1>0, <2>2, <2>3, <2>4, <2>6 DEF Past, Writing, NoneLostSince, Last
  <2> QED
    BY <1>0, <2>2, <2>3, <2>4, <2>5, <2>7 DEF OneLifeSinceStartup
<1> QED
  BY <1>1, <1>2

\* A process starts after what it ends, and its startup row comes first.
LEMMA StartedStep ==
  TypeOK /\ Past /\ StartedSince /\ [Next]_vars => StartedSince'
<1> SUFFICES ASSUME TypeOK, Past, StartedSince, [Next]_vars PROVE StartedSince'
  OBVIOUS
<1> USE DEF StartedSince, Last
<1>0. /\ now \in Nat /\ stamp \in Nat /\ rows \in Seq(Row) /\ Len(rows) \in Nat
      /\ dark \subseteq Nat /\ phase \in {"down", "starting", "serving", "stopping"}
      /\ \A t \in dark : t < now
  BY Numbers DEF TypeOK, Past
<1>1. CASE Tick
  BY <1>0, <1>1 DEF Tick
<1>2. CASE Boot
  BY <1>0, <1>2 DEF Boot, history
<1>3. CASE Stop
  <2>1. /\ phase = "serving" /\ phase' = "stopping"
        /\ UNCHANGED <<now, rows, dark, lost>>
    BY <1>3 DEF Stop, history
  <2> QED
    BY <2>1
<1>4. CASE Record
  <2>1. PICK r \in Row :
          /\ r.at = stamp /\ rows'[Len(rows) + 1] = r /\ Len(rows') = Len(rows) + 1
          /\ \/ phase = "starting" /\ phase' = "serving"
             \/ phase = "stopping" /\ phase' = "down"
          /\ UNCHANGED <<now, lost, dark>>
    BY <1>4, RecordFacts
  <2>2. CASE phase = "stopping"
    BY <2>1, <2>2
  <2>3. CASE phase = "starting"
    <3>1. rows'[Len(rows')].at = stamp /\ Len(rows') > 0 /\ phase' = "serving"
      BY <1>0, <2>1, <2>3
    <3> QED
      BY <2>1, <2>3, <3>1
  <2> QED
    BY <2>1, <2>2, <2>3
<1>5. CASE FailToRecord
  <2>1. CASE phase = "starting"
    BY <1>5, <2>1 DEF FailToRecord, Resume
  <2>2. CASE phase = "stopping"
    BY <1>5, <2>2 DEF FailToRecord, Resume
  <2> QED
    BY <1>5, <2>1, <2>2 DEF FailToRecord, Writing
<1>6. CASE Crash
  BY <1>0, <1>6 DEF Crash, history
<1>7. CASE UNCHANGED vars
  BY <1>7 DEF vars, history
<1> QED
  BY <1>1, <1>2, <1>3, <1>4, <1>5, <1>6, <1>7 DEF Next

\* A row that ends an outage is a startup, and ends an interval; a shutdown
\* comes after a startup that has ended it.
LEMMA CoveredStep ==
  TypeOK /\ Past /\ StartedSince /\ Covered /\ [Next]_vars => Covered'
<1> SUFFICES ASSUME TypeOK, Past, StartedSince, Covered, [Next]_vars, lost' = {},
                    NEW t \in dark', NEW i \in DOMAIN rows', NEW j \in DOMAIN rows',
                    rows'[i].at <= t, t < rows'[j].at
             PROVE  \E iv \in AllIntervals' : iv.start <= t /\ t < iv.end
  BY DEF Covered
<1> AllIntervals' = PairsOf(rows') /\ AllIntervals = PairsOf(rows)
  BY TypeStep, IntervalsAreAdjacent DEF TypeOK
<1>0. /\ now \in Nat /\ stamp \in Nat /\ rows \in Seq(Row) /\ Len(rows) \in Nat
      /\ dark \subseteq Nat /\ DOMAIN rows = 1..Len(rows)
      /\ \A k \in DOMAIN rows : rows[k].at \in Nat
  BY Numbers
<1>1. lost = {}
  BY DEF Next, Tick, Boot, Stop, Record, FailToRecord, Crash, vars, history
<1>2. CASE rows' = rows
  <2>1. t \in dark
    <3>1. rows[j].at <= now
      BY <1>2 DEF Past
    <3>2. dark' \subseteq dark \union {now}
      BY DEF Next, Tick, Boot, Stop, Record, FailToRecord, Crash, vars, history
    <3> QED
      BY <1>0, <1>2, <3>1, <3>2
  <2> QED
    BY <1>1, <1>2, <2>1 DEF Covered
<1>3. CASE Record
  <2>1. PICK r \in Row :
          /\ rows' = Append(rows, r) /\ r.at = stamp
          /\ rows' \in Seq(Row) /\ Len(rows') = Len(rows) + 1
          /\ \A k \in 1..Len(rows) : rows'[k] = rows[k]
          /\ rows'[Len(rows) + 1] = r
          /\ \/ phase = "starting" /\ r.type = "startup"
             \/ phase = "stopping" /\ r.type = "shutdown"
          /\ UNCHANGED <<now, lost, served, dark>>
    BY <1>3, RecordFacts
  <2>2. t \in dark /\ t \in Nat
    BY <1>0, <2>1
  <2>3. PairsOf(rows) \subseteq PairsOf(rows')
    <3> SUFFICES ASSUME NEW k \in 1..(Len(rows) - 1), rows[k + 1].type = "startup"
                 PROVE  Interval(rows[k], rows[k + 1]) \in PairsOf(rows')
      BY DEF PairsOf
    <3>1. /\ k \in 1..(Len(rows') - 1)
          /\ rows'[k] = rows[k] /\ rows'[k + 1] = rows[k + 1]
      BY <1>0, <2>1
    <3> QED
      BY <3>1 DEF PairsOf
  <2>4. i \in 1..Len(rows)
    <3>1. i # Len(rows) + 1
      <4> SUFFICES ASSUME i = Len(rows) + 1 PROVE FALSE
        OBVIOUS
      <4>1. stamp <= t /\ t < rows'[j].at
        BY <2>1
      <4>2. CASE j = Len(rows) + 1
        BY <1>0, <2>1, <2>2, <4>1, <4>2
      <4>3. CASE j \in 1..Len(rows)
        BY <1>0, <1>3, <2>1, <2>2, <4>1, <4>3 DEF Past, Record
      <4> QED
        BY <1>0, <2>1, <4>2, <4>3
    <3> QED
      BY <1>0, <2>1, <3>1
  <2>5. Len(rows) \in 1..Len(rows) /\ rows'[i] = rows[i]
    BY <1>0, <2>1, <2>4
  <2>6. CASE j \in 1..Len(rows)
    BY <1>0, <1>1, <2>1, <2>2, <2>3, <2>4, <2>6 DEF Covered
  <2>7. CASE t < Last.at
    BY <1>0, <1>1, <2>1, <2>2, <2>3, <2>4, <2>5, <2>7 DEF Covered, Last
  <2>8. CASE j = Len(rows) + 1 /\ ~(t < Last.at)
    <3>1. phase = "starting" /\ r.type = "startup"
      BY <1>1, <2>1, <2>2, <2>8 DEF StartedSince
    <3>2. Interval(Last, r) \in PairsOf(rows')
      <4>1. /\ Len(rows) \in 1..(Len(rows') - 1)
            /\ rows'[Len(rows)] = Last /\ rows'[Len(rows) + 1].type = "startup"
        BY <1>0, <2>1, <2>5, <3>1 DEF Last
      <4> QED
        BY <2>1, <4>1 DEF PairsOf
    <3>3. Last.at <= t /\ t < r.at
      BY <1>0, <2>1, <2>2, <2>5, <2>8 DEF Last
    <3> QED
      BY <3>2, <3>3 DEF Interval
  <2> QED
    BY <1>0, <2>1, <2>6, <2>7, <2>8
<1>4. rows' = rows \/ Record
  BY DEF Next, Tick, Boot, Stop, FailToRecord, Crash, vars, history
<1> QED
  BY <1>2, <1>3, <1>4

LEMMA StepIInv == IInv /\ [Next]_vars => IInv'
  BY TypeStep, PastStep, QuietStep, OneLifeStep, StartedStep, ConfirmedStep, UncertainStep,
     CoveredStep DEF IInv

-----------------------------------------------------------------------------
(* The theorems.                                                            *)

\* The table and what is known of the time since its last row.
THEOREM Invariance == Spec => []IInv
  BY InitIInv, StepIInv, PTL DEF Spec

\* Type correctness: rows, clock, phase and history stay in their sets.
THEOREM TypeCorrect == Spec => []TypeOK
<1>1. IInv => TypeOK
  BY DEF IInv
<1> QED
  BY <1>1, Invariance, PTL

\* A CONFIRMED interval without a failed startup write in it is an outage:
\* the server served at no moment of it.
THEOREM ConfirmedIsOutage == Spec => []ConfirmedSound
<1>1. IInv => ConfirmedSound
  BY DEF IInv
<1> QED
  BY <1>1, Invariance, PTL

\* An UNCERTAIN interval without a failed startup write in it holds the life
\* of one process, and nothing served after it ended.
THEOREM UncertainIsOneLife == Spec => []UncertainSound
<1>1. IInv => UncertainSound
  BY DEF IInv
<1> QED
  BY <1>1, Invariance, PTL

\* As long as no startup write failed, every moment without a process between
\* two rows lies in an interval that the table gives evidence of.
THEOREM OutagesEvidenced == Spec => []OutageEvidenced
<1>1. IInv => OutageEvidenced
  BY DEF IInv, Covered, OutageEvidenced
<1> QED
  BY <1>1, Invariance, PTL

\* Two positions without a third between them.
LEMMA AdjacentPair ==
  ASSUME NEW T
  PROVE  /\ \A p \in Adjacent(T) : /\ p[1] \in T /\ p[2] \in T /\ p[1] < p[2]
                                   /\ ~\E k \in T : p[1] < k /\ k < p[2]
                                   /\ p = <<p[1], p[2]>>
         /\ \A a, b \in T : a < b /\ (~\E k \in T : a < k /\ k < b) => <<a, b>> \in Adjacent(T)
BY DEF Adjacent

\* Rows that are adjacent among those of a window are adjacent in the table,
\* and the rows of an interval that overlaps the window and is not longer than
\* the padding are among them.
LEMMA WindowOfTable ==
  ASSUME TypeOK, Past, NEW from \in Time, NEW to \in Time, from < to
  PROVE  /\ Intervals(Queried(from, to)) \subseteq AllIntervals
         /\ \A iv \in AllIntervals :
              Overlaps(iv, from, to) /\ iv.end <= iv.start + Pad
                => iv \in Intervals(Queried(from, to))
<1> DEFINE S == Queried(from, to)
           T == DOMAIN rows
           At(i) == rows[i].at
<1>0. /\ from \in Nat /\ to \in Nat /\ Pad \in Nat
      /\ T \subseteq Nat /\ \A i \in T : At(i) \in Nat
      /\ \A i, j \in T : i <= j => At(i) <= At(j)
  BY Numbers, BoundAssumption DEF Past
<1>s. S \subseteq T /\ \A i \in T : i \in S <=> from <= At(i) + Pad /\ At(i) <= to + Pad
  BY DEF Queried
<1>i. /\ Intervals(S) = {Interval(rows[p[1]], rows[p[2]]) :
                          p \in {q \in Adjacent(S) : rows[q[2]].type = "startup"}}
      /\ AllIntervals = {Interval(rows[p[1]], rows[p[2]]) :
                          p \in {q \in Adjacent(T) : rows[q[2]].type = "startup"}}
  BY DEF Intervals, AllIntervals
<1>e. \A i, j : Interval(rows[i], rows[j]).start = At(i) /\ Interval(rows[i], rows[j]).end = At(j)
  BY DEF Interval
<1> HIDE DEF S, T, At
<1>1. ASSUME NEW p \in Adjacent(S) PROVE p \in Adjacent(T)
  <2>1. PICK a \in S, b \in S : /\ p = <<a, b>> /\ a < b /\ ~\E k \in S : a < k /\ k < b
    BY AdjacentPair
  <2>2. /\ a \in T /\ b \in T /\ a \in Nat /\ b \in Nat
        /\ from <= At(a) + Pad /\ At(b) <= to + Pad
    BY <1>0, <1>s
  <2>3. ASSUME NEW k \in T, a < k, k < b PROVE FALSE
    <3>1. At(a) <= At(k) /\ At(k) <= At(b) /\ At(a) \in Nat /\ At(k) \in Nat /\ At(b) \in Nat
      BY <1>0, <2>2, <2>3
    <3>2. from <= At(k) + Pad /\ At(k) <= to + Pad
      BY <1>0, <2>2, <3>1
    <3> QED
      BY <1>s, <2>1, <2>3, <3>2
  <2> QED
    BY <2>1, <2>2, <2>3, AdjacentPair
<1>2. Intervals(S) \subseteq AllIntervals
  BY <1>1, <1>i
<1>3. ASSUME NEW iv \in AllIntervals, Overlaps(iv, from, to), iv.end <= iv.start + Pad
      PROVE  iv \in Intervals(S)
  <2>1. PICK p \in Adjacent(T) :
          rows[p[2]].type = "startup" /\ iv = Interval(rows[p[1]], rows[p[2]])
    BY <1>i
  <2>2. PICK a \in T, b \in T : /\ p = <<a, b>> /\ a < b /\ ~\E k \in T : a < k /\ k < b
    BY AdjacentPair
  <2>3. At(a) \in Nat /\ At(b) \in Nat
    BY <1>0
  <2>4. At(a) < to /\ At(b) > from /\ At(b) <= At(a) + Pad
    BY <1>3, <1>e, <2>1, <2>2 DEF Overlaps
  <2>5. from <= At(a) + Pad /\ At(a) <= to + Pad /\ from <= At(b) + Pad /\ At(b) <= to + Pad
    BY <1>0, <2>3, <2>4
  <2>6. a \in S /\ b \in S
    BY <1>s, <2>5
  <2>7. p \in Adjacent(S)
    BY <1>s, <2>2, <2>6, AdjacentPair
  <2> QED
    BY <1>i, <2>1, <2>7
<1> QED
  BY <1>2, <1>3 DEF S

\* Cutting the table at the padded window neither makes up an interval nor
\* loses one that is not longer than the padding, for any window and padding.
THEOREM WindowsFaithful == Spec => []WindowFaithful
<1>1. IInv => WindowFaithful
  <2> SUFFICES ASSUME IInv, NEW w \in Window
               PROVE  LET overlapping == {iv \in AllIntervals : Overlaps(iv, w[1], w[2])}
                      IN  /\ Evidence(w[1], w[2]) \subseteq overlapping
                          /\ \A iv \in overlapping :
                               iv.end <= iv.start + Pad => iv \in Evidence(w[1], w[2])
    BY DEF WindowFaithful
  <2>1. w[1] \in Time /\ w[2] \in Time /\ w[1] < w[2]
    BY DEF Window
  <2>2. /\ Intervals(Queried(w[1], w[2])) \subseteq AllIntervals
        /\ \A iv \in AllIntervals :
             Overlaps(iv, w[1], w[2]) /\ iv.end <= iv.start + Pad
               => iv \in Intervals(Queried(w[1], w[2]))
    BY <2>1, WindowOfTable DEF IInv
  <2> QED
    BY <2>2 DEF Evidence
<1> QED
  BY <1>1, Invariance, PTL

=============================================================================
