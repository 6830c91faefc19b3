--------------------------- MODULE ServerLifecycle ---------------------------
(***************************************************************************)
(* The server's evidence about itself (lifespan in main.py and              *)
(* server_lifecycle_service): a row when the process starts, a row when it  *)
(* stops cleanly, nothing when it crashes or when the write fails; and the  *)
(* outage intervals get_outage_evidence derives from adjacent rows, which   *)
(* agent_evidence_service turns into the reason of a monitoring gap.        *)
(*                                                                          *)
(* Time is a clock of ticks that never steps back.  Processes start, stop   *)
(* and crash at the ticks; served and dark remember what really happened    *)
(* from each tick to the next.  There is one process at a time.             *)
(***************************************************************************)
EXTENDS Naturals, Sequences

CONSTANTS
  Pad,              \* _LOOKAROUND_PAD, in ticks
  MaxTime,          \* bound: the last tick
  MaxRows,          \* bound: how many rows are written
  MaxFault          \* bound: how many writes fail

ASSUME BoundAssumption ==
  Pad \in Nat /\ MaxTime \in Nat /\ MaxRows \in Nat /\ MaxFault \in Nat

VARIABLES
  now,              \* the clock
  phase,            \* what the process is doing; "down" when there is none
  stamp,            \* occurred_at of the row it is writing; 0 otherwise
  rows,             \* table server_lifecycle_events, in the order of its ids
  faults,           \* how many writes failed
  lost,             \* the occurred_at of the startup rows that failed (history)
  served,           \* t: the process was serving from t to t + 1 (history)
  dark              \* t: there was no process from t to t + 1 (history)

history == <<lost, served, dark>>
vars == <<now, phase, stamp, rows, faults, history>>

Time == 0..MaxTime
Row == [type : {"startup", "shutdown"}, at : Time]

TypeOK ==
  /\ now \in Time
  /\ phase \in {"down", "starting", "serving", "stopping"}
  /\ stamp \in Time
  /\ rows \in Seq(Row)
  /\ faults \in 0..MaxFault
  /\ lost \subseteq Time
  /\ served \subseteq Time
  /\ dark \subseteq Time

Init ==
  /\ now = 0
  /\ phase = "down"
  /\ stamp = 0
  /\ rows = <<>>
  /\ faults = 0
  /\ lost = {} /\ served = {} /\ dark = {}

-----------------------------------------------------------------------------
(* The process.                                                             *)

Tick ==
  /\ now < MaxTime
  /\ now' = now + 1
  /\ served' = IF phase = "serving" THEN served \union {now} ELSE served
  /\ dark' = IF phase = "down" THEN dark \union {now} ELSE dark
  /\ UNCHANGED <<phase, stamp, rows, faults, lost>>

\* lifespan before its yield: record_startup stamps the row, then commits it.
Boot ==
  /\ phase = "down"
  /\ Len(rows) < MaxRows
  /\ phase' = "starting"
  /\ stamp' = now
  /\ UNCHANGED <<now, rows, faults, history>>

\* lifespan after its yield: record_shutdown does the same.
Stop ==
  /\ phase = "serving"
  /\ Len(rows) < MaxRows
  /\ phase' = "stopping"
  /\ stamp' = now
  /\ UNCHANGED <<now, rows, faults, history>>

Writing == phase \in {"starting", "stopping"}
Resume ==
  /\ phase' = IF phase = "starting" THEN "serving" ELSE "down"
  /\ stamp' = 0

\* Faulty: the row is typed by what the process is doing.
FaultyRecord ==
  /\ Writing
  /\ rows' = Append(rows, [type |-> phase, at |-> stamp])
  /\ Resume
  /\ UNCHANGED <<now, faults, history>>

\* _safe_record: the row is committed.
Record ==
  /\ Writing
  /\ rows' = Append(rows, [type |-> IF phase = "starting" THEN "startup" ELSE "shutdown",
                           at |-> stamp])
  /\ Resume
  /\ UNCHANGED <<now, faults, history>>

\* _safe_record swallows the exception: the server goes on without the row.
FailToRecord ==
  /\ Writing
  /\ faults < MaxFault
  /\ faults' = faults + 1
  /\ lost' = IF phase = "starting" THEN lost \union {stamp} ELSE lost
  /\ Resume
  /\ UNCHANGED <<now, rows, served, dark>>

\* A crash, SIGKILL or power loss, at any point.
Crash ==
  /\ phase # "down"
  /\ phase' = "down"
  /\ stamp' = 0
  /\ UNCHANGED <<now, rows, faults, history>>

Next == Tick \/ Boot \/ Stop \/ Record \/ FailToRecord \/ Crash

Spec == Init /\ [][Next]_vars

-----------------------------------------------------------------------------
(* get_outage_evidence, and its use by get_reason_evidence.                 *)

Confidence(before, after) ==
  IF before.type = "shutdown" THEN "CONFIRMED" ELSE "UNCERTAIN"

Interval(before, after) ==
  [start |-> before.at, end |-> after.at, confidence |-> Confidence(before, after)]

\* The rows are in the order of occurred_at, id: the clock never steps back, so
\* it is the order in which they were written.  Events are positions in it.
Adjacent(events) ==
  {p \in events \X events : p[1] < p[2] /\ ~\E k \in events : p[1] < k /\ k < p[2]}

\* Faulty: any later startup ends an interval.
FaultyIntervals(events) ==
  {Interval(rows[p[1]], rows[p[2]]) :
     p \in {q \in events \X events : q[1] < q[2] /\ rows[q[2]].type = "startup"}}

\* Faulty: a startup that follows a startup is no evidence.
FaultyUncertain(events) ==
  {Interval(rows[p[1]], rows[p[2]]) :
     p \in {q \in Adjacent(events) :
            rows[q[1]].type = "shutdown" /\ rows[q[2]].type = "startup"}}

\* A row, whatever its type, and the startup right after it bound an interval.
Intervals(events) ==
  {Interval(rows[p[1]], rows[p[2]]) :
     p \in {q \in Adjacent(events) : rows[q[2]].type = "startup"}}

Overlaps(iv, from, to) == iv.start < to /\ iv.end > from

\* Faulty: looks inside the window only.
FaultyQueried(from, to) ==
  {i \in DOMAIN rows : from <= rows[i].at /\ rows[i].at <= to}

\* The rows of the padded window.
Queried(from, to) ==
  {i \in DOMAIN rows : from <= rows[i].at + Pad /\ rows[i].at <= to + Pad}

Evidence(from, to) ==
  {iv \in Intervals(Queried(from, to)) : Overlaps(iv, from, to)}

\* A gap that runs from one tick to the other is given the reason
\* SERVER_UNAVAILABLE, whatever the confidence of the evidence.
Blamed(from, to) == Evidence(from, to) # {}

Window == {w \in Time \X Time : w[1] < w[2]}

-----------------------------------------------------------------------------
(* Properties.                                                              *)

\* What the whole table says.
AllIntervals == Intervals(DOMAIN rows)

\* During a CONFIRMED interval the server served at no moment, whatever
\* crashes and failed shutdown writes came before it, unless the write of a
\* startup failed inside it.
ConfirmedSound ==
  \A iv \in AllIntervals :
    /\ iv.confidence = "CONFIRMED"
    /\ \A t \in lost : ~(iv.start <= t /\ t <= iv.end)
    => \A t \in served : ~(iv.start <= t /\ t < iv.end)

\* An UNCERTAIN interval holds the life of one process and what followed it:
\* once the server is gone inside it, it stays gone until the interval's end.
UncertainSound ==
  \A iv \in AllIntervals :
    /\ iv.confidence = "UNCERTAIN"
    /\ \A t \in lost : ~(iv.start <= t /\ t <= iv.end)
    => \A t, u \in served :
         iv.start <= t /\ t < u /\ u < iv.end => \A v \in t..u : v \in served

\* As long as no startup write failed, every moment without a process between
\* two recorded startups lies in an interval: no outage between them goes
\* without evidence.
OutageEvidenced ==
  lost = {} =>
    \A t \in dark : \A i, j \in DOMAIN rows :
      rows[i].at <= t /\ t < rows[j].at /\ rows[j].type = "startup" =>
        \E iv \in AllIntervals : iv.start <= t /\ t < iv.end

\* Cutting the table at the padded window neither makes up an interval, by
\* bringing rows together that are not adjacent, nor loses one that is not
\* longer than the padding.
WindowFaithful ==
  \A w \in Window :
    LET overlapping == {iv \in AllIntervals : Overlaps(iv, w[1], w[2])} IN
    /\ Evidence(w[1], w[2]) \subseteq overlapping
    /\ \A iv \in overlapping : iv.end <= iv.start + Pad => iv \in Evidence(w[1], w[2])

\* What the docstring of the module says an UNCERTAIN interval must never be
\* reported as, an outage of that time: a gap throughout which the server
\* served, as far as the rows of a log without failed writes tell, is not
\* blamed on the server.
NotBlamedWhileServing ==
  faults = 0 =>
    \A w \in Window : (\A t \in w[1]..(w[2] - 1) : t \in served) => ~Blamed(w[1], w[2])

-----------------------------------------------------------------------------
(* What the proofs need besides.                                            *)

\* What is remembered is past, the rows are in the order of their times, and
\* the row being written is the latest.
Past ==
  /\ \A t \in served \union dark : t < now
  /\ \A t \in lost : t <= now
  /\ \A i \in DOMAIN rows : rows[i].at <= now
  /\ \A i, j \in DOMAIN rows : i <= j => rows[i].at <= rows[j].at
  /\ Writing =>
       /\ stamp <= now
       /\ \A t \in lost : t <= stamp
       /\ \A i \in DOMAIN rows : rows[i].at <= stamp
       /\ \A t \in served : t < stamp

\* No startup write failed at tick from or later.
NoneLostSince(from) == \A t \in lost : t < from

Last == rows[Len(rows)]

\* Since a shutdown, nothing was served.
QuietSinceShutdown ==
  Len(rows) > 0 /\ Last.type = "shutdown" /\ NoneLostSince(Last.at) =>
    /\ phase \in {"down", "starting"}
    /\ \A t \in served : t < Last.at

\* Since a startup, one process served, and if it lives it serves still.
OneLifeSinceStartup ==
  Len(rows) > 0 /\ Last.type = "startup" /\ NoneLostSince(Last.at) =>
    \A t \in served : Last.at <= t =>
      /\ \A u \in served : t < u => \A v \in t..u : v \in served
      /\ phase = "serving" => \A v \in t..(now - 1) : v \in served

\* A process has started after every moment without one; once it serves, its
\* startup row lies between, unless that row was lost.
StartedSince ==
  /\ phase = "starting" => \A t \in dark : t < stamp
  /\ phase \in {"serving", "stopping"} /\ lost = {} =>
       Len(rows) > 0 /\ \A t \in dark : t < Last.at

\* An outage between two rows of any type has evidence.
Covered ==
  lost = {} =>
    \A t \in dark : \A i, j \in DOMAIN rows :
      rows[i].at <= t /\ t < rows[j].at =>
        \E iv \in AllIntervals : iv.start <= t /\ t < iv.end

IInv == /\ TypeOK /\ Past /\ QuietSinceShutdown /\ OneLifeSinceStartup /\ StartedSince
        /\ ConfirmedSound /\ UncertainSound /\ Covered

=============================================================================
