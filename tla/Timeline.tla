------------------------------- MODULE Timeline -------------------------------
(***************************************************************************)
(* TimelineService.build and the day view made of it: heartbeats, sessions  *)
(* and idle events become one partition of time into ACTIVE, IDLE,          *)
(* MONITORING_GAP and OFF_SESSION, and NO_SESSION between the sessions.     *)
(*                                                                          *)
(* Nothing is stored: every request computes a view from what the tables    *)
(* hold then.  Tables hold wall-clock times of the endpoint without a zone; *)
(* the services compute with instants, Offset behind.  The views of one     *)
(* device are modelled; the uploads that fill the tables are AgentSync's.   *)
(* Here an upload is any version of a report, in any order.                 *)
(***************************************************************************)
EXTENDS MonitoringWindow, WorkSession

CONSTANTS
  Padding,          \* PADDING, in ticks
  Offset,           \* the zone of the endpoint: wall clock minus instant
  Day,              \* the length of a day
  SessionReport,    \* SessionReport[s]: [login, logout] versions of session s
  IdleReport,       \* IdleReport[i]: [session, start, end] versions of idle i
  MaxTime,          \* bound: the last instant
  Null              \* NULL

ASSUME TimeAssumption ==
  /\ Padding \in Nat /\ Offset \in Int /\ Day \in Nat \ {0} /\ MaxTime \in Nat
  /\ Null \notin Int

ASSUME ReportAssumption ==
  /\ \A s \in DOMAIN SessionReport :
       SessionReport[s] \subseteq [login : Int, logout : Int \union {Null}] \ {Null}
  /\ \A i \in DOMAIN IdleReport :
       IdleReport[i] \subseteq [session : DOMAIN SessionReport, start : Int, end : Int \union {Null}]

\* PADDING is "comfortably larger" than what a classification has to resolve.
ASSUME PaddingAssumption == Padding >= Threshold + Sustained

VARIABLES
  now,              \* the instant
  beats,            \* table device_heartbeats: wall-clock times
  sessions,         \* sessions[s]: row of s, or Null
  idles             \* idles[i]: row of i, or Null

vars == <<now, beats, sessions, idles>>

SessionId == DOMAIN SessionReport
IdleId == DOMAIN IdleReport
Known == {s \in SessionId : sessions[s] # Null}

\* datetime.now() of a process in the endpoint's zone.
Wall(t) == t + Offset

\* _normalize_local: the instant of a wall-clock time.
NormalizeLocal(time) == time - Offset

\* _normalize: takes a time without a zone for UTC.
Normalize(time) == time

-----------------------------------------------------------------------------
(* What fills the tables. *)

\* A time that has come, or none.
Past(time) == time # Null => time <= Wall(now)

Init ==
  /\ now = 0
  /\ beats = {}
  /\ sessions = [s \in SessionId |-> Null]
  /\ idles = [i \in IdleId |-> Null]

Tick ==
  /\ now < MaxTime
  /\ now' = now + 1
  /\ UNCHANGED <<beats, sessions, idles>>

\* create_heartbeat
Heartbeat ==
  /\ beats' = beats \union {Wall(now)}
  /\ UNCHANGED <<now, sessions, idles>>

ReportSession(s) ==
  \E report \in SessionReport[s] :
    /\ Past(report.login) /\ Past(report.logout)
    /\ sessions' = [sessions EXCEPT ![s] = report]
    /\ UNCHANGED <<now, beats, idles>>

ReportIdle(i) ==
  \E report \in IdleReport[i] :
    /\ report.session \in Known
    /\ Past(report.start) /\ Past(report.end)
    /\ idles' = [idles EXCEPT ![i] = report]
    /\ UNCHANGED <<now, beats, sessions>>

Next ==
  \/ Tick
  \/ Heartbeat
  \/ \E s \in SessionId : ReportSession(s)
  \/ \E i \in IdleId : ReportIdle(i)

Spec == Init /\ [][Next]_vars

-----------------------------------------------------------------------------
(* TimelineService.build *)

Until(time) == IF time = Null THEN now ELSE NormalizeLocal(time)

\* session_start and session_end
Life(s) ==
  [start |-> NormalizeLocal(sessions[s].login), end |-> Until(sessions[s].logout)]

Empty(window) == window.end <= window.start

Meet(a, b) == [start |-> Max({a.start, b.start}), end |-> Min({a.end, b.end})]

\* Faulty: classifies what is displayed and no more.
FaultyPadded(shown, life) == shown

\* eval_start and eval_end
Padded(shown, life) ==
  Meet(life, [start |-> shown.start - Padding, end |-> shown.end + Padding])

\* Heartbeats and idle events of a session, as instants.
Beats == {NormalizeLocal(b) : b \in beats}
Idles(s) ==
  {[start |-> NormalizeLocal(idles[i].start), end |-> Until(idles[i].end)] :
     i \in {j \in IdleId : idles[j] # Null /\ idles[j].session = s}}

\* A monitored run is cut where idle events start and end; gaps stay whole.
Split(span, pauses) ==
  LET edges == {p.start : p \in pauses} \union {p.end : p \in pauses}
      cuts == {span.start, span.end} \union {t \in edges : Within(t, span)}
      Presence(t) == IF \E p \in pauses : Within(t, p) THEN "IDLE" ELSE "ACTIVE"
  IN IF span.kind # "monitored" THEN {span}
     ELSE Coalesce({Span(p.start, p.end, Presence(p.start)) : p \in Pieces(cuts)})

Classified(window) == Classify(Segments(Beats, window.start, window.end))

Build(s, window) ==
  LET shown == Meet(window, Life(s))
      runs == Classified(Padded(shown, Life(s)))
  IN IF Empty(Life(s)) \/ Empty(shown)
     THEN {}
     ELSE Clip(UNION {Split(run, Idles(s)) : run \in runs}, shown.start, shown.end)

-----------------------------------------------------------------------------
(* GET /api/device/{id}/timeline *)

\* [day_start_utc, effective_end)
DayWindow(d) ==
  [start |-> NormalizeLocal(d * Day), end |-> Min({NormalizeLocal((d + 1) * Day), now})]

SessionsOf(d) ==
  {s \in Known : /\ sessions[s].login < (d + 1) * Day
                 /\ sessions[s].logout = Null \/ sessions[s].logout >= d * Day}

\* Spans with what they belong to, which tells equal ones apart.
Owned(owner, spans) ==
  {[owner |-> owner, start |-> s.start, end |-> s.end, kind |-> s.kind] : s \in spans}

\* The end of what is in the view so far.
Cursor(window, spans) == Max({window.start} \union {s.end : s \in spans})

Closed(cursor, end) == IF cursor < end THEN Owned(Null, {Span(cursor, end, "NO_SESSION")}) ELSE {}

\* Faulty: leaves the time before a session out.
FaultyExtended(cursor, s, spans) == Owned(s, spans)

\* A session's spans, after the time without one.
Extended(cursor, s, spans) ==
  IF spans = {} THEN {} ELSE Closed(cursor, Min({r.start : r \in spans})) \union Owned(s, spans)

\* _build_day_timeline: session after session, and what is left of the day.
DayTimeline(d) ==
  LET window == DayWindow(d)
      built == [s \in SessionsOf(d) |-> Build(s, window)]
      Before(s) == {r \in SessionsOf(d) : sessions[r].login < sessions[s].login}
      After(S) == Cursor(window, UNION {built[r] : r \in S})
  IN IF Empty(window) THEN {}
     ELSE (UNION {Extended(After(Before(s)), s, built[s]) : s \in SessionsOf(d)})
            \union Closed(After(SessionsOf(d)), window.end)

\* device_timeline for a session: all of its life.
SessionTimeline(s) ==
  LET spans == Build(s, Life(s))
      from == Normalize(sessions[s].login)
  IN [start |-> from,
      end |-> IF sessions[s].logout # Null THEN Normalize(sessions[s].logout)
              ELSE IF spans # {} THEN Max({r.end : r \in spans}) ELSE from,
      spans |-> spans]

-----------------------------------------------------------------------------
(* Properties *)

\* Tables hold wall-clock times, and none of them, its zone taken off, lies ahead
\* (_normalize_local: the times the agents report are their endpoint's own).
TypeOK ==
  /\ now \in 0..MaxTime
  /\ \A b \in beats : b \in Int /\ NormalizeLocal(b) <= now
  /\ sessions \in [SessionId -> [login : Int, logout : Int \union {Null}] \union {Null}]
  /\ \A s \in Known : Life(s).start <= now /\ Life(s).end <= now
  /\ idles \in [IdleId -> [session : SessionId, start : Int, end : Int \union {Null}] \union {Null}]
  /\ \A i \in IdleId : idles[i] # Null => idles[i].session \in Known
  /\ \A s \in Known : \A pause \in Idles(s) : pause.start <= now /\ pause.end <= now

Days == 0..(Wall(MaxTime) \div Day)

Present == {"ACTIVE", "IDLE"}

\* A heartbeat is no later than the start of the session.
HeardBefore(s) == \E b \in Beats : b <= Life(s).start

\* What a session shows for a window is a partition of it: no instant is missing
\* and none is counted twice (TimelineService: "ordered, contiguous partition").
Partitioned ==
  \A s \in Known : \A d \in Days :
    LET shown == Meet(DayWindow(d), Life(s))
    IN Partition(Build(s, DayWindow(d)), shown.start, shown.end)

\* The day view of sessions that do not overlap covers the day up to now without
\* a hole or an overlap (_build_day_timeline: "a contiguous 24h"), and says NO_SESSION
\* where there was none.
DayCovered ==
  (\A r, s \in Known : r # s => Empty(Meet(Life(r), Life(s)))) =>
    \A d \in Days :
      /\ Partition(DayTimeline(d), DayWindow(d).start, DayWindow(d).end)
      /\ \A row \in DayTimeline(d) : row.kind = "NO_SESSION" <=>
           \A s \in Known : Empty(Meet(Life(s), row))

\* In a session's own view an instant counts as present iff it lies between two
\* cuts (heartbeats, the ends of the session) that are far enough apart and can
\* be reached from each other in hops no longer than the threshold; it is IDLE
\* iff an idle event holds it; and what is not present is OFF_SESSION iff the
\* whole absence is longer than the ceiling and does not fill the session
\* (MonitoringWindowService and WorkSessionClassifier, said without segments).
MatchesReference ==
  \A s \in Known :
    LET life == Life(s)
        ends == life.start..life.end
        cuts == {b \in Beats : life.start <= b /\ b <= life.end} \union {life.start, life.end}
        Chained(p) == \A c \in cuts : Within(c, p) =>
                        \E e \in cuts : c < e /\ e <= c + Threshold
        Covered(stretches) == UNION {p.start..(p.end - 1) : p \in stretches}
        seen == Covered({p \in [start : cuts, end : cuts] :
                           Length(p) >= Sustained /\ Chained(p)})
        off == Covered({p \in [start : ends, end : ends] :
                          Length(p) > Ceiling /\ (p.start..(p.end - 1)) \cap seen = {}})
        idle == {t \in life.start..life.end : \E pause \in Idles(s) : Within(t, pause)}
        spans == Build(s, life)
    IN Beats \cap ends # {} =>
         \A t \in life.start..(life.end - 1) :
           /\ t \in seen \ idle <=> KindsAt(spans, t) = {"ACTIVE"}
           /\ t \in seen \cap idle <=> KindsAt(spans, t) = {"IDLE"}
           /\ t \in off /\ seen # {} <=> KindsAt(spans, t) = {"OFF_SESSION"}

\* Whether the user was present at an instant, and idle or active, does not depend
\* on the window one looks through: a day shows what the whole session shows, if
\* the device was heard of before (TimelineService: "structurally impossible" to disagree).
PresenceAgrees ==
  \A s \in Known : \A d \in Days :
    HeardBefore(s) =>
      LET whole == Build(s, Life(s))
          day == Build(s, DayWindow(d))
      IN \A run \in day : \A t \in run.start..(run.end - 1) :
           KindsAt(day, t) \cap Present = KindsAt(whole, t) \cap Present

\* A silence longer than the ceiling that was shown as OFF_SESSION after a
\* confirmed run, at whatever earlier instant one looked, is OFF_SESSION for
\* good: no heartbeat since then has turned it into presence or a monitoring gap
\* (WorkSessionClassifier: "even before the other side is known").
OffSessionIsFinal ==
  \A s \in Known : \A then \in Life(s).start..Life(s).end :
    LET start == Life(s).start
        raw == Segments({b \in Beats : b <= then}, start, then)
        old == Classify(raw)
        new == Classified(Life(s))
    IN \A gap \in raw :
         /\ gap.kind = "gap" /\ Length(gap) > Ceiling
         /\ \E run \in old : run.kind = "monitored" /\ run.end <= gap.start
         => \A t \in gap.start..(gap.end - 1) : KindsAt(new, t) = {"OFF_SESSION"}

\* The window of a session's timeline holds its segments (_normalize_local: to
\* take a local time for UTC "would silently shift a session's own boundaries").
WindowHoldsSegments ==
  \A s \in Known :
    LET view == SessionTimeline(s)
    IN \A r \in view.spans : view.start <= r.start /\ r.end <= view.end

=============================================================================
