------------------------------- MODULE Reports -------------------------------
(***************************************************************************)
(* What is summed up over the spans of Timeline: the productivity of the    *)
(* current session, the reports of days, weeks and months per user, and the *)
(* time of applications in both and on the page of a day.                   *)
(*                                                                          *)
(* Durations are whole seconds, cut off at each piece; Second ticks make    *)
(* one.  Calendar months are the days on which they start.                  *)
(***************************************************************************)
EXTENDS Timeline, Functions

CONSTANTS
  AppReport,        \* AppReport[a]: [session, name, start, end] versions of use a
  User,             \* User[s]: the user name of session s
  Second,           \* ticks in a second
  Week,             \* days in a week
  MonthStart        \* the days on which a month starts

ASSUME ReportsAssumption ==
  /\ Second \in Nat \ {0} /\ Week \in Nat \ {0} /\ MonthStart \subseteq Int
  /\ IsFiniteSet(SessionId)

VARIABLE apps       \* apps[a]: row of a in table applications, or Null

reportsVars == <<vars, apps>>

AppId == DOMAIN AppReport
Names == UNION {{report.name : report \in AppReport[a]} : a \in AppId}
Users == {User[s] : s \in SessionId}

ASSUME UseAssumption ==
  /\ IsFiniteSet(AppId) /\ IsFiniteSet(Names)
  /\ \A a \in AppId :
       AppReport[a] \subseteq
         [session : SessionId, name : Names, start : Int, end : Int \union {Null}] \ {Null}

\* A month has started on every day of the model, and another starts after it.
ASSUME MonthAssumption ==
  \A d \in Days :
    (\E m \in MonthStart : m <= d) /\ (\E n \in MonthStart : n > d)

ReportsInit == Init /\ apps = [a \in AppId |-> Null]

\* AgentApplicationService.sync
ReportApp(a) ==
  \E report \in AppReport[a] :
    /\ report.session \in Known
    /\ Past(report.start) /\ Past(report.end)
    /\ apps' = [apps EXCEPT ![a] = report]
    /\ UNCHANGED vars

ReportsNext ==
  \/ Next /\ UNCHANGED apps
  \/ \E a \in AppId : ReportApp(a)

ReportsSpec == ReportsInit /\ [][ReportsNext]_reportsVars

-----------------------------------------------------------------------------
(* TimelineService.totals_by_type and overlap_seconds_by_type *)

\* Faulty: rounds up.
FaultySeconds(span) == (Length(span) + Second - 1) \div Second

\* duration_seconds: the whole seconds of a span.
Seconds(span) == Length(span) \div Second

Total(spans, kinds) == SumFunction([s \in {r \in spans : r.kind \in kinds} |-> Seconds(s)])

Totals(spans) ==
  [active |-> Total(spans, {"ACTIVE"}), idle |-> Total(spans, {"IDLE"}),
   gap |-> Total(spans, {"MONITORING_GAP"}), off |-> Total(spans, {"OFF_SESSION"})]

\* working_seconds
Working(row) == row.active + row.idle

\* Faulty: counts the whole use.
FaultyOverlap(spans, window) == {Span(window.start, window.end, "ACTIVE")}

Overlap(spans, window) == Clip(spans, window.start, window.end)

\* What is read of the overlaps: elapsed, less idle, and idle.
Usage(spans) == [active |-> Total(spans, {"ACTIVE"}), idle |-> Total(spans, {"IDLE"})]

\* app_start and app_end
Use(a) == [start |-> NormalizeLocal(apps[a].start), end |-> Until(apps[a].end)]

Uses(s, name) ==
  {a \in AppId : apps[a] # Null /\ apps[a].session = s /\ apps[a].name = name}

-----------------------------------------------------------------------------
(* ProductivityService.get_productivity *)

Open == {s \in Known : sessions[s].logout = Null}

\* The open session with the latest login.
Current == CHOOSE s \in Open : \A r \in Open : sessions[r].login <= sessions[s].login

\* Of the current session, while there is one.
Productivity ==
  LET spans == Build(Current, Life(Current))
  IN [time |-> Totals(spans),
      applications |->
        [name \in Names |->
           Usage(UNION {Owned(a, Overlap(spans, Use(a))) : a \in Uses(Current, name)})]]

-----------------------------------------------------------------------------
(* ProductivityReportService *)

Period(first, next) == [first |-> first, next |-> next]

Daily(first, last) == {Period(d, d + 1) : d \in first..last}

\* Weeks of the range, counted from its first day.
Weekly(first, last) ==
  {Period(d, d + Week) : d \in {e \in first..last : (e - first) % Week = 0}}

\* Whole calendar months, from the one of the first day.
Monthly(first, last) ==
  LET start == Max({m \in MonthStart : m <= first})
  IN {Period(m, Min({n \in MonthStart : n > m})) : m \in MonthStart \cap start..last}

\* Faulty: takes midnight for an instant.
FaultyPeriodWindow(p) ==
  [start |-> Normalize(p.first * Day), end |-> Normalize(p.next * Day)]

PeriodWindow(p) ==
  [start |-> NormalizeLocal(p.first * Day), end |-> NormalizeLocal(p.next * Day)]

\* The part of a session in a period: overlap_start and overlap_end.
Shown(s, p) == Meet(Life(s), PeriodWindow(p))

\* The sessions in the report of a period and a user.
Reported(p, u) == {s \in Known : User[s] = u /\ ~Empty(Shown(s, p))}

\* What a use adds to a report: its overlap with the part of its session.
Counted(a, s, p) == Owned(a, Overlap(Build(s, Shown(s, p)), Meet(Use(a), Shown(s, p))))

\* get_reports, of one user.
Report(p, u) ==
  [time |-> Totals(UNION {Owned(s, Build(s, Shown(s, p))) : s \in Reported(p, u)}),
   applications |->
     [name \in Names |->
        Usage(UNION {UNION {Counted(a, s, p) : a \in Uses(s, name)} : s \in Reported(p, u)})]]

-----------------------------------------------------------------------------
(* GET /api/device/{id}/applications *)

Attributable(span) == span.kind \in Present

\* What a use adds to its application's row.
DayUse(a, spans) == Owned(a, Clip({s \in spans : Attributable(s)}, Use(a).start, Use(a).end))

\* _build_day_application_summary, the row of one application: active if the span
\* is, else idle.
DayUsage(d, name) ==
  LET shown == IF Empty(DayWindow(d)) THEN {} ELSE SessionsOf(d)
      spans == UNION {UNION {DayUse(a, Build(s, DayWindow(d))) : a \in Uses(s, name)} : s \in shown}
  IN [active |-> Total(spans, {"ACTIVE"}),
      idle |-> Total(spans, {"IDLE", "MONITORING_GAP", "OFF_SESSION"})]

-----------------------------------------------------------------------------
(* Properties *)

\* What is lost when pieces of time are each cut off to whole seconds.
CutOff(ticks, seconds, pieces) == ticks - Second * seconds \in 0..(pieces * (Second - 1))

Ticks(spans) == SumFunction([s \in spans |-> Length(s)])

AllPeriods == UNION {Daily(first, last) \union Weekly(first, last) \union Monthly(first, last) :
                       first \in Days, last \in Days}

\* The periods of a report hold every day asked for, and none twice.
PeriodsTile ==
  \A first \in Days : \A last \in first..Max(Days) :
    \A periods \in {Daily(first, last), Weekly(first, last), Monthly(first, last)} :
      \A d \in first..last : \E p \in periods :
        /\ p.first <= d /\ d < p.next
        /\ \A q \in periods \ {p} : q.next <= p.first \/ p.next <= q.first

\* The periods of a report hold each day asked for once, and the work in each is
\* the presence that the whole session's view shows in that period, less a part of
\* a second per piece: what days, weeks and months say adds up.
ReportsAddUp ==
  /\ PeriodsTile
  /\ \A s \in {r \in Known : HeardBefore(r)} :
       LET whole == {r \in Build(s, Life(s)) : Attributable(r)}
       IN \A p \in {q \in AllPeriods : Reported(q, User[s]) = {s}} :
            LET seen == Clip(whole, Shown(s, p).start, Shown(s, p).end)
            IN CutOff(Ticks(seen), Working(Report(p, User[s]).time), Cardinality(seen))

SumOver(S, F(_)) == SumFunction([x \in S |-> F(x)])

\* The timeline of a day, the report of the day and the page of its applications
\* say the same to the second, for every user and application (TimelineService:
\* deriving all figures from build() "guarantees they can't disagree").
DayAgrees ==
  \A d \in Days :
    LET p == Period(d, d + 1)
        day == Totals(DayTimeline(d))
    IN /\ \A kind \in DOMAIN day : day[kind] = SumOver(Users, LAMBDA u : Report(p, u).time[kind])
       /\ \A name \in Names :
            LET page == DayUsage(d, name)
            IN \A kind \in DOMAIN page :
                 page[kind] = SumOver(Users, LAMBDA u : Report(p, u).applications[name][kind])

UsesDisjoint(s) ==
  LET mine == UNION {Uses(s, name) : name \in Names}
  IN \A a, b \in mine : a # b => Empty(Meet(Use(a), Use(b)))

WithinTime(used, time) ==
  \A kind \in {"active", "idle"} : SumOver(DOMAIN used, LAMBDA name : used[name][kind]) <= time[kind]

\* Uses of applications that do not overlap never add up to more than the session
\* they belong to, neither in productivity nor in the report of a day.
UsageWithinWork ==
  /\ Open # {} /\ UsesDisjoint(Current) =>
       WithinTime(Productivity.applications, Productivity.time)
  /\ (\A s \in Known : UsesDisjoint(s)) =>
       \A d \in Days : \A u \in Users :
         LET report == Report(Period(d, d + 1), u)
         IN WithinTime(report.applications, report.time)

=============================================================================
