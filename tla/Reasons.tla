------------------------------- MODULE Reasons -------------------------------
(***************************************************************************)
(* Why a device was not observed: agent_evidence_service derives evidence   *)
(* from the lifecycle events a device has uploaded and attaches the best    *)
(* reason to each gap of its timeline.                                      *)
(*                                                                          *)
(* The machine and its agent are not in the repository.  They are modelled  *)
(* from what the event types stand for: a machine boots, sleeps, wakes and  *)
(* loses power, its agent starts, stops and dies, and only some of that     *)
(* leaves an event.  Events are uploaded later: one at a time, in any order *)
(* and perhaps never (EvidenceSync), and a start may carry no boottime.     *)
(***************************************************************************)
EXTENDS Spans, SequencesExt

CONSTANTS
  Pad,              \* pad: how far around a window events are read
  Tolerance,        \* BOOTTIME_TOLERANCE_SECONDS
  RestartGap,       \* RESTART_VS_SHUTDOWN_GAP_SECONDS
  Jitter,           \* how much too late a boottime may be read
  Target,           \* what the agent may find unreachable: "NETWORK", "SERVER"
  Outage,           \* spans of get_outage_evidence (ServerLifecycle)
  First,            \* when the agent was first started, on a machine booted at 0
  MaxTime,          \* bound: the last instant
  Null              \* None

ASSUME ReasonsAssumption ==
  /\ {Pad, Tolerance, RestartGap, Jitter, First, MaxTime} \subseteq Nat
  /\ Jitter <= Tolerance
  /\ Target \subseteq {"NETWORK", "SERVER"}

VARIABLES
  now,              \* the instant
  power,            \* "off", "asleep" or "awake"
  boot,             \* when the machine booted last
  agent,            \* is the agent running?
  unreachable,      \* the targets the agent cannot reach
  log,              \* what happened: [type, time, boottime], at most one an instant
  uploaded          \* the positions of the log that the server has

vars == <<now, power, boot, agent, unreachable, log, uploaded>>

\* What happens without an event.
Silent == {"POWER_LOSS", "BOOT", "AGENT_DIED"}

Entry(type, boottime) == [type |-> type, time |-> now, boottime |-> boottime]

Happens(type, boottime) ==
  /\ log # <<>> => Last(log).time < now
  /\ log' = Append(log, Entry(type, boottime))

\* What a start may carry as the time of the boot at b.
Boottimes(b) == {Null} \union (b..(b + Jitter))

Init ==
  /\ now = First
  /\ power = "awake"
  /\ boot = 0
  /\ agent = TRUE
  /\ unreachable = {}
  /\ \E boottime \in Boottimes(0) : log = <<Entry("AGENT_STARTED", boottime)>>
  /\ uploaded = {}

Tick ==
  /\ now < MaxTime
  /\ now' = now + 1
  /\ UNCHANGED <<power, boot, agent, unreachable, log, uploaded>>

\* AgentLifecycleService.sync, of one event of a batch: each is committed before
\* the next is looked at.
Upload(i) ==
  /\ power = "awake" /\ agent /\ unreachable = {}
  /\ i \notin uploaded /\ log[i].type \notin Silent
  /\ uploaded' = uploaded \union {i}
  /\ UNCHANGED <<now, power, boot, agent, unreachable, log>>

Sleep ==
  /\ power = "awake" /\ agent
  /\ Happens("SLEEP", Null)
  /\ power' = "asleep"
  /\ UNCHANGED <<now, boot, agent, unreachable, uploaded>>

Wake ==
  /\ power = "asleep" /\ agent
  /\ Happens("WAKE", Null)
  /\ power' = "awake"
  /\ UNCHANGED <<now, boot, agent, unreachable, uploaded>>

UnavailableEvent == [NETWORK |-> "NETWORK_UNAVAILABLE", SERVER |-> "SERVER_UNAVAILABLE"]
RecoveredEvent == [NETWORK |-> "NETWORK_RECOVERED", SERVER |-> "SERVER_RECOVERED"]

Unreachable(target) ==
  /\ power = "awake" /\ agent /\ target \notin unreachable
  /\ Happens(UnavailableEvent[target], Null)
  /\ unreachable' = unreachable \union {target}
  /\ UNCHANGED <<now, power, boot, agent, uploaded>>

Recovered(target) ==
  /\ power = "awake" /\ agent /\ target \in unreachable
  /\ Happens(RecoveredEvent[target], Null)
  /\ unreachable' = unreachable \ {target}
  /\ UNCHANGED <<now, power, boot, agent, uploaded>>

\* The system warns of a shutdown, which may yet be called off.
Warn ==
  /\ power = "awake" /\ agent
  /\ Happens("SHUTDOWN_OR_RESTART_IMMINENT", Null)
  /\ UNCHANGED <<now, power, boot, agent, unreachable, uploaded>>

PowerLoss ==
  /\ power # "off"
  /\ Happens("POWER_LOSS", Null)
  /\ power' = "off"
  /\ agent' = FALSE
  /\ unreachable' = {}
  /\ UNCHANGED <<now, boot, uploaded>>

\* No machine boots twice within the tolerance.
Boot ==
  /\ power = "off"
  /\ now - boot > Tolerance + Jitter
  /\ Happens("BOOT", Null)
  /\ power' = "awake"
  /\ boot' = now
  /\ UNCHANGED <<now, agent, unreachable, uploaded>>

AgentStart ==
  /\ power = "awake" /\ ~agent
  /\ \E boottime \in Boottimes(boot) : Happens("AGENT_STARTED", boottime)
  /\ agent' = TRUE
  /\ UNCHANGED <<now, power, boot, unreachable, uploaded>>

AgentStop ==
  /\ power = "awake" /\ agent
  /\ Happens("AGENT_STOPPED", Null)
  /\ agent' = FALSE
  /\ unreachable' = {}
  /\ UNCHANGED <<now, power, boot, uploaded>>

AgentDies ==
  /\ power = "awake" /\ agent
  /\ Happens("AGENT_DIED", Null)
  /\ agent' = FALSE
  /\ unreachable' = {}
  /\ UNCHANGED <<now, power, boot, uploaded>>

Next ==
  \/ Tick
  \/ \E i \in DOMAIN log : Upload(i)
  \/ Sleep \/ Wake
  \/ \E target \in Target : Unreachable(target) \/ Recovered(target)
  \/ Warn \/ PowerLoss \/ Boot
  \/ AgentStart \/ AgentStop \/ AgentDies

Spec == Init /\ [][Next]_vars

-----------------------------------------------------------------------------
(* get_reason_evidence *)

\* Faulty: reads no further than the window.
FaultyEventsIn(window) ==
  {i \in uploaded : window.start <= log[i].time /\ log[i].time <= window.end}

\* get_events_in_window, of the padded window: positions in the log, whose order
\* is that of the times.
EventsIn(window) ==
  {i \in uploaded :
     window.start - Pad <= log[i].time /\ log[i].time <= window.end + Pad}

Of(events, type) == {i \in events : log[i].type = type}

\* The next event of a type after event i, if there is one.
NextOf(events, i, type) ==
  LET later == {j \in Of(events, type) : j > i} IN IF later = {} THEN Null ELSE Min(later)

\* From each event of one type to the next of another, or to the end of the window.
Brackets(events, window, opening, closing, reason) ==
  {LET close == NextOf(events, i, closing)
   IN Span(log[i].time, IF close = Null THEN window.end ELSE log[close].time, reason) :
     i \in Of(events, opening)}

Distance(a, b) == IF a <= b THEN b - a ELSE a - b

\* Faulty: any difference is a reboot.
FaultyRebooted(a, b) == a # Null /\ b # Null /\ Distance(a, b) > 0

\* _boottime_changed is True
Rebooted(a, b) == a # Null /\ b # Null /\ Distance(a, b) > Tolerance

\* _boottime_changed is False
SameBoot(a, b) == a # Null /\ b # Null /\ Distance(a, b) <= Tolerance

\* _find_prior_boottime
PriorBoottime(events, i) ==
  LET starts == {j \in Of(events, "AGENT_STARTED") : j < i /\ log[j].boottime # Null}
  IN IF starts = {} THEN Null ELSE log[Max(starts)].boottime

\* The start that an announced shutdown or restart led to.
Resumption(events, i) == NextOf(events, i, "AGENT_STARTED")

Announced(events) == Of(events, "SHUTDOWN_OR_RESTART_IMMINENT")

Pending(events, window) ==
  {Span(log[i].time, window.end, "SHUTDOWN_OR_RESTART_PENDING") :
     i \in {j \in Announced(events) : Resumption(events, j) = Null}}

Shutdowns(events) ==
  {LET back == log[Resumption(events, i)].time
   IN Span(log[i].time, back,
           IF back - log[i].time <= RestartGap THEN "RESTART" ELSE "SHUTDOWN") :
     i \in {j \in Announced(events) :
              /\ Resumption(events, j) # Null
              /\ Rebooted(PriorBoottime(events, j), log[Resumption(events, j)].boottime)}}

\* Faulty: leaves every start to the evidence of shutdowns.
FaultyHandled(events) == Of(events, "AGENT_STARTED")

\* handled_agent_started_ids
Handled(events) == {Resumption(events, i) : i \in Announced(events)}

StoppedBetween(events, i, j) ==
  \E k \in Of(events, "AGENT_STOPPED") :
    log[i].time < log[k].time /\ log[k].time < log[j].time

\* The start before a start.
Previous(events, j) == Max({i \in Of(events, "AGENT_STARTED") : i < j})

\* The starts with one before them that nothing announced.
Unannounced(events) ==
  {j \in Of(events, "AGENT_STARTED") \ Handled(events) :
     \E i \in Of(events, "AGENT_STARTED") : i < j}

SincePrevious(events, j, reason) ==
  Span(log[Previous(events, j)].time, log[j].time, reason)

Recoveries(events) ==
  {SincePrevious(events, j, "RESTART_UNPLANNED") :
     j \in {k \in Unannounced(events) :
            Rebooted(log[Previous(events, k)].boottime, log[k].boottime)}}
    \union
  {SincePrevious(events, j,
                 IF StoppedBetween(events, Previous(events, j), j) THEN "AGENT_RESTART"
                 ELSE "UNEXPECTED_AGENT_RECOVERY") :
     j \in {k \in Unannounced(events) :
            SameBoot(log[Previous(events, k)].boottime, log[k].boottime)}}

Overlaps(a, b) == a.start < b.end /\ a.end > b.start

Evidence(window) ==
  LET events == EventsIn(window)
      all == Brackets(events, window, "SLEEP", "WAKE", "SLEEP")
               \union Brackets(events, window, "AGENT_STOPPED", "AGENT_STARTED", "AGENT_STOPPED")
               \union Brackets(events, window, "NETWORK_UNAVAILABLE", "NETWORK_RECOVERED",
                               "NETWORK_UNAVAILABLE")
               \union Brackets(events, window, "SERVER_UNAVAILABLE", "SERVER_RECOVERED",
                               "SERVER_UNAVAILABLE")
               \union Pending(events, window) \union Shutdowns(events)
               \union Recoveries(events)
               \union {Span(o.start, o.end, "SERVER_UNAVAILABLE") : o \in Outage}
  IN {e \in all : Overlaps(e, window)}

\* _REASON_PRIORITY
Priority == <<"RESTART", "RESTART_UNPLANNED", "SHUTDOWN", "SHUTDOWN_OR_RESTART_PENDING",
              "AGENT_RESTART", "UNEXPECTED_AGENT_RECOVERY", "AGENT_STOPPED", "SLEEP",
              "NETWORK_UNAVAILABLE", "SERVER_UNAVAILABLE">>

\* None is neither a time or a position nor a reason.
ASSUME NullAssumption == Null \notin Nat /\ \A i \in DOMAIN Priority : Priority[i] # Null

\* The reason of a gap among evidence, if there is one.
Best(evidence, gap) ==
  LET found == {e.kind : e \in {f \in evidence : Overlaps(f, gap)}}
      ranks == {i \in DOMAIN Priority : Priority[i] \in found}
  IN IF ranks = {} THEN Null ELSE Priority[Min(ranks)]

\* attach_reason, of all the gaps of a view at once.
AttachReason(gaps) ==
  LET window == [start |-> Min({g.start : g \in gaps}), end |-> Max({g.end : g \in gaps})]
      evidence == Evidence(window)
  IN {[gap |-> g, reason |-> Best(evidence, g)] : g \in gaps}

-----------------------------------------------------------------------------
(* Properties *)

Gaps == {Span(w[1], w[2], "MONITORING_GAP") : w \in {v \in (First..now) \X (First..now) : v[1] < v[2]}}

BootTimes == {0} \union {log[i].time : i \in Of(DOMAIN log, "BOOT")}

\* The stretches from what begins a state of the machine to what ends it.
Stretches(begin, ends) ==
  {[start |-> log[i].time,
    end |-> Min({now} \union {log[j].time : j \in {k \in DOMAIN log : k > i /\ log[k].type \in ends}})] :
     i \in Of(DOMAIN log, begin)}

OffTimes == Stretches("POWER_LOSS", {"BOOT"})
SleepTimes == Stretches("SLEEP", {"WAKE", "POWER_LOSS"})

\* Does the server know when the machine had booted that was running at t?
BootKnown(t) ==
  LET start == Max({i \in Of(DOMAIN log, "AGENT_STARTED") : log[i].time <= t})
  IN start \in uploaded /\ log[start].boottime # Null

\* Evidence of a reboot spans a reboot, and evidence that only the agent went away
\* spans none, however late and in whatever order events are uploaded, however
\* little the window shows of them, and however inexactly boottimes are read
\* (agent_evidence_service compares the boottimes of two starts).  Only after a
\* warning must the start of the agent that gave it be there with its boottime:
\* without it the code compares with an earlier one.
RebootReal ==
  \A window \in Gaps : \A e \in Evidence(window) :
    LET booted == \E t \in BootTimes : e.start < t /\ t <= e.end
    IN /\ e.kind = "RESTART_UNPLANNED" => booted
       /\ e.kind \in {"RESTART", "SHUTDOWN"} /\ BootKnown(e.start) => booted
       /\ e.kind \in {"AGENT_RESTART", "UNEXPECTED_AGENT_RECOVERY"} => ~booted

\* The starts i and j are neighbours among the uploaded ones, with boottimes, and
\* the pad of the gap reaches them.
StartsAround(gap, i, j) ==
  /\ ~ \E k \in Of(uploaded, "AGENT_STARTED") : i < k /\ k < j
  /\ log[i].boottime # Null /\ log[j].boottime # Null
  /\ gap.start - Pad <= log[i].time /\ log[j].time <= gap.end + Pad

\* A gap in which the machine was off is put down to a restart or a shutdown, once
\* a start before and one after it are uploaded with their boottimes, whatever
\* else is missing.  Only a warning from after the machine came back must not be
\* there without the start that it came back with: it claims the later one.
OffExplained ==
  \A off \in OffTimes : \A gap \in {g \in Gaps : Overlaps(off, g)} :
    \A i, j \in Of(uploaded, "AGENT_STARTED") :
      /\ log[i].time <= off.start /\ off.end <= log[j].time
      /\ StartsAround(gap, i, j)
      /\ ~ \E k \in Announced(uploaded) : off.end <= log[k].time /\ k < j
      => \A r \in AttachReason({gap}) :
           r.reason \in {"RESTART", "RESTART_UNPLANNED", "SHUTDOWN"}

\* A gap in which the machine slept has a reason, whatever else its view shows, if
\* the sleep began within the pad of the view and is uploaded.
SleepExplained ==
  \A sleep \in SleepTimes : \A gap \in {g \in Gaps : Overlaps(sleep, g)} : \A other \in Gaps :
    (\E i \in uploaded : log[i].type = "SLEEP" /\ log[i].time = sleep.start)
      /\ sleep.start >= gap.start - Pad
    => \A r \in AttachReason({gap, other}) : r.gap = gap => r.reason # Null

-----------------------------------------------------------------------------
\* The parts of the inductive invariant.

Type == Silent \union {UnavailableEvent[t] : t \in Target} \union {RecoveredEvent[t] : t \in Target}
          \union {"AGENT_STARTED", "AGENT_STOPPED", "SLEEP", "WAKE", "SHUTDOWN_OR_RESTART_IMMINENT"}

Event == [type : Type, time : Nat, boottime : Nat \union {Null}]

TypeOK ==
  /\ now \in Nat /\ boot \in Nat /\ agent \in BOOLEAN /\ unreachable \subseteq Target
  /\ power \in {"off", "asleep", "awake"}
  /\ log \in Seq(Event) /\ uploaded \subseteq DOMAIN log

\* One event at a time, and the first is a start.
Ordered ==
  /\ Len(log) > 0 /\ log[1].type = "AGENT_STARTED"
  /\ \A i \in DOMAIN log : log[i].time <= now
  /\ \A i, j \in DOMAIN log : i < j => log[i].time < log[j].time

\* The last boot is known, and no two are close to each other.
BootsApart ==
  /\ boot \in BootTimes /\ \A t \in BootTimes : t <= boot
  /\ \A s, t \in BootTimes : s < t => t - s > Tolerance + Jitter

\* A start has read when the machine booted last, at most so much too late, if it
\* has read it at all.
BoottimesRead ==
  \A i \in Of(DOMAIN log, "AGENT_STARTED") : \E b \in BootTimes :
    /\ b <= log[i].time /\ \A t \in BootTimes : t <= log[i].time => t <= b
    /\ log[i].boottime \in Boottimes(b)

\* The power was on from the start k of the agent up to position n.
RunsSince(k, n) ==
  /\ k \in Of(DOMAIN log, "AGENT_STARTED") /\ k < n
  /\ \A j \in DOMAIN log : k < j /\ j < n => log[j].type \notin {"POWER_LOSS", "BOOT"}

\* An agent that runs, or has announced something, was started since the boot.
AgentRuns ==
  /\ agent => power # "off" /\ \E k \in DOMAIN log : RunsSince(k, Len(log) + 1)
  /\ \A i \in Announced(DOMAIN log) : \E k \in DOMAIN log : RunsSince(k, i)

\* Nothing but a boot follows a loss of power.
OffIsSilent ==
  /\ power = "off" <=> log[Len(log)].type = "POWER_LOSS"
  /\ \A i \in 1..(Len(log) - 1) : log[i].type = "POWER_LOSS" => log[i + 1].type = "BOOT"

IInv == TypeOK /\ Ordered /\ BootsApart /\ BoottimesRead /\ AgentRuns /\ OffIsSilent

=============================================================================
