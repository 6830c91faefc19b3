# Specifications of the IX endpoint server

TLA+ modules for the endpoint-monitoring server in `src/app` (FastAPI,
SQLAlchemy; PostgreSQL or SQLite), the TLC runs that check them, and TLAPS
proofs of the properties that matter most. `PROJECT.json` maps every definition to
the lines it models.

## 1. The system

Agents on managed machines register with an enrollment key, send heartbeats, and
upload what their local database holds: sessions, idle events, applications, an
inventory, and evidence of their own starts and stops. The server stores rows.
Everything a dashboard shows (timeline, productivity, reports, reasons of gaps) is
computed from the rows at each request; nothing derived is stored.

Handlers are synchronous functions, so FastAPI runs them on a pool of threads,
each request with a database session of its own. Components meet only in
tables: there are no locks and no `SELECT ... FOR UPDATE`. Isolation is READ
COMMITTED at best. A handler is therefore a sequence of statements, other requests
may come between any two, and a process may stop between any two. What protects
the data are unique indexes and the order of statements. An `UPDATE` writes the
columns whose value changed since the session loaded the row, and no others.

### Inventory

| component | state | operations | what is hard | what makes it correct |
|---|---|---|---|---|
| evidence upload (`agent_lifecycle_service`) | `agent_lifecycle_events`, the agent's queue | a batch: look up, insert, accept | retries race with the request they replace; lost answers; broken batches | no event lost, none twice, nothing acknowledged that is not stored |
| enrollment (`agent_service.register_agent`, enrollment keys) | `devices`, `enrollment_keys` | register, create/disable/delete keys, delete devices | validate, look up, write and count are separate transactions | one device per identity, tokens match, the counter of a key |
| server lifecycle (`main.lifespan`, `server_lifecycle_service`) | `server_lifecycle_events` | record startup, shutdown; derive outages in a window | crashes and failed writes leave rows out; a window cuts the log | an outage claimed really was one, an outage that was has evidence |
| sync (`agent_session_service`, `agent_idle_service`, `agent_application_service`) | `sessions`, `idle_events`, `applications` | upsert by local id | look-then-insert, late snapshots, items before their session | one row per local id, consistent columns, convergence |
| monitoring window, classifier, timeline (`monitoring_window_service`, `work_session_service`, `timeline_service`, `device_page`) | none: reads heartbeats, sessions, idle events | segments, classify, build, day view, session view | cutting before or after classifying, boundary values, local and UTC times, what a view says while time passes | partition, independence of the window, finality |
| heartbeat and inventory, liveness (`agent_service`, `core/auth`, `device_liveness_service`) | `devices`, `device_heartbeats` | authenticate, heartbeat, update inventory, administrators' edits, badge, health page | two or three commits per request; the row is loaded before other requests write it | an answered heartbeat is visible for the threshold |
| reasons of gaps (`agent_evidence_service`) | none: reads lifecycle events | pairing of events, reboots by boottime, priority of reasons | padding of windows, late uploads, jitter, missing events | a claimed reboot was one, what the events explain is explained |
| legacy tracking (`session_service`, `idle_service`, `application_service`, `activity_service`) | the tables of sync, without local ids | login, logout, start and end by serial number, activity | two statements of two requests; no index refuses a second row; UTC stored where sync stores local time | leftovers of a race are bounded and found again |
| installed applications (`installed_application_service`) | `installed_applications` | replace the inventory in one transaction | concurrent inventories, stale loaded rows, NULL paths, waiting inserts | after an upload that ran alone, installed iff listed |
| productivity, reports, attribution (`productivity_service`, `productivity_report_service`, `device_page`) | none: sums over the timeline's spans | productivity now, reports of days, weeks, months, page of a day | rounding of pieces, periods, four call sites that clip by themselves | sums agree with the timeline and with each other |
| administration of devices (`device_service`) | `devices` | create, update, delete | edits of columns the agents write | |
| users, tokens, roles, browser code | users | tokens, rendering | little concurrency | |

`old_app.py`, `database.py` and `services/` (a Flask predecessor), migrations,
scripts, schemas, templates and CSS are not modelled: the first is not
imported by the server, the others hold no behaviour that could be checked.

## 2. Modules

| module | of | composed with |
|---|---|---|
| `EvidenceStore` | abstract: captured, stored and pruned events | implemented by `EvidenceSync` |
| `EvidenceSync` | the upload, a statement at a time, and the agent's queue | `MCEvidenceSync`, `EvidenceSyncProofs` |
| `Enrollment` | registrations and administrators | `MCEnrollment`, `EnrollmentProofs` |
| `ServerLifecycle` | the log and the intervals made of it | `MCServerLifecycle`, `ServerLifecycleProofs` |
| `AgentSync` | the upserts by local id | `MCAgentSync`, `AgentSyncProofs` |
| `Spans` | spans of time in a set | used by the next three and `Reasons` |
| `MonitoringWindow` | `get_segments` | used by `Timeline` |
| `WorkSession` | `classify` | used by `Timeline` |
| `Timeline` | `build`, the day view and the session view, over growing tables | `MCTimeline`, `Reports`, `TimelineProofs` |
| `Reports` | sums over the spans of `Timeline`: productivity, reports, application page | extends `Timeline`; `MCReports`, `TimelineProofs` |
| `Reasons` | evidence from lifecycle events and the reasons of gaps, beside the machine that leaves the events | `MCReasons`, `ReasonsProofs` |
| `Tracking` | the legacy requests of a device, a statement at a time | `MCTracking`, `TrackingProofs` |
| `InstalledApplications` | uploads of the list of applications | extended by `Device`; `DeviceProofs` |
| `Device` | the row of a device and all authenticated requests | extends `InstalledApplications`; `MCDevice`, `DeviceProofs` |

Definitions whose name begins with `Faulty`, and `CarelessAgrees`, `ForgetfulFound`,
`StickyMerged`, `NullMerged`, `OnceMerged` and `ActiveMapped`, are deliberately wrong variants of a
definition after them. No specification uses them; each breaks one property if it is put in the
place of the right one, which shows that the property depends on that code.

### EvidenceSync

`rows` is the table; the unique index on (device, uid) is `Admits`. A thread is `pc`,
`dev`, `batch`, `pos` and `accepted`, the locals of `sync()`. `Oversized`/`Fitting`
are the size check, `Found`/`Missing` the lookup, `Insert`/`Refused` the commit that
succeeds or raises `IntegrityError` (then the request ends with 500 and no
accepted list), `Respond` the answer. `Abort` is a failing statement or a dying
process. The queue (`Capture`, `Send`, `Deliver`, `Lose`) is the agent's, which is not in
the repository; it is modelled from the comments and tests of the service.

### Enrollment

One action per statement of `register_agent`: validate the key, look up by uuid and
by serial, update or insert, commit, then load and store the counter of the key,
which `increment_registered_count` does in a transaction of its own.
Administrators create, disable and delete keys and delete devices at any time; keys
expire. A token is the identity it was minted for. Rows from before uuids existed
are `LegacySerial`; `Entered` are the devices administrators may enter.

The schemas accept the empty string (`Empty`) for a uuid and a serial number. Lookups
and unique indexes treat it as a value like any other, the checks of `agent_service.py:88-99`
as none (`Given`). A row that was created without a uuid or a serial number therefore
gets it from a later registration, and `Merged` writes both columns. `Taken` is the refusal
of that UPDATE by an index. `named` and `numbered` remember which rows were created with a
uuid and with a serial number.

### ServerLifecycle

Time is in ticks. `Boot` and `Stop` stamp a row, `Record` commits it,
`FailToRecord` is the swallowed exception of `_safe_record`, `Crash` comes at any
point. `served`, `dark` and `lost` remember what really happened, to compare with the
intervals `get_outage_evidence` derives (`Queried`, `Adjacent`, `Intervals`, `Evidence`): a
query returns positions in `rows`, whose order is that of `occurred_at` and the id. One
process at a time and a clock that never steps back are assumptions of the model:
the code pairs rows by their time alone and has no notion of a second process.

### AgentSync

`sessions` and `items` are tables in the order of their ids; an item is an idle event
or an application, whose services have the same shape. `Merged` is the `UPDATE`
SQLAlchemy makes of the assignments: a column is written if its value differs from
the loaded one (`Column`). Every lookup is by device, so one device is enough. The
agent sends one request at a time and may give up on it while it runs on.

### Timeline

The tables are variables that grow: heartbeats at `now`, sessions and idle
events in any version and order of upload. Times in tables are wall-clock times,
`Offset` ahead of instants; `NormalizeLocal` and `Normalize` are the two conversions of
the code, and each use of a time goes through the one the code applies.
`Build` is the pipeline: clamp the window to the session's life (`Meet`), pad it (`Padded`),
cut it at heartbeats (`Segments`), fold and classify (`Classify`), split at idle events
(`Split`), clip (`Clip`). The code's lists of spans are in the order of time and do not overlap, so
a set says as much: `Pieces` are the stretches between neighbours of a set of cuts, and
`Coalesce` joins what touches and is of one kind, as the loops with a cursor do.
`DayTimeline` strings the sessions of a day together; its rows are marked with what they
belong to (`Owned`), because sessions that overlap may have equal spans, and the list of
the code holds both. `has_confirmed_sleep_evidence` always returns false in
the code, so `SLEEP_CONFIRMED` never occurs.

### Reports

One more table, applications, grows beside those of `Timeline`. `Seconds` is
`duration_seconds`, whole seconds of `Second` ticks each, and cuts off what is left of
every piece. `Productivity`, `Report` and `DayUsage` are the three places that call `build`
and sum over it, each with the clipping it does itself: productivity through the whole
current session, a report through the part of a session in a period (`Shown`), the
page of a day through the day. Dictionaries that accumulate are sums (`SumFunction`) over all the
pieces the loops walk, each marked with the session or use it belongs to. Months are given by the days on which they start, since only these
matter. Weeks count from the first day asked for, months begin before it.

### Reasons

The machine is not in the repository. It is modelled from the meaning of the event types:
it boots, sleeps, wakes and loses power, its agent starts, stops and dies, and only part
of that leaves an event (`Silent` is what leaves none; it is in `log` for the properties to
compare with, and no operator of the evidence reads it). `Upload` commits one event, in any
order and perhaps never, as batches that break off or come out of order do (the requests and
retries behind it are `EvidenceSync`); `uploaded` is any set of positions of the log. A start
carries the boottime as the agent read it or none (`Boottimes`): the column is optional.
`Evidence` has one operator for each branch of
`get_reason_evidence`; the four branches that pair an event with the next of
another type are `Brackets`. A query returns positions in the log, in whose order the times
are. `Jitter` is how late a boottime may be read. The first event is the first start of the
agent (`First`), on a machine booted at 0. Assumed: events have different times and a machine does not boot twice within the tolerance,
which is what the comment on `BOOTTIME_TOLERANCE_SECONDS` argues.

### Tracking

A request is read, read, commit: `FindSession` (device and active session),
`FindRow` (the open row of that session, and the time), and one commit action per
endpoint. Between any two another thread runs. `Rollback` is a failed commit. `overlapped`
remembers if two requests ever ran at a time. Rows of legacy requests have no local
id, so the unique indexes of `AgentSync` do not apply.

### InstalledApplications and Device

An upload is one transaction that reads what others have committed. It loads the rows
of the device first (`existing`), so that later queries of the same session return the loaded
objects (`Loaded`), and the `UPDATE`s at commit write the columns that differ from them
(`Written`). An insert waits for the uncommitted insert of the same identity
(`WaitsFor`), is refused when that commits (`Refuse`), and two that wait for each other are
broken off by the database (`BreakDeadlock`). Applications without a path escape the index.
Lists name no application twice, as a scan of a machine does; the server does not check it.

`Device` adds what comes before: authentication, which commits
`token_last_used`, then heartbeat (`Stamp`, `Store`, `Beat`), inventory, registration, a sync
call, or the upload. Every request holds the `last_seen` it loaded. A
device created by an administrator gets the default of the column, the time of the
database, though the code passes None: the mapper leaves None out of the INSERT.

## 3. Runs

| run | instance | shows |
|---|---|---|
| `evidence_sync` | 2 threads, 2 devices that drew the same uid, 3 events, batches up to 3 (limit 2), 1 fault | `AtMostOneRow`, `AcceptedIsStored`, `NothingLost`, `PrefixStored`, and that the upload implements `EvidenceStore` |
| `evidence_drain` | 1 device, 2 events in all batches of up to 2 and one over the limit, 1 fault | every event is stored and leaves the queue (liveness) |
| `enrollment` | 2 threads, 2 machines, a reinstalled one, one without a serial number and one without a uuid, a key for one device, a legacy row, 2 devices to enter, 3 rows in all, 1 fault | `NeverOvercounts`, `OvershootBounded`, `IdentityUnique`, `TokenMatchesRow`, `BoundForLife` |
| `server_lifecycle` | 4 ticks, 4 rows, padding 2, 1 failed write | `ConfirmedSound`, `UncertainSound`, `OutageEvidenced`, `WindowFaithful` |
| `agent_sync` | 2 threads, 2 sessions in 2 and 3 versions, 1 item, 1 fault | `OneRowPerLocalId`, `StatusMatchesLogout`, `ItemInItsSession`, `AckedPersists`, `DurationKept`, `EventuallySynced` |
| `timeline` | 11 instants, days of 3, 2 sessions, 1 idle event; thresholds 2, 2, 3, padding 4 | `Partitioned`, `DayCovered`, `MatchesReference`, `PresenceAgrees`, `OffSessionIsFinal` |
| `reports` | 8 instants, seconds of 2 ticks, days of 3, weeks of 2 days, months of 2 and 3; 2 sessions of 2 users, 1 idle event, 2 applications | `ReportsAddUp`, `DayAgrees`, `UsageWithinWork` |
| `reasons` | 6 instants, pad 2, tolerance and jitter 1, restart gap 3, one outage, a network that comes and goes | `RebootReal`, `OffExplained`, `SleepExplained` |
| `tracking` | 2 threads, 2 instants, 4 rows in all tables | `AtMostOnePerThread`, `OneAtATime` |
| `device` | 2 threads, 4 instants, 4 requests, threshold 2; lists of 3 applications, one without a path, in two orders and a list of one | `InventoryExact`, `AnsweredIsShown` |

Some of the properties are weaker than one might expect, because the code gives no
more:

- `OvershootBounded` holds only while no increment of the counter was lost.
- `TokenMatchesRow` and `BoundForLife` speak of the columns a row was created with. One that
  was left open, by NULL or the empty string, is filled in by a registration, and two at a
  time may each fill in their own: it then changes twice, and the token of one request may
  lie beside the value of the other.
- `AckedPersists` leaves out sessions of which a request was given up: a late
  snapshot does overwrite a newer one.
- `PresenceAgrees` requires a heartbeat before the session: without one, a window
  without heartbeats counts as monitored. `ReportsAddUp` inherits this.
- `ReportsAddUp` allows each piece to lose a part of a second, and is about work (ACTIVE
  and IDLE), for MONITORING_GAP and OFF_SESSION do depend on the window (below).
- `UsageWithinWork` requires that uses of applications do not overlap; uses that do
  are counted in full, each.
- `DayCovered` leaves out sessions that overlap: a session that was never closed overlaps
  the next one, and the day counts their common time twice.
- `RebootReal` claims of RESTART and SHUTDOWN only that they are real if the start of the agent that
  gave the warning is uploaded and carries a boottime (`BootKnown`). Without it `_find_prior_boottime`
  falls back on an earlier start, from before the last boot. For RESTART_UNPLANNED, AGENT_RESTART
  and UNEXPECTED_AGENT_RECOVERY no such condition is needed, whatever is missing.
- `OffExplained` requires of the starts before and after the absence that they are uploaded with
  boottimes, and that no other uploaded start is between: without a boottime the code stays silent. It
  leaves out one case: the machine came back and gave another warning, and the warning is uploaded
  while the start before it is not. The warning then claims the later start for itself, and the
  absence before it keeps no reason.
- `OffExplained` and `SleepExplained` require that the event that begins the absence lies within the
  pad and is uploaded. The converse of `SleepExplained` does not hold: a sleep that ends in a loss of
  power is paired with a later WAKE or the end of the window, so that SLEEP
  covers time in which the machine was off or awake again.
- `OneAtATime` holds as long as no two requests overlapped; what racing starts leave behind is not
  claimed beyond `AtMostOnePerThread`.
- `AtMostOnePerThread` says nothing of applications: every racing start may leave one
  open row more, without a bound.
- `AnsweredIsShown` excludes heartbeats or registrations that overlap, because the older time may
  be committed last, and edits of `last_seen` by hand.
- `InventoryExact` is about uploads that ran alone: two that overlap may store a path-less
  application twice or mark a listed one removed until the next upload.

Two more runs state what a comment or docstring says and find that the code does
something else:

| run | said | done |
|---|---|---|
| `server_blame` | UNCERTAIN must never be reported as an outage | any interval gives the reason SERVER_UNAVAILABLE |
| `timeline_window` | `_normalize` on local times would shift a session | `device_timeline` does so for the window it returns |

### Divergences met while modelling

These follow from the models but have no run of their own:

- `server_lifecycle_service.py:82-84` says that a failed write leaves a boundary without
  evidence, which is handled. A failed startup write between a shutdown row and the next startup
  row makes a CONFIRMED interval over the whole life in between. `ConfirmedSound` therefore
  excludes intervals in which a startup write was lost.
- `server_lifecycle_service.py:118-119` says every interval that overlaps the window is
  returned. One whose ends lie further out than a day is not; `WindowFaithful` says what is.
- `timeline_service.py:62-68` says two hours of padding decide every classification. An
  absence is OFF_SESSION in the view of a session and MONITORING_GAP in that of a day when the
  confirmed run that anchors it ended before the padded window. `PresenceAgrees` compares
  presence (ACTIVE, IDLE or neither), for which a padding of a threshold and a sustained run is enough.
- `agent_evidence_service.py:171-175` says that a warning without boottime evidence is left unresolved
  rather than guessed. `_find_prior_boottime` (line 276) passes over starts without a boottime and
  takes that of an earlier one. A machine that starts its agent, loses power, boots, starts the agent
  without a boottime, gives a warning, and whose agent alone dies and starts again gets RESTART
  for that last stretch, with every start uploaded. `RebootReal` therefore asks for `BootKnown`.
- `device_liveness_service.py:5-8` counts sync calls as evidence that a device is alive. A sync call
  writes `token_last_used` and leaves `last_seen` alone.

### Bounds

Two threads suffice for the races: each involves one request that read before, and
wrote after, another wrote. One fault per run is one broken or given-up
request; the refused inserts and limits come in addition. In `evidence_sync`, batches
have repetitions and exceed the limit, and one uid occurs on two devices. In
`enrollment`, the key has room for one device, so the second registration overshoots, and requests
with an empty serial number or uuid race with ones that fill it in (`TokenMatchesRow` and `BoundForLife`
stated of all rows are violated in this instance). In
`server_lifecycle` four rows hold two lives with either ending and outages
longer than the padding. In `timeline` a tick is ninety seconds (thresholds of two
ticks); the ceiling is lowered to three ticks and the padding to four, which keeps the
order threshold <= sustained < ceiling < padding of the code and padding >=
threshold + sustained (`PaddingAssumption`), on which the agreement of views rests; all patterns of
heartbeats in eleven instants include runs and gaps of every length up to
and over each of them. A day of three ticks is shorter than the padding, which the real
day is not; then more views overlap, not fewer.

In `reports`, a tick is half a second and a day is a second and a half, so that
spans and periods are cut in the middle of seconds; weeks overlap months, and a month begins
before the first day. In `reasons`, the instants 1 to 6 hold a boot of the machine with a sleep, a warning or a death of the
agent before or after it, two losses of power, and windows that see less than all of it; every subset of
the events is uploaded, and every stretch can also hold an unreachable network. A life in which a machine
boots, warns and then loses only its agent has seven events, so the two exceptions (`BootKnown`
and the later warning of `OffExplained`) never matter within six instants. With `MaxTime` 7 and
`Target` empty (841,278 states, too slow together with `SleepExplained`) both properties hold too, and each is
violated when its exception is left out; the theorems hold for every bound. In `tracking`, two
instants make equal and different times, four rows two sessions with rows of their
own (a third instant, with 8 million states, takes too long for a run and adds nothing). In `device`, a threshold of two can pass after a heartbeat, and four requests include a
registration, a heartbeat and two overlapping uploads. Bounds are the constants `MaxFault`,
`MaxId`, `MaxRows`, `MaxTime`, `MaxRequests`. Symmetry is over threads only, which no
definition tells apart, and only in runs of invariants.

Deadlock is not checked: once bounded work is done these systems stop.

### Fairness

`evidence_drain` and `agent_sync` assume that a thread that serves a request goes on
(weak fairness: the pool does not starve a running thread), that a delivered answer
arrives unless it is one of the bounded number that are lost, and that an agent
keeps sending what is not acknowledged whenever it can (strong fairness: it can only
when a thread is free, which comes and goes). The last is a property of the agent, which
its retry-until-acknowledged protocol states; no fairness is assumed of faults,
of captures, or of administrators. The other modules state safety only: what a legacy request
or a report promises is due in the request itself.

## 4. Proofs

Eight modules prove 53 theorems, for every value of the constants that satisfies the
assumptions named in the modules. In each, `IInv` is an inductive invariant: `Init => IInv`
and `IInv /\ [Next]_vars => IInv'` are shown action by action, and every property follows
from `IInv` or, for an action property, from `IInv` and one step. Every `IInv` was checked by TLC
on the instance of its run, or one close to it, before it was proved. Every invariant and every
action property of the passing runs is proved; liveness is not.

| module | theorems | the inductive invariant adds |
|---|---|---|
| `EvidenceSyncProofs` | `TypeCorrect`, `StoredOnce`, `AcknowledgedIsDurable`, `NoLoss`, `PrefixDurable`, `Refinement` | `JobOK`, `CapturedOK` |
| `EnrollmentProofs` | `TypeCorrect`, `OneIdentity`, `TokenFits`, `Bound`, `CounterBehind`, `Overshoot` | `TableOK`, `JobOK`, `LoadedOK`, `Headroom` |
| `ServerLifecycleProofs` | `TypeCorrect`, `ConfirmedIsOutage`, `UncertainIsOneLife`, `OutagesEvidenced`, `WindowsFaithful` | `Past`, `QuietSinceShutdown`, `OneLifeSinceStartup`, `StartedSince`, `Covered` |
| `AgentSyncProofs` | `TypeCorrect`, `UploadedOnce`, `ItemsPlaced`, `StatusConsistent`, `AcknowledgedPersists`, `DurationsKept` | `TableOK`, `RequestOK`, `FoundOK`, `OwnerOK`, `ColumnsOK`, `AloneOK` |
| `TrackingProofs` | `TypeCorrect`, `BoundedByThreads`, `OrderOneAtATime` | `Owned`, `Timely`, `Bounded`, `Alone` |
| `DeviceProofs`, of the uploads | `AppTypeCorrect`, `InventoryIsExact` | `Drawn`, `Current`, `RestOfList`, `OneSeenEach` |
| `DeviceProofs`, of the device | `TypeCorrect`, `HeartbeatShown`, `UploadsImplemented`, `InventoryShown` | `Timely`, `Recorded`, `Undisturbed` |
| `ReasonsProofs` | `TypeCorrect`, `RebootsAreReal`, `OffsExplained`, `SleepsExplained` | `Ordered`, `BootsApart`, `BoottimesRead`, `AgentRuns`, `OffIsSilent` |
| `TimelineProofs`, of `Timeline` | `TypeCorrect`, `PartitionedCorrect`, `DayCoveredCorrect`, `MatchesReferenceCorrect`, `PresenceAgreesCorrect`, `OffSessionIsFinalCorrect` | `TypeInv` |
| `TimelineProofs`, of `Reports` | `ReportsAddUpCorrect`, `DayAgreesCorrect`, `UsageWithinWorkCorrect` | `AppsOK` |

All but `TimelineProofs` also have `Invariance` (`AppInvariance`), that `IInv` (`AppIInv`) always holds.

**Evidence upload.** `JobOK` says that what an idle thread holds is empty, that what a busy one holds
its device has captured, and that a thread about to insert is within its batch; `CapturedOK` that the
queue is part of what was captured. Accepted events are stored because an event is
accepted only after it was found or committed and rows are never removed; nothing is lost
because the queue shrinks only by answers, which are accepted lists. `Refinement` maps
each insert to `Store`, each delivery to `Prune` and every other step to a stutter.

**Enrollment.** What a thread has loaded goes stale, but not in what identifies a machine: `JobOK`
says that a found row, as long as it is there, has the uuid it was loaded with if it was created with
one, and likewise the serial number, so that an update leaves these columns alone: `Agrees` has compared
them. `TableOK` says that what a row was created with is never emptied, for only then does `Agrees` compare. The counter is a load and a store apart.
`NeverOvercounts` needs that what is loaded, with the registrations that are not counted
yet, is not more than what was enrolled, and, for `OvershootBounded`, that it is current if nothing was lost
(`LoadedOK`); `Headroom` counts the threads that have validated the key and may still write, so
that a commit takes one of them.

**Server lifecycle.** `Past` puts rows, history and the stamp in the order of the clock.
`QuietSinceShutdown`, `OneLifeSinceStartup` and `StartedSince` are what is known of the time since the last row,
from which the claim on an interval follows when the next row is written; `Covered` is the same
for the moments without a process. `WindowsFaithful` needs only the order of the rows: adjacent rows
of the padded window are adjacent in the log.

**Sync.** `FoundOK` and `OwnerOK`: the row a thread found is still that of its local id, for rows are never removed
and never change it, so an insert that is refused is the only way to a second row. `ColumnsOK`: a row and
every loaded copy of it agree in status and logout time, so that writing the columns that differ
from a copy cannot tear them. `AloneOK`: of a session no request of which was given up, the one
request at work has loaded what is current, and has stored what it is about to answer.

**Legacy tracking.** `Bounded` counts a thread that found nothing open and is about to insert as if its row were
there already, which makes the number of rows and threads an invariant bounded by the threads. While no two
requests have overlapped, `Alone` says that what a thread has read is still so when it commits.

**Installed applications and the device.** An upload that runs alone holds the table as it is (`Current`), the
rest of its list (`RestOfList`), and exactly one row for every item that it has handled
(`OneSeenEach`); what it has not seen it marks as removed. `UploadsImplemented`
shows that the device implements the uploads, and `InventoryShown` carries their property over.
`Undisturbed` orders the times that are loaded, about to be written and answered.

**Reasons.** `IInv` is about the machine alone: of `uploaded` it says only that it is a set of positions,
so what is proved holds of any order and any loss of uploads. `Ordered`: the log starts with a start and has
one event at a time. `BootsApart` and `BoottimesRead`
make the difference of two boottimes, if both are there, exceed the tolerance exactly if the machine booted
between the two starts (`RebootedExactly`). `AgentRuns`: what was announced came from an
agent that was started since the last boot. If the last start before the announcement is uploaded with its boottime,
it is in every window that shows the announcement and an earlier start, so it is the one
`_find_prior_boottime` finds, and the boot lies after the announcement (`AnnouncedReboot`). `OffIsSilent`: nothing
happens while the machine is off, so that the announcement that claims the start after it, if there is one and it was
not given after the machine came back, lies before the loss of power (`OffEvidence`).

**Timeline.** Views are computed from the tables, so the inductive invariant is about the tables alone
(`TypeInv`: their types, and no time in them lies ahead), and each property is a theorem about the operators
in any such state (`TypeOKPartitioned` and so on). They work on *tilings*: sets of
spans that hold every instant of a stretch exactly once.

- `PiecesFacts`, `CoalesceFacts`, `ClassifyFacts`, `SplitFacts`, `UnionFacts` and `ClipFacts` say of each stage
  that it makes a tiling of a tiling and what it does to the kind of an instant (`KindsAt`);
  `BuildFacts` puts them together. `PartitionedCorrect` is half of that.
- Day view: the cursor before a session is the end of the last earlier one, for sessions that do not
  overlap come one after the other (`VisibleApart`, `CursorFacts`). So the rows are the sessions' spans
  and the gaps between them (`RowCases`), which neither overlap (`RowsApart`) nor leave anything out (`RowsCover`).
- An instant is `Sure` if a segment that holds it is monitored and long enough.
  `HeardIsSure` says the same with heartbeats alone: the hops between the cuts around it are within the threshold
  for long enough. From it follows `MatchesReferenceCorrect`.
- `SilenceStays`: heartbeats after an instant can move only the later of the two cuts around an earlier
  one, so a gap that was closed or had already outgrown the ceiling stays a gap, and the run before it stays.
- `SureAgrees`: an instant of the window that is sure in the whole life has a stretch of `Sustained` of
  monitored time around it that begins less than `Sustained` outside of the window, and whether that is monitored depends on
  heartbeats at most `Threshold` further out. This is where `PaddingAssumption` is used. `PresenceSame` follows for any
  window, not only a day.

**Sums.** The library defines `SumFunction` by recursion over sets, with no theorem about it. `SumOfSizes` proves that the
sum of the sizes of disjoint finite sets is the size of their union; its induction is by a smallest set for which the two
recursive functions differ (`MinNat`). A sum of weights is then the number of its units
(`UnitsOf`, `WeightIsSize`), so that parts, order and names of terms do not matter (`WeightOfParts`, `WeightRenamed`,
`WeightOfSums`), and pieces of spans that do not overlap are no more than the spans, in whole seconds as well, for
what is cut off of pieces is never less than what is cut off of the span (`PiecesInside`, `PiecesOfSpans`).

**Reports.**

- `DayAgreesCorrect`: the sessions of the timeline of a day, of the reports of all users for it and of the page are the same,
  with the same views (`DayViews`), since `Build` depends on what a session shows and not on how it was asked for (`DayShown`).
  What remains is to add up by session, by user and by use (`RowsByUser`, `BitsByUser`, `PageBits`). It needs no
  assumption on overlaps.
- `UsageWithinWorkCorrect`: the pieces that disjoint uses cut out of a view are disjoint pieces of its spans (`UsageInside`).
- `ReportsAddUpCorrect`: the report and the clipped view of the whole session are two sets of spans of which no two of one kind touch
  (`Maximal`), and such a set is determined by the kinds of its instants (`MaximalSubset`), which are the same by
  `PresenceSame`. So the two have the same spans, and only the seconds cut off of each are lost.
  That days, weeks and months hold each day once (`PeriodsHeld`) is division with a remainder for weeks, and the choice of
  the last start of a month before a day for months.

### Assumptions

Bounds are natural numbers. Threads are finitely many and at least one where they are counted
(`BoundAssumption` of `Enrollment`, `WorkersAssumption` of `Tracking`). `NullAssumption` and its
like: None is no value of the column. `ReportAssumption` of `AgentSync` gives every session a list of versions
with a logout time and a duration, and every item a session. `LegacyAssumption`: rows from before
uuids have different serial numbers, as the unique index demands. `UploadAssumption` of
`InstalledApplications`: lists name no application twice. `ReasonsAssumption`: boottimes are read within the tolerance, if at all.
`ReportAssumption` of `Timeline` and `UseAssumption` of `Reports`: what is uploaded has the columns of its table, and
`Null` is no time; applications, names and sessions are finitely many, so that there is something to add up.
`PaddingAssumption`: the padding is at least a threshold and a sustained run (two hours against six minutes in
the code). `MonthAssumption`: a month has started on every day, and another will.
TLC evaluates all of them in the runs.

### Only model-checked

- Liveness, `EventuallyDrained` and `EventuallySynced`: fairness and `ENABLED` are out of the prover's reach.
- What two runs find violated (`server_blame`, `timeline_window`) is refuted on an instance and needs no proof.

## 5. Not modelled

- `old_app.py`, `database.py`, `services/`: a predecessor that nothing in `app/` imports.
- Users, tokens and roles: a request either carries a valid token or is refused; no
  state is shared that a race could harm. Device tokens are part of `Enrollment`
  and `Device`.
- Browser code: rendering, and a token refresh. A refresh answered after a logout
  stores a token again, which only that browser sees.
- Percentages, sums of clicks and keys, sorting and layout of answers, hostnames and other
  payload of rows: nothing else in the code reads them back.
- `DeviceService.register` and `heartbeat`, which no route calls. A delete of a
  device with rows of its own, which the foreign keys refuse.
- Legacy requests and sync requests of one device side by side. `legacy_endpoint_metrics`
  leaves open whether any deployed agent still sends the former; if one did, the UTC
  times of a legacy session would be read as local times by `Timeline`.

## 6. Plan

1. Done: all components above, and the proofs of every invariant and action property.
2. `ReportsAddUp` for periods in which a user has several sessions, whose pieces add up session by session.
3. A start of a machine within the tolerance of its last boot, and events of one time, as a variant of `Reasons`.
4. Lists that name an application twice, whose later item finds the row that the earlier one inserted.
