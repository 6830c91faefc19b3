------------------------------ MODULE AgentSync ------------------------------
(***************************************************************************)
(* POST /api/agent/session, /idle and /application: a device uploads the    *)
(* sessions, idle events and applications of its local database, under      *)
(* their local ids, again and again as they change (AgentSessionService,    *)
(* AgentIdleService, AgentApplicationService).  The server looks the local  *)
(* id up and inserts or updates.  An idle event or application must belong  *)
(* to a session the server knows: its local session id is mapped to the     *)
(* server's id first.                                                       *)
(*                                                                          *)
(* Idle events and applications are two tables of one shape, items here.    *)
(* Every lookup is filtered by the device, so one device is modelled.  A    *)
(* step of a worker is one statement.  An UPDATE writes the columns whose   *)
(* value differs from the one the session loaded, and no others.            *)
(*                                                                          *)
(* The agent is not in the repository.  It is taken to send one request at  *)
(* a time, the latest version of something it has no answer for, and to     *)
(* give up on a request that takes too long: such a request runs on.        *)
(***************************************************************************)
EXTENDS Naturals, Sequences, Functions, FiniteSets

CONSTANTS
  Worker,           \* the threads that serve requests
  LocalSession,     \* local session ids
  LocalItem,        \* local ids of idle events and applications
  Owner,            \* Owner[x]: the local session of item x
  Report,           \* Report[s]: the versions of session s the agent reports
  Content,          \* Content[x]: the versions of item x
  MaxFault,         \* bound: how many requests break off or are given up
  Null              \* NULL, and nothing

\* Local ids start at 1: a lower one is answered 400 before any statement.
ASSUME LocalIdAssumption ==
  /\ LocalSession \subseteq Nat \ {0}
  /\ LocalItem \cap LocalSession = {}
  /\ Null \notin Worker \union LocalSession \union LocalItem
ASSUME ReportAssumption ==
  /\ Owner \in [LocalItem -> LocalSession]
  /\ DOMAIN Report = LocalSession
  /\ \A s \in LocalSession :
       LET Set == Range(Report[s])
       IN  /\ Report[s] \in Seq(Set)
           /\ \A r \in Set : r = [logout |-> r.logout, duration |-> r.duration]
  /\ DOMAIN Content = LocalItem
  /\ \A x \in LocalItem : Content[x] \in Seq(Range(Content[x]))
ASSUME BoundAssumption == MaxFault \in Nat

VARIABLES
  sessions,         \* table sessions, in the order of its ids
  items,            \* table idle_events or applications
  pc,               \* pc[w]: where the thread is
  req,              \* req[w]: its request, a local id and a version
  owner,            \* owner[w]: the server's id of the item's session
  hit,              \* hit[w]: id of the row it found, or 0
  seen,             \* seen[w]: that row as the session loaded it
  version,          \* version[x]: the version the agent's database holds
  acked,            \* acked[x]: the version last acknowledged to the agent
  waiting,          \* the worker whose answer the agent waits for
  abandoned,        \* what it ever gave up a request of (history)
  faults

Local == LocalSession \union LocalItem
tables == <<sessions, items>>
work == <<pc, req, owner, hit, seen>>
agent == <<version, acked, waiting, abandoned>>
vars == <<tables, work, agent, faults>>

Versions(x) == IF x \in LocalSession THEN Report[x] ELSE Content[x]
Logouts(s) == {Report[s][i].logout : i \in DOMAIN Report[s]} \ {Null}
Durations(s) == {Report[s][i].duration : i \in DOMAIN Report[s]} \ {Null}

SessionRow ==
  [local : LocalSession, logout : (UNION {Logouts(s) : s \in LocalSession}) \union {Null},
   status : {"ACTIVE", "LOGOUT"},
   duration : (UNION {Durations(s) : s \in LocalSession}) \union {Null}]
ItemRow ==
  [local : LocalItem, session : Nat \ {0},
   content : UNION {Range(Content[x]) : x \in LocalItem}]

Request == [id : Local, version : Nat \ {0}]

TypeOK ==
  /\ Range(sessions) \subseteq SessionRow
  /\ Range(items) \subseteq ItemRow
  /\ pc \in [Worker -> {"idle", "lookup", "find", "write", "answer"}]
  /\ req \in [Worker -> Request \union {Null}]
  /\ owner \in [Worker -> Nat]
  /\ hit \in [Worker -> Nat]
  /\ seen \in [Worker -> SessionRow \union ItemRow \union {Null}]
  /\ version \in [Local -> Nat]
  /\ acked \in [Local -> Nat]
  /\ waiting \in Worker \union {Null}
  /\ abandoned \subseteq Local
  /\ faults \in 0..MaxFault

Init ==
  /\ sessions = <<>> /\ items = <<>>
  /\ pc = [w \in Worker |-> "idle"]
  /\ req = [w \in Worker |-> Null]
  /\ owner = [w \in Worker |-> 0]
  /\ hit = [w \in Worker |-> 0]
  /\ seen = [w \in Worker |-> Null]
  /\ version = [x \in Local |-> 0]
  /\ acked = [x \in Local |-> 0]
  /\ waiting = Null
  /\ abandoned = {}
  /\ faults = 0

-----------------------------------------------------------------------------
(* The agent.                                                               *)

\* Something starts or changes in the agent's database; an item within its
\* session.
Progress(x) ==
  /\ version[x] < Len(Versions(x))
  /\ x \in LocalItem => version[Owner[x]] > 0
  /\ version' = [version EXCEPT ![x] = @ + 1]
  /\ UNCHANGED <<tables, work, acked, waiting, abandoned, faults>>

Send(w, x) ==
  /\ waiting = Null /\ pc[w] = "idle"
  /\ acked[x] < version[x]
  /\ pc' = [pc EXCEPT ![w] = "lookup"]
  /\ req' = [req EXCEPT ![w] = [id |-> x, version |-> version[x]]]
  /\ waiting' = w
  /\ UNCHANGED <<tables, owner, hit, seen, version, acked, abandoned, faults>>

GiveUp ==
  /\ waiting # Null
  /\ faults < MaxFault
  /\ faults' = faults + 1
  /\ abandoned' = abandoned \union {req[waiting].id}
  /\ waiting' = Null
  /\ UNCHANGED <<tables, work, version, acked>>

-----------------------------------------------------------------------------
(* The server.                                                              *)

Serves(w, set) == req[w] # Null /\ req[w].id \in set
Reported(w) == Report[req[w].id][req[w].version]
Reads(w) == Content[req[w].id][req[w].version]
SessionsOf(s) == {i \in DOMAIN sessions : sessions[i].local = s}
ItemsOf(x) == {i \in DOMAIN items : items[i].local = x}

\* The request ends; the agent learns of it if it still waits.
Release(w) ==
  /\ pc' = [pc EXCEPT ![w] = "idle"]
  /\ req' = [req EXCEPT ![w] = Null]
  /\ owner' = [owner EXCEPT ![w] = 0]
  /\ hit' = [hit EXCEPT ![w] = 0]
  /\ seen' = [seen EXCEPT ![w] = Null]
  /\ waiting' = IF waiting = w THEN Null ELSE waiting

\* A lookup loads the row it finds, if any.
Load(w, found, row) ==
  \/ /\ found = {}
     /\ UNCHANGED <<hit, seen>>
  \/ \E i \in found :
       /\ hit' = [hit EXCEPT ![w] = i]
       /\ seen' = [seen EXCEPT ![w] = row[i]]

\* get_by_local_session_id.
LookupSession(w) ==
  /\ pc[w] = "lookup" /\ Serves(w, LocalSession)
  /\ Load(w, SessionsOf(req[w].id), sessions)
  /\ pc' = [pc EXCEPT ![w] = "write"]
  /\ UNCHANGED <<tables, req, owner, agent, faults>>

Status(logout) == IF logout = Null THEN "ACTIVE" ELSE "LOGOUT"

\* Faulty: an open session is stored as OPEN.
FaultyNewSession(w) ==
  [local |-> req[w].id, logout |-> Reported(w).logout, status |-> "OPEN",
   duration |-> Reported(w).duration]

NewSession(w) ==
  [local |-> req[w].id, logout |-> Reported(w).logout,
   status |-> Status(Reported(w).logout), duration |-> Reported(w).duration]

\* Faulty: no constraint makes (device_id, local_session_id) unique.
FaultyCreateSession(w) ==
  /\ pc[w] = "write" /\ Serves(w, LocalSession) /\ hit[w] = 0
  /\ sessions' = Append(sessions, NewSession(w))
  /\ pc' = [pc EXCEPT ![w] = "answer"]
  /\ UNCHANGED <<items, req, owner, hit, seen, agent, faults>>

\* The lookup found nothing: insert and commit.
CreateSession(w) ==
  /\ pc[w] = "write" /\ Serves(w, LocalSession) /\ hit[w] = 0
  /\ SessionsOf(req[w].id) = {}
  /\ sessions' = Append(sessions, NewSession(w))
  /\ pc' = [pc EXCEPT ![w] = "answer"]
  /\ UNCHANGED <<items, req, owner, hit, seen, agent, faults>>

\* A column of an UPDATE: the new value if it differs from the loaded one,
\* otherwise what the table holds by now.
Column(stored, old, new) == IF new = old THEN stored ELSE new

\* Faulty: a NULL duration_seconds is stored too.
NullMerged(row, old, r) ==
  [row EXCEPT !.logout = Column(@, old.logout, r.logout),
              !.status = Column(@, old.status, Status(r.logout)),
              !.duration = Column(@, old.duration, r.duration)]

\* Faulty: a session that is open again keeps its status.
StickyMerged(row, old, r) ==
  [row EXCEPT !.logout = Column(@, old.logout, r.logout),
              !.status = IF r.logout = Null THEN @ ELSE "LOGOUT",
              !.duration = IF r.duration = Null THEN @ ELSE r.duration]

\* Faulty: a logout time is stored once.
OnceMerged(row, old, r) ==
  [row EXCEPT !.logout = IF old.logout = Null THEN r.logout ELSE @,
              !.status = Column(@, old.status, Status(r.logout)),
              !.duration = IF r.duration = Null THEN @ ELSE r.duration]

\* The assignments of the else branch, and the UPDATE the commit makes of them.
Merged(row, old, r) ==
  [row EXCEPT !.logout = Column(@, old.logout, r.logout),
              !.status = Column(@, old.status, Status(r.logout)),
              !.duration = IF r.duration = Null THEN @
                           ELSE Column(@, old.duration, r.duration)]

UpdateSession(w) ==
  /\ pc[w] = "write" /\ Serves(w, LocalSession) /\ hit[w] # 0
  /\ sessions' = [sessions EXCEPT ![hit[w]] = Merged(@, seen[w], Reported(w))]
  /\ pc' = [pc EXCEPT ![w] = "answer"]
  /\ UNCHANGED <<items, req, owner, hit, seen, agent, faults>>

\* Faulty: takes the local session id for the server's.
FaultyMapped(w) == {Owner[req[w].id]} \cap DOMAIN sessions

\* Faulty: looks among the active sessions only.
ActiveMapped(w) ==
  {i \in SessionsOf(Owner[req[w].id]) : sessions[i].status = "ACTIVE"}

\* The server's session for the item's local session id.
Mapped(w) == SessionsOf(Owner[req[w].id])

MapItem(w) ==
  /\ pc[w] = "lookup" /\ Serves(w, LocalItem)
  /\ \E i \in Mapped(w) : owner' = [owner EXCEPT ![w] = i]
  /\ pc' = [pc EXCEPT ![w] = "find"]
  /\ UNCHANGED <<tables, req, hit, seen, agent, faults>>

\* "Session mapping not found": 400, the agent has to send the session first.
Unmapped(w) ==
  /\ pc[w] = "lookup" /\ Serves(w, LocalItem)
  /\ Mapped(w) = {}
  /\ Release(w)
  /\ UNCHANGED <<tables, version, acked, abandoned, faults>>

\* get_by_local_idle_id, get_by_local_application_id.
FindItem(w) ==
  /\ pc[w] = "find"
  /\ Load(w, ItemsOf(req[w].id), items)
  /\ pc' = [pc EXCEPT ![w] = "write"]
  /\ UNCHANGED <<tables, req, owner, agent, faults>>

CreateItem(w) ==
  /\ pc[w] = "write" /\ Serves(w, LocalItem) /\ hit[w] = 0
  /\ ItemsOf(req[w].id) = {}
  /\ items' = Append(items, [local |-> req[w].id, session |-> owner[w],
                             content |-> Reads(w)])
  /\ pc' = [pc EXCEPT ![w] = "answer"]
  /\ UNCHANGED <<sessions, req, owner, hit, seen, agent, faults>>

UpdateItem(w) ==
  /\ pc[w] = "write" /\ Serves(w, LocalItem) /\ hit[w] # 0
  /\ items' = [items EXCEPT
       ![hit[w]].session = Column(@, seen[w].session, owner[w]),
       ![hit[w]].content = Column(@, seen[w].content, Reads(w))]
  /\ pc' = [pc EXCEPT ![w] = "answer"]
  /\ UNCHANGED <<sessions, req, owner, hit, seen, agent, faults>>

\* Another request inserted the row since the lookup: the commit raises, 500.
Refused(w) ==
  /\ pc[w] = "write" /\ hit[w] = 0
  /\ IF Serves(w, LocalSession) THEN SessionsOf(req[w].id) # {}
                                ELSE ItemsOf(req[w].id) # {}
  /\ Release(w)
  /\ UNCHANGED <<tables, version, acked, abandoned, faults>>

\* 200; it counts if the agent still waits for it.
Answer(w) ==
  /\ pc[w] = "answer"
  /\ acked' = IF waiting = w THEN [acked EXCEPT ![req[w].id] = req[w].version] ELSE acked
  /\ Release(w)
  /\ UNCHANGED <<tables, version, abandoned, faults>>

\* A statement fails, or the process stops: what was committed stays.
Abort(w) ==
  /\ pc[w] # "idle"
  /\ faults < MaxFault
  /\ faults' = faults + 1
  /\ Release(w)
  /\ UNCHANGED <<tables, version, acked, abandoned>>

Serve(w) ==
  \/ LookupSession(w) \/ CreateSession(w) \/ UpdateSession(w)
  \/ MapItem(w) \/ Unmapped(w) \/ FindItem(w) \/ CreateItem(w) \/ UpdateItem(w)
  \/ Refused(w) \/ Answer(w)

Next ==
  \/ \E x \in Local : Progress(x)
  \/ \E w \in Worker, x \in Local : Send(w, x)
  \/ GiveUp
  \/ \E w \in Worker : Serve(w) \/ Abort(w)

Spec == Init /\ [][Next]_vars

\* The agent keeps sending what is not acknowledged.
Fairness ==
  /\ \A w \in Worker : WF_vars(Serve(w))
  /\ \A x \in Local : SF_vars(\E w \in Worker : Send(w, x))

FairSpec == Spec /\ Fairness

-----------------------------------------------------------------------------
(* Properties.                                                              *)

\* A local id stands for one row, though requests look before they insert.
OneRowPerLocalId ==
  /\ \A i, j \in DOMAIN sessions : sessions[i].local = sessions[j].local => i = j
  /\ \A i, j \in DOMAIN items : items[i].local = items[j].local => i = j

\* A session is ACTIVE exactly while it has no logout time, whatever requests
\* race over its columns, unless the agent reports two logout times for it:
\* then an UPDATE of one column may meet another's UPDATE of both.
StatusMatchesLogout ==
  \A i \in DOMAIN sessions :
    Cardinality(Logouts(sessions[i].local)) <= 1 =>
      sessions[i].status = Status(sessions[i].logout)

\* An item hangs on the row of the session it happened in.
ItemInItsSession ==
  \A i \in DOMAIN items :
    /\ items[i].session \in DOMAIN sessions
    /\ sessions[items[i].session].local = Owner[items[i].local]

\* A row holds what report r says, but for a duration it leaves out.
Holds(row, r) ==
  /\ row.logout = r.logout
  /\ r.duration # Null => row.duration = r.duration

\* What the agent was told is stored stays stored, or a later version of it
\* is, as long as no request it gave up on is still at work.
AckedPersists ==
  \A s \in LocalSession :
    acked[s] > 0 /\ s \notin abandoned =>
      \E i \in SessionsOf(s), v \in acked[s]..version[s] :
        Holds(sessions[i], Report[s][v])

\* A stored duration is never erased: the comment in AgentSessionService.sync.
DurationKept ==
  [][\A i \in DOMAIN sessions :
       sessions[i].duration # Null => sessions'[i].duration # Null]_vars

\* Everything the agent's database holds is acknowledged in the end, once it
\* stops changing: items that overtake their session and refused inserts too.
EventuallySynced == <>[](acked = version)

-----------------------------------------------------------------------------
(* The inductive invariant behind the properties; each part needs the ones  *)
(* before it.                                                                *)

TableOK == sessions \in Seq(SessionRow) /\ items \in Seq(ItemRow)

\* A request carries a version the agent has had.
RequestOK ==
  /\ \A x \in Local : acked[x] <= version[x] /\ version[x] <= Len(Versions(x))
  /\ \A w \in Worker : pc[w] # "idle" =>
       /\ req[w] \in Request
       /\ req[w].version <= version[req[w].id]
  /\ \A w \in Worker : pc[w] = "find" => req[w].id \in LocalItem

\* The row a thread found is still there, and what it loaded is a row of it.
FoundOK ==
  \A w \in Worker : hit[w] # 0 =>
    /\ pc[w] \in {"write", "answer"}
    /\ IF req[w].id \in LocalSession
       THEN hit[w] \in SessionsOf(req[w].id) /\ seen[w] \in SessionRow
       ELSE hit[w] \in ItemsOf(req[w].id) /\ seen[w] \in ItemRow

\* The session an item was mapped to is the one it happened in.
OwnerOK ==
  \A w \in Worker :
    pc[w] \in {"find", "write"} /\ req[w].id \in LocalItem =>
      owner[w] \in SessionsOf(Owner[req[w].id])

\* Stored or loaded, the columns of a session agree, and its logout time is
\* one that was reported for it.
Consistent(row, s) ==
  /\ row.local = s
  /\ row.logout \in Logouts(s) \union {Null}
  /\ Cardinality(Logouts(s)) <= 1 => row.status = Status(row.logout)

ColumnsOK ==
  /\ \A i \in DOMAIN sessions : Consistent(sessions[i], sessions[i].local)
  /\ \A w \in Worker :
       hit[w] # 0 /\ req[w].id \in LocalSession => Consistent(seen[w], req[w].id)

\* Of something it never gave up, the agent has one request at a time: what
\* that one loaded is current, and what it wrote stays until it is answered.
AloneOK ==
  /\ waiting # Null => pc[waiting] # "idle"
  /\ \A w \in Worker : pc[w] # "idle" /\ req[w].id \notin abandoned =>
       /\ waiting = w
       /\ acked[req[w].id] <= req[w].version
  /\ \A w \in Worker :
       pc[w] = "write" /\ hit[w] # 0 /\ req[w].id \in LocalSession \ abandoned =>
         seen[w] = sessions[hit[w]]
  /\ \A w \in Worker :
       pc[w] = "answer" /\ req[w].id \in LocalSession \ abandoned =>
         \E i \in SessionsOf(req[w].id) : Holds(sessions[i], Reported(w))

IInv ==
  /\ TypeOK /\ TableOK /\ RequestOK /\ FoundOK
  /\ OwnerOK /\ ItemInItsSession
  /\ OneRowPerLocalId
  /\ ColumnsOK
  /\ AloneOK /\ AckedPersists

=============================================================================
