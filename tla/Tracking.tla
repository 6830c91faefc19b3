------------------------------ MODULE Tracking ------------------------------
(* The legacy tracking endpoints of one device: login and logout of a        *)
(* session, start and end of an idle event, start and stop of an             *)
(* application, and the count of keys and clicks.  Every request reads the   *)
(* active session, reads the open row of that session, takes the time and    *)
(* commits, in statements of their own, and the server answers requests in   *)
(* concurrent threads.  None of these rows has a local id, so that no index  *)
(* refuses a second one.                                                     *)
EXTENDS Naturals, Sequences, FiniteSets

CONSTANTS Workers,  \* the threads of the server
          MaxTime,  \* bound of the clock
          MaxRows   \* bound of the rows of all tables

ASSUME WorkersAssumption == IsFiniteSet(Workers) /\ Workers # {}
ASSUME BoundsAssumption == MaxTime \in Nat /\ MaxRows \in Nat

VARIABLES sessions,    \* the tables, by id
          idles,
          applications,
          activities,
          requests,    \* what every thread has read so far
          clock,
          overlapped   \* whether two requests have ever run at a time

vars == <<sessions, idles, applications, activities, requests, clock, overlapped>>

\* NULL in a column, no row found by a query.
None == 0

Kinds == {"login", "logout", "idle start", "idle end", "application start",
          "application stop", "activity"}

Free == [kind |-> "none", step |-> "free", session |-> None, row |-> None, now |-> None]

Init == /\ sessions = << >>
        /\ idles = << >>
        /\ applications = << >>
        /\ activities = << >>
        /\ requests = [w \in Workers |-> Free]
        /\ clock = 1
        /\ overlapped = FALSE

-----------------------------------------------------------------------------
Active == {s \in DOMAIN sessions : sessions[s].status = "ACTIVE"}

\* A fault: the newest session of the device, if it is active.
FaultyGetActive ==
    {s \in Active : \A t \in DOMAIN sessions : sessions[t].login <= sessions[s].login}

\* The active sessions whose login is the latest: one, but for equal times.
GetActive == {s \in Active : \A t \in Active : sessions[t].login <= sessions[s].login}

Open(table, s) ==
    {i \in DOMAIN table : table[i].session = s /\ table[i].end = None}

\* A fault: the row that started last is taken, open or not.
FaultyGetOpen(table, s) ==
    LET own == {i \in DOMAIN table : table[i].session = s}
    IN  {i \in own : \A j \in own : table[j].start <= table[i].start}

\* The open rows of a session that started last.
GetOpen(table, s) ==
    {i \in Open(table, s) : \A j \in Open(table, s) : table[j].start <= table[i].start}

Table(kind) == IF kind \in {"idle start", "idle end"} THEN idles ELSE applications

Row(r) == [session |-> r.session, start |-> r.now, end |-> None]

Close(table, r) ==
    IF r.row = None THEN table ELSE [table EXCEPT ![r.row].end = r.now]

-----------------------------------------------------------------------------
(* The first statements of a request: the device and its active session.     *)
(* A login that finds a session and any other request that finds none are    *)
(* answered without a change.                                                *)
FindSession(w, kind) ==
    /\ requests[w] = Free
    /\ \/ /\ kind = "login"
          /\ GetActive = {}
          /\ requests' = [requests EXCEPT ![w] = [kind |-> kind, step |-> "commit",
                              session |-> None, row |-> None, now |-> clock]]
       \/ /\ kind \in {"logout", "activity"}
          /\ \E s \in GetActive :
                requests' = [requests EXCEPT ![w] = [kind |-> kind, step |-> "commit",
                                session |-> s, row |-> None, now |-> clock]]
       \/ /\ kind \notin {"login", "logout", "activity"}
          /\ \E s \in GetActive :
                requests' = [requests EXCEPT ![w] = [kind |-> kind, step |-> "row",
                                session |-> s, row |-> None, now |-> None]]
    /\ overlapped' = (overlapped \/ \E v \in Workers : requests[v] # Free)
    /\ UNCHANGED <<sessions, idles, applications, activities, clock>>

(* The open row of the session that was found, and the time of the change:   *)
(* an idle start is answered with the row there is, an end or a stop without *)
(* one is answered with nothing, and a start of an application goes on.      *)
FindRow(w) ==
    LET r == requests[w]
        found == GetOpen(Table(r.kind), r.session)
        Go(i) == requests' = [requests EXCEPT ![w].step = "commit", ![w].row = i, ![w].now = clock]
    IN  /\ r.step = "row"
        /\ \/ /\ r.kind = "idle start"
              /\ IF found = {} THEN Go(None) ELSE requests' = [requests EXCEPT ![w] = Free]
           \/ /\ r.kind \in {"idle end", "application stop"}
              /\ \/ found = {} /\ requests' = [requests EXCEPT ![w] = Free]
                 \/ \E i \in found : Go(i)
           \/ /\ r.kind = "application start"
              /\ \/ found = {} /\ Go(None)
                 \/ \E i \in found : Go(i)
        /\ UNCHANGED <<sessions, idles, applications, activities, clock, overlapped>>

-----------------------------------------------------------------------------
Room == Len(sessions) + Len(idles) + Len(applications) + Len(activities) < MaxRows

Committing(w, kind) ==
    /\ requests[w].kind = kind
    /\ requests[w].step = "commit"
    /\ requests' = [requests EXCEPT ![w] = Free]
    /\ UNCHANGED <<clock, overlapped>>

Login(w) ==
    /\ Committing(w, "login")
    /\ Room
    /\ sessions' = Append(sessions,
                          [login |-> requests[w].now, logout |-> None, status |-> "ACTIVE"])
    /\ UNCHANGED <<idles, applications, activities>>

Logout(w) ==
    /\ Committing(w, "logout")
    /\ sessions' = [sessions EXCEPT ![requests[w].session].logout = requests[w].now,
                                    ![requests[w].session].status = "LOGOUT"]
    /\ UNCHANGED <<idles, applications, activities>>

IdleStart(w) ==
    /\ Committing(w, "idle start")
    /\ Room
    /\ idles' = Append(idles, Row(requests[w]))
    /\ UNCHANGED <<sessions, applications, activities>>

IdleEnd(w) ==
    /\ Committing(w, "idle end")
    /\ idles' = Close(idles, requests[w])
    /\ UNCHANGED <<sessions, applications, activities>>

\* The row that was read is closed, even when it has been closed meanwhile,
\* and the new one inserted, in one commit.
ReplaceActive(w) ==
    /\ Committing(w, "application start")
    /\ Room
    /\ applications' = Append(Close(applications, requests[w]), Row(requests[w]))
    /\ UNCHANGED <<sessions, idles, activities>>

ApplicationStop(w) ==
    /\ Committing(w, "application stop")
    /\ applications' = Close(applications, requests[w])
    /\ UNCHANGED <<sessions, idles, activities>>

Activity(w) ==
    /\ Committing(w, "activity")
    /\ Room
    /\ activities' = Append(activities, [session |-> requests[w].session, time |-> requests[w].now])
    /\ UNCHANGED <<sessions, idles, applications>>

\* The commit fails, or the thread dies: nothing of the request stays.
Rollback(w) ==
    /\ requests[w].step = "commit"
    /\ requests' = [requests EXCEPT ![w] = Free]
    /\ UNCHANGED <<sessions, idles, applications, activities, clock, overlapped>>

Tick == /\ clock < MaxTime
        /\ clock' = clock + 1
        /\ UNCHANGED <<sessions, idles, applications, activities, requests, overlapped>>

Next == \/ Tick
        \/ \E w \in Workers :
              \/ \E kind \in Kinds : FindSession(w, kind)
              \/ FindRow(w)
              \/ Login(w) \/ Logout(w)
              \/ IdleStart(w) \/ IdleEnd(w)
              \/ ReplaceActive(w) \/ ApplicationStop(w)
              \/ Activity(w)
              \/ Rollback(w)

Spec == Init /\ [][Next]_vars

-----------------------------------------------------------------------------
(* The dashboard takes any active session of the device, and of its          *)
(* applications the one that started last.                                   *)
Shown(s) ==
    LET own == {i \in DOMAIN applications : applications[i].session = s}
    IN  {i \in own : \A j \in own : applications[j].start <= applications[i].start}

-----------------------------------------------------------------------------
(* However requests overlap, a device has at most one active session, and a  *)
(* session one open idle event, for each thread: what a race lets through is *)
(* not a leak, for the next login and the next start find what is open       *)
(* (session_service.py 21-33, idle_service.py 36-53).  No such bound holds   *)
(* of applications, where a start goes on from the row it found.             *)
AtMostOnePerThread ==
    /\ Cardinality(Active) <= Cardinality(Workers)
    /\ \A s \in DOMAIN sessions : Cardinality(Open(idles, s)) <= Cardinality(Workers)

Ends(x, time) == x # None /\ x <= time

InOrder(table) ==
    \A i, j \in DOMAIN table :
        i < j /\ table[i].session = table[j].session => Ends(table[i].end, table[j].start)

InItsSession(table) ==
    \A i \in DOMAIN table :
        LET s == sessions[table[i].session]
        IN  /\ s.login <= table[i].start
            /\ s.logout # None => table[i].start <= s.logout /\ table[i].end <= s.logout

(* As long as the requests of a device have come one at a time, its sessions *)
(* follow each other, the idle events and the applications of a session      *)
(* follow each other inside of it, and what the dashboard shows as current   *)
(* is the application that is open (application_repository.py 69-89,         *)
(* dashboard.py 114-147).                                                    *)
OneAtATime ==
    ~ overlapped =>
        /\ \A s, t \in DOMAIN sessions : s < t => Ends(sessions[s].logout, sessions[t].login)
        /\ \A table \in {idles, applications} : InOrder(table) /\ InItsSession(table)
        /\ \A i \in DOMAIN activities : activities[i].time >= sessions[activities[i].session].login
        /\ \A s \in Active : Open(applications, s) \subseteq Shown(s)
-----------------------------------------------------------------------------
\* The parts of the inductive invariant.

SessionRow == [login : Nat, logout : Nat, status : {"ACTIVE", "LOGOUT"}]
TimeRow == [session : Nat, start : Nat, end : Nat]
CountRow == [session : Nat, time : Nat]
Request == [kind : Kinds \cup {"none"}, step : {"free", "row", "commit"},
            session : Nat, row : Nat, now : Nat]

TypeOK ==
    /\ sessions \in Seq(SessionRow)
    /\ idles \in Seq(TimeRow) /\ applications \in Seq(TimeRow)
    /\ activities \in Seq(CountRow)
    /\ requests \in [Workers -> Request]
    /\ clock \in Nat \ {0}
    /\ overlapped \in BOOLEAN

\* Every row has a session, and so has every request that has found one.
Owned ==
    /\ \A i \in DOMAIN idles : idles[i].session \in DOMAIN sessions
    /\ \A i \in DOMAIN applications : applications[i].session \in DOMAIN sessions
    /\ \A i \in DOMAIN activities : activities[i].session \in DOMAIN sessions
    /\ \A w \in Workers : requests[w].step # "free" /\ requests[w].kind # "login"
                            => requests[w].session \in DOMAIN sessions

\* No time in the tables is later than this one.
Past(now) ==
    /\ \A s \in DOMAIN sessions : sessions[s].login <= now /\ sessions[s].logout <= now
    /\ \A table \in {idles, applications} : \A i \in DOMAIN table :
          table[i].start <= now /\ table[i].end <= now

\* Nothing is of the future, and who commits has taken the time.
Timely ==
    /\ Past(clock)
    /\ \A w \in Workers : /\ requests[w].now <= clock
                          /\ requests[w].step = "commit" => requests[w].now # None

\* The threads that have found nothing open and are about to insert a row.
LoggingIn == {w \in Workers : requests[w].kind = "login" /\ requests[w].step = "commit"}

StartingIdle(s) == {w \in Workers : /\ requests[w].kind = "idle start"
                                    /\ requests[w].step = "commit"
                                    /\ requests[w].session = s}

\* A thread that is about to insert counts like the row it will insert.
Bounded ==
    /\ Cardinality(Active) + Cardinality(LoggingIn) <= Cardinality(Workers)
    /\ \A s \in DOMAIN sessions :
          Cardinality(Open(idles, s)) + Cardinality(StartingIdle(s)) <= Cardinality(Workers)

\* What a thread has read is still so when it commits.
StillSo(r) ==
    /\ r.step = "row" => r.session \in Active
    /\ r.step = "commit" =>
          /\ Past(r.now)
          /\ IF r.kind = "login" THEN Active = {} ELSE r.session \in Active
          /\ r.kind = "idle start" => Open(idles, r.session) = {}
          /\ r.kind = "idle end" => r.row \in Open(idles, r.session)
          /\ r.kind = "application stop" => r.row \in Open(applications, r.session)
          /\ r.kind = "application start" =>
                IF r.row = None THEN Open(applications, r.session) = {}
                                ELSE r.row \in Open(applications, r.session)

InSequence == \A s, t \in DOMAIN sessions : s < t => Ends(sessions[s].logout, sessions[t].login)

Forward(table) == \A i \in DOMAIN table : table[i].end # None => table[i].start <= table[i].end

\* What holds as long as the requests come one at a time.
Alone ==
    /\ \A v, w \in Workers : requests[v] # Free /\ requests[w] # Free => v = w
    /\ \A w \in Workers : StillSo(requests[w])
    /\ \A s \in DOMAIN sessions : sessions[s].status = "ACTIVE" <=> sessions[s].logout = None
    /\ InSequence
    /\ \A table \in {idles, applications} : Forward(table) /\ InOrder(table) /\ InItsSession(table)
    /\ \A i \in DOMAIN activities : activities[i].time >= sessions[activities[i].session].login

IInv == TypeOK /\ Owned /\ Timely /\ Bounded /\ (~ overlapped => Alone)
=============================================================================
