--------------------------- MODULE TrackingProofs ---------------------------
(* Proofs about the legacy tracking endpoints: however many threads serve    *)
(* the device and however their statements interleave, each of them adds at  *)
(* most one active session and one open idle event, and requests that come   *)
(* one at a time leave sessions and rows that follow each other.             *)
EXTENDS Tracking, FiniteSetTheorems, WellFoundedInduction, TLAPS

-----------------------------------------------------------------------------
(* What the statements do to a table.                                        *)

\* An INSERT puts a row behind the others.
LEMMA Appended ==
  ASSUME NEW R, NEW q \in Seq(R), NEW x \in R
  PROVE  /\ Append(q, x) \in Seq(R)
         /\ Len(q) \in Nat
         /\ DOMAIN q = 1 .. Len(q)
         /\ DOMAIN Append(q, x) = 1 .. Len(q) + 1
         /\ \A i \in DOMAIN q : Append(q, x)[i] = q[i] /\ q[i] \in R
         /\ Append(q, x)[Len(q) + 1] = x
OBVIOUS

\* Closing a row changes its end and nothing else.
LEMMA Closed ==
  ASSUME NEW q \in Seq(TimeRow), NEW r \in Request
  PROVE  /\ Close(q, r) \in Seq(TimeRow)
         /\ DOMAIN Close(q, r) = DOMAIN q
         /\ Len(Close(q, r)) = Len(q)
         /\ \A i \in DOMAIN q :
              /\ q[i] \in TimeRow
              /\ Close(q, r)[i] \in TimeRow
              /\ Close(q, r)[i].session = q[i].session
              /\ Close(q, r)[i].start = q[i].start
              /\ i # r.row => Close(q, r)[i].end = q[i].end
              /\ i = r.row => Close(q, r)[i].end = r.now
<1>1. DOMAIN q = 1 .. Len(q) /\ Len(q) \in Nat /\ \A i \in DOMAIN q : q[i] \in TimeRow
  OBVIOUS
<1>2. r.row \in Nat /\ r.now \in Nat
  BY DEF Request
<1>3. CASE r.row \notin DOMAIN q
  <2>1. Close(q, r) = q
    BY <1>1, <1>2, <1>3 DEF Close, None
  <2> QED
    BY <1>1, <1>3, <2>1
<1>4. CASE r.row \in DOMAIN q
  <2>1. Close(q, r) = [q EXCEPT ![r.row].end = r.now]
    BY <1>1, <1>4 DEF Close, None
  <2>2. [q[r.row] EXCEPT !.end = r.now] \in TimeRow
    BY <1>1, <1>2, <1>4 DEF TimeRow
  <2>3. Close(q, r) = [q EXCEPT ![r.row] = [q[r.row] EXCEPT !.end = r.now]]
    BY <2>1
  <2>4. Close(q, r) \in Seq(TimeRow) /\ DOMAIN Close(q, r) = DOMAIN q /\ Len(Close(q, r)) = Len(q)
    BY <1>1, <1>4, <2>2, <2>3
  <2>5. \A i \in DOMAIN q : i # r.row => Close(q, r)[i] = q[i]
    BY <1>1, <2>3
  <2>6. Close(q, r)[r.row] = [q[r.row] EXCEPT !.end = r.now]
    BY <1>4, <2>3
  <2>7. /\ [q[r.row] EXCEPT !.end = r.now].session = q[r.row].session
        /\ [q[r.row] EXCEPT !.end = r.now].start = q[r.row].start
        /\ [q[r.row] EXCEPT !.end = r.now].end = r.now
    BY <1>1, <1>4 DEF TimeRow
  <2> QED
    BY <1>1, <2>2, <2>4, <2>5, <2>6, <2>7
<1> QED
  BY <1>3, <1>4

\* The row of a table that a request would add.
LEMMA RowIsRow ==
  ASSUME NEW r \in Request
  PROVE  /\ Row(r) \in TimeRow
         /\ Row(r).session = r.session /\ Row(r).start = r.now /\ Row(r).end = None
BY DEF Request, Row, TimeRow, None

\* What TypeOK says, by element.
LEMMA Elements ==
  ASSUME TypeOK
  PROVE  /\ Len(sessions) \in Nat /\ DOMAIN sessions = 1 .. Len(sessions)
         /\ Len(idles) \in Nat /\ DOMAIN idles = 1 .. Len(idles)
         /\ Len(applications) \in Nat /\ DOMAIN applications = 1 .. Len(applications)
         /\ Len(activities) \in Nat /\ DOMAIN activities = 1 .. Len(activities)
         /\ \A s \in DOMAIN sessions :
              /\ sessions[s] \in SessionRow
              /\ sessions[s].login \in Nat /\ sessions[s].logout \in Nat
              /\ sessions[s].status \in {"ACTIVE", "LOGOUT"}
         /\ \A table \in {idles, applications} : \A i \in DOMAIN table :
              /\ table[i] \in TimeRow
              /\ table[i].session \in Nat /\ table[i].start \in Nat /\ table[i].end \in Nat
         /\ \A i \in DOMAIN activities :
              activities[i] \in CountRow /\ activities[i].session \in Nat /\ activities[i].time \in Nat
         /\ \A w \in Workers : /\ requests[w] \in Request
                               /\ requests[w].session \in Nat /\ requests[w].row \in Nat
                               /\ requests[w].now \in Nat
<1> USE DEF TypeOK
<1>1. /\ Len(sessions) \in Nat /\ DOMAIN sessions = 1 .. Len(sessions)
      /\ Len(idles) \in Nat /\ DOMAIN idles = 1 .. Len(idles)
      /\ Len(applications) \in Nat /\ DOMAIN applications = 1 .. Len(applications)
      /\ Len(activities) \in Nat /\ DOMAIN activities = 1 .. Len(activities)
  OBVIOUS
<1>2. \A s \in DOMAIN sessions : sessions[s] \in SessionRow
  OBVIOUS
<1>3. \A table \in {idles, applications} : \A i \in DOMAIN table : table[i] \in TimeRow
  OBVIOUS
<1>4. \A i \in DOMAIN activities : activities[i] \in CountRow
  OBVIOUS
<1>5. \A w \in Workers : requests[w] \in Request
  OBVIOUS
<1> HIDE DEF TypeOK
<1>6. \A s \in DOMAIN sessions :
         /\ sessions[s].login \in Nat /\ sessions[s].logout \in Nat
         /\ sessions[s].status \in {"ACTIVE", "LOGOUT"}
  BY <1>2 DEF SessionRow
<1>7. \A table \in {idles, applications} : \A i \in DOMAIN table :
         table[i].session \in Nat /\ table[i].start \in Nat /\ table[i].end \in Nat
  BY <1>3 DEF TimeRow
<1>8. \A i \in DOMAIN activities : activities[i].session \in Nat /\ activities[i].time \in Nat
  BY <1>4 DEF CountRow
<1>9. \A w \in Workers :
         requests[w].session \in Nat /\ requests[w].row \in Nat /\ requests[w].now \in Nat
  BY <1>5 DEF Request
<1> QED
  BY <1>1, <1>2, <1>3, <1>4, <1>5, <1>6, <1>7, <1>8, <1>9

\* A logout changes its session and no other one.
LEMMA LoggedOut ==
  ASSUME TypeOK, NEW w \in Workers, Logout(w),
         requests[w].session \in DOMAIN sessions
  PROVE  /\ sessions' \in Seq(SessionRow)
         /\ DOMAIN sessions' = DOMAIN sessions
         /\ \A s \in DOMAIN sessions :
              /\ sessions'[s].login = sessions[s].login
              /\ s # requests[w].session => sessions'[s] = sessions[s]
              /\ s = requests[w].session =>
                   sessions'[s].logout = requests[w].now /\ sessions'[s].status = "LOGOUT"
<1> DEFINE s0 == requests[w].session
           new == [sessions[s0] EXCEPT !.logout = requests[w].now, !.status = "LOGOUT"]
<1>1. sessions' = [sessions EXCEPT ![s0] = new]
  BY DEF Logout
<1>2. /\ sessions \in Seq(SessionRow) /\ DOMAIN sessions = 1 .. Len(sessions)
      /\ sessions[s0] \in SessionRow /\ requests[w].now \in Nat
  BY Elements DEF TypeOK
<1>3. /\ new \in SessionRow /\ new.login = sessions[s0].login
      /\ new.logout = requests[w].now /\ new.status = "LOGOUT"
  BY <1>2 DEF SessionRow
<1> HIDE DEF new
<1>4. sessions' \in Seq(SessionRow) /\ DOMAIN sessions' = DOMAIN sessions
  BY <1>1, <1>2, <1>3
<1>5. \A s \in DOMAIN sessions : s # s0 => sessions'[s] = sessions[s]
  BY <1>1, <1>2
<1>6. sessions'[s0] = new
  BY <1>1, <1>2
<1> QED
  BY <1>3, <1>4, <1>5, <1>6

-----------------------------------------------------------------------------
(* What the requests do to each other: nothing.                              *)

LEMMA FreeIsRequest ==
  /\ Free \in Request
  /\ Free.kind = "none" /\ Free.step = "free" /\ Free.session = None
  /\ Free.row = None /\ Free.now = None
BY DEF Free, Request, None

LEMMA OneRequest ==
  ASSUME TypeOK, NEW w \in Workers, NEW q \in Request,
         requests' = [requests EXCEPT ![w] = q]
  PROVE  /\ requests' \in [Workers -> Request]
         /\ requests'[w] = q
         /\ \A v \in Workers : v # w => requests'[v] = requests[v]
BY DEF TypeOK

\* What a request knows after its first statements.
LEMMA SessionFound ==
  ASSUME TypeOK, NEW w \in Workers, NEW kind \in Kinds, FindSession(w, kind)
  PROVE  \E q \in Request :
           /\ requests' = [requests EXCEPT ![w] = q]
           /\ q.kind = kind /\ q.row = None
           /\ kind = "login" => /\ GetActive = {} /\ q.session = None
                                /\ q.step = "commit" /\ q.now = clock
           /\ kind # "login" => q.session \in GetActive
           /\ kind \in {"logout", "activity"} => q.step = "commit" /\ q.now = clock
           /\ kind \notin {"login", "logout", "activity"} => q.step = "row" /\ q.now = None
<1>1. clock \in Nat /\ 0 \in Nat
  BY DEF TypeOK
<1>2. \A s \in GetActive : s \in Nat
  BY Elements DEF GetActive, Active
<1>3. CASE kind = "login"
  <2> DEFINE q == [kind |-> kind, step |-> "commit", session |-> None, row |-> None, now |-> clock]
  <2>1. q \in Request
    BY <1>1 DEF Request, None
  <2> QED
    BY <1>3, <2>1 DEF FindSession
<1>4. CASE kind \in {"logout", "activity"}
  <2>1. PICK s \in GetActive :
          requests' = [requests EXCEPT ![w] = [kind |-> kind, step |-> "commit",
                          session |-> s, row |-> None, now |-> clock]]
    BY <1>4 DEF FindSession
  <2> DEFINE q == [kind |-> kind, step |-> "commit", session |-> s, row |-> None, now |-> clock]
  <2>2. q \in Request
    BY <1>1, <1>2 DEF Request, None
  <2> QED
    BY <1>4, <2>1, <2>2
<1>5. CASE kind \notin {"login", "logout", "activity"}
  <2>1. PICK s \in GetActive :
          requests' = [requests EXCEPT ![w] = [kind |-> kind, step |-> "row",
                          session |-> s, row |-> None, now |-> None]]
    BY <1>5 DEF FindSession
  <2> DEFINE q == [kind |-> kind, step |-> "row", session |-> s, row |-> None, now |-> None]
  <2>2. q \in Request
    BY <1>1, <1>2 DEF Request, None
  <2> QED
    BY <1>5, <2>1, <2>2
<1> QED
  BY <1>3, <1>4, <1>5

\* A request that goes on to its commit.
LEMMA GoesOn ==
  ASSUME TypeOK, NEW w \in Workers, NEW i \in Nat,
         requests' = [requests EXCEPT ![w].step = "commit", ![w].row = i, ![w].now = clock]
  PROVE  \E q \in Request :
           /\ requests' = [requests EXCEPT ![w] = q]
           /\ q.kind = requests[w].kind /\ q.session = requests[w].session
           /\ q.step = "commit" /\ q.row = i /\ q.now = clock
<1> DEFINE q == [requests[w] EXCEPT !.step = "commit", !.row = i, !.now = clock]
<1>1. requests[w] \in Request /\ clock \in Nat /\ requests \in [Workers -> Request]
  BY DEF TypeOK
<1>2. q \in Request
  BY <1>1 DEF Request
<1>3. /\ q.kind = requests[w].kind /\ q.session = requests[w].session
      /\ q.step = "commit" /\ q.row = i /\ q.now = clock
  BY <1>1 DEF Request
<1>4. requests' = [requests EXCEPT ![w] = q]
  BY <1>1
<1> QED
  BY <1>2, <1>3, <1>4

\* What a request knows when it commits.
LEMMA RowFound ==
  ASSUME TypeOK, NEW w \in Workers, FindRow(w)
  PROVE  \E q \in Request :
           /\ requests' = [requests EXCEPT ![w] = q]
           /\ \/ q = Free
              \/ /\ q.kind = requests[w].kind /\ q.session = requests[w].session
                 /\ q.step = "commit" /\ q.now = clock
                 /\ \/ /\ q.kind \in {"idle start", "application start"}
                       /\ GetOpen(Table(q.kind), q.session) = {} /\ q.row = None
                    \/ /\ q.kind \in {"idle end", "application start", "application stop"}
                       /\ q.row \in GetOpen(Table(q.kind), q.session)
<1> DEFINE kind == requests[w].kind
           found == GetOpen(Table(kind), requests[w].session)
<1>1. \A i \in found : i \in Nat
  <2>1. Table(kind) \in {idles, applications}
    BY DEF Table
  <2>2. found \subseteq DOMAIN Table(kind)
    BY DEF GetOpen, Open
  <2> QED
    BY <2>1, <2>2, Elements
<1>2. CASE requests' = [requests EXCEPT ![w] = Free]
  BY <1>2, FreeIsRequest
<1>3. CASE /\ kind \in {"idle start", "application start"} /\ found = {}
           /\ requests' = [requests EXCEPT ![w].step = "commit", ![w].row = None, ![w].now = clock]
  <2>1. None \in Nat
    BY DEF None
  <2>2. PICK q \in Request :
          /\ requests' = [requests EXCEPT ![w] = q]
          /\ q.kind = kind /\ q.session = requests[w].session
          /\ q.step = "commit" /\ q.row = None /\ q.now = clock
    BY <1>3, <2>1, GoesOn
  <2> QED
    BY <1>3, <2>2
<1>4. CASE /\ kind \in {"idle end", "application start", "application stop"}
           /\ \E i \in found :
                requests' = [requests EXCEPT ![w].step = "commit", ![w].row = i, ![w].now = clock]
  <2>1. PICK i \in found :
          requests' = [requests EXCEPT ![w].step = "commit", ![w].row = i, ![w].now = clock]
    BY <1>4
  <2>2. PICK q \in Request :
          /\ requests' = [requests EXCEPT ![w] = q]
          /\ q.kind = kind /\ q.session = requests[w].session
          /\ q.step = "commit" /\ q.row = i /\ q.now = clock
    BY <1>1, <2>1, GoesOn
  <2> QED
    BY <1>4, <2>1, <2>2
<1> QED
  BY <1>2, <1>3, <1>4 DEF FindRow

-----------------------------------------------------------------------------
(* Types, owners and times.                                                  *)

\* What Owned and Timely say of a request.
Sound(q) ==
  /\ q.step # "free" /\ q.kind # "login" => q.session \in DOMAIN sessions
  /\ q.now <= clock
  /\ q.step = "commit" => q.now # None

\* A change of one request, with no session lost.
LEMMA RequestsSound ==
  ASSUME TypeOK, Owned, Timely, NEW w \in Workers, NEW q \in Request, Sound(q),
         requests' = [requests EXCEPT ![w] = q],
         DOMAIN sessions \subseteq DOMAIN sessions', clock' = clock
  PROVE  requests' \in [Workers -> Request] /\ \A v \in Workers : Sound(requests[v])'
<1>1. \A v \in Workers : Sound(requests[v])
  BY DEF Owned, Timely, Sound
<1>2. /\ requests' \in [Workers -> Request] /\ requests'[w] = q
      /\ \A v \in Workers : v # w => requests'[v] = requests[v]
  BY OneRequest
<1>3. \A v \in Workers : requests'[v] = q \/ requests'[v] = requests[v]
  BY <1>2
<1> QED
  BY <1>1, <1>2, <1>3 DEF Sound

LEMMA FreeIsSound ==
  ASSUME TypeOK
  PROVE  Sound(Free)
BY FreeIsRequest DEF Sound, TypeOK, None

\* The three parts, from the tables and the requests.
LEMMA TablesSound ==
  ASSUME sessions' \in Seq(SessionRow), idles' \in Seq(TimeRow),
         applications' \in Seq(TimeRow), activities' \in Seq(CountRow),
         requests' \in [Workers -> Request], clock' \in Nat \ {0}, overlapped' \in BOOLEAN,
         \A v \in Workers : Sound(requests[v])',
         \A i \in DOMAIN idles' : idles'[i].session \in DOMAIN sessions',
         \A i \in DOMAIN applications' : applications'[i].session \in DOMAIN sessions',
         \A i \in DOMAIN activities' : activities'[i].session \in DOMAIN sessions',
         Past(clock)'
  PROVE  TypeOK' /\ Owned' /\ Timely'
BY DEF TypeOK, Owned, Timely, Sound

\* Past(clock), for the next state.
LEMMA PastNext ==
  ASSUME \A s \in DOMAIN sessions' : sessions'[s].login <= clock' /\ sessions'[s].logout <= clock',
         \A i \in DOMAIN idles' : idles'[i].start <= clock' /\ idles'[i].end <= clock',
         \A i \in DOMAIN applications' :
            applications'[i].start <= clock' /\ applications'[i].end <= clock'
  PROVE  Past(clock)'
BY DEF Past

LEMMA SoundFind ==
  ASSUME TypeOK, Owned, Timely, NEW w \in Workers,
         (\E kind \in Kinds : FindSession(w, kind)) \/ FindRow(w)
  PROVE  TypeOK' /\ Owned' /\ Timely'
<1>1. /\ UNCHANGED <<sessions, idles, applications, activities, clock>>
      /\ overlapped' \in BOOLEAN
  BY DEF FindSession, FindRow, TypeOK
<1>2. clock \in Nat /\ clock # 0
  BY DEF TypeOK
<1>3. \E q \in Request : Sound(q) /\ requests' = [requests EXCEPT ![w] = q]
  <2>1. CASE FindRow(w)
    <3>1. PICK q \in Request :
             /\ requests' = [requests EXCEPT ![w] = q]
             /\ \/ q = Free
                \/ /\ q.kind = requests[w].kind /\ q.session = requests[w].session
                   /\ q.step = "commit" /\ q.now = clock
      BY <2>1, RowFound
    <3>2. requests[w].step = "row"
      BY <2>1 DEF FindRow
    <3>3. Sound(q)
      BY <1>2, <3>1, <3>2, FreeIsSound DEF Sound, Owned, None
    <3> QED
      BY <3>1, <3>3
  <2>2. CASE \E kind \in Kinds : FindSession(w, kind)
    <3>1. PICK kind \in Kinds : FindSession(w, kind)
      BY <2>2
    <3>2. PICK q \in Request :
             /\ requests' = [requests EXCEPT ![w] = q]
             /\ q.kind = kind
             /\ kind = "login" => q.step = "commit" /\ q.now = clock
             /\ kind # "login" => q.session \in GetActive
             /\ kind \in {"logout", "activity"} => q.step = "commit" /\ q.now = clock
             /\ kind \notin {"login", "logout", "activity"} => q.step = "row" /\ q.now = None
      BY <3>1, SessionFound
    <3>3. GetActive \subseteq DOMAIN sessions
      BY DEF GetActive, Active
    <3>4. Sound(q)
      BY <1>2, <3>2, <3>3 DEF Sound, None
    <3> QED
      BY <3>2, <3>4
  <2> QED
    BY <2>1, <2>2
<1>4. PICK q \in Request : Sound(q) /\ requests' = [requests EXCEPT ![w] = q]
  BY <1>3
<1>5. requests' \in [Workers -> Request] /\ \A v \in Workers : Sound(requests[v])'
  BY <1>1, <1>4, RequestsSound
<1> QED
  BY <1>1, <1>5 DEF TypeOK, Owned, Timely, Sound, Past

\* A commit: what the request knows, and that it is over.
LEMMA CommitFacts ==
  ASSUME TypeOK, Owned, Timely, NEW w \in Workers, NEW kind \in Kinds, Committing(w, kind)
  PROVE  /\ requests[w] \in Request
         /\ requests[w].now \in Nat /\ requests[w].now <= clock /\ requests[w].now # None
         /\ kind # "login" => requests[w].session \in DOMAIN sessions
         /\ requests' = [requests EXCEPT ![w] = Free]
         /\ clock' = clock /\ clock' \in Nat \ {0}
         /\ overlapped' = overlapped /\ overlapped' \in BOOLEAN
<1>1. requests[w].kind = kind /\ requests[w].step = "commit"
  BY DEF Committing
<1>2. /\ requests[w] \in Request /\ requests[w].now \in Nat
  BY Elements
<1>3. /\ requests[w].now <= clock /\ requests[w].now # None
      /\ kind # "login" => requests[w].session \in DOMAIN sessions
  BY <1>1 DEF Owned, Timely
<1>4. /\ requests' = [requests EXCEPT ![w] = Free]
      /\ clock' = clock /\ clock' \in Nat \ {0}
      /\ overlapped' = overlapped /\ overlapped' \in BOOLEAN
  BY DEF Committing, TypeOK
<1> QED
  BY <1>2, <1>3, <1>4

\* What Owned and Timely say of a table of rows.
RowsSound(table) ==
  \A i \in DOMAIN table : /\ table[i].session \in DOMAIN sessions
                          /\ table[i].start <= clock /\ table[i].end <= clock

LEMMA RowsAreSound ==
  ASSUME Owned, Timely
  PROVE  RowsSound(idles) /\ RowsSound(applications)
BY DEF Owned, Timely, Past, RowsSound

\* Closing a row of a sound table, and adding one.
LEMMA RowsClosed ==
  ASSUME TypeOK, NEW q \in Seq(TimeRow), RowsSound(q), NEW r \in Request, r.now <= clock
  PROVE  RowsSound(Close(q, r)) /\ Close(q, r) \in Seq(TimeRow)
<1> DEFINE c == Close(q, r)
<1>1. /\ c \in Seq(TimeRow) /\ DOMAIN c = DOMAIN q
      /\ \A i \in DOMAIN q :
           /\ c[i].session = q[i].session /\ c[i].start = q[i].start
           /\ (i # r.row => c[i].end = q[i].end) /\ (i = r.row => c[i].end = r.now)
  BY Closed
<1> HIDE DEF c
<1>2. RowsSound(c)
  BY <1>1 DEF RowsSound
<1> QED
  BY <1>1, <1>2 DEF c

LEMMA RowsAppended ==
  ASSUME TypeOK, NEW q \in Seq(TimeRow), RowsSound(q), NEW r \in Request, r.now <= clock,
         r.session \in DOMAIN sessions
  PROVE  RowsSound(Append(q, Row(r))) /\ Append(q, Row(r)) \in Seq(TimeRow)
<1>1. /\ Row(r) \in TimeRow
      /\ Row(r).session = r.session /\ Row(r).start = r.now /\ Row(r).end = 0
  BY RowIsRow DEF None
<1>2. clock \in Nat
  BY DEF TypeOK
<1> DEFINE x == Row(r)
<1> HIDE DEF x
<1>3. /\ Append(q, x) \in Seq(TimeRow)
      /\ Len(q) \in Nat
      /\ DOMAIN q = 1 .. Len(q)
      /\ DOMAIN Append(q, x) = 1 .. Len(q) + 1
      /\ \A i \in DOMAIN q : Append(q, x)[i] = q[i]
      /\ Append(q, x)[Len(q) + 1] = x
  BY <1>1, Appended DEF x
<1>4. x.session = r.session /\ x.start = r.now /\ x.end = 0
  BY <1>1 DEF x
<1>5. RowsSound(Append(q, x))
  <2> SUFFICES ASSUME NEW i \in DOMAIN Append(q, x)
               PROVE  /\ Append(q, x)[i].session \in DOMAIN sessions
                      /\ Append(q, x)[i].start <= clock /\ Append(q, x)[i].end <= clock
    BY DEF RowsSound
  <2>1. CASE i \in DOMAIN q
    BY <1>3, <2>1 DEF RowsSound
  <2>2. CASE i = Len(q) + 1
    BY <1>2, <1>3, <1>4, <2>2
  <2> QED
    BY <1>3, <2>1, <2>2
<1> QED
  BY <1>3, <1>5 DEF x

\* A commit that changes neither sessions nor activities.
LEMMA SoundRows ==
  ASSUME TypeOK, Owned, Timely, NEW w \in Workers,
         NEW kind \in Kinds, Committing(w, kind), UNCHANGED <<sessions, activities>>,
         idles' \in Seq(TimeRow), applications' \in Seq(TimeRow),
         RowsSound(idles'), RowsSound(applications')
  PROVE  TypeOK' /\ Owned' /\ Timely'
<1>1. /\ clock' = clock /\ clock' \in Nat \ {0} /\ overlapped' \in BOOLEAN
      /\ requests' = [requests EXCEPT ![w] = Free]
  BY CommitFacts
<1>2. requests' \in [Workers -> Request] /\ \A v \in Workers : Sound(requests[v])'
  BY <1>1, FreeIsRequest, FreeIsSound, RequestsSound
<1>3. Past(clock)'
  BY <1>1 DEF RowsSound, Past, Timely
<1>4. sessions' \in Seq(SessionRow) /\ activities' \in Seq(CountRow)
  BY DEF TypeOK
<1> QED
  BY <1>1, <1>2, <1>3, <1>4, TablesSound DEF RowsSound, Owned

LEMMA SoundLogin ==
  ASSUME TypeOK, Owned, Timely, NEW w \in Workers, Login(w)
  PROVE  TypeOK' /\ Owned' /\ Timely'
<1> DEFINE x == [login |-> requests[w].now, logout |-> None, status |-> "ACTIVE"]
<1>1. Committing(w, "login") /\ "login" \in Kinds
  BY DEF Login, Kinds
<1>2. /\ requests[w].now \in Nat /\ requests[w].now <= clock
      /\ requests' = [requests EXCEPT ![w] = Free]
      /\ clock' = clock /\ clock' \in Nat \ {0} /\ overlapped' \in BOOLEAN
  BY <1>1, CommitFacts
<1>3. x \in SessionRow /\ x.login = requests[w].now /\ x.logout = 0
  BY <1>2 DEF SessionRow, None
<1>4. sessions' = Append(sessions, x) /\ UNCHANGED <<idles, applications, activities>>
  BY DEF Login
<1> HIDE DEF x
<1>5. /\ sessions' \in Seq(SessionRow)
      /\ Len(sessions) \in Nat
      /\ DOMAIN sessions = 1 .. Len(sessions)
      /\ DOMAIN sessions' = 1 .. Len(sessions) + 1
      /\ \A s \in DOMAIN sessions : sessions'[s] = sessions[s]
      /\ sessions'[Len(sessions) + 1] = x
  BY <1>3, <1>4, Appended DEF TypeOK
<1>6. DOMAIN sessions \subseteq DOMAIN sessions'
  BY <1>5
<1>7. requests' \in [Workers -> Request] /\ \A v \in Workers : Sound(requests[v])'
  BY <1>2, <1>6, FreeIsRequest, FreeIsSound, RequestsSound
<1>8. \A s \in DOMAIN sessions' : sessions'[s].login <= clock' /\ sessions'[s].logout <= clock'
  <2> SUFFICES ASSUME NEW s \in DOMAIN sessions'
               PROVE  sessions'[s].login <= clock' /\ sessions'[s].logout <= clock'
    OBVIOUS
  <2>1. CASE s \in DOMAIN sessions
    BY <1>2, <1>5, <2>1 DEF Timely, Past
  <2>2. CASE s = Len(sessions) + 1
    BY <1>2, <1>3, <1>5, <2>2
  <2> QED
    BY <1>5, <2>1, <2>2
<1>9. Past(clock)'
  BY <1>2, <1>4, <1>8 DEF Past, Timely
<1>10. /\ \A i \in DOMAIN idles' : idles'[i].session \in DOMAIN sessions'
       /\ \A i \in DOMAIN applications' : applications'[i].session \in DOMAIN sessions'
       /\ \A i \in DOMAIN activities' : activities'[i].session \in DOMAIN sessions'
  BY <1>4, <1>6 DEF Owned
<1>11. idles' \in Seq(TimeRow) /\ applications' \in Seq(TimeRow) /\ activities' \in Seq(CountRow)
  BY <1>4 DEF TypeOK
<1> QED
  BY <1>2, <1>5, <1>7, <1>9, <1>10, <1>11, TablesSound

LEMMA SoundLogout ==
  ASSUME TypeOK, Owned, Timely, NEW w \in Workers, Logout(w)
  PROVE  TypeOK' /\ Owned' /\ Timely'
<1>1. Committing(w, "logout") /\ "logout" \in Kinds /\ "logout" # "login"
  BY DEF Logout, Kinds
<1>2. /\ requests[w].now \in Nat /\ requests[w].now <= clock
      /\ requests[w].session \in DOMAIN sessions
      /\ requests' = [requests EXCEPT ![w] = Free]
      /\ clock' = clock /\ clock' \in Nat \ {0} /\ overlapped' \in BOOLEAN
  BY <1>1, CommitFacts
<1>3. /\ sessions' \in Seq(SessionRow)
      /\ DOMAIN sessions' = DOMAIN sessions
      /\ \A s \in DOMAIN sessions :
           /\ sessions'[s].login = sessions[s].login
           /\ s # requests[w].session => sessions'[s] = sessions[s]
           /\ s = requests[w].session => sessions'[s].logout = requests[w].now
  BY <1>2, LoggedOut
<1>4. UNCHANGED <<idles, applications, activities>>
  BY DEF Logout
<1>5. requests' \in [Workers -> Request] /\ \A v \in Workers : Sound(requests[v])'
  BY <1>2, <1>3, FreeIsRequest, FreeIsSound, RequestsSound
<1>6. \A s \in DOMAIN sessions' : sessions'[s].login <= clock' /\ sessions'[s].logout <= clock'
  BY <1>2, <1>3 DEF Timely, Past
<1>7. Past(clock)'
  BY <1>2, <1>4, <1>6 DEF Past, Timely
<1>8. /\ \A i \in DOMAIN idles' : idles'[i].session \in DOMAIN sessions'
      /\ \A i \in DOMAIN applications' : applications'[i].session \in DOMAIN sessions'
      /\ \A i \in DOMAIN activities' : activities'[i].session \in DOMAIN sessions'
  BY <1>3, <1>4 DEF Owned
<1>9. idles' \in Seq(TimeRow) /\ applications' \in Seq(TimeRow) /\ activities' \in Seq(CountRow)
  BY <1>4 DEF TypeOK
<1> QED
  BY <1>2, <1>3, <1>5, <1>7, <1>8, <1>9, TablesSound

LEMMA SoundActivity ==
  ASSUME TypeOK, Owned, Timely, NEW w \in Workers, Activity(w)
  PROVE  TypeOK' /\ Owned' /\ Timely'
<1> DEFINE x == [session |-> requests[w].session, time |-> requests[w].now]
<1>1. Committing(w, "activity") /\ "activity" \in Kinds /\ "activity" # "login"
  BY DEF Activity, Kinds
<1>2. /\ requests[w].now \in Nat
      /\ requests[w].session \in DOMAIN sessions
      /\ requests' = [requests EXCEPT ![w] = Free]
      /\ clock' = clock /\ clock' \in Nat \ {0} /\ overlapped' \in BOOLEAN
  BY <1>1, CommitFacts
<1>3. x \in CountRow /\ x.session = requests[w].session
  BY <1>2, Elements DEF CountRow
<1>4. activities' = Append(activities, x) /\ UNCHANGED <<sessions, idles, applications>>
  BY DEF Activity
<1> HIDE DEF x
<1>5. /\ activities' \in Seq(CountRow)
      /\ DOMAIN activities = 1 .. Len(activities) /\ Len(activities) \in Nat
      /\ DOMAIN activities' = 1 .. Len(activities) + 1
      /\ \A i \in DOMAIN activities : activities'[i] = activities[i]
      /\ activities'[Len(activities) + 1] = x
  BY <1>3, <1>4, Appended DEF TypeOK
<1>6. requests' \in [Workers -> Request] /\ \A v \in Workers : Sound(requests[v])'
  BY <1>2, <1>4, FreeIsRequest, FreeIsSound, RequestsSound
<1>7. Past(clock)'
  BY <1>2, <1>4 DEF Past, Timely
<1>8. \A i \in DOMAIN activities' : activities'[i].session \in DOMAIN sessions'
  <2> SUFFICES ASSUME NEW i \in DOMAIN activities'
               PROVE  activities'[i].session \in DOMAIN sessions'
    OBVIOUS
  <2>1. CASE i \in DOMAIN activities
    BY <1>4, <1>5, <2>1 DEF Owned
  <2>2. CASE i = Len(activities) + 1
    BY <1>2, <1>3, <1>4, <1>5, <2>2
  <2> QED
    BY <1>5, <2>1, <2>2
<1>9. /\ \A i \in DOMAIN idles' : idles'[i].session \in DOMAIN sessions'
      /\ \A i \in DOMAIN applications' : applications'[i].session \in DOMAIN sessions'
  BY <1>4 DEF Owned
<1>10. sessions' \in Seq(SessionRow) /\ idles' \in Seq(TimeRow) /\ applications' \in Seq(TimeRow)
  BY <1>4 DEF TypeOK
<1> QED
  BY <1>2, <1>5, <1>6, <1>7, <1>8, <1>9, <1>10, TablesSound

LEMMA SoundStep ==
  ASSUME TypeOK, Owned, Timely, [Next]_vars
  PROVE  TypeOK' /\ Owned' /\ Timely'
<1>1. CASE UNCHANGED vars
  BY <1>1 DEF vars, TypeOK, Owned, Timely, Past
<1>2. CASE Tick
  <2>1. UNCHANGED <<sessions, idles, applications, activities, requests, overlapped>>
    BY <1>2 DEF Tick
  <2>2. clock \in Nat /\ clock' = clock + 1
    BY <1>2 DEF Tick, TypeOK
  <2>3. TypeOK' /\ Owned'
    BY <2>1, <2>2 DEF TypeOK, Owned
  <2>4. \A w \in Workers : requests[w].now <= clock'
    BY <2>2, Elements DEF Timely
  <2>5. Past(clock')
    BY <2>2, Elements DEF Timely, Past
  <2> QED
    BY <2>1, <2>3, <2>4, <2>5 DEF Timely, Past
<1>3. ASSUME NEW w \in Workers,
             (\E kind \in Kinds : FindSession(w, kind)) \/ FindRow(w)
      PROVE  TypeOK' /\ Owned' /\ Timely'
  BY <1>3, SoundFind
<1>4. ASSUME NEW w \in Workers, Login(w) PROVE TypeOK' /\ Owned' /\ Timely'
  BY <1>4, SoundLogin
<1>5. ASSUME NEW w \in Workers, Logout(w) PROVE TypeOK' /\ Owned' /\ Timely'
  BY <1>5, SoundLogout
<1>6. ASSUME NEW w \in Workers, IdleStart(w) PROVE TypeOK' /\ Owned' /\ Timely'
  <2>1. Committing(w, "idle start") /\ "idle start" \in Kinds /\ "idle start" # "login"
    BY <1>6 DEF IdleStart, Kinds
  <2>2. /\ requests[w] \in Request /\ requests[w].now <= clock
        /\ requests[w].session \in DOMAIN sessions
    BY <2>1, CommitFacts
  <2>3. RowsSound(idles') /\ idles' \in Seq(TimeRow)
    BY <1>6, <2>2, RowsAreSound, RowsAppended DEF IdleStart, TypeOK
  <2>4. RowsSound(applications') /\ applications' \in Seq(TimeRow)
    BY <1>6, RowsAreSound DEF IdleStart, TypeOK
  <2> QED
    BY <1>6, <2>1, <2>3, <2>4, SoundRows DEF IdleStart
<1>7. ASSUME NEW w \in Workers, IdleEnd(w) PROVE TypeOK' /\ Owned' /\ Timely'
  <2>1. Committing(w, "idle end") /\ "idle end" \in Kinds
    BY <1>7 DEF IdleEnd, Kinds
  <2>2. requests[w] \in Request /\ requests[w].now <= clock
    BY <2>1, CommitFacts
  <2>3. RowsSound(idles') /\ idles' \in Seq(TimeRow)
    BY <1>7, <2>2, RowsAreSound, RowsClosed DEF IdleEnd, TypeOK
  <2>4. RowsSound(applications') /\ applications' \in Seq(TimeRow)
    BY <1>7, RowsAreSound DEF IdleEnd, TypeOK
  <2> QED
    BY <1>7, <2>1, <2>3, <2>4, SoundRows DEF IdleEnd
<1>8. ASSUME NEW w \in Workers, ReplaceActive(w) PROVE TypeOK' /\ Owned' /\ Timely'
  <2>1. /\ Committing(w, "application start") /\ "application start" \in Kinds
        /\ "application start" # "login"
    BY <1>8 DEF ReplaceActive, Kinds
  <2>2. /\ requests[w] \in Request /\ requests[w].now <= clock
        /\ requests[w].session \in DOMAIN sessions
    BY <2>1, CommitFacts
  <2>3. /\ RowsSound(Close(applications, requests[w]))
        /\ Close(applications, requests[w]) \in Seq(TimeRow)
    BY <2>2, RowsAreSound, RowsClosed DEF TypeOK
  <2>4. RowsSound(applications') /\ applications' \in Seq(TimeRow)
    BY <1>8, <2>2, <2>3, RowsAppended DEF ReplaceActive
  <2>5. RowsSound(idles') /\ idles' \in Seq(TimeRow)
    BY <1>8, RowsAreSound DEF ReplaceActive, TypeOK
  <2> QED
    BY <1>8, <2>1, <2>4, <2>5, SoundRows DEF ReplaceActive
<1>9. ASSUME NEW w \in Workers, ApplicationStop(w) PROVE TypeOK' /\ Owned' /\ Timely'
  <2>1. Committing(w, "application stop") /\ "application stop" \in Kinds
    BY <1>9 DEF ApplicationStop, Kinds
  <2>2. requests[w] \in Request /\ requests[w].now <= clock
    BY <2>1, CommitFacts
  <2>3. RowsSound(applications') /\ applications' \in Seq(TimeRow)
    BY <1>9, <2>2, RowsAreSound, RowsClosed DEF ApplicationStop, TypeOK
  <2>4. RowsSound(idles') /\ idles' \in Seq(TimeRow)
    BY <1>9, RowsAreSound DEF ApplicationStop, TypeOK
  <2> QED
    BY <1>9, <2>1, <2>3, <2>4, SoundRows DEF ApplicationStop
<1>10. ASSUME NEW w \in Workers, Activity(w) PROVE TypeOK' /\ Owned' /\ Timely'
  BY <1>10, SoundActivity
<1>11. ASSUME NEW w \in Workers, Rollback(w) PROVE TypeOK' /\ Owned' /\ Timely'
  <2>1. /\ requests' = [requests EXCEPT ![w] = Free]
        /\ UNCHANGED <<sessions, idles, applications, activities, clock, overlapped>>
    BY <1>11 DEF Rollback
  <2>2. requests' \in [Workers -> Request] /\ \A v \in Workers : Sound(requests[v])'
    BY <2>1, FreeIsRequest, FreeIsSound, RequestsSound
  <2> QED
    BY <2>1, <2>2 DEF TypeOK, Owned, Timely, Sound, Past
<1> QED
  BY <1>1, <1>2, <1>3, <1>4, <1>5, <1>6, <1>7, <1>8, <1>9, <1>10, <1>11 DEF Next

-----------------------------------------------------------------------------
(* The queries: a query for the newest row finds one if there is one.        *)

\* A set of numbers has a smallest.
LEMMA Smallest ==
  ASSUME NEW T \in SUBSET Nat, T # {}
  PROVE  \E x \in T : \A y \in T : x <= y
<1> DEFINE R == OpToRel(<, Nat)
<1>1. IsWellFoundedOn(R, Nat)
  BY NatLessThanWellFounded, Zenon
<1>2. \A x, y \in Nat : x < y => <<x, y>> \in R
  BY DEF OpToRel
<1> HIDE DEF R
<1>3. PICK x \in T : \A y \in T : ~ (<<y, x>> \in R)
  BY <1>1, WFMin
<1>4. \A y \in T : ~ (y < x)
  BY <1>2, <1>3
<1> QED
  BY <1>4

\* A bounded set of times has a latest.
LEMMA Latest ==
  ASSUME NEW T, T # {}, NEW f \in [T -> Nat], NEW n \in Nat, \A x \in T : f[x] <= n
  PROVE  \E x \in T : \A y \in T : f[y] <= f[x]
<1> DEFINE ages == {n - f[x] : x \in T}
<1>1. ages \subseteq Nat /\ ages # {}
  OBVIOUS
<1>2. PICK age \in ages : \A a \in ages : age <= a
  BY <1>1, Smallest
<1>3. PICK x \in T : age = n - f[x]
  BY <1>2
<1>4. \A y \in T : n - f[x] <= n - f[y]
  BY <1>2, <1>3
<1>5. \A y \in T : f[y] \in Nat
  OBVIOUS
<1>6. \A y \in T : f[y] <= f[x]
  BY <1>4, <1>5
<1> QED
  BY <1>6

\* No active session found, none there.
LEMMA NoneActive ==
  ASSUME TypeOK, Timely, GetActive = {}
  PROVE  Active = {}
<1> SUFFICES ASSUME Active # {} PROVE FALSE
  OBVIOUS
<1> DEFINE f == [s \in Active |-> sessions[s].login]
<1>1. clock \in Nat
  BY DEF TypeOK
<1>2. f \in [Active -> Nat]
  BY Elements DEF Active
<1>3. \A s \in Active : f[s] <= clock
  BY DEF Timely, Past, Active
<1>4. PICK s \in Active : \A t \in Active : f[t] <= f[s]
  BY <1>1, <1>2, <1>3, Latest
<1> QED
  BY <1>4 DEF GetActive

\* No open row found, none there.
LEMMA NoneOpen ==
  ASSUME TypeOK, Timely, NEW table \in {idles, applications}, NEW s, GetOpen(table, s) = {}
  PROVE  Open(table, s) = {}
<1> SUFFICES ASSUME Open(table, s) # {} PROVE FALSE
  OBVIOUS
<1> DEFINE f == [i \in Open(table, s) |-> table[i].start]
<1>1. clock \in Nat
  BY DEF TypeOK
<1>2. f \in [Open(table, s) -> Nat]
  BY Elements DEF Open
<1>3. \A i \in Open(table, s) : f[i] <= clock
  BY DEF Timely, Past, Open
<1>4. PICK i \in Open(table, s) : \A k \in Open(table, s) : f[k] <= f[i]
  BY <1>1, <1>2, <1>3, Latest
<1> QED
  BY <1>4 DEF GetOpen

-----------------------------------------------------------------------------
(* Counting: what is open and what is about to be.                           *)

LEMMA SumShrinks ==
  ASSUME NEW A, NEW B, IsFiniteSet(A), IsFiniteSet(B), NEW C \in SUBSET A, NEW D \in SUBSET B,
         NEW n \in Nat, Cardinality(A) + Cardinality(B) <= n
  PROVE  Cardinality(C) + Cardinality(D) <= n
<1>1. /\ Cardinality(A) \in Nat /\ Cardinality(B) \in Nat
      /\ Cardinality(C) \in Nat /\ Cardinality(D) \in Nat
      /\ Cardinality(C) <= Cardinality(A) /\ Cardinality(D) <= Cardinality(B)
  BY FS_Subset, FS_CardinalityType
<1> QED
  BY <1>1

\* One more is open and one less about to be.
LEMMA SumShifts ==
  ASSUME NEW A, NEW B, IsFiniteSet(A), IsFiniteSet(B), NEW w \in B, NEW x,
         NEW C \in SUBSET (A \cup {x}), NEW D \in SUBSET (B \ {w}),
         NEW n \in Nat, Cardinality(A) + Cardinality(B) <= n
  PROVE  Cardinality(C) + Cardinality(D) <= n
<1>1. IsFiniteSet(A \cup {x}) /\ Cardinality(A \cup {x}) <= Cardinality(A) + 1
      /\ Cardinality(A) \in Nat /\ Cardinality(A \cup {x}) \in Nat
  <2>1. Cardinality(A) \in Nat
    BY FS_CardinalityType
  <2>2. CASE x \in A
    <3>1. A \cup {x} = A
      BY <2>2
    <3> QED
      BY <2>1, <3>1
  <2>3. CASE x \notin A
    BY <2>1, <2>3, FS_AddElement
  <2> QED
    BY <2>2, <2>3
<1>2. IsFiniteSet(B \ {w}) /\ Cardinality(B \ {w}) = Cardinality(B) - 1
  BY FS_RemoveElement
<1>3. Cardinality(B) \in Nat /\ Cardinality(B \ {w}) \in Nat
  BY <1>2, FS_CardinalityType
<1>4. Cardinality(C) \in Nat /\ Cardinality(C) <= Cardinality(A \cup {x})
  BY <1>1, FS_Subset, FS_CardinalityType
<1>5. Cardinality(D) \in Nat /\ Cardinality(D) <= Cardinality(B \ {w})
  BY <1>2, FS_Subset, FS_CardinalityType
<1> QED
  BY <1>1, <1>2, <1>3, <1>4, <1>5

\* Nothing is open: only threads are counted.
LEMMA SumStarts ==
  ASSUME NEW D \in SUBSET Workers
  PROVE  Cardinality({}) + Cardinality(D) <= Cardinality(Workers)
<1>1. Cardinality({}) = 0
  BY FS_EmptySet
<1>2. Cardinality(D) \in Nat /\ Cardinality(D) <= Cardinality(Workers)
  BY WorkersAssumption, FS_Subset, FS_CardinalityType
<1> QED
  BY <1>1, <1>2

LEMMA Finite ==
  ASSUME TypeOK
  PROVE  /\ IsFiniteSet(Active) /\ IsFiniteSet(LoggingIn)
         /\ \A s : IsFiniteSet(Open(idles, s)) /\ IsFiniteSet(StartingIdle(s))
         /\ Cardinality(Workers) \in Nat
<1>1. IsFiniteSet(1 .. Len(sessions)) /\ IsFiniteSet(1 .. Len(idles))
  BY Elements, FS_Interval
<1>2. Active \subseteq 1 .. Len(sessions) /\ \A s : Open(idles, s) \subseteq 1 .. Len(idles)
  BY Elements DEF Active, Open
<1>3. LoggingIn \subseteq Workers /\ \A s : StartingIdle(s) \subseteq Workers
  BY DEF LoggingIn, StartingIdle
<1> QED
  BY <1>1, <1>2, <1>3, WorkersAssumption, FS_Subset, FS_CardinalityType

\* The threads that are about to insert, after a change of one request.
LEMMA Inserting ==
  ASSUME TypeOK, NEW w \in Workers, NEW q \in Request, requests' = [requests EXCEPT ![w] = q]
  PROVE  /\ LoggingIn' \subseteq Workers
         /\ ~ (q.kind = "login" /\ q.step = "commit") => LoggingIn' \subseteq LoggingIn \ {w}
         /\ \A s : /\ StartingIdle(s)' \subseteq Workers
                   /\ ~ (q.kind = "idle start" /\ q.step = "commit" /\ q.session = s)
                        => StartingIdle(s)' \subseteq StartingIdle(s) \ {w}
<1>1. requests'[w] = q /\ \A v \in Workers : v # w => requests'[v] = requests[v]
  BY OneRequest
<1> QED
  BY <1>1 DEF LoggingIn, StartingIdle

\* The bound of one session.
Within(s) == Cardinality(Open(idles, s)) + Cardinality(StartingIdle(s)) <= Cardinality(Workers)

\* Nothing is opened, and no thread is about to.
LEMMA QuietSessions ==
  ASSUME TypeOK, Bounded, Active' \subseteq Active, LoggingIn' \subseteq LoggingIn
  PROVE  Cardinality(Active') + Cardinality(LoggingIn') <= Cardinality(Workers)
BY Finite, SumShrinks DEF Bounded

LEMMA QuietIdles ==
  ASSUME TypeOK, Bounded, NEW s \in DOMAIN sessions,
         Open(idles, s)' \subseteq Open(idles, s), StartingIdle(s)' \subseteq StartingIdle(s)
  PROVE  Within(s)'
<1> DEFINE A == Open(idles, s)
           B == StartingIdle(s)
           C == Open(idles', s)
           D == StartingIdle(s)'
<1>1. /\ IsFiniteSet(A) /\ IsFiniteSet(B) /\ Cardinality(A) + Cardinality(B) <= Cardinality(Workers)
      /\ Cardinality(Workers) \in Nat
  BY Finite DEF Bounded
<1>2. C \subseteq A /\ D \subseteq B
  OBVIOUS
<1> HIDE DEF A, B, C, D
<1>3. Cardinality(C) + Cardinality(D) <= Cardinality(Workers)
  BY <1>1, <1>2, SumShrinks
<1> QED
  BY <1>3 DEF Within, C, D

LEMMA BoundedNext ==
  ASSUME Cardinality(Active') + Cardinality(LoggingIn') <= Cardinality(Workers),
         \A s \in DOMAIN sessions' : Within(s)'
  PROVE  Bounded'
BY DEF Bounded, Within

LEMMA BoundedFindSession ==
  ASSUME TypeOK, Timely, Bounded, NEW w \in Workers, NEW kind \in Kinds, FindSession(w, kind)
  PROVE  Bounded'
<1>1. UNCHANGED <<sessions, idles>>
  BY DEF FindSession
<1>2. Active' = Active /\ \A s : Open(idles, s)' = Open(idles, s)
  BY <1>1 DEF Active, Open
<1>3. PICK q \in Request :
        /\ requests' = [requests EXCEPT ![w] = q]
        /\ q.kind = kind
        /\ kind = "login" => GetActive = {}
        /\ kind \notin {"login", "logout", "activity"} => q.step = "row"
  BY SessionFound
<1>4. ~ (q.kind = "idle start" /\ q.step = "commit")
  BY <1>3
<1>5. \A s : StartingIdle(s)' \subseteq StartingIdle(s)
  BY <1>3, <1>4, Inserting
<1>6. \A s \in DOMAIN sessions : Within(s)'
  BY <1>2, <1>5, QuietIdles
<1>7. CASE kind = "login"
  <2>1. Active' = {}
    BY <1>2, <1>3, <1>7, NoneActive
  <2>2. LoggingIn' \subseteq Workers
    BY <1>3, Inserting
  <2>3. Cardinality({}) + Cardinality(LoggingIn') <= Cardinality(Workers)
    BY <2>2, SumStarts
  <2> QED
    BY <1>1, <1>6, <2>1, <2>3, BoundedNext
<1>8. CASE kind # "login"
  <2>1. LoggingIn' \subseteq LoggingIn
    BY <1>3, <1>8, Inserting
  <2>2. Cardinality(Active') + Cardinality(LoggingIn') <= Cardinality(Workers)
    BY <1>2, <2>1, QuietSessions
  <2> QED
    BY <1>1, <1>6, <2>2, BoundedNext
<1> QED
  BY <1>7, <1>8

LEMMA BoundedFindRow ==
  ASSUME TypeOK, Timely, Bounded, NEW w \in Workers, FindRow(w)
  PROVE  Bounded'
<1>1. UNCHANGED <<sessions, idles>>
  BY DEF FindRow
<1>2. Active' = Active /\ \A s : Open(idles, s)' = Open(idles, s)
  BY <1>1 DEF Active, Open
<1>3. PICK q \in Request :
        /\ requests' = [requests EXCEPT ![w] = q]
        /\ \/ q = Free
           \/ /\ q.kind \in {"idle start", "application start"}
              /\ GetOpen(Table(q.kind), q.session) = {}
           \/ q.kind \in {"idle end", "application start", "application stop"}
  BY RowFound
<1>4. q.kind # "login"
  BY <1>3, FreeIsRequest
<1>5. Cardinality(Active') + Cardinality(LoggingIn') <= Cardinality(Workers)
  BY <1>2, <1>3, <1>4, Inserting, QuietSessions
<1>6. ASSUME NEW s \in DOMAIN sessions PROVE Within(s)'
  <2>1. CASE q.kind = "idle start" /\ q.step = "commit" /\ q.session = s
    <3>1. GetOpen(idles, s) = {}
      BY <1>3, <2>1, FreeIsRequest DEF Table
    <3>2. Open(idles, s) = {}
      BY <3>1, NoneOpen
    <3>3. Open(idles', s) = {} /\ StartingIdle(s)' \subseteq Workers
      BY <1>1, <1>3, <3>2, Inserting
    <3>4. Cardinality({}) + Cardinality(StartingIdle(s)') <= Cardinality(Workers)
      BY <3>3, SumStarts
    <3> QED
      BY <3>3, <3>4 DEF Within
  <2>2. CASE ~ (q.kind = "idle start" /\ q.step = "commit" /\ q.session = s)
    <3>1. StartingIdle(s)' \subseteq StartingIdle(s)
      BY <1>3, <2>2, Inserting
    <3> QED
      BY <1>2, <3>1, QuietIdles
  <2> QED
    BY <2>1, <2>2
<1> QED
  BY <1>1, <1>5, <1>6, BoundedNext

\* A commit takes its thread out of the count.
LEMMA Done ==
  ASSUME TypeOK, NEW w \in Workers, requests' = [requests EXCEPT ![w] = Free]
  PROVE  /\ LoggingIn' \subseteq LoggingIn \ {w}
         /\ \A s : StartingIdle(s)' \subseteq StartingIdle(s) \ {w}
BY FreeIsRequest, Inserting

LEMMA BoundedLogin ==
  ASSUME TypeOK, Owned, Timely, Bounded, NEW w \in Workers, Login(w)
  PROVE  Bounded'
<1> DEFINE x == [login |-> requests[w].now, logout |-> None, status |-> "ACTIVE"]
<1>0. PICK n : n = Len(sessions) + 1
  OBVIOUS
<1>1. Committing(w, "login") /\ "login" \in Kinds
  BY DEF Login, Kinds
<1>2. requests' = [requests EXCEPT ![w] = Free] /\ requests[w].now \in Nat
  BY <1>1, CommitFacts
<1>3. sessions' = Append(sessions, x) /\ idles' = idles
  BY DEF Login
<1>4. x \in SessionRow
  BY <1>2 DEF SessionRow, None
<1> HIDE DEF x
<1>5. /\ DOMAIN sessions = 1 .. Len(sessions) /\ DOMAIN sessions' = 1 .. n
      /\ Len(sessions) \in Nat
      /\ \A s \in DOMAIN sessions : sessions'[s] = sessions[s]
  BY <1>0, <1>3, <1>4, Appended DEF TypeOK
<1>6. LoggingIn' \subseteq LoggingIn \ {w} /\ \A s : StartingIdle(s)' \subseteq StartingIdle(s) \ {w}
  BY <1>2, Done
<1>7. w \in LoggingIn
  BY <1>1 DEF LoggingIn, Committing
<1>8. Active' \subseteq Active \cup {n}
  BY <1>0, <1>5 DEF Active
<1>9. Cardinality(Active') + Cardinality(LoggingIn') <= Cardinality(Workers)
  BY <1>6, <1>7, <1>8, Finite, SumShifts DEF Bounded
<1>10. ASSUME NEW s \in DOMAIN sessions PROVE Within(s)'
  <2>1. Open(idles, s)' = Open(idles, s) /\ StartingIdle(s)' \subseteq StartingIdle(s)
    BY <1>3, <1>6 DEF Open
  <2> QED
    BY <2>1, QuietIdles
<1>11. Within(n)'
  <2>1. n \notin DOMAIN sessions
    BY <1>0, <1>5
  <2>2. Open(idles', n) = {}
    BY <1>3, <2>1 DEF Open, Owned
  <2>3. StartingIdle(n) = {}
    BY <2>1 DEF StartingIdle, Owned
  <2>4. StartingIdle(n)' = {}
    BY <1>6, <2>3
  <2>5. Cardinality({}) + Cardinality({}) <= Cardinality(Workers)
    BY SumStarts
  <2> QED
    BY <2>2, <2>4, <2>5 DEF Within
<1> QED
  BY <1>0, <1>5, <1>9, <1>10, <1>11, BoundedNext

LEMMA BoundedLogout ==
  ASSUME TypeOK, Owned, Timely, Bounded, NEW w \in Workers, Logout(w)
  PROVE  Bounded'
<1>1. Committing(w, "logout") /\ "logout" \in Kinds /\ "logout" # "login"
  BY DEF Logout, Kinds
<1>2. requests' = [requests EXCEPT ![w] = Free] /\ requests[w].session \in DOMAIN sessions
  BY <1>1, CommitFacts
<1>3. /\ DOMAIN sessions' = DOMAIN sessions
      /\ \A s \in DOMAIN sessions :
           /\ s # requests[w].session => sessions'[s] = sessions[s]
           /\ s = requests[w].session => sessions'[s].status = "LOGOUT"
  BY <1>2, LoggedOut
<1>4. Active' \subseteq Active
  BY <1>3 DEF Active
<1>5. \A s : Open(idles, s)' = Open(idles, s)
  BY DEF Logout, Open
<1>6. LoggingIn' \subseteq LoggingIn /\ \A s : StartingIdle(s)' \subseteq StartingIdle(s)
  BY <1>2, Done
<1> QED
  BY <1>3, <1>4, <1>5, <1>6, QuietSessions, QuietIdles, BoundedNext

LEMMA BoundedIdleStart ==
  ASSUME TypeOK, Owned, Timely, Bounded, NEW w \in Workers, IdleStart(w)
  PROVE  Bounded'
<1>0. PICK n : n = Len(idles) + 1
  OBVIOUS
<1>1. Committing(w, "idle start") /\ "idle start" \in Kinds
  BY DEF IdleStart, Kinds
<1>2. /\ requests' = [requests EXCEPT ![w] = Free] /\ requests[w] \in Request
  BY <1>1, CommitFacts
<1>3. sessions' = sessions /\ idles' = Append(idles, Row(requests[w]))
  BY DEF IdleStart
<1>4. Row(requests[w]) \in TimeRow /\ Row(requests[w]).session = requests[w].session
  BY <1>2, RowIsRow
<1>5. /\ DOMAIN idles = 1 .. Len(idles) /\ DOMAIN idles' = 1 .. n /\ Len(idles) \in Nat
      /\ \A i \in DOMAIN idles : idles'[i] = idles[i]
      /\ idles'[n].session = requests[w].session
  BY <1>0, <1>3, <1>4, Appended DEF TypeOK
<1>6. LoggingIn' \subseteq LoggingIn /\ \A s : StartingIdle(s)' \subseteq StartingIdle(s) \ {w}
  BY <1>2, Done
<1>7. Active' = Active
  BY <1>3 DEF Active
<1>8. ASSUME NEW s \in DOMAIN sessions PROVE Within(s)'
  <2>1. CASE s = requests[w].session
    <3>1. w \in StartingIdle(s)
      BY <1>1, <2>1 DEF StartingIdle, Committing
    <3>2. Open(idles', s) \subseteq Open(idles, s) \cup {n}
      BY <1>0, <1>5 DEF Open
    <3>3. IsFiniteSet(Open(idles, s)) /\ IsFiniteSet(StartingIdle(s)) /\ Cardinality(Workers) \in Nat
      BY Finite
    <3>4. Cardinality(Open(idles, s)) + Cardinality(StartingIdle(s)) <= Cardinality(Workers)
      BY DEF Bounded
    <3>5. StartingIdle(s)' \subseteq StartingIdle(s) \ {w}
      BY <1>6
    <3> DEFINE A == Open(idles, s)
               B == StartingIdle(s)
               C == Open(idles', s)
               D == StartingIdle(s)'
    <3>6. IsFiniteSet(A) /\ IsFiniteSet(B) /\ Cardinality(A) + Cardinality(B) <= Cardinality(Workers)
      BY <3>3, <3>4
    <3>7. w \in B /\ C \subseteq A \cup {n} /\ D \subseteq B \ {w}
      BY <3>1, <3>2, <3>5
    <3> HIDE DEF A, B, C, D
    <3>8. Cardinality(C) + Cardinality(D) <= Cardinality(Workers)
      BY <3>3, <3>6, <3>7, SumShifts
    <3> QED
      BY <3>8 DEF Within, C, D
  <2>2. CASE s # requests[w].session
    <3>1. Open(idles, s)' \subseteq Open(idles, s)
      BY <1>0, <1>5, <2>2 DEF Open
    <3>2. StartingIdle(s)' \subseteq StartingIdle(s)
      BY <1>6
    <3> QED
      BY <3>1, <3>2, QuietIdles
  <2> QED
    BY <2>1, <2>2
<1> QED
  BY <1>3, <1>6, <1>7, <1>8, QuietSessions, BoundedNext

LEMMA BoundedIdleEnd ==
  ASSUME TypeOK, Owned, Timely, Bounded, NEW w \in Workers, IdleEnd(w)
  PROVE  Bounded'
<1>1. Committing(w, "idle end") /\ "idle end" \in Kinds
  BY DEF IdleEnd, Kinds
<1>2. /\ requests' = [requests EXCEPT ![w] = Free] /\ requests[w] \in Request
      /\ requests[w].now # None
  BY <1>1, CommitFacts
<1>3. sessions' = sessions /\ idles' = Close(idles, requests[w])
  BY DEF IdleEnd
<1>4. LoggingIn' \subseteq LoggingIn /\ \A s : StartingIdle(s)' \subseteq StartingIdle(s)
  BY <1>2, Done
<1>5. Active' = Active
  BY <1>3 DEF Active
<1>6. /\ DOMAIN idles' = DOMAIN idles
      /\ \A i \in DOMAIN idles :
           /\ idles'[i].session = idles[i].session
           /\ i # requests[w].row => idles'[i].end = idles[i].end
           /\ i = requests[w].row => idles'[i].end # None
  BY <1>2, <1>3, Closed DEF TypeOK
<1>7. \A s : Open(idles, s)' \subseteq Open(idles, s)
  BY <1>6 DEF Open
<1> QED
  BY <1>3, <1>4, <1>5, <1>7, QuietSessions, QuietIdles, BoundedNext

LEMMA BoundedStep ==
  ASSUME TypeOK, Owned, Timely, Bounded, [Next]_vars
  PROVE  Bounded'
<1>1. CASE UNCHANGED vars \/ Tick
  <2>1. UNCHANGED <<sessions, idles, requests>>
    BY <1>1 DEF vars, Tick
  <2> QED
    BY <2>1 DEF Bounded, Active, LoggingIn, Open, StartingIdle
<1>2. ASSUME NEW w \in Workers, NEW kind \in Kinds, FindSession(w, kind) PROVE Bounded'
  BY <1>2, BoundedFindSession
<1>3. ASSUME NEW w \in Workers, FindRow(w) PROVE Bounded'
  BY <1>3, BoundedFindRow
<1>4. ASSUME NEW w \in Workers, Login(w) PROVE Bounded'
  BY <1>4, BoundedLogin
<1>5. ASSUME NEW w \in Workers, Logout(w) PROVE Bounded'
  BY <1>5, BoundedLogout
<1>6. ASSUME NEW w \in Workers, IdleStart(w) PROVE Bounded'
  BY <1>6, BoundedIdleStart
<1>7. ASSUME NEW w \in Workers, IdleEnd(w) PROVE Bounded'
  BY <1>7, BoundedIdleEnd
<1>8. ASSUME NEW w \in Workers,
             ReplaceActive(w) \/ ApplicationStop(w) \/ Activity(w) \/ Rollback(w)
      PROVE  Bounded'
  <2>1. UNCHANGED <<sessions, idles>> /\ requests' = [requests EXCEPT ![w] = Free]
    BY <1>8 DEF ReplaceActive, ApplicationStop, Activity, Rollback, Committing
  <2>2. LoggingIn' \subseteq LoggingIn /\ \A s : StartingIdle(s)' \subseteq StartingIdle(s)
    BY <2>1, Done
  <2>3. Active' = Active /\ \A s : Open(idles, s)' = Open(idles, s)
    BY <2>1 DEF Active, Open
  <2> QED
    BY <2>1, <2>2, <2>3, QuietSessions, QuietIdles, BoundedNext
<1> QED
  BY <1>1, <1>2, <1>3, <1>4, <1>5, <1>6, <1>7, <1>8 DEF Next

-----------------------------------------------------------------------------
(* Requests that come one at a time.                                         *)

\* The part of Alone that is about the tables.
RowsRegular(table) == Forward(table) /\ InOrder(table) /\ InItsSession(table)

Regular ==
  /\ \A s \in DOMAIN sessions : sessions[s].status = "ACTIVE" <=> sessions[s].logout = None
  /\ InSequence
  /\ RowsRegular(idles) /\ RowsRegular(applications)
  /\ \A i \in DOMAIN activities : activities[i].time >= sessions[activities[i].session].login

\* The part that is about the requests.
Exclusive ==
  /\ \A v, w \in Workers : requests[v] # Free /\ requests[w] # Free => v = w
  /\ \A w \in Workers : StillSo(requests[w])

LEMMA AloneParts == Alone <=> Regular /\ Exclusive
BY DEF Alone, Regular, RowsRegular, Exclusive

LEMMA AloneNext == Regular' /\ Exclusive' => Alone'
BY DEF Alone, Regular, RowsRegular, Exclusive

\* The other threads are free, and this one knows what is so.
LEMMA StillExclusive ==
  ASSUME TypeOK, NEW w \in Workers, NEW q \in Request, requests' = [requests EXCEPT ![w] = q],
         \A v \in Workers : v # w => requests[v] = Free, StillSo(q)'
  PROVE  Exclusive'
<1>1. requests'[w] = q /\ \A v \in Workers : v # w => requests'[v] = Free
  BY OneRequest
<1>2. StillSo(Free)'
  BY FreeIsRequest DEF StillSo
<1>3. \A v \in Workers : requests'[v] = q \/ requests'[v] = Free
  BY <1>1
<1>4. \A v \in Workers : StillSo(requests[v])'
  BY <1>2, <1>3 DEF StillSo
<1> QED
  BY <1>1, <1>4 DEF Exclusive

\* A commit leaves all threads free.
LEMMA DoneExclusive ==
  ASSUME TypeOK, Exclusive, NEW w \in Workers, requests[w].step # "free",
         requests' = [requests EXCEPT ![w] = Free]
  PROVE  Exclusive'
<1>1. requests[w] # Free
  BY FreeIsRequest
<1>2. \A v \in Workers : v # w => requests[v] = Free
  BY <1>1 DEF Exclusive
<1>3. StillSo(Free)'
  BY FreeIsRequest DEF StillSo
<1> QED
  BY <1>2, <1>3, FreeIsRequest, StillExclusive

LEMMA AloneFindSession ==
  ASSUME TypeOK, Owned, Timely, ~ overlapped => Alone,
         NEW w \in Workers, NEW kind \in Kinds, FindSession(w, kind), ~ overlapped'
  PROVE  Alone'
<1>1. UNCHANGED <<sessions, idles, applications, activities, clock>>
  BY DEF FindSession
<1>2. ~ overlapped /\ \A v \in Workers : requests[v] = Free
  BY DEF FindSession, TypeOK
<1>3. Regular'
  BY <1>1, <1>2, AloneParts DEF Regular, RowsRegular, InSequence, InItsSession
<1>4. PICK q \in Request :
        /\ requests' = [requests EXCEPT ![w] = q]
        /\ q.kind = kind
        /\ kind = "login" => GetActive = {} /\ q.step = "commit" /\ q.now = clock
        /\ kind # "login" => q.session \in GetActive
        /\ kind \in {"logout", "activity"} => q.now = clock
        /\ kind \notin {"login", "logout", "activity"} => q.step = "row"
  BY SessionFound
<1>5. GetActive \subseteq Active /\ (GetActive = {} => Active = {})
  BY NoneActive DEF GetActive
<1>6. q.step = "commit" => Past(q.now)
  BY <1>4 DEF Timely
<1>7. StillSo(q)
  <2>1. q.step = "row" => q.session \in Active
    BY <1>4, <1>5
  <2>2. q.step = "commit" => q.kind \in {"login", "logout", "activity"}
    BY <1>4
  <2>3. IF q.kind = "login" THEN Active = {} ELSE q.session \in Active
    BY <1>4, <1>5
  <2> QED
    BY <1>6, <2>1, <2>2, <2>3 DEF StillSo
<1>8. StillSo(q)'
  BY <1>1, <1>7 DEF StillSo, Past, Active, Open
<1> QED
  BY <1>2, <1>3, <1>4, <1>8, StillExclusive, AloneNext

LEMMA AloneFindRow ==
  ASSUME TypeOK, Owned, Timely, Alone, NEW w \in Workers, FindRow(w)
  PROVE  Alone'
<1>1. UNCHANGED <<sessions, idles, applications, activities, clock>> /\ requests[w].step = "row"
  BY DEF FindRow
<1>2. requests[w] # Free /\ StillSo(requests[w])
  BY <1>1, FreeIsRequest, AloneParts DEF Exclusive
<1>3. \A v \in Workers : v # w => requests[v] = Free
  BY <1>2, AloneParts DEF Exclusive
<1>4. Regular'
  BY <1>1, AloneParts DEF Regular, RowsRegular, InSequence, InItsSession
<1>5. PICK q \in Request :
        /\ requests' = [requests EXCEPT ![w] = q]
        /\ \/ q = Free
           \/ /\ q.session = requests[w].session
              /\ q.step = "commit" /\ q.now = clock
              /\ \/ /\ q.kind \in {"idle start", "application start"}
                    /\ GetOpen(Table(q.kind), q.session) = {} /\ q.row = None
                 \/ /\ q.kind \in {"idle end", "application start", "application stop"}
                    /\ q.row \in GetOpen(Table(q.kind), q.session)
  BY RowFound
<1>6. StillSo(q)
  <2>1. CASE q = Free
    BY <2>1, FreeIsRequest DEF StillSo
  <2>2. CASE q # Free
    <3>1. q.session \in Active /\ Past(q.now)
      BY <1>1, <1>2, <1>5, <2>2 DEF StillSo, Timely
    <3>2. /\ \A table, s : GetOpen(table, s) \subseteq Open(table, s)
          /\ GetOpen(idles, q.session) = {} => Open(idles, q.session) = {}
          /\ GetOpen(applications, q.session) = {} => Open(applications, q.session) = {}
      BY NoneOpen DEF GetOpen
    <3>3. CASE q.kind = "idle start"
      BY <1>5, <2>2, <3>1, <3>2, <3>3 DEF StillSo, Table
    <3>4. CASE q.kind = "idle end"
      BY <1>5, <2>2, <3>1, <3>2, <3>4 DEF StillSo, Table
    <3>5. CASE q.kind = "application stop"
      BY <1>5, <2>2, <3>1, <3>2, <3>5 DEF StillSo, Table
    <3>6. CASE q.kind = "application start"
      <4>1. Table(q.kind) = applications
        BY <3>6 DEF Table
      <4>2. CASE q.row = None /\ GetOpen(applications, q.session) = {}
        BY <3>1, <3>2, <3>6, <4>2 DEF StillSo
      <4>3. CASE q.row \in GetOpen(applications, q.session)
        <5>1. q.row # None
          BY <3>2, <4>3, Elements DEF Open, None
        <5> QED
          BY <3>1, <3>2, <3>6, <4>3, <5>1 DEF StillSo
      <4> QED
        BY <1>5, <2>2, <3>6, <4>1, <4>2, <4>3
    <3> QED
      BY <1>5, <2>2, <3>3, <3>4, <3>5, <3>6
  <2> QED
    BY <2>1, <2>2
<1>7. StillSo(q)'
  BY <1>1, <1>6 DEF StillSo, Past, Active, Open
<1> QED
  BY <1>3, <1>4, <1>5, <1>7, StillExclusive, AloneNext

\* A row that is open is closed where it is.
LEMMA RegularClosed ==
  ASSUME TypeOK, Owned, NEW q \in Seq(TimeRow), RowsSound(q), RowsRegular(q), NEW r \in Request,
         r.now # None, r.row \in Open(q, r.session), r.session \in Active,
         \A s \in DOMAIN sessions : sessions[s].status = "ACTIVE" <=> sessions[s].logout = None,
         \A i \in DOMAIN q : q[i].start <= r.now /\ q[i].end <= r.now
  PROVE  /\ RowsRegular(Close(q, r))
         /\ Open(Close(q, r), r.session) = {}
<1> DEFINE c == Close(q, r)
<1>1. /\ c \in Seq(TimeRow) /\ DOMAIN c = DOMAIN q /\ DOMAIN q = 1 .. Len(q) /\ Len(q) \in Nat
      /\ \A i \in DOMAIN q :
           /\ c[i].session = q[i].session /\ c[i].start = q[i].start
           /\ i # r.row => c[i].end = q[i].end
           /\ i = r.row => c[i].end = r.now
  BY Closed
<1>2. \A i \in DOMAIN q : q[i].session \in Nat /\ q[i].start \in Nat /\ q[i].end \in Nat
  <2>1. \A i \in DOMAIN q : q[i] \in TimeRow
    BY Closed
  <2> QED
    BY <2>1 DEF TimeRow
<1>3. r.now \in Nat /\ r.row \in DOMAIN q /\ q[r.row].session = r.session /\ q[r.row].end = None
  BY DEF Request, Open
<1>4. sessions[r.session].logout = None
  BY DEF Active
<1> HIDE DEF c
<1>5. Forward(c)
  BY <1>1, <1>2, <1>3 DEF RowsRegular, Forward
<1>6. InOrder(c)
  <2> SUFFICES ASSUME NEW i \in DOMAIN q, NEW j \in DOMAIN q, i < j, q[i].session = q[j].session
               PROVE  Ends(c[i].end, c[j].start)
    BY <1>1 DEF InOrder
  <2>1. Ends(q[i].end, q[j].start)
    BY DEF RowsRegular, InOrder
  <2>2. i # r.row
    BY <1>3, <2>1 DEF Ends
  <2> QED
    BY <1>1, <2>1, <2>2
<1>7. InItsSession(c)
  <2> SUFFICES ASSUME NEW i \in DOMAIN q
               PROVE  LET s == sessions[c[i].session]
                      IN  /\ s.login <= c[i].start
                          /\ s.logout # None => c[i].start <= s.logout /\ c[i].end <= s.logout
    BY <1>1 DEF InItsSession
  <2>1. LET s == sessions[q[i].session]
        IN  /\ s.login <= q[i].start
            /\ s.logout # None => q[i].start <= s.logout /\ q[i].end <= s.logout
    BY DEF RowsRegular, InItsSession
  <2>2. i = r.row => sessions[q[i].session].logout = None
    BY <1>3, <1>4
  <2> QED
    BY <1>1, <2>1, <2>2
<1>8. Open(c, r.session) = {}
  <2> SUFFICES ASSUME NEW i \in DOMAIN q, c[i].session = r.session, c[i].end = None
               PROVE  FALSE
    BY <1>1 DEF Open
  <2>1. i # r.row /\ q[i].end = None /\ q[i].session = q[r.row].session
    BY <1>1, <1>3
  <2>2. i < r.row \/ r.row < i
    BY <1>1, <1>3, <2>1
  <2>3. Ends(q[i].end, q[r.row].start) \/ Ends(q[r.row].end, q[i].start)
    BY <1>3, <2>1, <2>2 DEF RowsRegular, InOrder
  <2> QED
    BY <1>3, <2>1, <2>3 DEF Ends
<1> QED
  BY <1>5, <1>6, <1>7, <1>8 DEF RowsRegular, c

\* A row is added when no other one of its session is open.
LEMMA RegularAppended ==
  ASSUME TypeOK, Owned, NEW q \in Seq(TimeRow), RowsSound(q), RowsRegular(q), NEW r \in Request,
         r.now # None, Open(q, r.session) = {}, r.session \in Active,
         sessions[r.session].login <= r.now,
         \A s \in DOMAIN sessions : sessions[s].status = "ACTIVE" <=> sessions[s].logout = None,
         \A i \in DOMAIN q : q[i].start <= r.now /\ q[i].end <= r.now
  PROVE  RowsRegular(Append(q, Row(r)))
<1>1. Row(r) \in TimeRow /\ Row(r).session = r.session /\ Row(r).start = r.now /\ Row(r).end = None
  BY RowIsRow
<1> DEFINE x == Row(r)
           n == Len(q) + 1
           c == Append(q, x)
<1> HIDE DEF x
<1>2. /\ DOMAIN c = 1 .. n /\ DOMAIN q = 1 .. Len(q) /\ Len(q) \in Nat
      /\ \A i \in DOMAIN q : c[i] = q[i]
      /\ c[n] = x
  BY <1>1, Appended DEF x
<1>3. x.session = r.session /\ x.start = r.now /\ x.end = None /\ r.now \in Nat
  BY <1>1 DEF x, Request
<1>4. sessions[r.session].logout = None
  BY DEF Active
<1> HIDE DEF c
<1>5. Forward(c)
  BY <1>2, <1>3 DEF RowsRegular, Forward
<1>6. InOrder(c)
  <2> SUFFICES ASSUME NEW i \in DOMAIN c, NEW j \in DOMAIN c, i < j, c[i].session = c[j].session
               PROVE  Ends(c[i].end, c[j].start)
    BY DEF InOrder
  <2>1. i \in DOMAIN q
    BY <1>2
  <2>2. CASE j \in DOMAIN q
    BY <1>2, <2>1, <2>2 DEF RowsRegular, InOrder
  <2>3. CASE j = n
    <3>1. q[i].session = r.session
      BY <1>2, <1>3, <2>1, <2>3
    <3>2. q[i].end # None
      BY <2>1, <3>1 DEF Open
    <3> QED
      BY <1>2, <1>3, <2>1, <2>3, <3>2 DEF Ends
  <2> QED
    BY <1>2, <2>2, <2>3
<1>7. InItsSession(c)
  <2> SUFFICES ASSUME NEW i \in DOMAIN c
               PROVE  LET s == sessions[c[i].session]
                      IN  /\ s.login <= c[i].start
                          /\ s.logout # None => c[i].start <= s.logout /\ c[i].end <= s.logout
    BY DEF InItsSession
  <2>1. CASE i \in DOMAIN q
    BY <1>2, <2>1 DEF RowsRegular, InItsSession
  <2>2. CASE i = n
    BY <1>2, <1>3, <1>4, <2>2
  <2> QED
    BY <1>2, <2>1, <2>2
<1> QED
  BY <1>5, <1>6, <1>7 DEF RowsRegular, c, x

\* What a thread that runs alone knows when it commits.
LEMMA KnownAlone ==
  ASSUME TypeOK, Owned, Timely, Alone, NEW w \in Workers, NEW kind \in Kinds, Committing(w, kind)
  PROVE  /\ StillSo(requests[w]) /\ requests[w].step = "commit" /\ requests[w].kind = kind
         /\ Regular /\ Exclusive' /\ Past(requests[w].now)
<1>1. requests[w].step = "commit" /\ requests[w].kind = kind
  BY DEF Committing
<1>2. Regular /\ Exclusive
  BY AloneParts
<1>3. StillSo(requests[w])
  BY <1>2 DEF Exclusive
<1>4. Exclusive'
  BY <1>1, <1>2, CommitFacts, DoneExclusive
<1> QED
  BY <1>1, <1>2, <1>3, <1>4 DEF StillSo

LEMMA AloneLogin ==
  ASSUME TypeOK, Owned, Timely, Alone, NEW w \in Workers, Login(w)
  PROVE  Alone'
<1> DEFINE x == [login |-> requests[w].now, logout |-> None, status |-> "ACTIVE"]
<1>0. PICK n : n = Len(sessions) + 1
  OBVIOUS
<1>1. Committing(w, "login") /\ "login" \in Kinds
  BY DEF Login, Kinds
<1>2. requests[w].now \in Nat
  BY <1>1, CommitFacts
<1>3. sessions' = Append(sessions, x) /\ UNCHANGED <<idles, applications, activities>>
  BY DEF Login
<1>4. /\ x \in SessionRow /\ x.login = requests[w].now /\ x.logout = None
      /\ x.status = "ACTIVE"
  BY <1>2 DEF SessionRow, None
<1> HIDE DEF x
<1>5. /\ DOMAIN sessions = 1 .. Len(sessions) /\ DOMAIN sessions' = 1 .. n
      /\ Len(sessions) \in Nat
      /\ \A s \in DOMAIN sessions : sessions'[s] = sessions[s]
      /\ sessions'[n] = x
  BY <1>0, <1>3, <1>4, Appended DEF TypeOK
<1>6. Regular /\ Exclusive' /\ Past(requests[w].now) /\ Active = {}
  BY <1>1, KnownAlone DEF StillSo
<1>7. \A s \in DOMAIN sessions : sessions[s].logout # None /\ sessions[s].logout <= requests[w].now
  <2>1. \A s \in DOMAIN sessions : sessions[s].status # "ACTIVE"
    BY <1>6 DEF Active
  <2> QED
    BY <1>6, <2>1 DEF Regular, Past
<1>8. \A s \in DOMAIN sessions' : sessions'[s].status = "ACTIVE" <=> sessions'[s].logout = None
  <2>1. \A s \in DOMAIN sessions' : s \in DOMAIN sessions \/ s = n
    BY <1>0, <1>5
  <2> QED
    BY <1>4, <1>5, <1>6, <2>1 DEF Regular
<1>9. InSequence'
  <2> SUFFICES ASSUME NEW s \in DOMAIN sessions', NEW t \in DOMAIN sessions', s < t
               PROVE  Ends(sessions'[s].logout, sessions'[t].login)
    BY DEF InSequence
  <2>1. s \in DOMAIN sessions
    BY <1>0, <1>5
  <2>2. CASE t \in DOMAIN sessions
    BY <1>5, <1>6, <2>1, <2>2 DEF Regular, InSequence
  <2>3. CASE t = n
    BY <1>4, <1>5, <1>7, <2>1, <2>3 DEF Ends
  <2> QED
    BY <1>0, <1>5, <2>2, <2>3
<1>10. RowsRegular(idles)'
  <2>1. Forward(idles') /\ InOrder(idles')
    BY <1>3, <1>6 DEF Regular, RowsRegular
  <2>2. InItsSession(idles)'
    BY <1>3, <1>5, <1>6 DEF Regular, RowsRegular, InItsSession, Owned
  <2> QED
    BY <2>1, <2>2 DEF RowsRegular
<1>11. RowsRegular(applications)'
  <2>1. Forward(applications') /\ InOrder(applications')
    BY <1>3, <1>6 DEF Regular, RowsRegular
  <2>2. InItsSession(applications)'
    BY <1>3, <1>5, <1>6 DEF Regular, RowsRegular, InItsSession, Owned
  <2> QED
    BY <2>1, <2>2 DEF RowsRegular
<1>12. \A i \in DOMAIN activities' : activities'[i].time >= sessions'[activities'[i].session].login
  BY <1>3, <1>5, <1>6 DEF Regular, Owned
<1> QED
  BY <1>6, <1>8, <1>9, <1>10, <1>11, <1>12, AloneNext DEF Regular

LEMMA AloneLogout ==
  ASSUME TypeOK, Owned, Timely, Alone, NEW w \in Workers, Logout(w)
  PROVE  Alone'
<1>0. PICK s0 : s0 = requests[w].session
  OBVIOUS
<1>1. Committing(w, "logout") /\ "logout" \in Kinds /\ "logout" # "login"
  BY DEF Logout, Kinds
<1>2. /\ requests[w].now \in Nat /\ requests[w].now # None /\ s0 \in DOMAIN sessions
  BY <1>0, <1>1, CommitFacts
<1>3. /\ DOMAIN sessions' = DOMAIN sessions
      /\ \A s \in DOMAIN sessions :
           /\ sessions'[s].login = sessions[s].login
           /\ s # s0 => sessions'[s] = sessions[s]
           /\ s = s0 => sessions'[s].logout = requests[w].now /\ sessions'[s].status = "LOGOUT"
  BY <1>0, <1>2, LoggedOut
<1>4. UNCHANGED <<idles, applications, activities>>
  BY DEF Logout
<1>5. Regular /\ Exclusive' /\ Past(requests[w].now) /\ s0 \in Active
  BY <1>0, <1>1, KnownAlone DEF StillSo
<1>6. sessions[s0].logout = None
  BY <1>2, <1>5 DEF Regular, Active
<1>7. \A s \in DOMAIN sessions' : sessions'[s].status = "ACTIVE" <=> sessions'[s].logout = None
  BY <1>2, <1>3, <1>5 DEF Regular
<1>8. InSequence'
  <2> SUFFICES ASSUME NEW s \in DOMAIN sessions, NEW t \in DOMAIN sessions, s < t
               PROVE  Ends(sessions'[s].logout, sessions'[t].login)
    BY <1>3 DEF InSequence
  <2>1. Ends(sessions[s].logout, sessions[t].login)
    BY <1>5 DEF Regular, InSequence
  <2>2. s # s0
    BY <1>6, <2>1 DEF Ends
  <2> QED
    BY <1>3, <2>1, <2>2
<1>9. RowsRegular(idles)'
  <2>1. Forward(idles') /\ InOrder(idles')
    BY <1>4, <1>5 DEF Regular, RowsRegular
  <2>2. \A i \in DOMAIN idles : idles[i].start <= requests[w].now /\ idles[i].end <= requests[w].now
    BY <1>5 DEF Past
  <2>3. InItsSession(idles)'
    BY <1>3, <1>4, <1>5, <2>2 DEF Regular, RowsRegular, InItsSession, Owned
  <2> QED
    BY <2>1, <2>3 DEF RowsRegular
<1>10. RowsRegular(applications)'
  <2>1. Forward(applications') /\ InOrder(applications')
    BY <1>4, <1>5 DEF Regular, RowsRegular
  <2>2. \A i \in DOMAIN applications :
           applications[i].start <= requests[w].now /\ applications[i].end <= requests[w].now
    BY <1>5 DEF Past
  <2>3. InItsSession(applications)'
    BY <1>3, <1>4, <1>5, <2>2 DEF Regular, RowsRegular, InItsSession, Owned
  <2> QED
    BY <2>1, <2>3 DEF RowsRegular
<1>11. \A i \in DOMAIN activities' : activities'[i].time >= sessions'[activities'[i].session].login
  BY <1>3, <1>4, <1>5 DEF Regular, Owned
<1> QED
  BY <1>5, <1>7, <1>8, <1>9, <1>10, <1>11, AloneNext DEF Regular

LEMMA AloneActivity ==
  ASSUME TypeOK, Owned, Timely, Alone, NEW w \in Workers, Activity(w)
  PROVE  Alone'
<1> DEFINE x == [session |-> requests[w].session, time |-> requests[w].now]
<1>0. PICK n : n = Len(activities) + 1
  OBVIOUS
<1>1. Committing(w, "activity") /\ "activity" \in Kinds /\ "activity" # "login"
  BY DEF Activity, Kinds
<1>2. requests[w].now \in Nat /\ requests[w].session \in DOMAIN sessions
  BY <1>1, CommitFacts
<1>3. activities' = Append(activities, x) /\ UNCHANGED <<sessions, idles, applications>>
  BY DEF Activity
<1>4. x \in CountRow /\ x.session = requests[w].session /\ x.time = requests[w].now
  BY <1>2, Elements DEF CountRow
<1> HIDE DEF x
<1>5. /\ DOMAIN activities = 1 .. Len(activities) /\ Len(activities) \in Nat
      /\ DOMAIN activities' = 1 .. n
      /\ \A i \in DOMAIN activities : activities'[i] = activities[i]
      /\ activities'[n] = x
  BY <1>0, <1>3, <1>4, Appended DEF TypeOK
<1>6. Regular /\ Exclusive' /\ Past(requests[w].now)
  BY <1>1, KnownAlone
<1>7. \A i \in DOMAIN activities' : activities'[i].time >= sessions'[activities'[i].session].login
  <2> SUFFICES ASSUME NEW i \in DOMAIN activities'
               PROVE  activities'[i].time >= sessions[activities'[i].session].login
    BY <1>3
  <2>1. CASE i \in DOMAIN activities
    BY <1>5, <1>6, <2>1 DEF Regular
  <2>2. CASE i = n
    <3>1. sessions[requests[w].session].login <= requests[w].now
      BY <1>2, <1>6 DEF Past
    <3> QED
      BY <1>2, <1>4, <1>5, <2>2, <3>1, Elements
  <2> QED
    BY <1>0, <1>5, <2>1, <2>2
<1> QED
  BY <1>3, <1>6, <1>7, AloneNext DEF Regular, RowsRegular, InSequence, InItsSession

\* A commit that changes rows of a session only.
LEMMA AloneRows ==
  ASSUME Regular, Exclusive', UNCHANGED <<sessions, activities>>,
         RowsRegular(idles'), RowsRegular(applications')
  PROVE  Alone'
<1>1. RowsRegular(idles)' /\ RowsRegular(applications)'
  BY DEF RowsRegular, InItsSession
<1> QED
  BY <1>1, AloneNext DEF Regular, InSequence

LEMMA AloneIdleStart ==
  ASSUME TypeOK, Owned, Timely, Alone, NEW w \in Workers, IdleStart(w)
  PROVE  Alone'
<1>1. Committing(w, "idle start") /\ "idle start" \in Kinds /\ "idle start" # "login"
  BY DEF IdleStart, Kinds
<1>2. /\ requests[w] \in Request /\ requests[w].now # None
      /\ requests[w].session \in DOMAIN sessions
  BY <1>1, CommitFacts
<1>3. /\ Regular /\ Exclusive' /\ Past(requests[w].now)
      /\ requests[w].session \in Active /\ Open(idles, requests[w].session) = {}
  BY <1>1, KnownAlone DEF StillSo
<1>4. /\ idles \in Seq(TimeRow) /\ RowsSound(idles) /\ RowsRegular(idles)
      /\ sessions[requests[w].session].login <= requests[w].now
      /\ \A i \in DOMAIN idles : idles[i].start <= requests[w].now /\ idles[i].end <= requests[w].now
  BY <1>2, <1>3, RowsAreSound DEF TypeOK, Regular, Past
<1>5. \A s \in DOMAIN sessions : sessions[s].status = "ACTIVE" <=> sessions[s].logout = None
  BY <1>3 DEF Regular
<1>6. RowsRegular(Append(idles, Row(requests[w])))
  BY <1>2, <1>3, <1>4, <1>5, RegularAppended
<1>7. RowsRegular(idles')
  BY <1>6 DEF IdleStart
<1>8. RowsRegular(applications') /\ UNCHANGED <<sessions, activities>>
  BY <1>3 DEF IdleStart, Regular
<1> QED
  BY <1>3, <1>7, <1>8, AloneRows

LEMMA AloneIdleEnd ==
  ASSUME TypeOK, Owned, Timely, Alone, NEW w \in Workers, IdleEnd(w)
  PROVE  Alone'
<1>1. Committing(w, "idle end") /\ "idle end" \in Kinds
  BY DEF IdleEnd, Kinds
<1>2. requests[w] \in Request /\ requests[w].now # None
  BY <1>1, CommitFacts
<1>3. /\ Regular /\ Exclusive' /\ Past(requests[w].now)
      /\ requests[w].session \in Active /\ requests[w].row \in Open(idles, requests[w].session)
  BY <1>1, KnownAlone DEF StillSo
<1>4. /\ idles \in Seq(TimeRow) /\ RowsSound(idles) /\ RowsRegular(idles)
      /\ \A i \in DOMAIN idles : idles[i].start <= requests[w].now /\ idles[i].end <= requests[w].now
  BY <1>3, RowsAreSound DEF TypeOK, Regular, Past
<1>5. \A s \in DOMAIN sessions : sessions[s].status = "ACTIVE" <=> sessions[s].logout = None
  BY <1>3 DEF Regular
<1>6. RowsRegular(Close(idles, requests[w]))
  BY <1>2, <1>3, <1>4, <1>5, RegularClosed
<1>7. RowsRegular(idles')
  BY <1>6 DEF IdleEnd
<1>8. RowsRegular(applications') /\ UNCHANGED <<sessions, activities>>
  BY <1>3 DEF IdleEnd, Regular
<1> QED
  BY <1>3, <1>7, <1>8, AloneRows

LEMMA AloneApplicationStop ==
  ASSUME TypeOK, Owned, Timely, Alone, NEW w \in Workers, ApplicationStop(w)
  PROVE  Alone'
<1>1. Committing(w, "application stop") /\ "application stop" \in Kinds
  BY DEF ApplicationStop, Kinds
<1>2. requests[w] \in Request /\ requests[w].now # None
  BY <1>1, CommitFacts
<1>3. /\ Regular /\ Exclusive' /\ Past(requests[w].now)
      /\ requests[w].session \in Active
      /\ requests[w].row \in Open(applications, requests[w].session)
  BY <1>1, KnownAlone DEF StillSo
<1>4. /\ applications \in Seq(TimeRow) /\ RowsSound(applications) /\ RowsRegular(applications)
      /\ \A i \in DOMAIN applications :
           applications[i].start <= requests[w].now /\ applications[i].end <= requests[w].now
  BY <1>3, RowsAreSound DEF TypeOK, Regular, Past
<1>5. \A s \in DOMAIN sessions : sessions[s].status = "ACTIVE" <=> sessions[s].logout = None
  BY <1>3 DEF Regular
<1>6. RowsRegular(Close(applications, requests[w]))
  BY <1>2, <1>3, <1>4, <1>5, RegularClosed
<1>7. RowsRegular(applications')
  BY <1>6 DEF ApplicationStop
<1>8. RowsRegular(idles') /\ UNCHANGED <<sessions, activities>>
  BY <1>3 DEF ApplicationStop, Regular
<1> QED
  BY <1>3, <1>7, <1>8, AloneRows

LEMMA AloneReplaceActive ==
  ASSUME TypeOK, Owned, Timely, Alone, NEW w \in Workers, ReplaceActive(w)
  PROVE  Alone'
<1> DEFINE r == requests[w]
           c == Close(applications, r)
<1>1. /\ Committing(w, "application start") /\ "application start" \in Kinds
      /\ "application start" # "login"
  BY DEF ReplaceActive, Kinds
<1>2. /\ r \in Request /\ r.now # None /\ r.now \in Nat /\ r.now <= clock
      /\ r.session \in DOMAIN sessions
  BY <1>1, CommitFacts
<1>3. /\ Regular /\ Exclusive' /\ Past(r.now) /\ r.session \in Active
      /\ IF r.row = None THEN Open(applications, r.session) = {}
                         ELSE r.row \in Open(applications, r.session)
  BY <1>1, KnownAlone DEF StillSo
<1>4. /\ applications \in Seq(TimeRow) /\ RowsSound(applications) /\ RowsRegular(applications)
      /\ sessions[r.session].login <= r.now
      /\ \A i \in DOMAIN applications :
           applications[i].start <= r.now /\ applications[i].end <= r.now
  BY <1>2, <1>3, RowsAreSound DEF TypeOK, Regular, Past
<1>5. \A s \in DOMAIN sessions : sessions[s].status = "ACTIVE" <=> sessions[s].logout = None
  BY <1>3 DEF Regular
<1>6. applications' = Append(c, Row(r)) /\ UNCHANGED <<sessions, idles, activities>>
  BY DEF ReplaceActive
<1> HIDE DEF r
<1>7. RowsRegular(c) /\ Open(c, r.session) = {}
  <2>1. CASE r.row = None
    BY <1>3, <1>4, <2>1 DEF Close
  <2>2. CASE r.row # None
    BY <1>2, <1>3, <1>4, <1>5, <2>2, RegularClosed
  <2> QED
    BY <2>1, <2>2
<1>8. c \in Seq(TimeRow) /\ RowsSound(c)
  BY <1>2, <1>4, RowsClosed
<1>9. \A i \in DOMAIN c : c[i].start <= r.now /\ c[i].end <= r.now
  <2>1. /\ DOMAIN c = DOMAIN applications
        /\ \A i \in DOMAIN applications :
              /\ c[i].start = applications[i].start
              /\ i # r.row => c[i].end = applications[i].end
              /\ i = r.row => c[i].end = r.now
    BY <1>2, <1>4, Closed
  <2> HIDE DEF c
  <2> QED
    BY <1>2, <1>4, <2>1
<1> HIDE DEF c
<1>10. RowsRegular(Append(c, Row(r)))
  BY <1>2, <1>3, <1>4, <1>5, <1>7, <1>8, <1>9, RegularAppended
<1>11. RowsRegular(applications') /\ RowsRegular(idles')
  BY <1>3, <1>6, <1>10 DEF Regular
<1> QED
  BY <1>3, <1>6, <1>11, AloneRows

\* Alone says nothing of the clock.
LEMMA AloneSame ==
  ASSUME Alone, UNCHANGED <<sessions, idles, applications, activities, requests>>
  PROVE  Alone'
<1>0. /\ sessions' = sessions /\ idles' = idles /\ applications' = applications
      /\ activities' = activities /\ requests' = requests
  OBVIOUS
<1>1. \A v, w \in Workers : requests'[v] # Free /\ requests'[w] # Free => v = w
  BY <1>0 DEF Alone
<1>2. ASSUME NEW w \in Workers PROVE StillSo(requests[w])'
  <2>1. StillSo(requests[w])
    BY DEF Alone
  <2> QED
    BY <1>0, <2>1 DEF StillSo, Past, Active, Open
<1>3. \A s \in DOMAIN sessions' : sessions'[s].status = "ACTIVE" <=> sessions'[s].logout = None
  BY <1>0 DEF Alone
<1>4. InSequence'
  BY <1>0 DEF Alone, InSequence
<1>5. (\A table \in {idles, applications} : Forward(table) /\ InOrder(table) /\ InItsSession(table))'
  BY <1>0 DEF Alone, Forward, InOrder, InItsSession
<1>6. (\A i \in DOMAIN activities : activities[i].time >= sessions[activities[i].session].login)'
  BY <1>0 DEF Alone
<1> QED
  BY <1>1, <1>2, <1>3, <1>4, <1>5, <1>6 DEF Alone

LEMMA AloneStep ==
  ASSUME TypeOK, Owned, Timely, ~ overlapped => Alone, [Next]_vars, ~ overlapped'
  PROVE  Alone'
<1>1. CASE UNCHANGED vars
  BY <1>1, AloneSame DEF vars
<1>2. CASE Tick
  BY <1>2, AloneSame DEF Tick
<1>3. ASSUME NEW w \in Workers, NEW kind \in Kinds, FindSession(w, kind) PROVE Alone'
  BY <1>3, AloneFindSession
<1>4. ASSUME NEW w \in Workers, FindRow(w) PROVE Alone'
  BY <1>4, AloneFindRow DEF FindRow
<1>5. ASSUME NEW w \in Workers, Login(w) PROVE Alone'
  BY <1>5, AloneLogin DEF Login, Committing
<1>6. ASSUME NEW w \in Workers, Logout(w) PROVE Alone'
  BY <1>6, AloneLogout DEF Logout, Committing
<1>7. ASSUME NEW w \in Workers, IdleStart(w) PROVE Alone'
  BY <1>7, AloneIdleStart DEF IdleStart, Committing
<1>8. ASSUME NEW w \in Workers, IdleEnd(w) PROVE Alone'
  BY <1>8, AloneIdleEnd DEF IdleEnd, Committing
<1>9. ASSUME NEW w \in Workers, ReplaceActive(w) PROVE Alone'
  BY <1>9, AloneReplaceActive DEF ReplaceActive, Committing
<1>10. ASSUME NEW w \in Workers, ApplicationStop(w) PROVE Alone'
  BY <1>10, AloneApplicationStop DEF ApplicationStop, Committing
<1>11. ASSUME NEW w \in Workers, Activity(w) PROVE Alone'
  BY <1>11, AloneActivity DEF Activity, Committing
<1>12. ASSUME NEW w \in Workers, Rollback(w) PROVE Alone'
  <2>1. /\ UNCHANGED <<sessions, idles, applications, activities, overlapped>>
        /\ requests[w].step # "free" /\ requests' = [requests EXCEPT ![w] = Free]
    BY <1>12 DEF Rollback
  <2>2. Regular /\ Exclusive
    BY <2>1, AloneParts
  <2>3. Exclusive'
    BY <2>1, <2>2, DoneExclusive
  <2>4. Regular'
    BY <2>1, <2>2 DEF Regular, RowsRegular, InSequence, InItsSession
  <2> QED
    BY <2>3, <2>4, AloneNext
<1> QED
  BY <1>1, <1>2, <1>3, <1>4, <1>5, <1>6, <1>7, <1>8, <1>9, <1>10, <1>11, <1>12 DEF Next

-----------------------------------------------------------------------------
(* The inductive invariant and what follows from it.                         *)

LEMMA InitIInv == Init => IInv
<1> SUFFICES ASSUME Init PROVE IInv
  OBVIOUS
<1>1. /\ sessions = << >> /\ idles = << >> /\ applications = << >> /\ activities = << >>
      /\ clock = 1 /\ overlapped = FALSE /\ \A w \in Workers : requests[w] = Free
      /\ requests \in [Workers -> Request]
  BY FreeIsRequest DEF Init
<1>2. TypeOK
  <2>1. sessions \in Seq(SessionRow) /\ activities \in Seq(CountRow)
    BY <1>1
  <2>2. idles \in Seq(TimeRow) /\ applications \in Seq(TimeRow)
    BY <1>1
  <2>3. clock \in Nat \ {0} /\ requests \in [Workers -> Request]
    BY <1>1
  <2>4. overlapped \in BOOLEAN
    BY <1>1, Zenon
  <2> QED
    BY <2>1, <2>2, <2>3, <2>4 DEF TypeOK
<1>3. Owned /\ Timely
  BY <1>1, FreeIsRequest DEF Owned, Timely, Past, None
<1>4. Bounded
  <2>1. Active = {} /\ LoggingIn = {} /\ DOMAIN sessions = {}
    BY <1>1, FreeIsRequest DEF Active, LoggingIn
  <2>2. Cardinality({}) + Cardinality({}) <= Cardinality(Workers)
    BY SumStarts
  <2> QED
    BY <2>1, <2>2 DEF Bounded
<1>5. Alone
  <2>1. \A w \in Workers : StillSo(requests[w])
    BY <1>1, FreeIsRequest DEF StillSo
  <2>2. /\ DOMAIN sessions = {} /\ DOMAIN idles = {} /\ DOMAIN applications = {}
        /\ DOMAIN activities = {}
    BY <1>1
  <2>3. Regular
    BY <2>2 DEF Regular, RowsRegular, InSequence, Forward, InOrder, InItsSession
  <2>4. Exclusive
    BY <1>1, <2>1 DEF Exclusive
  <2> QED
    BY <2>3, <2>4, AloneParts
<1> QED
  BY <1>2, <1>3, <1>4, <1>5 DEF IInv

(* The invariant is inductive: types, owners and times, the counts of what   *)
(* is open or about to be opened, and the order of requests that come one at *)
(* a time.                                                                   *)
THEOREM Invariance == Spec => []IInv
<1>1. IInv /\ [Next]_vars => IInv'
  BY SoundStep, BoundedStep, AloneStep DEF IInv
<1> QED
  BY InitIInv, <1>1, PTL DEF Spec

(* Every table, request and time has its type in every reachable state.       *)
THEOREM TypeCorrect == Spec => []TypeOK
<1>1. IInv => TypeOK
  BY DEF IInv
<1> QED
  BY Invariance, <1>1, PTL

(* For any number of threads, a device never has more active sessions, and a *)
(* session never more open idle events, than the server has threads          *)
(* (session_service.py 21-33, idle_service.py 36-53).                        *)
THEOREM BoundedByThreads == Spec => []AtMostOnePerThread
<1>1. IInv => AtMostOnePerThread
  <2> SUFFICES ASSUME IInv PROVE AtMostOnePerThread
    OBVIOUS
  <2>1. TypeOK /\ Bounded
    BY DEF IInv
  <2>2. /\ Cardinality(Active) \in Nat /\ Cardinality(LoggingIn) \in Nat
        /\ \A s : Cardinality(Open(idles, s)) \in Nat /\ Cardinality(StartingIdle(s)) \in Nat
        /\ Cardinality(Workers) \in Nat
    BY <2>1, Finite, FS_CardinalityType
  <2>3. Cardinality(Active) <= Cardinality(Workers)
    BY <2>1, <2>2 DEF Bounded
  <2>4. ASSUME NEW s \in DOMAIN sessions
        PROVE  Cardinality(Open(idles, s)) <= Cardinality(Workers)
    <3>1. Cardinality(Open(idles, s)) + Cardinality(StartingIdle(s)) <= Cardinality(Workers)
      BY <2>1 DEF Bounded
    <3>2. Cardinality(Open(idles, s)) \in Nat /\ Cardinality(StartingIdle(s)) \in Nat
      BY <2>2
    <3> QED
      BY <2>2, <3>1, <3>2
  <2> QED
    BY <2>3, <2>4 DEF AtMostOnePerThread
<1> QED
  BY Invariance, <1>1, PTL

(* As long as the requests of a device have come one at a time, its sessions *)
(* and the rows of each follow each other, and the application that is shown *)
(* as current is the one that is open (application_repository.py 69-89,      *)
(* dashboard.py 114-147).                                                    *)
THEOREM OrderOneAtATime == Spec => []OneAtATime
<1>1. IInv => OneAtATime
  <2> SUFFICES ASSUME IInv, ~ overlapped PROVE OneAtATime
    BY DEF OneAtATime
  <2>1. TypeOK /\ Alone
    BY DEF IInv
  <2>2. ASSUME NEW s \in Active, NEW i \in Open(applications, s) PROVE i \in Shown(s)
    <3> SUFFICES ASSUME NEW j \in DOMAIN applications, applications[j].session = s
                 PROVE  applications[j].start <= applications[i].start
      BY DEF Shown, Open
    <3>1. /\ i \in DOMAIN applications /\ applications[i].session = s /\ applications[i].end = None
      BY DEF Open
    <3>2. /\ i \in Nat /\ j \in Nat
          /\ applications[i].start \in Nat /\ applications[j].start \in Nat
          /\ applications[j].end \in Nat
      BY <2>1, <3>1, Elements
    <3>3. CASE i = j
      BY <3>2, <3>3
    <3>4. CASE i < j
      BY <2>1, <3>1, <3>4 DEF Alone, InOrder, Ends
    <3>5. CASE j < i
      <4>1. applications[j].end # None /\ applications[j].end <= applications[i].start
        BY <2>1, <3>1, <3>5 DEF Alone, InOrder, Ends
      <4>2. applications[j].start <= applications[j].end
        BY <2>1, <4>1 DEF Alone, Forward
      <4> QED
        BY <3>2, <4>1, <4>2
    <3> QED
      BY <3>2, <3>3, <3>4, <3>5
  <2> QED
    BY <2>1, <2>2 DEF OneAtATime, Alone, InSequence
<1> QED
  BY Invariance, <1>1, PTL

=============================================================================
