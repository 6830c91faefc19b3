--------------------------- MODULE AgentSyncProofs ---------------------------
(***************************************************************************)
(* Proofs about AgentSync, for every set of threads, sessions and items,    *)
(* whatever versions of them the agent reports and however often it gives   *)
(* up on a request.                                                         *)
(***************************************************************************)
EXTENDS AgentSync, FiniteSetTheorems, TLAPS

\* The two things a statement does to a table: it adds a row at the end, or
\* replaces one.
LEMMA Inserted ==
  ASSUME NEW S, NEW s \in Seq(S), NEW x \in S
  PROVE  /\ Append(s, x) \in Seq(S)
         /\ DOMAIN Append(s, x) = DOMAIN s \union {Len(s) + 1}
         /\ Len(s) + 1 \notin DOMAIN s
         /\ Len(s) + 1 # 0
         /\ Append(s, x)[Len(s) + 1] = x
         /\ \A i \in DOMAIN s : Append(s, x)[i] = s[i]
OBVIOUS

LEMMA Updated ==
  ASSUME NEW S, NEW s \in Seq(S), NEW i \in DOMAIN s, NEW x \in S
  PROVE  /\ [s EXCEPT ![i] = x] \in Seq(S)
         /\ DOMAIN [s EXCEPT ![i] = x] = DOMAIN s
         /\ [s EXCEPT ![i] = x][i] = x
         /\ \A j \in DOMAIN s \ {i} : [s EXCEPT ![i] = x][j] = s[j]
OBVIOUS

LEMMA RangeOfSeq ==
  ASSUME NEW S, NEW s \in Seq(S)
  PROVE  Range(s) \subseteq S
BY DEF Range

\* What a request at work carries is a version that was reported.
LEMMA ReportedRow ==
  ASSUME TypeOK, RequestOK, NEW w \in Worker, pc[w] # "idle", Serves(w, LocalSession)
  PROVE  /\ req[w].id \in LocalSession
         /\ req[w].version \in DOMAIN Report[req[w].id]
         /\ Reported(w).logout \in Logouts(req[w].id) \union {Null}
         /\ Reported(w).logout \in (UNION {Logouts(s) : s \in LocalSession}) \union {Null}
         /\ Reported(w).duration \in (UNION {Durations(s) : s \in LocalSession}) \union {Null}
<1>1. req[w].id \in LocalSession /\ req[w] \in Request
  BY DEF TypeOK, Serves
<1>2. req[w].version \in 1..Len(Report[req[w].id])
  BY <1>1 DEF TypeOK, RequestOK, Local, Versions, Request
<1>3. DOMAIN Report[req[w].id] = 1..Len(Report[req[w].id])
  BY <1>1, ReportAssumption
<1>4. Reported(w).logout \in Logouts(req[w].id) \union {Null}
  BY <1>2, <1>3 DEF Reported, Logouts
<1>5. Reported(w).duration \in Durations(req[w].id) \union {Null}
  BY <1>2, <1>3 DEF Reported, Durations
<1>6. /\ Logouts(req[w].id) \subseteq UNION {Logouts(s) : s \in LocalSession}
      /\ Durations(req[w].id) \subseteq UNION {Durations(s) : s \in LocalSession}
  BY <1>1
<1>7. Reported(w).logout \in (UNION {Logouts(s) : s \in LocalSession}) \union {Null}
  BY <1>4, <1>6
<1>8. Reported(w).duration \in (UNION {Durations(s) : s \in LocalSession}) \union {Null}
  BY <1>5, <1>6
<1>9. QED
  BY <1>1, <1>2, <1>3, <1>4, <1>5, <1>7, <1>8

LEMMA ReadContent ==
  ASSUME TypeOK, RequestOK, NEW w \in Worker, pc[w] # "idle", Serves(w, LocalItem)
  PROVE  /\ req[w].id \in LocalItem
         /\ Reads(w) \in Range(Content[req[w].id])
<1>1. req[w].id \in LocalItem /\ req[w] \in Request
  BY DEF TypeOK, Serves
<1>2. req[w].id \notin LocalSession
  BY <1>1, LocalIdAssumption
<1>3. req[w].version \in 1..Len(Content[req[w].id])
  BY <1>1, <1>2 DEF TypeOK, RequestOK, Local, Versions, Request
<1>4. DOMAIN Content[req[w].id] = 1..Len(Content[req[w].id])
  BY <1>1, ReportAssumption
<1>5. QED
  BY <1>1, <1>3, <1>4 DEF Reads, Range

-----------------------------------------------------------------------------
(* What a write does to a table.                                             *)

LEMMA CreatedSession ==
  ASSUME TypeOK, TableOK, RequestOK, NEW w \in Worker, CreateSession(w)
  PROVE  /\ sessions' = Append(sessions, NewSession(w))
         /\ NewSession(w) \in SessionRow
         /\ Consistent(NewSession(w), req[w].id)
         /\ Holds(NewSession(w), Reported(w))
<1>1. pc[w] # "idle" /\ Serves(w, LocalSession)
  BY DEF CreateSession
<1>2. NewSession(w) \in SessionRow
  BY <1>1, ReportedRow DEF NewSession, SessionRow, Status
<1>3. Consistent(NewSession(w), req[w].id)
  BY <1>1, ReportedRow DEF NewSession, Consistent
<1>4. Holds(NewSession(w), Reported(w))
  BY DEF NewSession, Holds
<1>5. QED
  BY <1>2, <1>3, <1>4 DEF CreateSession

LEMMA UpdatedSession ==
  ASSUME TypeOK, TableOK, RequestOK, FoundOK, NEW w \in Worker, UpdateSession(w)
  PROVE  /\ hit[w] \in SessionsOf(req[w].id)
         /\ sessions[hit[w]] \in SessionRow /\ seen[w] \in SessionRow
         /\ \E new \in SessionRow :
              /\ new = Merged(sessions[hit[w]], seen[w], Reported(w))
              /\ new.local = req[w].id
              /\ sessions' = [sessions EXCEPT ![hit[w]] = new]
<1> DEFINE new == Merged(sessions[hit[w]], seen[w], Reported(w))
<1>1. pc[w] # "idle" /\ Serves(w, LocalSession) /\ hit[w] # 0
  BY DEF UpdateSession
<1>2. req[w].id \in LocalSession
  BY <1>1, ReportedRow
<1>3. hit[w] \in SessionsOf(req[w].id) /\ seen[w] \in SessionRow
  BY <1>1, <1>2 DEF FoundOK
<1>4. sessions[hit[w]] \in SessionRow /\ sessions[hit[w]].local = req[w].id
  BY <1>3 DEF TableOK, SessionsOf
<1>5. new \in SessionRow
  <2> DEFINE row == sessions[hit[w]]
             old == seen[w]
             r == Reported(w)
             logout == Column(row.logout, old.logout, r.logout)
             status == Column(row.status, old.status, Status(r.logout))
             duration == IF r.duration = Null THEN row.duration
                         ELSE Column(row.duration, old.duration, r.duration)
  <2>1. logout \in (UNION {Logouts(s) : s \in LocalSession}) \union {Null}
    BY <1>1, <1>4, ReportedRow DEF Column, SessionRow
  <2>2. status \in {"ACTIVE", "LOGOUT"}
    BY <1>4 DEF Column, Status, SessionRow
  <2>3. duration \in (UNION {Durations(s) : s \in LocalSession}) \union {Null}
    BY <1>1, <1>4, ReportedRow DEF Column, SessionRow
  <2>4. new = [row EXCEPT !.logout = logout, !.status = status, !.duration = duration]
    BY DEF Merged
  <2> HIDE DEF logout, status, duration
  <2>5. QED
    BY <1>4, <2>1, <2>2, <2>3, <2>4 DEF SessionRow
<1>6. new.local = req[w].id
  BY <1>4 DEF Merged, SessionRow
<1>7. sessions' = [sessions EXCEPT ![hit[w]] = new]
  BY DEF UpdateSession
<1>8. QED
  BY <1>3, <1>4, <1>5, <1>6, <1>7

LEMMA CreatedItem ==
  ASSUME TypeOK, TableOK, RequestOK, OwnerOK, NEW w \in Worker, CreateItem(w)
  PROVE  /\ owner[w] \in SessionsOf(Owner[req[w].id])
         /\ \E new \in ItemRow :
              /\ new.local = req[w].id /\ new.session = owner[w]
              /\ items' = Append(items, new)
<1> DEFINE new == [local |-> req[w].id, session |-> owner[w], content |-> Reads(w)]
<1>1. pc[w] # "idle" /\ Serves(w, LocalItem)
  BY DEF CreateItem
<1>2. req[w].id \in LocalItem /\ Reads(w) \in Range(Content[req[w].id])
  BY <1>1, ReadContent
<1>3. owner[w] \in SessionsOf(Owner[req[w].id])
  BY <1>1, <1>2 DEF OwnerOK, CreateItem
<1>4. owner[w] \in Nat \ {0}
  BY <1>3 DEF SessionsOf, TableOK
<1>5. new \in ItemRow
  BY <1>2, <1>4 DEF ItemRow
<1>6. QED
  BY <1>3, <1>5 DEF CreateItem

LEMMA UpdatedItem ==
  ASSUME TypeOK, TableOK, RequestOK, FoundOK, OwnerOK, NEW w \in Worker, UpdateItem(w)
  PROVE  /\ hit[w] \in ItemsOf(req[w].id)
         /\ owner[w] \in SessionsOf(Owner[req[w].id])
         /\ \E new \in ItemRow :
              /\ new.local = req[w].id
              /\ new.session \in {items[hit[w]].session, owner[w]}
              /\ items' = [items EXCEPT ![hit[w]] = new]
<1> DEFINE session == Column(items[hit[w]].session, seen[w].session, owner[w])
           content == Column(items[hit[w]].content, seen[w].content, Reads(w))
           new == [items[hit[w]] EXCEPT !.session = session, !.content = content]
<1>1. pc[w] # "idle" /\ Serves(w, LocalItem) /\ hit[w] # 0
  BY DEF UpdateItem
<1>2. req[w].id \in LocalItem /\ Reads(w) \in Range(Content[req[w].id])
  BY <1>1, ReadContent
<1>3. req[w].id \notin LocalSession
  BY <1>2, LocalIdAssumption
<1>4. hit[w] \in ItemsOf(req[w].id) /\ seen[w] \in ItemRow
  BY <1>1, <1>3 DEF FoundOK
<1>5. items[hit[w]] \in ItemRow /\ items[hit[w]].local = req[w].id
  BY <1>4 DEF TableOK, ItemsOf
<1>6. owner[w] \in SessionsOf(Owner[req[w].id])
  BY <1>1, <1>2 DEF OwnerOK, UpdateItem
<1>7. owner[w] \in Nat \ {0}
  BY <1>6 DEF SessionsOf, TableOK
<1>8. session \in {items[hit[w]].session, owner[w]} /\ session \in Nat \ {0}
  BY <1>5, <1>7 DEF Column, ItemRow
<1>9. content \in UNION {Range(Content[x]) : x \in LocalItem}
  BY <1>2, <1>5 DEF Column, ItemRow
<1> HIDE DEF session, content
<1>10. new \in ItemRow
  BY <1>5, <1>8, <1>9 DEF ItemRow
<1>11. new.local = req[w].id /\ new.session = session
  BY <1>5 DEF ItemRow
<1>12. items' = [items EXCEPT ![hit[w]] = new]
  BY DEF UpdateItem, session, content
<1>13. QED
  BY <1>4, <1>6, <1>8, <1>10, <1>11, <1>12

\* The tables are written by four statements only.
LEMMA SessionsStep ==
  ASSUME [Next]_vars
  PROVE  \/ UNCHANGED sessions
         \/ \E w \in Worker : CreateSession(w) \/ UpdateSession(w)
BY DEF Next, Serve, Progress, Send, GiveUp, LookupSession, MapItem, Unmapped, FindItem,
       CreateItem, UpdateItem, Refused, Answer, Abort, vars, tables

LEMMA ItemsStep ==
  ASSUME [Next]_vars
  PROVE  \/ UNCHANGED items
         \/ \E w \in Worker : CreateItem(w) \/ UpdateItem(w)
BY DEF Next, Serve, Progress, Send, GiveUp, LookupSession, CreateSession, UpdateSession,
       MapItem, Unmapped, FindItem, Refused, Answer, Abort, vars, tables

LEMMA TableStep ==
  TypeOK /\ TableOK /\ RequestOK /\ FoundOK /\ OwnerOK /\ [Next]_vars => TableOK'
<1> SUFFICES ASSUME TypeOK, TableOK, RequestOK, FoundOK, OwnerOK, [Next]_vars
             PROVE  TableOK'
  OBVIOUS
<1>1. sessions' \in Seq(SessionRow)
  <2>1. ASSUME NEW w \in Worker, CreateSession(w) PROVE sessions' \in Seq(SessionRow)
    BY <2>1, CreatedSession, Inserted DEF TableOK
  <2>2. ASSUME NEW w \in Worker, UpdateSession(w) PROVE sessions' \in Seq(SessionRow)
    BY <2>2, UpdatedSession, Updated DEF TableOK, SessionsOf
  <2>3. QED
    BY <2>1, <2>2, SessionsStep DEF TableOK
<1>2. items' \in Seq(ItemRow)
  <2>1. ASSUME NEW w \in Worker, CreateItem(w) PROVE items' \in Seq(ItemRow)
    BY <2>1, CreatedItem, Inserted DEF TableOK
  <2>2. ASSUME NEW w \in Worker, UpdateItem(w) PROVE items' \in Seq(ItemRow)
    BY <2>2, UpdatedItem, Updated DEF TableOK, ItemsOf
  <2>3. QED
    BY <2>1, <2>2, ItemsStep DEF TableOK
<1>3. QED
  BY <1>1, <1>2 DEF TableOK

\* A row keeps its id and its local id for good.
LEMMA RowsStay ==
  ASSUME TypeOK, TableOK, RequestOK, FoundOK, OwnerOK, [Next]_vars
  PROVE  /\ \A i \in DOMAIN sessions :
              i \in DOMAIN sessions' /\ sessions'[i].local = sessions[i].local
         /\ \A i \in DOMAIN items :
              i \in DOMAIN items' /\ items'[i].local = items[i].local
<1>1. \A i \in DOMAIN sessions :
        i \in DOMAIN sessions' /\ sessions'[i].local = sessions[i].local
  <2> SUFFICES ASSUME NEW i \in DOMAIN sessions
               PROVE  i \in DOMAIN sessions' /\ sessions'[i].local = sessions[i].local
    OBVIOUS
  <2>1. ASSUME NEW w \in Worker, CreateSession(w)
        PROVE  i \in DOMAIN sessions' /\ sessions'[i].local = sessions[i].local
    BY <2>1, CreatedSession, Inserted DEF TableOK
  <2>2. ASSUME NEW w \in Worker, UpdateSession(w)
        PROVE  i \in DOMAIN sessions' /\ sessions'[i].local = sessions[i].local
    BY <2>2, UpdatedSession, Updated DEF TableOK, SessionsOf
  <2>3. QED
    BY <2>1, <2>2, SessionsStep
<1>2. \A i \in DOMAIN items : i \in DOMAIN items' /\ items'[i].local = items[i].local
  <2> SUFFICES ASSUME NEW i \in DOMAIN items
               PROVE  i \in DOMAIN items' /\ items'[i].local = items[i].local
    OBVIOUS
  <2>1. ASSUME NEW w \in Worker, CreateItem(w)
        PROVE  i \in DOMAIN items' /\ items'[i].local = items[i].local
    BY <2>1, CreatedItem, Inserted DEF TableOK
  <2>2. ASSUME NEW w \in Worker, UpdateItem(w)
        PROVE  i \in DOMAIN items' /\ items'[i].local = items[i].local
    BY <2>2, UpdatedItem, Updated DEF TableOK, ItemsOf
  <2>3. QED
    BY <2>1, <2>2, ItemsStep
<1>3. QED
  BY <1>1, <1>2

-----------------------------------------------------------------------------
LEMMA InitOK == Init => IInv
<1> SUFFICES ASSUME Init PROVE IInv
  OBVIOUS
<1>1. sessions = <<>> /\ items = <<>> /\ DOMAIN sessions = {} /\ DOMAIN items = {}
  BY DEF Init
<1>2. TableOK /\ Range(sessions) = {} /\ Range(items) = {}
  BY <1>1 DEF TableOK, Range
<1>3. TypeOK
  BY <1>2, BoundAssumption DEF Init, TypeOK
<1>4. \A x \in Local : Len(Versions(x)) \in Nat
  BY ReportAssumption DEF Local, Versions
<1>5. RequestOK /\ FoundOK /\ OwnerOK /\ AloneOK
  BY <1>4 DEF Init, RequestOK, FoundOK, OwnerOK, AloneOK
<1>6. ItemInItsSession /\ OneRowPerLocalId
  BY <1>1 DEF ItemInItsSession, OneRowPerLocalId
<1>7. ColumnsOK
  BY <1>1 DEF Init, ColumnsOK
<1>8. AckedPersists
  BY DEF Init, AckedPersists, Local
<1>9. QED
  BY <1>2, <1>3, <1>5, <1>6, <1>7, <1>8 DEF IInv

\* What a lookup leaves in the thread's locals.
LEMMA LoadedType ==
  ASSUME TypeOK, NEW w \in Worker, NEW S, S \subseteq SessionRow \union ItemRow,
         NEW table \in Seq(S), NEW found \in SUBSET DOMAIN table, Load(w, found, table)
  PROVE  /\ hit' \in [Worker -> Nat]
         /\ seen' \in [Worker -> SessionRow \union ItemRow \union {Null}]
<1>1. \A i \in DOMAIN table : i \in Nat /\ table[i] \in SessionRow \union ItemRow
  OBVIOUS
<1>2. QED
  BY <1>1 DEF Load, TypeOK

LEMMA ReleaseType ==
  ASSUME TypeOK, NEW w \in Worker, Release(w)
  PROVE  /\ pc' \in [Worker -> {"idle", "lookup", "find", "write", "answer"}]
         /\ req' \in [Worker -> Request \union {Null}]
         /\ owner' \in [Worker -> Nat]
         /\ hit' \in [Worker -> Nat]
         /\ seen' \in [Worker -> SessionRow \union ItemRow \union {Null}]
         /\ waiting' \in Worker \union {Null}
BY DEF TypeOK, Release

LEMMA TypeStep ==
  TypeOK /\ TableOK /\ RequestOK /\ FoundOK /\ OwnerOK /\ AloneOK /\ [Next]_vars => TypeOK'
<1> SUFFICES ASSUME TypeOK, TableOK, RequestOK, FoundOK, OwnerOK, AloneOK, [Next]_vars
             PROVE  TypeOK'
  OBVIOUS
<1>1. Range(sessions)' \subseteq SessionRow /\ Range(items)' \subseteq ItemRow
  <2>1. sessions' \in Seq(SessionRow) /\ items' \in Seq(ItemRow)
    BY TableStep DEF TableOK
  <2>2. QED
    BY <2>1, RangeOfSeq
<1> DEFINE WorkOK ==
             /\ pc \in [Worker -> {"idle", "lookup", "find", "write", "answer"}]
             /\ req \in [Worker -> Request \union {Null}]
             /\ owner \in [Worker -> Nat]
             /\ hit \in [Worker -> Nat]
             /\ seen \in [Worker -> SessionRow \union ItemRow \union {Null}]
           AgentOK ==
             /\ version \in [Local -> Nat]
             /\ acked \in [Local -> Nat]
             /\ waiting \in Worker \union {Null}
             /\ abandoned \subseteq Local
             /\ faults \in 0..MaxFault
<1>2. WorkOK /\ AgentOK
  BY DEF TypeOK
<1>3. WorkOK' /\ AgentOK'
  <2>1. ASSUME NEW x \in Local, Progress(x) PROVE WorkOK' /\ AgentOK'
    BY <2>1, <1>2 DEF Progress, work
  <2>2. ASSUME NEW w \in Worker, NEW x \in Local, Send(w, x) PROVE WorkOK' /\ AgentOK'
    <3>1. [id |-> x, version |-> version[x]] \in Request
      BY <2>2, <1>2 DEF Send, Request
    <3>2. QED
      BY <2>2, <3>1, <1>2 DEF Send
  <2>3. ASSUME GiveUp PROVE WorkOK' /\ AgentOK'
    <3>1. waiting \in Worker /\ req[waiting].id \in Local
      BY <2>3, <1>2 DEF GiveUp, AloneOK, RequestOK, Request
    <3>2. QED
      BY <2>3, <3>1, <1>2, BoundAssumption DEF GiveUp, work
  <2>4. ASSUME NEW w \in Worker, LookupSession(w) PROVE WorkOK' /\ AgentOK'
    <3>1. hit' \in [Worker -> Nat] /\ seen' \in [Worker -> SessionRow \union ItemRow \union {Null}]
      <4>1. SessionsOf(req[w].id) \in SUBSET DOMAIN sessions
        BY DEF SessionsOf
      <4>2. QED
        BY <2>4, <4>1, LoadedType DEF LookupSession, TableOK
    <3>2. QED
      BY <2>4, <3>1, <1>2 DEF LookupSession, agent
  <2>5. ASSUME NEW w \in Worker, FindItem(w) PROVE WorkOK' /\ AgentOK'
    <3>1. hit' \in [Worker -> Nat] /\ seen' \in [Worker -> SessionRow \union ItemRow \union {Null}]
      <4>1. ItemsOf(req[w].id) \in SUBSET DOMAIN items
        BY DEF ItemsOf
      <4>2. QED
        BY <2>5, <4>1, LoadedType DEF FindItem, TableOK
    <3>2. QED
      BY <2>5, <3>1, <1>2 DEF FindItem, agent
  <2>6. ASSUME NEW w \in Worker, CreateSession(w) \/ UpdateSession(w) \/ CreateItem(w) \/ UpdateItem(w)
        PROVE  WorkOK' /\ AgentOK'
    BY <2>6, <1>2 DEF CreateSession, UpdateSession, CreateItem, UpdateItem, agent
  <2>7. ASSUME NEW w \in Worker, MapItem(w) PROVE WorkOK' /\ AgentOK'
    <3>1. Mapped(w) \subseteq Nat
      BY DEF Mapped, SessionsOf, TableOK
    <3>2. QED
      BY <2>7, <3>1, <1>2 DEF MapItem, agent
  <2>8. ASSUME NEW w \in Worker, Unmapped(w) \/ Refused(w) \/ Abort(w) PROVE WorkOK' /\ AgentOK'
    BY <2>8, <1>2, ReleaseType, BoundAssumption DEF Unmapped, Refused, Abort
  <2>9. ASSUME NEW w \in Worker, Answer(w) PROVE WorkOK' /\ AgentOK'
    <3>1. req[w] \in Request
      BY <2>9, <1>2 DEF Answer, RequestOK
    <3>2. acked' \in [Local -> Nat]
      BY <2>9, <3>1, <1>2 DEF Answer, Request
    <3>3. QED
      BY <2>9, <3>2, <1>2, ReleaseType DEF Answer
  <2>10. CASE UNCHANGED vars
    BY <2>10, <1>2 DEF vars, work, agent
  <2>11. QED
    BY <2>1, <2>2, <2>3, <2>4, <2>5, <2>6, <2>7, <2>8, <2>9, <2>10 DEF Next, Serve
<1>4. QED
  BY <1>1, <1>3 DEF TypeOK

-----------------------------------------------------------------------------
\* A thread takes part in one step at a time: the others keep their locals.
LEMMA RequestStep ==
  TypeOK /\ RequestOK /\ AloneOK /\ [Next]_vars => RequestOK'
<1> SUFFICES ASSUME TypeOK, RequestOK, AloneOK, [Next]_vars PROVE RequestOK'
  OBVIOUS
<1> USE DEF TypeOK, RequestOK
<1>1. \A x \in Local : Len(Versions(x)) \in Nat
  <2>1. \A x \in LocalSession : Len(Report[x]) \in Nat
    BY ReportAssumption
  <2>2. \A x \in LocalItem : Len(Content[x]) \in Nat
    BY ReportAssumption
  <2>3. QED
    BY <2>1, <2>2 DEF Versions, Local
<1>2. ASSUME NEW x \in Local, Progress(x) PROVE RequestOK'
  <2>1. \A y \in Local : version[y] <= version'[y] /\ version'[y] <= Len(Versions(y))
    BY <1>1, <1>2 DEF Progress
  <2>2. \A r \in Request : r.id \in Local /\ r.version \in Nat
    BY DEF Request
  <2>3. \A y \in Local : acked[y] \in Nat /\ version[y] \in Nat /\ version'[y] \in Nat
    BY <1>2 DEF Progress
  <2>4. \A y \in Local : acked[y] <= version'[y]
    BY <2>1, <2>3
  <2>5. \A w \in Worker : pc[w] # "idle" => req[w].version <= version'[req[w].id]
    BY <2>1, <2>2, <2>3
  <2>6. QED
    BY <1>2, <2>1, <2>4, <2>5 DEF Progress, work
<1>3. ASSUME NEW w \in Worker, NEW x \in Local, Send(w, x) PROVE RequestOK'
  <2>1. [id |-> x, version |-> version[x]] \in Request
    BY <1>3 DEF Send, Request
  <2>2. QED
    BY <1>1, <1>3, <2>1 DEF Send
<1>4. ASSUME GiveUp PROVE RequestOK'
  BY <1>4 DEF GiveUp, work
<1>5. ASSUME NEW w \in Worker, Release(w), UNCHANGED <<version, acked>> PROVE RequestOK'
  BY <1>5 DEF Release
<1>6. ASSUME NEW w \in Worker,
             LookupSession(w) \/ FindItem(w) \/ CreateSession(w) \/ UpdateSession(w)
               \/ CreateItem(w) \/ UpdateItem(w)
      PROVE  RequestOK'
  BY <1>6 DEF LookupSession, FindItem, CreateSession, UpdateSession, CreateItem, UpdateItem, agent
<1>7. ASSUME NEW w \in Worker, MapItem(w) PROVE RequestOK'
  BY <1>7 DEF MapItem, Serves, agent
<1>8. ASSUME NEW w \in Worker, Answer(w) PROVE RequestOK'
  <2>1. req[w] \in Request /\ req[w].version <= version[req[w].id]
    BY <1>8 DEF Answer
  <2>2. \A x \in Local : acked'[x] <= version[x]
    BY <1>8, <2>1 DEF Answer
  <2>3. QED
    BY <1>8, <2>2 DEF Answer, Release
<1>9. CASE UNCHANGED vars
  BY <1>9 DEF vars, work, agent
<1>10. QED
  BY <1>2, <1>3, <1>4, <1>5, <1>6, <1>7, <1>8, <1>9 DEF Next, Serve, Unmapped, Refused, Abort

LEMMA FoundStep ==
  TypeOK /\ TableOK /\ RequestOK /\ FoundOK /\ OwnerOK /\ [Next]_vars => FoundOK'
<1> SUFFICES ASSUME TypeOK, TableOK, RequestOK, FoundOK, OwnerOK, [Next]_vars PROVE FoundOK'
  OBVIOUS
<1>1. \A x : SessionsOf(x) \subseteq SessionsOf(x)' /\ ItemsOf(x) \subseteq ItemsOf(x)'
  BY RowsStay DEF SessionsOf, ItemsOf
<1> USE DEF TypeOK, FoundOK
<1>2. ASSUME UNCHANGED <<hit, seen, req>>,
             \A w \in Worker : pc[w] \in {"write", "answer"} => pc'[w] \in {"write", "answer"}
      PROVE  FoundOK'
  BY <1>1, <1>2
<1>3. ASSUME NEW w \in Worker, NEW x \in Local, Send(w, x) PROVE FoundOK'
  BY <1>1, <1>3 DEF Send
<1>4. ASSUME NEW w \in Worker, Release(w) PROVE FoundOK'
  BY <1>1, <1>4 DEF Release
<1>5. ASSUME NEW w \in Worker, LookupSession(w) PROVE FoundOK'
  <2>1. pc'[w] = "write" /\ req' = req /\ req[w].id \in LocalSession
    BY <1>5 DEF LookupSession, Serves
  <2>2. CASE UNCHANGED <<hit, seen>>
    BY <1>1, <1>5, <2>2 DEF LookupSession
  <2>3. ASSUME NEW i \in SessionsOf(req[w].id),
               hit' = [hit EXCEPT ![w] = i], seen' = [seen EXCEPT ![w] = sessions[i]]
        PROVE  FoundOK'
    <3>1. sessions[i] \in SessionRow
      BY <2>3 DEF SessionsOf, TableOK
    <3>2. QED
      BY <1>1, <1>5, <2>1, <2>3, <3>1 DEF LookupSession
  <2>4. QED
    BY <1>5, <2>2, <2>3 DEF LookupSession, Load
<1>6. ASSUME NEW w \in Worker, FindItem(w) PROVE FoundOK'
  <2>1. pc'[w] = "write" /\ req' = req /\ req[w].id \in LocalItem /\ req[w].id \notin LocalSession
    BY <1>6, LocalIdAssumption DEF FindItem, RequestOK
  <2>2. CASE UNCHANGED <<hit, seen>>
    BY <1>1, <1>6, <2>2 DEF FindItem
  <2>3. ASSUME NEW i \in ItemsOf(req[w].id),
               hit' = [hit EXCEPT ![w] = i], seen' = [seen EXCEPT ![w] = items[i]]
        PROVE  FoundOK'
    <3>1. items[i] \in ItemRow
      BY <2>3 DEF ItemsOf, TableOK
    <3>2. QED
      BY <1>1, <1>6, <2>1, <2>3, <3>1 DEF FindItem
  <2>4. QED
    BY <1>6, <2>2, <2>3 DEF FindItem, Load
<1>7. ASSUME NEW w \in Worker,
             CreateSession(w) \/ UpdateSession(w) \/ CreateItem(w) \/ UpdateItem(w) \/ MapItem(w)
      PROVE  FoundOK'
  BY <1>2, <1>7 DEF CreateSession, UpdateSession, CreateItem, UpdateItem, MapItem
<1>8. ASSUME UNCHANGED work PROVE FoundOK'
  BY <1>2, <1>8 DEF work
<1>9. QED
  BY <1>3, <1>4, <1>5, <1>6, <1>7, <1>8
     DEF Next, Serve, Progress, GiveUp, Unmapped, Refused, Answer, Abort, vars

LEMMA OwnerStep ==
  TypeOK /\ TableOK /\ RequestOK /\ FoundOK /\ OwnerOK /\ [Next]_vars => OwnerOK'
<1> SUFFICES ASSUME TypeOK, TableOK, RequestOK, FoundOK, OwnerOK, [Next]_vars PROVE OwnerOK'
  OBVIOUS
<1>1. \A x : SessionsOf(x) \subseteq SessionsOf(x)'
  BY RowsStay DEF SessionsOf
<1> USE DEF TypeOK, OwnerOK
<1>2. ASSUME UNCHANGED <<owner, req>>,
             \A w \in Worker :
               pc'[w] \in {"find", "write"} /\ req[w].id \in LocalItem => pc[w] \in {"find", "write"}
      PROVE  OwnerOK'
  BY <1>1, <1>2
<1>3. ASSUME NEW w \in Worker, NEW x \in Local, Send(w, x) PROVE OwnerOK'
  BY <1>1, <1>3 DEF Send
<1>4. ASSUME NEW w \in Worker, Release(w) PROVE OwnerOK'
  BY <1>1, <1>4 DEF Release
<1>5. ASSUME NEW w \in Worker, LookupSession(w) PROVE OwnerOK'
  <2>1. req[w].id \notin LocalItem
    BY <1>5, LocalIdAssumption DEF LookupSession, Serves
  <2>2. QED
    BY <1>2, <1>5, <2>1 DEF LookupSession
<1>6. ASSUME NEW w \in Worker, MapItem(w) PROVE OwnerOK'
  BY <1>1, <1>6 DEF MapItem, Mapped
<1>7. ASSUME NEW w \in Worker,
             FindItem(w) \/ CreateSession(w) \/ UpdateSession(w) \/ CreateItem(w) \/ UpdateItem(w)
      PROVE  OwnerOK'
  BY <1>2, <1>7 DEF FindItem, CreateSession, UpdateSession, CreateItem, UpdateItem
<1>8. ASSUME UNCHANGED work PROVE OwnerOK'
  BY <1>2, <1>8 DEF work
<1>9. QED
  BY <1>3, <1>4, <1>5, <1>6, <1>7, <1>8
     DEF Next, Serve, Progress, GiveUp, Unmapped, Refused, Answer, Abort, vars

-----------------------------------------------------------------------------
\* The tables only grow under the guard of the unique constraint.
LEMMA OneRowStep ==
  TypeOK /\ TableOK /\ RequestOK /\ FoundOK /\ OwnerOK /\ OneRowPerLocalId /\ [Next]_vars
    => OneRowPerLocalId'
<1> SUFFICES ASSUME TypeOK, TableOK, RequestOK, FoundOK, OwnerOK, OneRowPerLocalId, [Next]_vars
             PROVE  OneRowPerLocalId'
  OBVIOUS
<1>1. \A i, j \in DOMAIN sessions' : sessions'[i].local = sessions'[j].local => i = j
  <2>1. ASSUME DOMAIN sessions' = DOMAIN sessions
        PROVE  \A i, j \in DOMAIN sessions' : sessions'[i].local = sessions'[j].local => i = j
    BY <2>1, RowsStay DEF OneRowPerLocalId
  <2>2. ASSUME NEW w \in Worker, CreateSession(w)
        PROVE  \A i, j \in DOMAIN sessions' : sessions'[i].local = sessions'[j].local => i = j
    <3> DEFINE n == Len(sessions) + 1
    <3>1. /\ DOMAIN sessions' = DOMAIN sessions \union {n}
          /\ sessions'[n] = NewSession(w)
      <4>1. sessions' = Append(sessions, NewSession(w)) /\ NewSession(w) \in SessionRow
        BY <2>2, CreatedSession
      <4>2. sessions \in Seq(SessionRow)
        BY DEF TableOK
      <4>3. QED
        BY <4>1, <4>2, Inserted
    <3>2. NewSession(w).local = req[w].id
      BY DEF NewSession
    <3>3. \A i \in DOMAIN sessions : sessions'[i].local # req[w].id
      BY <2>2, RowsStay DEF CreateSession, SessionsOf
    <3> HIDE DEF n
    <3>4. QED
      BY <3>1, <3>2, <3>3, RowsStay DEF OneRowPerLocalId
  <2>3. ASSUME NEW w \in Worker, UpdateSession(w) PROVE DOMAIN sessions' = DOMAIN sessions
    BY <2>3 DEF UpdateSession
  <2>4. QED
    BY <2>1, <2>2, <2>3, SessionsStep
<1>2. \A i, j \in DOMAIN items' : items'[i].local = items'[j].local => i = j
  <2>1. ASSUME DOMAIN items' = DOMAIN items
        PROVE  \A i, j \in DOMAIN items' : items'[i].local = items'[j].local => i = j
    BY <2>1, RowsStay DEF OneRowPerLocalId
  <2>2. ASSUME NEW w \in Worker, CreateItem(w)
        PROVE  \A i, j \in DOMAIN items' : items'[i].local = items'[j].local => i = j
    <3> DEFINE n == Len(items) + 1
    <3>1. /\ DOMAIN items' = DOMAIN items \union {n}
          /\ items'[n].local = req[w].id
      <4>1. PICK new \in ItemRow : new.local = req[w].id /\ items' = Append(items, new)
        BY <2>2, CreatedItem
      <4>2. items \in Seq(ItemRow)
        BY DEF TableOK
      <4>3. QED
        BY <4>1, <4>2, Inserted
    <3>2. \A i \in DOMAIN items : items'[i].local # req[w].id
      BY <2>2, RowsStay DEF CreateItem, ItemsOf
    <3> HIDE DEF n
    <3>3. QED
      BY <3>1, <3>2, RowsStay DEF OneRowPerLocalId
  <2>3. ASSUME NEW w \in Worker, UpdateItem(w) PROVE DOMAIN items' = DOMAIN items
    BY <2>3 DEF UpdateItem
  <2>4. QED
    BY <2>1, <2>2, <2>3, ItemsStep
<1>3. QED
  BY <1>1, <1>2 DEF OneRowPerLocalId

\* An item is stored under the session it was mapped to, and that one stays.
LEMMA ItemStep ==
  TypeOK /\ TableOK /\ RequestOK /\ FoundOK /\ OwnerOK /\ ItemInItsSession /\ [Next]_vars
    => ItemInItsSession'
<1> SUFFICES ASSUME TypeOK, TableOK, RequestOK, FoundOK, OwnerOK, ItemInItsSession, [Next]_vars,
                    NEW i \in DOMAIN items'
             PROVE  /\ items'[i].session \in DOMAIN sessions'
                    /\ sessions'[items'[i].session].local = Owner[items'[i].local]
  BY DEF ItemInItsSession
<1> DEFINE Placed == items'[i].session \in SessionsOf(Owner[items'[i].local])
<1>1. ASSUME i \in DOMAIN items, items'[i] = items[i] PROVE Placed
  BY <1>1 DEF ItemInItsSession, SessionsOf
<1>2. ASSUME NEW w \in Worker, CreateItem(w) PROVE Placed
  <2>1. PICK new \in ItemRow : /\ new.local = req[w].id /\ new.session = owner[w]
                               /\ items' = Append(items, new)
    BY <1>2, CreatedItem
  <2>2. CASE i \in DOMAIN items
    BY <1>1, <2>1, <2>2, Inserted DEF TableOK
  <2>3. CASE i = Len(items) + 1
    BY <1>2, <2>1, <2>3, CreatedItem, Inserted DEF TableOK
  <2>4. QED
    BY <2>1, <2>2, <2>3, Inserted DEF TableOK
<1>3. ASSUME NEW w \in Worker, UpdateItem(w) PROVE Placed
  <2>1. PICK new \in ItemRow : /\ new.local = req[w].id
                               /\ new.session \in {items[hit[w]].session, owner[w]}
                               /\ items' = [items EXCEPT ![hit[w]] = new]
    BY <1>3, UpdatedItem
  <2>2. /\ hit[w] \in DOMAIN items /\ items[hit[w]].local = req[w].id
        /\ owner[w] \in SessionsOf(Owner[req[w].id])
    BY <1>3, UpdatedItem DEF ItemsOf
  <2>3. i \in DOMAIN items
    BY <2>1, <2>2, Updated DEF TableOK
  <2>4. CASE i # hit[w]
    BY <1>1, <2>1, <2>2, <2>3, <2>4, Updated DEF TableOK
  <2>5. CASE i = hit[w]
    <3>1. items'[i] = new
      BY <2>1, <2>2, <2>5, Updated DEF TableOK
    <3>2. items[i].session \in SessionsOf(Owner[req[w].id])
      BY <2>2, <2>5 DEF ItemInItsSession, SessionsOf
    <3>3. QED
      BY <2>1, <2>2, <2>5, <3>1, <3>2
  <2>6. QED
    BY <2>4, <2>5
<1>4. Placed
  BY <1>1, <1>2, <1>3, ItemsStep
<1>5. QED
  BY <1>4, RowsStay DEF SessionsOf

-----------------------------------------------------------------------------
\* A session with at most one logout time has no two.
LEMMA OneLogout ==
  ASSUME NEW s \in LocalSession, Cardinality(Logouts(s)) <= 1,
         NEW a \in Logouts(s), NEW b \in Logouts(s)
  PROVE  a = b
<1> DEFINE D == DOMAIN Report[s]
           T == {Report[s][i].logout : i \in D}
<1>1. IsFiniteSet(D)
  <2>1. D = 1..Len(Report[s]) /\ Len(Report[s]) \in Nat
    BY ReportAssumption
  <2>2. QED
    BY <2>1, FS_Interval
<1>2. IsFiniteSet(T)
  <2>1. [i \in D |-> Report[s][i].logout] \in Surjection(D, T)
    BY DEF Surjection
  <2>2. QED
    BY <1>1, <2>1, FS_Surjection
<1>3. IsFiniteSet(Logouts(s))
  BY <1>2, FS_RemoveElement DEF Logouts
<1>4. {a, b} \in SUBSET Logouts(s)
  OBVIOUS
<1>5. IsFiniteSet({a, b}) /\ Cardinality({a, b}) <= Cardinality(Logouts(s))
  BY <1>3, <1>4, FS_Subset
<1>6. ASSUME a # b PROVE Cardinality({a, b}) = 2
  <2>1. IsFiniteSet({a}) /\ Cardinality({a}) = 1 /\ b \notin {a} /\ {a} \union {b} = {a, b}
    BY <1>6, FS_Singleton
  <2>2. QED
    BY <2>1, FS_AddElement
<1>7. Cardinality(Logouts(s)) \in Nat
  BY <1>3, FS_CardinalityType
<1>8. QED
  BY <1>5, <1>6, <1>7

\* The UPDATE's two columns, each written only if it differs from the loaded
\* one, agree: with one logout time either both differ or neither does.
LEMMA MergedConsistent ==
  ASSUME TypeOK, TableOK, RequestOK, FoundOK, ColumnsOK, NEW w \in Worker, UpdateSession(w)
  PROVE  Consistent(Merged(sessions[hit[w]], seen[w], Reported(w)), req[w].id)
<1> DEFINE s == req[w].id
           row == sessions[hit[w]]
           old == seen[w]
           r == Reported(w)
           new == Merged(row, old, r)
<1>1. pc[w] # "idle" /\ Serves(w, LocalSession) /\ hit[w] # 0
  BY DEF UpdateSession
<1>2. s \in LocalSession /\ r.logout \in Logouts(s) \union {Null}
  BY <1>1, ReportedRow
<1>3. row \in SessionRow /\ row.local = s /\ new.local = s
  BY UpdatedSession DEF SessionsOf
<1>4. Consistent(row, s) /\ Consistent(old, s)
  BY <1>1, <1>2, <1>3, UpdatedSession DEF ColumnsOK, SessionsOf
<1>5. /\ new.logout = Column(row.logout, old.logout, r.logout)
      /\ new.status = Column(row.status, Status(old.logout), Status(r.logout))
           \/ old.status # Status(old.logout)
  BY <1>3 DEF Merged, SessionRow
<1>6. new.logout \in Logouts(s) \union {Null}
  BY <1>2, <1>4, <1>5 DEF Consistent, Column
<1>7. ASSUME Cardinality(Logouts(s)) <= 1 PROVE new.status = Status(new.logout)
  <2>1. \A a, b \in Logouts(s) : a = b
    BY <1>2, <1>7, OneLogout
  <2>2. old.logout # r.logout => Status(old.logout) # Status(r.logout)
    BY <1>2, <1>4, <2>1 DEF Consistent, Status
  <2>3. row.status = Status(row.logout) /\ old.status = Status(old.logout)
    BY <1>4, <1>7 DEF Consistent
  <2>4. QED
    BY <1>5, <2>2, <2>3 DEF Column
<1>8. QED
  BY <1>3, <1>6, <1>7 DEF Consistent

LEMMA ColumnsStep ==
  TypeOK /\ TableOK /\ RequestOK /\ FoundOK /\ OwnerOK /\ ColumnsOK /\ [Next]_vars => ColumnsOK'
<1> SUFFICES ASSUME TypeOK, TableOK, RequestOK, FoundOK, OwnerOK, ColumnsOK, [Next]_vars
             PROVE  ColumnsOK'
  OBVIOUS
<1>1. ASSUME NEW i \in DOMAIN sessions' PROVE Consistent(sessions'[i], sessions'[i].local)
  <2>1. CASE UNCHANGED sessions
    BY <1>1, <2>1 DEF ColumnsOK
  <2>2. ASSUME NEW w \in Worker, CreateSession(w)
        PROVE  Consistent(sessions'[i], sessions'[i].local)
    <3>1. /\ sessions' = Append(sessions, NewSession(w)) /\ NewSession(w) \in SessionRow
          /\ Consistent(NewSession(w), req[w].id)
      BY <2>2, CreatedSession
    <3>2. sessions \in Seq(SessionRow)
      BY DEF TableOK
    <3>3. CASE i \in DOMAIN sessions
      BY <3>1, <3>2, <3>3, Inserted DEF ColumnsOK
    <3>4. CASE i = Len(sessions) + 1
      BY <3>1, <3>2, <3>4, Inserted DEF Consistent
    <3>5. QED
      BY <1>1, <3>1, <3>2, <3>3, <3>4, Inserted
  <2>3. ASSUME NEW w \in Worker, UpdateSession(w)
        PROVE  Consistent(sessions'[i], sessions'[i].local)
    <3>1. PICK new \in SessionRow : /\ new = Merged(sessions[hit[w]], seen[w], Reported(w))
                                    /\ new.local = req[w].id
                                    /\ sessions' = [sessions EXCEPT ![hit[w]] = new]
      BY <2>3, UpdatedSession
    <3>2. hit[w] \in DOMAIN sessions /\ sessions \in Seq(SessionRow)
      BY <2>3, UpdatedSession DEF SessionsOf, TableOK
    <3>3. Consistent(new, new.local)
      BY <2>3, <3>1, MergedConsistent
    <3>4. CASE i = hit[w]
      BY <3>1, <3>2, <3>3, <3>4, Updated
    <3>5. CASE i \in DOMAIN sessions \ {hit[w]}
      BY <3>1, <3>2, <3>5, Updated DEF ColumnsOK
    <3>6. QED
      BY <1>1, <3>1, <3>2, <3>4, <3>5, Updated
  <2>4. QED
    BY <2>1, <2>2, <2>3, SessionsStep
<1> DEFINE SeenOK == \A w \in Worker :
             hit[w] # 0 /\ req[w].id \in LocalSession => Consistent(seen[w], req[w].id)
<1>2. SeenOK
  BY DEF ColumnsOK
<1> USE DEF TypeOK
<1>3. SeenOK'
  <2>1. ASSUME UNCHANGED <<hit, seen, req>> PROVE SeenOK'
    BY <1>2, <2>1
  <2>2. ASSUME NEW w \in Worker, NEW x \in Local, Send(w, x) PROVE SeenOK'
    BY <1>2, <2>2 DEF Send, FoundOK
  <2>3. ASSUME NEW w \in Worker, Release(w) PROVE SeenOK'
    BY <1>2, <2>3 DEF Release
  <2>4. ASSUME NEW w \in Worker, LookupSession(w) PROVE SeenOK'
    <3>1. CASE UNCHANGED <<hit, seen>>
      BY <2>1, <2>4, <3>1 DEF LookupSession
    <3>2. ASSUME NEW i \in SessionsOf(req[w].id),
                 hit' = [hit EXCEPT ![w] = i], seen' = [seen EXCEPT ![w] = sessions[i]]
          PROVE  SeenOK'
      <4>1. Consistent(sessions[i], req[w].id)
        BY <3>2 DEF ColumnsOK, SessionsOf
      <4>2. QED
        BY <1>2, <2>4, <3>2, <4>1 DEF LookupSession
    <3>3. QED
      BY <2>4, <3>1, <3>2 DEF LookupSession, Load
  <2>5. ASSUME NEW w \in Worker, FindItem(w) PROVE SeenOK'
    <3>1. req[w].id \notin LocalSession
      BY <2>5, LocalIdAssumption DEF FindItem, RequestOK
    <3>2. QED
      BY <1>2, <2>5, <3>1 DEF FindItem, Load
  <2>6. ASSUME NEW w \in Worker,
               CreateSession(w) \/ UpdateSession(w) \/ CreateItem(w) \/ UpdateItem(w) \/ MapItem(w)
        PROVE  SeenOK'
    BY <2>1, <2>6 DEF CreateSession, UpdateSession, CreateItem, UpdateItem, MapItem
  <2>7. ASSUME UNCHANGED work PROVE SeenOK'
    BY <2>1, <2>7 DEF work
  <2>8. QED
    BY <2>2, <2>3, <2>4, <2>5, <2>6, <2>7
       DEF Next, Serve, Progress, GiveUp, Unmapped, Refused, Answer, Abort, vars
<1>4. QED
  BY <1>1, <1>3 DEF ColumnsOK

\* An UPDATE leaves a duration as it is, or writes one that was reported.
LEMMA DurationStep ==
  ASSUME TypeOK, TableOK, RequestOK, FoundOK, [Next]_vars,
         NEW i \in DOMAIN sessions, sessions[i].duration # Null
  PROVE  sessions'[i].duration # Null
<1>1. ASSUME NEW w \in Worker, CreateSession(w) PROVE sessions'[i] = sessions[i]
  BY <1>1, CreatedSession, Inserted DEF TableOK
<1>2. ASSUME NEW w \in Worker, UpdateSession(w) PROVE sessions'[i].duration # Null
  <2>1. PICK new \in SessionRow : /\ new = Merged(sessions[hit[w]], seen[w], Reported(w))
                                  /\ sessions' = [sessions EXCEPT ![hit[w]] = new]
    BY <1>2, UpdatedSession
  <2>2. hit[w] \in DOMAIN sessions /\ sessions[hit[w]] \in SessionRow
    BY <1>2, UpdatedSession DEF SessionsOf
  <2>3. sessions[hit[w]].duration # Null => new.duration # Null
    BY <2>1, <2>2 DEF Merged, Column, SessionRow
  <2>4. QED
    BY <2>1, <2>2, <2>3, Updated DEF TableOK
<1>3. QED
  BY <1>1, <1>2, SessionsStep

-----------------------------------------------------------------------------
\* Another row of the table is no concern of a request: only the threads that
\* serve a session write its row.
LEMMA RowUntouched ==
  ASSUME TypeOK, TableOK, RequestOK, FoundOK, [Next]_vars, NEW i \in DOMAIN sessions,
         \A w \in Worker : UpdateSession(w) => req[w].id # sessions[i].local
  PROVE  sessions'[i] = sessions[i]
<1>1. ASSUME NEW w \in Worker, CreateSession(w) PROVE sessions'[i] = sessions[i]
  BY <1>1, CreatedSession, Inserted DEF TableOK
<1>2. ASSUME NEW w \in Worker, UpdateSession(w) PROVE sessions'[i] = sessions[i]
  <2>1. PICK new \in SessionRow : sessions' = [sessions EXCEPT ![hit[w]] = new]
    BY <1>2, UpdatedSession
  <2>2. hit[w] \in DOMAIN sessions /\ sessions[hit[w]].local = req[w].id
    BY <1>2, UpdatedSession DEF SessionsOf
  <2>3. i # hit[w]
    BY <1>2, <2>2
  <2>4. QED
    BY <2>1, <2>2, <2>3, Updated DEF TableOK
<1>3. QED
  BY <1>1, <1>2, SessionsStep

\* After its write, the row of a request that is alone holds what it reports.
LEMMA CreatedHolds ==
  ASSUME TypeOK, TableOK, RequestOK, NEW w \in Worker, CreateSession(w)
  PROVE  \E i \in SessionsOf(req[w].id)' : Holds(sessions'[i], Reported(w))
<1>1. /\ sessions' = Append(sessions, NewSession(w)) /\ NewSession(w) \in SessionRow
      /\ Holds(NewSession(w), Reported(w))
  BY CreatedSession
<1>2. sessions \in Seq(SessionRow) /\ req' = req /\ NewSession(w).local = req[w].id
  BY DEF TableOK, CreateSession, NewSession
<1>3. /\ Len(sessions) + 1 \in DOMAIN sessions'
      /\ sessions'[Len(sessions) + 1] = NewSession(w)
  BY <1>1, <1>2, Inserted
<1>4. QED
  BY <1>1, <1>2, <1>3 DEF SessionsOf

LEMMA UpdatedHolds ==
  ASSUME TypeOK, TableOK, RequestOK, FoundOK, NEW w \in Worker, UpdateSession(w),
         seen[w] = sessions[hit[w]]
  PROVE  \E i \in SessionsOf(req[w].id)' : Holds(sessions'[i], Reported(w))
<1>1. PICK new \in SessionRow : /\ new = Merged(sessions[hit[w]], seen[w], Reported(w))
                                /\ new.local = req[w].id
                                /\ sessions' = [sessions EXCEPT ![hit[w]] = new]
  BY UpdatedSession
<1>2. hit[w] \in DOMAIN sessions /\ sessions[hit[w]] \in SessionRow
  BY UpdatedSession DEF SessionsOf
<1>3. Holds(new, Reported(w))
  BY <1>1, <1>2 DEF Merged, Column, Holds, SessionRow
<1>4. sessions \in Seq(SessionRow) /\ req' = req
  BY DEF TableOK, UpdateSession
<1>5. hit[w] \in DOMAIN sessions' /\ sessions'[hit[w]] = new
  BY <1>1, <1>2, <1>4, Updated
<1>6. QED
  BY <1>1, <1>3, <1>4, <1>5 DEF SessionsOf

\* How a thread comes to stand before its write, and behind it.
LEMMA ReachesWrite ==
  ASSUME TypeOK, [Next]_vars, NEW w \in Worker, pc'[w] = "write"
  PROVE  \/ LookupSession(w) \/ FindItem(w)
         \/ /\ pc[w] = "write" /\ req'[w] = req[w]
            /\ hit'[w] = hit[w] /\ seen'[w] = seen[w]
<1> USE DEF TypeOK
<1>1. ASSUME UNCHANGED work
      PROVE  pc[w] = "write" /\ req'[w] = req[w] /\ hit'[w] = hit[w] /\ seen'[w] = seen[w]
  BY <1>1 DEF work
<1>2. ASSUME NEW v \in Worker, v # w, Serve(v) \/ Abort(v) \/ \E x \in Local : Send(v, x)
      PROVE  pc[w] = "write" /\ req'[w] = req[w] /\ hit'[w] = hit[w] /\ seen'[w] = seen[w]
  BY <1>2 DEF Serve, Abort, Send, Release, Load, LookupSession, CreateSession, UpdateSession,
              MapItem, Unmapped, FindItem, CreateItem, UpdateItem, Refused, Answer
<1>3. ASSUME Serve(w) \/ Abort(w) \/ \E x \in Local : Send(w, x)
      PROVE  LookupSession(w) \/ FindItem(w)
  BY <1>3 DEF Serve, Abort, Send, Release, CreateSession, UpdateSession,
              MapItem, Unmapped, CreateItem, UpdateItem, Refused, Answer
<1>4. QED
  BY <1>1, <1>2, <1>3 DEF Next, Progress, GiveUp, vars

LEMMA ReachesAnswer ==
  ASSUME TypeOK, [Next]_vars, NEW w \in Worker, pc'[w] = "answer"
  PROVE  \/ CreateSession(w) \/ UpdateSession(w) \/ CreateItem(w) \/ UpdateItem(w)
         \/ pc[w] = "answer" /\ req'[w] = req[w]
<1> USE DEF TypeOK
<1>1. ASSUME UNCHANGED work PROVE pc[w] = "answer" /\ req'[w] = req[w]
  BY <1>1 DEF work
<1>2. ASSUME NEW v \in Worker, v # w, Serve(v) \/ Abort(v) \/ \E x \in Local : Send(v, x)
      PROVE  pc[w] = "answer" /\ req'[w] = req[w]
  BY <1>2 DEF Serve, Abort, Send, Release, LookupSession, CreateSession, UpdateSession,
              MapItem, Unmapped, FindItem, CreateItem, UpdateItem, Refused, Answer
<1>3. ASSUME Serve(w) \/ Abort(w) \/ \E x \in Local : Send(w, x)
      PROVE  CreateSession(w) \/ UpdateSession(w) \/ CreateItem(w) \/ UpdateItem(w)
  BY <1>3 DEF Serve, Abort, Send, Release, LookupSession, FindItem,
              MapItem, Unmapped, Refused, Answer
<1>4. QED
  BY <1>1, <1>2, <1>3 DEF Next, Progress, GiveUp, vars

LEMMA AloneStep ==
  TypeOK /\ TableOK /\ RequestOK /\ FoundOK /\ OwnerOK /\ AloneOK /\ [Next]_vars => AloneOK'
<1> SUFFICES ASSUME TypeOK, TableOK, RequestOK, FoundOK, OwnerOK, AloneOK, [Next]_vars
             PROVE  AloneOK'
  OBVIOUS
<1> DEFINE
     Waits == waiting # Null => pc[waiting] # "idle"
     Alone == \A w \in Worker : pc[w] # "idle" /\ req[w].id \notin abandoned =>
                waiting = w /\ acked[req[w].id] <= req[w].version
     Current == \A w \in Worker :
                  pc[w] = "write" /\ hit[w] # 0 /\ req[w].id \in LocalSession \ abandoned =>
                    seen[w] = sessions[hit[w]]
     Kept == \A w \in Worker :
               pc[w] = "answer" /\ req[w].id \in LocalSession \ abandoned =>
                 \E i \in SessionsOf(req[w].id) : Holds(sessions[i], Reported(w))
<1>1. Waits /\ Alone /\ Current /\ Kept
  BY DEF AloneOK
<1>2. Null \notin Worker
  BY LocalIdAssumption
<1> USE DEF TypeOK
<1>3. Waits' /\ Alone'
  <2>1. ASSUME NEW w \in Worker, NEW x \in Local, Send(w, x) PROVE Waits' /\ Alone'
    <3>1. /\ req'[w] = [id |-> x, version |-> version[x]] /\ pc'[w] = "lookup"
          /\ waiting = Null /\ waiting' = w /\ acked' = acked /\ abandoned' = abandoned
          /\ acked[x] <= version[x]
          /\ \A v \in Worker \ {w} : pc'[v] = pc[v] /\ req'[v] = req[v]
      BY <2>1 DEF Send
    <3>2. \A v \in Worker \ {w} : pc[v] # "idle" => req[v].id \in abandoned
      BY <1>1, <1>2, <3>1
    <3>3. QED
      BY <3>1, <3>2
  <2>2. ASSUME GiveUp PROVE Waits' /\ Alone'
    <3>1. \A w \in Worker : pc[w] # "idle" => req[w].id \in abandoned'
      BY <1>1, <2>2 DEF GiveUp
    <3>2. QED
      BY <2>2, <3>1 DEF GiveUp, work
  <2>3. ASSUME NEW w \in Worker, Release(w), acked' = acked, abandoned' = abandoned
        PROVE  Waits' /\ Alone'
    BY <1>1, <1>2, <2>3 DEF Release
  <2>4. ASSUME NEW w \in Worker, Answer(w) PROVE Waits' /\ Alone'
    <3>1. \A v \in Worker \ {w} : pc'[v] = pc[v] /\ req'[v] = req[v]
      BY <2>4 DEF Answer, Release
    <3>2. pc'[w] = "idle" /\ abandoned' = abandoned
      BY <2>4 DEF Answer, Release
    <3>3. CASE waiting = w
      <4>1. waiting' = Null
        BY <2>4, <3>3 DEF Answer, Release
      <4>2. \A v \in Worker \ {w} : pc[v] # "idle" => req[v].id \in abandoned
        BY <1>1, <3>3
      <4>3. QED
        BY <3>1, <3>2, <4>1, <4>2
    <3>4. CASE waiting # w
      <4>1. waiting' = waiting /\ acked' = acked
        BY <2>4, <3>4 DEF Answer, Release
      <4>2. QED
        BY <1>1, <3>1, <3>2, <3>4, <4>1
    <3>5. QED
      BY <3>3, <3>4
  <2>5. ASSUME UNCHANGED <<req, waiting, abandoned, acked>>,
               \A w \in Worker : pc'[w] = "idle" <=> pc[w] = "idle"
        PROVE  Waits' /\ Alone'
    BY <1>1, <2>5
  <2>6. ASSUME NEW w \in Worker,
               LookupSession(w) \/ FindItem(w) \/ MapItem(w)
                 \/ CreateSession(w) \/ UpdateSession(w) \/ CreateItem(w) \/ UpdateItem(w)
        PROVE  Waits' /\ Alone'
    BY <2>5, <2>6 DEF LookupSession, FindItem, MapItem, CreateSession, UpdateSession,
                      CreateItem, UpdateItem, agent
  <2>7. ASSUME NEW x \in Local, Progress(x) PROVE Waits' /\ Alone'
    BY <2>5, <2>7 DEF Progress, work
  <2>8. CASE UNCHANGED vars
    BY <2>5, <2>8 DEF vars, work, agent
  <2>9. QED
    BY <2>1, <2>2, <2>3, <2>4, <2>6, <2>7, <2>8 DEF Next, Serve, Unmapped, Refused, Abort
<1>4. abandoned \subseteq abandoned'
  BY DEF Next, Serve, Progress, Send, GiveUp, LookupSession, CreateSession, UpdateSession,
         MapItem, Unmapped, FindItem, CreateItem, UpdateItem, Refused, Answer, Abort, agent, vars
<1>5. Current'
  <2> SUFFICES ASSUME NEW w \in Worker, pc'[w] = "write", hit'[w] # 0,
                      req'[w].id \in LocalSession, req'[w].id \notin abandoned'
               PROVE  seen'[w] = sessions'[hit'[w]]
    OBVIOUS
  <2>1. CASE LookupSession(w)
    BY <2>1 DEF LookupSession, Load, FoundOK, tables
  <2>2. CASE FindItem(w)
    BY <2>2, LocalIdAssumption DEF FindItem, RequestOK
  <2>3. CASE /\ pc[w] = "write" /\ req'[w] = req[w]
             /\ hit'[w] = hit[w] /\ seen'[w] = seen[w]
    <3>1. seen[w] = sessions[hit[w]] /\ waiting = w
      BY <1>1, <1>4, <2>3
    <3>2. hit[w] \in DOMAIN sessions /\ sessions[hit[w]].local = req[w].id
      BY <2>3 DEF FoundOK, SessionsOf
    <3>3. ASSUME NEW v \in Worker, UpdateSession(v), req[v].id = req[w].id PROVE FALSE
      <4>1. waiting = v
        BY <1>1, <1>4, <2>3, <3>3 DEF UpdateSession
      <4>2. pc'[w] = "answer"
        BY <3>1, <3>3, <4>1 DEF UpdateSession
      <4>3. QED
        BY <4>2
    <3>4. sessions'[hit[w]] = sessions[hit[w]]
      BY <3>2, <3>3, RowUntouched
    <3>5. QED
      BY <2>3, <3>1, <3>4
  <2>4. QED
    BY <2>1, <2>2, <2>3, ReachesWrite
<1>6. Kept'
  <2> SUFFICES ASSUME NEW w \in Worker, pc'[w] = "answer",
                      req'[w].id \in LocalSession, req'[w].id \notin abandoned'
               PROVE  \E i \in SessionsOf(req[w].id)' : Holds(sessions'[i], Reported(w)')
    OBVIOUS
  <2>1. CASE CreateSession(w)
    <3>1. Reported(w)' = Reported(w)
      BY <2>1 DEF CreateSession, Reported
    <3>2. QED
      BY <2>1, <3>1, CreatedHolds
  <2>2. CASE UpdateSession(w)
    <3>1. Reported(w)' = Reported(w) /\ req'[w] = req[w]
      BY <2>2 DEF UpdateSession, Reported
    <3>2. seen[w] = sessions[hit[w]]
      BY <1>1, <1>4, <2>2, <3>1 DEF UpdateSession
    <3>3. QED
      BY <2>2, <3>1, <3>2, UpdatedHolds
  <2>3. CASE CreateItem(w) \/ UpdateItem(w)
    BY <2>3, LocalIdAssumption DEF CreateItem, UpdateItem, Serves
  <2>4. CASE pc[w] = "answer" /\ req'[w] = req[w]
    <3>1. PICK i \in SessionsOf(req[w].id) : Holds(sessions[i], Reported(w))
      BY <1>1, <1>4, <2>4
    <3>2. ASSUME NEW v \in Worker, UpdateSession(v), req[v].id = req[w].id PROVE FALSE
      <4>1. waiting = v /\ waiting = w
        BY <1>1, <1>4, <2>4, <3>2 DEF UpdateSession
      <4>2. QED
        BY <2>4, <3>2, <4>1 DEF UpdateSession
    <3>3. sessions'[i] = sessions[i] /\ i \in SessionsOf(req[w].id)'
      BY <2>4, <3>1, <3>2, RowUntouched, RowsStay DEF SessionsOf
    <3>4. Reported(w)' = Reported(w)
      BY <2>4 DEF Reported
    <3>5. QED
      BY <3>1, <3>3, <3>4
  <2>5. QED
    BY <2>1, <2>2, <2>3, <2>4, ReachesAnswer
<1>7. QED
  BY <1>3, <1>5, <1>6 DEF AloneOK

\* An acknowledged session that was never given up is written by the request
\* the agent waits for only, and that one carries a later version.
LEMMA AckedStep ==
  TypeOK /\ TableOK /\ RequestOK /\ FoundOK /\ OwnerOK /\ AloneOK /\ AckedPersists
    /\ [Next]_vars => AckedPersists'
<1> SUFFICES ASSUME TypeOK, TableOK, RequestOK, FoundOK, OwnerOK, AloneOK, AckedPersists,
                    [Next]_vars, NEW s \in LocalSession, acked'[s] > 0, s \notin abandoned'
             PROVE  \E i \in SessionsOf(s)', v \in acked'[s]..version'[s] :
                      Holds(sessions'[i], Report[s][v])
  BY DEF AckedPersists
<1> USE DEF TypeOK
<1>1. /\ s \in Local /\ s \notin abandoned
      /\ acked[s] \in Nat /\ version[s] \in Nat /\ version'[s] \in Nat
      /\ version[s] <= version'[s]
  <2>1. TypeOK'
    BY TypeStep
  <2>2. (\E x \in Local : Progress(x)) \/ UNCHANGED version
    BY DEF Next, Serve, Send, GiveUp, LookupSession, CreateSession, UpdateSession, MapItem,
           Unmapped, FindItem, CreateItem, UpdateItem, Refused, Answer, Abort, agent, vars
  <2>3. s \in Local
    BY DEF Local
  <2>4. version[s] <= version'[s]
    <3>1. version[s] \in Nat
      BY <2>3
    <3>2. ASSUME NEW x \in Local, Progress(x) PROVE version'[s] \in {version[s], version[s] + 1}
      BY <2>3, <3>2 DEF Progress
    <3>3. QED
      BY <2>2, <3>1, <3>2
  <2>5. abandoned \subseteq abandoned'
    BY DEF Next, Serve, Progress, Send, GiveUp, LookupSession, CreateSession, UpdateSession,
           MapItem, Unmapped, FindItem, CreateItem, UpdateItem, Refused, Answer, Abort, agent, vars
  <2>6. QED
    BY <2>1, <2>3, <2>4, <2>5
<1>2. ASSUME NEW w \in Worker, Answer(w), acked' = [acked EXCEPT ![req[w].id] = req[w].version],
             req[w].id = s
      PROVE  \E i \in SessionsOf(s)', v \in acked'[s]..version'[s] :
               Holds(sessions'[i], Report[s][v])
  <2>1. PICK i \in SessionsOf(s) : Holds(sessions[i], Reported(w))
    BY <1>1, <1>2 DEF Answer, AloneOK
  <2>2. /\ acked'[s] = req[w].version /\ req[w].version \in Nat
        /\ req[w].version <= version[s]
    BY <1>1, <1>2 DEF Answer, RequestOK, Request
  <2>3. sessions' = sessions
    BY <1>2 DEF Answer, tables
  <2>4. req[w].version \in acked'[s]..version'[s]
    BY <1>1, <2>2
  <2>5. QED
    BY <1>2, <2>1, <2>3, <2>4 DEF SessionsOf, Reported
<1>3. CASE acked'[s] = acked[s]
  <2>1. PICK i \in SessionsOf(s), v \in acked[s]..version[s] : Holds(sessions[i], Report[s][v])
    BY <1>1, <1>3 DEF AckedPersists
  <2>2. v \in acked'[s]..version'[s]
    BY <1>1, <1>3, <2>1
  <2>3. ASSUME NEW w \in Worker, UpdateSession(w), req[w].id = s
        PROVE  \E j \in SessionsOf(s)', u \in acked'[s]..version'[s] :
                 Holds(sessions'[j], Report[s][u])
    <3>1. /\ seen[w] = sessions[hit[w]]
          /\ acked[s] <= req[w].version /\ req[w].version <= version[s]
          /\ req[w].version \in Nat
      BY <1>1, <2>3 DEF UpdateSession, AloneOK, RequestOK, Request
    <3>2. req[w].version \in acked'[s]..version'[s]
      BY <1>1, <1>3, <3>1
    <3>3. \E j \in SessionsOf(s)' : Holds(sessions'[j], Reported(w))
      <4>1. req' = req
        BY <2>3 DEF UpdateSession
      <4>2. QED
        BY <2>3, <3>1, <4>1, UpdatedHolds
    <3>4. QED
      BY <2>3, <3>2, <3>3 DEF Reported
  <2>4. ASSUME \A w \in Worker : UpdateSession(w) => req[w].id # s
        PROVE  \E j \in SessionsOf(s)', u \in acked'[s]..version'[s] :
                 Holds(sessions'[j], Report[s][u])
    <3>1. sessions'[i] = sessions[i] /\ i \in SessionsOf(s)'
      BY <2>1, <2>4, RowUntouched, RowsStay DEF SessionsOf
    <3>2. QED
      BY <2>1, <2>2, <3>1
  <2>5. QED
    BY <2>3, <2>4
<1>4. acked'[s] = acked[s] \/
        \E w \in Worker : /\ Answer(w) /\ req[w].id = s
                          /\ acked' = [acked EXCEPT ![req[w].id] = req[w].version]
  BY <1>1 DEF Next, Serve, Progress, Send, GiveUp, LookupSession, CreateSession, UpdateSession,
         MapItem, Unmapped, FindItem, CreateItem, UpdateItem, Refused, Answer, Abort, agent, vars
<1>5. QED
  BY <1>2, <1>3, <1>4

-----------------------------------------------------------------------------
\* The strengthened invariant is inductive.
THEOREM Invariance == Spec => []IInv
<1>1. IInv /\ [Next]_vars => IInv'
  BY TypeStep, TableStep, RequestStep, FoundStep, OwnerStep, ItemStep, OneRowStep,
     ColumnsStep, AloneStep, AckedStep
     DEF IInv
<1>2. QED
  BY InitOK, <1>1, PTL DEF Spec

\* The variables keep their types.
THEOREM TypeCorrect == Spec => []TypeOK
<1>1. IInv => TypeOK
  BY DEF IInv
<1>2. QED
  BY Invariance, <1>1, PTL

\* However many requests look for a local id before they insert, one row
\* comes to stand for it.
THEOREM UploadedOnce == Spec => []OneRowPerLocalId
<1>1. IInv => OneRowPerLocalId
  BY DEF IInv
<1>2. QED
  BY Invariance, <1>1, PTL

\* An item hangs on the row of the session it happened in.
THEOREM ItemsPlaced == Spec => []ItemInItsSession
<1>1. IInv => ItemInItsSession
  BY DEF IInv
<1>2. QED
  BY Invariance, <1>1, PTL

\* Racing requests leave the columns of a session in agreement, as long as
\* the agent reports one logout time for it.
THEOREM StatusConsistent == Spec => []StatusMatchesLogout
<1>1. IInv => StatusMatchesLogout
  BY DEF IInv, ColumnsOK, Consistent, StatusMatchesLogout
<1>2. QED
  BY Invariance, <1>1, PTL

\* What the agent was told is stored stays stored.
THEOREM AcknowledgedPersists == Spec => []AckedPersists
<1>1. IInv => AckedPersists
  BY DEF IInv
<1>2. QED
  BY Invariance, <1>1, PTL

\* No upload erases the duration of a session.
THEOREM DurationsKept == Spec => DurationKept
<1>1. IInv /\ [Next]_vars =>
        [\A i \in DOMAIN sessions :
           sessions[i].duration # Null => sessions'[i].duration # Null]_vars
  BY DurationStep DEF IInv
<1>2. QED
  BY Invariance, <1>1, PTL DEF Spec, DurationKept

=============================================================================
