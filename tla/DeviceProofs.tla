---------------------------- MODULE DeviceProofs ----------------------------
(***************************************************************************)
(* Proofs about a device: for any number of threads, any lists and whatever *)
(* overlapped before, an upload of applications that runs alone leaves      *)
(* exactly what it listed; a heartbeat that was answered is on the health   *)
(* page and keeps the device ONLINE for the threshold; and the requests of  *)
(* Device leave the uploads of InstalledApplications what they are.         *)
(***************************************************************************)
EXTENDS Device, FiniteSetTheorems, TLAPS

-----------------------------------------------------------------------------
(* Functions by id, and lists.                                               *)

\* A value put into a function.
LEMMA PutFacts ==
  ASSUME NEW S, NEW f, ById(f, S), NEW id \in 1 .. MaxId, NEW x \in S
  PROVE  /\ ById(Put(f, id, x), S)
         /\ DOMAIN Put(f, id, x) = DOMAIN f \cup {id}
         /\ Put(f, id, x)[id] = x
         /\ \A k \in DOMAIN f : k # id => Put(f, id, x)[k] = f[k]
<1>1. /\ DOMAIN Put(f, id, x) = DOMAIN f \cup {id}
      /\ Put(f, id, x)[id] = x
      /\ \A k \in DOMAIN f : k # id => Put(f, id, x)[k] = f[k]
  BY DEF Put
<1>2. Put(f, id, x) \in [DOMAIN f \cup {id} -> S]
  BY DEF Put, ById
<1> QED
  BY <1>1, <1>2 DEF ById

\* A list names every application once.
LEMMA Distinct ==
  ASSUME NEW items \in Upload
  PROVE  /\ items \in Seq(Entry)
         /\ \A k \in DOMAIN items : items[k].app \in Application /\ items[k].version \in Version
         /\ \A j, k \in DOMAIN items : items[j].app = items[k].app => j = k
<1>1. items \in Seq(Entry) /\ Cardinality(Listed(items)) = Len(items)
  BY UploadAssumption
<1>2. DOMAIN items = 1 .. Len(items) /\ Len(items) \in Nat /\ \A k \in DOMAIN items : items[k] \in Entry
  BY <1>1
<1>3. \A k \in DOMAIN items : items[k].app \in Application /\ items[k].version \in Version
  BY <1>2 DEF Entry
<1> DEFINE f == [k \in DOMAIN items |-> items[k].app]
<1>4. f \in Surjection(DOMAIN items, Listed(items))
  BY DEF Surjection, Listed
<1>5. IsFiniteSet(DOMAIN items) /\ Cardinality(DOMAIN items) = Cardinality(Listed(items))
  <2> DEFINE n == Len(items)
  <2>0. 1 \in Int /\ n \in Int /\ n >= 0
    BY <1>2
  <2> HIDE DEF n
  <2>1. IsFiniteSet(1 .. n) /\ Cardinality(1 .. n) = IF 1 > n THEN 0 ELSE n - 1 + 1
    BY <2>0, FS_Interval
  <2>2. Cardinality(1 .. n) = n
    BY <2>0, <2>1
  <2> QED
    BY <1>1, <1>2, <2>1, <2>2 DEF n
<1>6. f \in Injection(DOMAIN items, Listed(items))
  BY <1>4, <1>5, FS_SurjSameCardinalityImpliesInj
<1>7. \A j, k \in DOMAIN items : f[j] = f[k] => j = k
  BY <1>6 DEF Injection, IsInjective
<1> QED
  BY <1>1, <1>3, <1>7

-----------------------------------------------------------------------------
(* What the statements do to their upload.                                   *)

\* The rest of a list.
LEMMA Rest ==
  ASSUME NEW todo \in Seq(Entry), todo # << >>
  PROVE  /\ Head(todo) \in Entry /\ Head(todo) = todo[1]
         /\ Tail(todo) \in Seq(Entry)
         /\ Len(todo) \in Nat /\ Len(todo) > 0 /\ Len(Tail(todo)) = Len(todo) - 1
         /\ DOMAIN todo = 1 .. Len(todo) /\ DOMAIN Tail(todo) = 1 .. Len(todo) - 1
         /\ \A k \in 1 .. Len(todo) - 1 : Tail(todo)[k] = todo[k + 1]
OBVIOUS

LEMMA EntryParts ==
  ASSUME NEW item \in Entry
  PROVE  item.app \in Application /\ item.version \in Version
BY DEF Entry

LEMMA RowParts ==
  ASSUME NEW row \in Row
  PROVE  row.app \in Application /\ row.version \in Version /\ row.installed \in BOOLEAN
BY DEF Row

\* The set of records an upload belongs to.
Uploads(existing, added, changed) ==
  [step : {"free", "find", "insert"}, items : Seq(Entry), todo : Seq(Entry),
   existing : {existing}, seen : SUBSET (1 .. MaxId), added : {added},
   changed : {changed}, alone : BOOLEAN]

LEMMA UploadParts ==
  ASSUME NEW u, UploadOK(u)
  PROVE  /\ u \in Uploads(u.existing, u.added, u.changed)
         /\ u.step \in {"free", "find", "insert"} /\ u.items \in Seq(Entry) /\ u.todo \in Seq(Entry)
         /\ u.seen \subseteq 1 .. MaxId /\ u.alone \in BOOLEAN
         /\ ById(u.existing, Row) /\ ById(u.added, Row) /\ ById(u.changed, Change)
BY DEF UploadOK, Uploads

\* A row that an upload finds is seen, and changed by what differs.
LEMMA KeepFacts ==
  ASSUME AppTypeOK, NEW w \in Worker, NEW id \in DOMAIN rows, NEW item \in Entry,
         uploads[w].todo # << >>
  PROVE  LET u == uploads[w]
             k == Keep(w, id, item)
             change == [version |-> item.version,
                        versionToo |-> item.version # Loaded(w, id).version,
                        installedToo |-> ~ Loaded(w, id).installed]
         IN  /\ UploadOK(k)
             /\ k.step = u.step /\ k.items = u.items /\ k.existing = u.existing
             /\ k.added = u.added /\ k.alone = u.alone
             /\ k.todo = Tail(u.todo) /\ k.seen = u.seen \cup {id}
             /\ k.changed = Put(u.changed, id, change)
             /\ id \in 1 .. MaxId /\ change \in Change
<1> DEFINE u == uploads[w]
           change == [version |-> item.version,
                      versionToo |-> item.version # Loaded(w, id).version,
                      installedToo |-> ~ Loaded(w, id).installed]
           k == Keep(w, id, item)
<1>1. UploadOK(u) /\ ById(rows, Row)
  BY DEF AppTypeOK
<1>2. /\ u \in Uploads(u.existing, u.added, u.changed)
      /\ ById(u.existing, Row) /\ ById(u.added, Row) /\ ById(u.changed, Change)
  BY <1>1, UploadParts
<1>3. id \in 1 .. MaxId
  BY <1>1 DEF ById
<1>4. change \in Change
  <2>1. item.version \in Version
    BY EntryParts
  <2>2. (item.version # Loaded(w, id).version) \in BOOLEAN
    OBVIOUS
  <2>3. (~ Loaded(w, id).installed) \in BOOLEAN
    OBVIOUS
  <2> QED
    BY <2>1, <2>2, <2>3 DEF Change
<1> DEFINE todo == Tail(u.todo)
           seen == u.seen \cup {id}
           changed == Put(u.changed, id, change)
<1>5. /\ todo \in Seq(Entry) /\ seen \subseteq 1 .. MaxId /\ ById(changed, Change)
  <2>1. todo \in Seq(Entry)
    BY <1>1, UploadParts, Rest
  <2>2. seen \subseteq 1 .. MaxId
    BY <1>1, <1>3, UploadParts
  <2> HIDE DEF change
  <2>3. ById(changed, Change)
    BY <1>2, <1>3, <1>4, PutFacts
  <2> QED
    BY <2>1, <2>2, <2>3
<1>6. k = [u EXCEPT !.todo = todo, !.seen = seen, !.changed = changed]
  BY <1>2 DEF Keep, Uploads
<1> HIDE DEF todo, seen, changed, u, change, k
<1>7. /\ k \in Uploads(u.existing, u.added, changed)
      /\ k.step = u.step /\ k.items = u.items /\ k.existing = u.existing
      /\ k.added = u.added /\ k.alone = u.alone
      /\ k.todo = todo /\ k.seen = seen /\ k.changed = changed
  BY <1>2, <1>5, <1>6 DEF Uploads
<1>8. UploadOK(k)
  BY <1>2, <1>5, <1>7 DEF UploadOK, Uploads
<1> QED
  BY <1>3, <1>4, <1>7, <1>8 DEF u, k, change, todo, seen, changed
LEMMA NoRowsById == ById(NoRows, Row) /\ ById(NoRows, Change) /\ DOMAIN NoRows = {}
BY DEF ById, NoRows

LEMMA FreeIsUpload ==
  /\ UploadOK(Free)
  /\ Free.step = "free" /\ Free.items = << >> /\ Free.todo = << >>
  /\ Free.existing = NoRows /\ Free.seen = {} /\ Free.added = NoRows
  /\ Free.changed = NoRows /\ Free.alone = TRUE
  /\ Free \in Uploads(NoRows, NoRows, NoRows)
<1>1. << >> \in Seq(Entry)
  OBVIOUS
<1>2. Free \in Uploads(NoRows, NoRows, NoRows)
  BY <1>1 DEF Free, Uploads
<1>3. /\ Free.step = "free" /\ Free.items = << >> /\ Free.todo = << >>
      /\ Free.existing = NoRows /\ Free.seen = {} /\ Free.added = NoRows
      /\ Free.changed = NoRows /\ Free.alone = TRUE
  BY DEF Free
<1> QED
  BY <1>2, <1>3, NoRowsById DEF UploadOK, Uploads

LEMMA OneUpload ==
  ASSUME AppTypeOK, NEW w \in Worker, NEW u, UploadOK(u), uploads' = [uploads EXCEPT ![w] = u]
  PROVE  /\ uploads' = [v \in Worker |-> uploads'[v]]
         /\ uploads'[w] = u /\ \A v \in Worker : v # w => uploads'[v] = uploads[v]
         /\ \A v \in Worker : UploadOK(uploads'[v])
<1>1. DOMAIN uploads = Worker /\ uploads = [v \in Worker |-> uploads[v]]
  BY DEF AppTypeOK
<1>2. uploads'[w] = u /\ \A v \in Worker : v # w => uploads'[v] = uploads[v]
  BY <1>1
<1>3. uploads' = [v \in Worker |-> uploads'[v]]
  BY <1>1
<1>4. \A v \in Worker : UploadOK(uploads[v])
  BY DEF AppTypeOK
<1> QED
  BY <1>2, <1>3, <1>4

\* An upload that finds no row goes on to insert one.
LEMMA FindFacts ==
  ASSUME AppTypeOK, NEW w \in Worker, Find(w)
  PROVE  /\ uploads[w].step = "find" /\ uploads[w].todo # << >>
         /\ UNCHANGED <<rows, nextId, latest>>
         /\ \E k : /\ UploadOK(k) /\ uploads' = [uploads EXCEPT ![w] = k]
                   /\ \/ /\ Found(Head(uploads[w].todo).app) = {}
                         /\ k.step = "insert" /\ k.items = uploads[w].items
                         /\ k.todo = uploads[w].todo /\ k.existing = uploads[w].existing
                         /\ k.seen = uploads[w].seen /\ k.added = uploads[w].added
                         /\ k.changed = uploads[w].changed /\ k.alone = uploads[w].alone
                      \/ \E id \in Found(Head(uploads[w].todo).app) :
                           k = Keep(w, id, Head(uploads[w].todo))
<1> DEFINE u == uploads[w]
           item == Head(u.todo)
<1>1. u.step = "find" /\ u.todo # << >> /\ UNCHANGED <<rows, nextId, latest>>
  BY DEF Find
<1>2. UploadOK(u) /\ u.todo \in Seq(Entry) /\ u \in Uploads(u.existing, u.added, u.changed)
      /\ ById(u.existing, Row) /\ ById(u.added, Row) /\ ById(u.changed, Change)
  BY UploadParts DEF AppTypeOK
<1>3. item \in Entry
  BY <1>1, <1>2, Rest
<1>4. CASE Found(item.app) = {} /\ uploads' = [uploads EXCEPT ![w].step = "insert"]
  <2> DEFINE k == [u EXCEPT !.step = "insert"]
  <2>1. uploads' = [uploads EXCEPT ![w] = k]
    BY <1>4 DEF AppTypeOK
  <2>2. /\ k \in Uploads(u.existing, u.added, u.changed)
        /\ k.step = "insert" /\ k.items = u.items
        /\ k.todo = u.todo /\ k.existing = u.existing
        /\ k.seen = u.seen /\ k.added = u.added
        /\ k.changed = u.changed /\ k.alone = u.alone
    <3> HIDE DEF u
    <3> QED
      BY <1>2 DEF Uploads
  <2> HIDE DEF k
  <2>3. UploadOK(k)
    BY <1>2, <2>2 DEF UploadOK, Uploads
  <2> QED
    BY <1>1, <1>4, <2>1, <2>2, <2>3
<1>5. CASE \E id \in Found(item.app) : uploads' = [uploads EXCEPT ![w] = Keep(w, id, item)]
  <2>1. PICK id \in Found(item.app) : uploads' = [uploads EXCEPT ![w] = Keep(w, id, item)]
    BY <1>5
  <2>2. id \in DOMAIN rows
    BY DEF Found
  <2>3. UploadOK(Keep(w, id, item))
    BY <1>1, <1>3, <2>2, KeepFacts
  <2> QED
    BY <1>1, <2>1, <2>3
<1> QED
  BY <1>4, <1>5 DEF Find

\* The row that an insert adds.
NewRow(item) == [app |-> item.app, version |-> item.version, installed |-> TRUE]

LEMMA InsertFacts ==
  ASSUME AppTypeOK, Drawn, NEW w \in Worker, Insert(w)
  PROVE  LET u == uploads[w]
             item == Head(uploads[w].todo)
         IN  /\ u.step = "insert" /\ u.todo # << >>
             /\ item \in Entry /\ NewRow(item) \in Row
             /\ nextId \in 1 .. MaxId /\ nextId' = nextId + 1
             /\ UNCHANGED <<rows, latest>>
             /\ \E k : /\ UploadOK(k) /\ uploads' = [uploads EXCEPT ![w] = k]
                       /\ k.step = "find" /\ k.items = u.items /\ k.existing = u.existing
                       /\ k.changed = u.changed /\ k.alone = u.alone
                       /\ k.todo = Tail(u.todo) /\ k.seen = u.seen \cup {nextId}
                       /\ k.added = Put(u.added, nextId, NewRow(item))
<1> DEFINE u == uploads[w]
           item == Head(u.todo)
           new == NewRow(item)
<1>1. u.step = "insert" /\ u.todo # << >>
  BY DEF Insert, Drawn
<1>2. UploadOK(u) /\ u.todo \in Seq(Entry) /\ u \in Uploads(u.existing, u.added, u.changed)
      /\ u.seen \subseteq 1 .. MaxId
      /\ ById(u.existing, Row) /\ ById(u.added, Row) /\ ById(u.changed, Change)
  BY UploadParts DEF AppTypeOK
<1>3. item \in Entry /\ Tail(u.todo) \in Seq(Entry)
  BY <1>1, <1>2, Rest
<1>4. new \in Row
  BY <1>3, EntryParts DEF NewRow, Row
<1>5. nextId \in 1 .. MaxId /\ nextId' = nextId + 1 /\ UNCHANGED <<rows, latest>>
  BY UploadAssumption DEF Insert, AppTypeOK
<1> DEFINE todo == Tail(u.todo)
           seen == u.seen \cup {nextId}
           added == Put(u.added, nextId, new)
           k == [u EXCEPT !.step = "find", !.todo = todo, !.seen = seen, !.added = added]
<1>6. uploads' = [uploads EXCEPT ![w] = k]
  BY DEF Insert, AppTypeOK, NewRow
<1>7. todo \in Seq(Entry) /\ seen \subseteq 1 .. MaxId /\ ById(added, Row)
  <2> HIDE DEF new
  <2> QED
    BY <1>2, <1>3, <1>4, <1>5, PutFacts
<1> HIDE DEF todo, seen, added, u, new
<1>8. /\ k \in Uploads(u.existing, added, u.changed)
      /\ k.step = "find" /\ k.items = u.items /\ k.existing = u.existing
      /\ k.changed = u.changed /\ k.alone = u.alone
      /\ k.todo = todo /\ k.seen = seen /\ k.added = added
  BY <1>2, <1>7 DEF Uploads
<1> HIDE DEF k
<1>9. UploadOK(k)
  BY <1>2, <1>7, <1>8 DEF UploadOK, Uploads
<1> QED
  BY <1>1, <1>3, <1>4, <1>5, <1>6, <1>8, <1>9 DEF todo, seen, added, u, new

\* An upload that is no longer alone, and one that is free.
LEMMA AloneFacts ==
  ASSUME NEW u, UploadOK(u), NEW b \in BOOLEAN
  PROVE  LET k == [u EXCEPT !.alone = @ /\ b]
         IN  /\ UploadOK(k) /\ (k.alone => u.alone /\ b)
             /\ k.step = u.step /\ k.items = u.items /\ k.todo = u.todo
             /\ k.existing = u.existing /\ k.seen = u.seen /\ k.added = u.added
             /\ k.changed = u.changed
<1> DEFINE alone == u.alone /\ b
           k == [u EXCEPT !.alone = alone]
<1>1. u \in Uploads(u.existing, u.added, u.changed)
      /\ ById(u.existing, Row) /\ ById(u.added, Row) /\ ById(u.changed, Change)
  BY UploadParts
<1>2. alone \in BOOLEAN /\ (alone => u.alone /\ b)
  OBVIOUS
<1>3. k = [u EXCEPT !.alone = @ /\ b]
  BY <1>1 DEF Uploads
<1> HIDE DEF alone
<1>4. /\ k \in Uploads(u.existing, u.added, u.changed) /\ k.alone = alone
      /\ k.step = u.step /\ k.items = u.items /\ k.todo = u.todo
      /\ k.existing = u.existing /\ k.seen = u.seen /\ k.added = u.added
      /\ k.changed = u.changed
  BY <1>1, <1>2 DEF Uploads
<1> HIDE DEF k
<1>5. UploadOK(k)
  BY <1>1, <1>4 DEF UploadOK, Uploads
<1>6. k.alone => u.alone /\ b
  BY <1>2, <1>4, Zenon
<1> QED
  BY <1>3, <1>4, <1>5, <1>6

LEMMA BeginFacts ==
  ASSUME AppTypeOK, NEW w \in Worker, Begin(w)
  PROVE  /\ w \notin Running /\ UNCHANGED <<rows, nextId, latest>>
         /\ uploads' = [v \in Worker |-> uploads'[v]]
         /\ \A v \in Worker : UploadOK(uploads'[v])
         /\ \E items \in Upload :
              LET k == uploads'[w]
              IN  /\ k.step = "find" /\ k.items = items /\ k.todo = items
                  /\ k.existing = rows /\ k.seen = {} /\ k.added = NoRows
                  /\ k.changed = NoRows /\ (k.alone => Running = {})
         /\ \A v \in Worker : v # w =>
              LET k == uploads'[v]
                  u == uploads[v]
              IN  /\ k.alone => u.alone /\ v \notin Running
                  /\ k.step = u.step /\ k.todo = u.todo /\ k.added = u.added
<1>1. PICK items \in Upload :
        /\ w \notin Running
        /\ uploads' = [v \in Worker |->
             IF v = w
             THEN [Free EXCEPT !.step = "find", !.items = items, !.todo = items,
                               !.existing = rows, !.alone = (Running = {})]
             ELSE [uploads[v] EXCEPT !.alone = @ /\ v \notin Running]]
        /\ UNCHANGED <<rows, nextId, latest>>
  BY DEF Begin
<1> DEFINE first == Running = {}
           k == [Free EXCEPT !.step = "find", !.items = items, !.todo = items,
                             !.existing = rows, !.alone = first]
<1>2. uploads'[w] = k /\ uploads' = [v \in Worker |-> uploads'[v]]
  BY <1>1
<1>3. \A v \in Worker : v # w => uploads'[v] = [uploads[v] EXCEPT !.alone = @ /\ v \notin Running]
  BY <1>1
<1>4. items \in Seq(Entry) /\ first \in BOOLEAN /\ ById(rows, Row)
  BY Distinct DEF AppTypeOK
<1>5. /\ k \in Uploads(rows, NoRows, NoRows)
      /\ k.step = "find" /\ k.items = items /\ k.todo = items
      /\ k.existing = rows /\ k.seen = {} /\ k.added = NoRows
      /\ k.changed = NoRows /\ k.alone = first
  <2> HIDE DEF first
  <2>1. Free \in Uploads(NoRows, NoRows, NoRows) /\ Free.seen = {}
        /\ Free.added = NoRows /\ Free.changed = NoRows
    BY FreeIsUpload
  <2> QED
    BY <1>4, <2>1 DEF Uploads
<1> HIDE DEF k
<1>6. UploadOK(k)
  BY <1>4, <1>5, NoRowsById DEF UploadOK, Uploads
<1>7. ASSUME NEW v \in Worker, v # w
      PROVE  LET j == uploads'[v]
                 u == uploads[v]
             IN  /\ UploadOK(j)
                 /\ j.alone => u.alone /\ v \notin Running
                 /\ j.step = u.step /\ j.todo = u.todo /\ j.added = u.added
  <2> DEFINE b == v \notin Running
  <2>1. UploadOK(uploads[v]) /\ b \in BOOLEAN
    BY DEF AppTypeOK
  <2>2. uploads'[v] = [uploads[v] EXCEPT !.alone = @ /\ b]
    BY <1>3, <1>7
  <2> HIDE DEF b
  <2>3. LET j == uploads'[v]
            u == uploads[v]
        IN  /\ UploadOK(j)
            /\ j.alone => u.alone /\ b
            /\ j.step = u.step /\ j.todo = u.todo /\ j.added = u.added
    BY <2>1, <2>2, AloneFacts
  <2> QED
    BY <2>3 DEF b
<1>8. k.alone => Running = {}
  BY <1>5, Zenon DEF first
<1> QED
  BY <1>1, <1>2, <1>5, <1>6, <1>7, <1>8

\* A thread that gives up is free, and nothing else changes.
LEMMA RollbackFacts ==
  ASSUME AppTypeOK, NEW w \in Worker, Refuse(w) \/ BreakDeadlock(w) \/ Fail(w)
  PROVE  /\ w \in Running /\ UNCHANGED <<rows, nextId, latest>>
         /\ uploads' = [uploads EXCEPT ![w] = Free]
<1>1. uploads[w].step = "insert" => w \in Running
  BY DEF Running
<1>2. WaitsFor(w) # {} => uploads[w].step = "insert"
  BY DEF WaitsFor
<1>3. CASE Refuse(w)
  BY <1>1, <1>3 DEF Refuse, Rollback
<1>4. CASE BreakDeadlock(w)
  BY <1>1, <1>2, <1>4 DEF BreakDeadlock, Rollback
<1>5. CASE Fail(w)
  BY <1>5 DEF Fail, Rollback
<1> QED
  BY <1>3, <1>4, <1>5

\* What an UPDATE leaves of a row.
LEMMA WrittenFacts ==
  ASSUME AppTypeOK, NEW w \in Worker, NEW id \in DOMAIN rows
  PROVE  LET u == uploads[w]
             row == Written(u, id)
         IN  /\ row \in Row /\ row.app = rows[id].app
             /\ id \in DOMAIN u.changed =>
                  /\ row.version = IF u.changed[id].versionToo THEN u.changed[id].version
                                   ELSE rows[id].version
                  /\ row.installed <=> rows[id].installed \/ u.changed[id].installedToo
             /\ id \notin DOMAIN u.changed =>
                  (row.installed <=> /\ rows[id].installed
                                     /\ ~ (/\ id \in DOMAIN u.existing \ u.seen
                                           /\ u.existing[id].installed))
<1> DEFINE u == uploads[w]
           row == rows[id]
<1>1. row \in Row /\ ById(u.changed, Change)
  BY UploadParts DEF AppTypeOK, ById
<1>2. CASE id \in DOMAIN u.changed
  <2> DEFINE version == IF u.changed[id].versionToo THEN u.changed[id].version ELSE row.version
             installed == row.installed \/ u.changed[id].installedToo
  <2>1. Written(u, id) = [row EXCEPT !.version = version, !.installed = installed]
    BY <1>1, <1>2 DEF Written, Row
  <2>2. u.changed[id] \in Change
    BY <1>1, <1>2 DEF ById
  <2>3. version \in Version
    BY <1>1, <2>2 DEF Change, Row
  <2>4. installed \in BOOLEAN
    OBVIOUS
  <2>5. /\ Written(u, id) \in Row /\ Written(u, id).app = row.app
        /\ Written(u, id).version = version /\ Written(u, id).installed = installed
    <3> HIDE DEF version, installed, row
    <3> QED
      BY <1>1, <2>1, <2>3, <2>4 DEF Row
  <2> QED
    BY <1>2, <2>5
<1>3. CASE id \notin DOMAIN u.changed
  <2> DEFINE installed == row.installed /\ ~ (/\ id \in DOMAIN u.existing \ u.seen
                                              /\ u.existing[id].installed)
  <2>1. Written(u, id) = [row EXCEPT !.installed = installed]
    BY <1>1, <1>3 DEF Written, Row
  <2>2. installed \in BOOLEAN
    OBVIOUS
  <2>3. /\ Written(u, id) \in Row /\ Written(u, id).app = row.app
        /\ Written(u, id).installed = installed
    <3> HIDE DEF installed, row
    <3> QED
      BY <1>1, <2>1, <2>2 DEF Row
  <2> QED
    BY <1>3, <2>3
<1> QED
  BY <1>2, <1>3

LEMMA CommitFacts ==
  ASSUME AppTypeOK, NEW w \in Worker, Commit(w)
  PROVE  LET u == uploads[w]
         IN  /\ w \in Running /\ u.todo = << >> /\ nextId' = nextId
             /\ uploads' = [uploads EXCEPT ![w] = Free]
             /\ latest'.items = u.items /\ latest'.alone = u.alone
             /\ latest' \in [items : Seq(Entry), alone : BOOLEAN]
             /\ ById(rows', Row)
             /\ DOMAIN rows' = DOMAIN rows \cup DOMAIN u.added
             /\ \A id \in DOMAIN rows : rows'[id] = Written(u, id)
             /\ \A id \in DOMAIN u.added : id \notin DOMAIN rows => rows'[id] = u.added[id]
<1> DEFINE u == uploads[w]
<1>1. /\ w \in Running /\ u.todo = << >> /\ nextId' = nextId
      /\ uploads' = [uploads EXCEPT ![w] = Free]
      /\ latest' = [items |-> u.items, alone |-> u.alone]
      /\ rows' = [id \in DOMAIN rows \cup DOMAIN u.added |->
                    IF id \in DOMAIN rows THEN Written(u, id) ELSE u.added[id]]
  BY DEF Commit, Running
<1>2. u.items \in Seq(Entry) /\ u.alone \in BOOLEAN /\ ById(u.added, Row) /\ ById(rows, Row)
  BY UploadParts DEF AppTypeOK
<1>3. \A id \in DOMAIN rows : Written(u, id) \in Row
  BY WrittenFacts
<1>4. rows' \in [DOMAIN rows \cup DOMAIN u.added -> Row]
  BY <1>1, <1>2, <1>3 DEF ById
<1>5. ById(rows', Row)
  BY <1>2, <1>4 DEF ById
<1> QED
  BY <1>1, <1>2, <1>5

-----------------------------------------------------------------------------
(* An upload that works alone.                                               *)

\* What is to be done is not what has been done.
LEMMA HeadIsNew ==
  ASSUME NEW u, UploadOK(u), RestOfList(u), OneSeenEach(u), u.todo # << >>
  PROVE  LET n == Len(u.items) - Len(u.todo) + 1
         IN  /\ n \in DOMAIN u.items /\ n \notin Handled(u)
             /\ DOMAIN u.items = 1 .. Len(u.items) /\ Len(u.items) \in Nat
             /\ Head(u.todo) = u.items[n] /\ Head(u.todo) \in Entry
             /\ Handled(u) \subseteq DOMAIN u.items
             /\ \A id \in u.seen : AppOf(u, id) # Head(u.todo).app
<1> DEFINE n == Len(u.items) - Len(u.todo) + 1
           item == Head(u.todo)
<1>1. u.items \in Upload /\ Len(u.todo) <= Len(u.items) /\ u.items \in Seq(Entry)
      /\ u.todo \in Seq(Entry)
      /\ \A k \in DOMAIN u.todo : u.todo[k] = u.items[Len(u.items) - Len(u.todo) + k]
  BY UploadParts DEF RestOfList
<1>2. /\ item \in Entry /\ item = u.todo[1] /\ 1 \in DOMAIN u.todo
      /\ Len(u.todo) \in Nat /\ Len(u.todo) > 0
  <2>1. item \in Entry /\ item = u.todo[1] /\ DOMAIN u.todo = 1 .. Len(u.todo)
        /\ Len(u.todo) \in Nat /\ Len(u.todo) > 0
    BY <1>1, Rest
  <2> QED
    BY <2>1
<1>3. DOMAIN u.items = 1 .. Len(u.items) /\ Len(u.items) \in Nat
  BY <1>1
<1>4. n \in DOMAIN u.items /\ n \notin Handled(u) /\ Handled(u) \subseteq DOMAIN u.items
  <2> DEFINE m == Len(u.items)
             t == Len(u.todo)
  <2>1. m \in Nat /\ t \in Nat /\ t > 0 /\ t <= m /\ DOMAIN u.items = 1 .. m
    BY <1>1, <1>2, <1>3
  <2>2. Handled(u) = 1 .. m - t /\ n = m - t + 1
    BY DEF Handled
  <2> HIDE DEF m, t, n
  <2> QED
    BY <2>1, <2>2
<1>5. item = u.items[n]
  BY <1>1, <1>2
<1>6. ASSUME NEW id \in u.seen PROVE AppOf(u, id) # item.app
  <2>1. PICK k \in Handled(u) : AppOf(u, id) = u.items[k].app
    BY DEF OneSeenEach
  <2>2. k \in DOMAIN u.items /\ k # n
    BY <1>4
  <2>3. u.items[k].app # u.items[n].app
    BY <1>1, <1>4, <2>2, Distinct
  <2> QED
    BY <1>5, <2>1, <2>3
<1> QED
  BY <1>2, <1>3, <1>4, <1>5, <1>6

\* One more row is seen for one more item.
LEMMA OneMore ==
  ASSUME NEW u, UploadOK(u), RestOfList(u), OneSeenEach(u), u.todo # << >>,
         NEW k, k.items = u.items, k.todo = Tail(u.todo),
         NEW new, new \notin u.seen, k.seen = u.seen \cup {new},
         AppOf(k, new) = Head(u.todo).app, VersionOf(k, new) = Head(u.todo).version,
         \A id \in u.seen : AppOf(k, id) = AppOf(u, id) /\ VersionOf(k, id) = VersionOf(u, id)
  PROVE  RestOfList(k) /\ OneSeenEach(k)
<1> DEFINE m == Len(u.items)
           t == Len(u.todo)
           n == m - t + 1
           item == Head(u.todo)
<1>1. /\ u.items \in Upload /\ t <= m /\ u.todo \in Seq(Entry)
      /\ \A j \in DOMAIN u.todo : u.todo[j] = u.items[m - t + j]
  BY UploadParts DEF RestOfList
<1>2. /\ t \in Nat /\ t > 0 /\ Len(k.todo) = t - 1 /\ DOMAIN u.todo = 1 .. t
      /\ DOMAIN k.todo = 1 .. t - 1 /\ \A j \in 1 .. t - 1 : k.todo[j] = u.todo[j + 1]
  BY <1>1, Rest
<1>3. m \in Nat /\ item = u.items[n] /\ n \notin Handled(u)
      /\ \A id \in u.seen : AppOf(u, id) # item.app
  BY HeadIsNew
<1>4. RestOfList(k)
  <2>1. Len(k.todo) <= Len(k.items)
    BY <1>1, <1>2, <1>3
  <2>2. ASSUME NEW j \in DOMAIN k.todo
        PROVE  k.todo[j] = k.items[Len(k.items) - Len(k.todo) + j]
    <3>1. j \in 1 .. t - 1 /\ j + 1 \in DOMAIN u.todo /\ j \in Nat
      BY <1>2
    <3>2. k.todo[j] = u.items[m - t + (j + 1)]
      BY <1>1, <1>2, <3>1
    <3>3. Len(k.items) - Len(k.todo) + j = m - t + (j + 1)
      <4>1. Len(k.items) = m /\ Len(k.todo) = t - 1 /\ m \in Nat /\ t \in Nat /\ j \in Nat
        BY <1>2, <1>3, <3>1
      <4> HIDE DEF m, t
      <4> QED
        BY <4>1
    <3> QED
      BY <3>2, <3>3
  <2> QED
    BY <1>1, <2>1, <2>2 DEF RestOfList
<1>5. Handled(k) = Handled(u) \cup {n}
  <2>1. Handled(k) = 1 .. m - (t - 1) /\ Handled(u) = 1 .. m - t
    BY <1>2 DEF Handled
  <2>2. m \in Nat /\ t \in Nat /\ t <= m
    BY <1>1, <1>2, <1>3
  <2> HIDE DEF m, t
  <2>3. 1 .. m - (t - 1) = (1 .. m - t) \cup {m - t + 1}
    BY <2>2
  <2> QED
    BY <2>1, <2>3
<1>6. OneSeenEach(k)
  <2>1. ASSUME NEW j \in Handled(k)
        PROVE  \E id \in k.seen : AppOf(k, id) = k.items[j].app /\ VersionOf(k, id) = k.items[j].version
    <3>1. CASE j = n
      BY <1>3, <3>1
    <3>2. CASE j \in Handled(u)
      <4>1. PICK id \in u.seen : AppOf(u, id) = u.items[j].app /\ VersionOf(u, id) = u.items[j].version
        BY <3>2 DEF OneSeenEach
      <4> QED
        BY <4>1
    <3> QED
      BY <1>5, <3>1, <3>2
  <2>2. ASSUME NEW id \in k.seen PROVE \E j \in Handled(k) : AppOf(k, id) = k.items[j].app
    <3>1. CASE id = new
      BY <1>3, <1>5, <3>1
    <3>2. CASE id \in u.seen
      <4>1. PICK j \in Handled(u) : AppOf(u, id) = u.items[j].app
        BY <3>2 DEF OneSeenEach
      <4> QED
        BY <1>5, <3>2, <4>1
    <3> QED
      BY <3>1, <3>2
  <2>3. ASSUME NEW id \in k.seen, NEW other \in k.seen, AppOf(k, id) = AppOf(k, other)
        PROVE  id = other
    <3>1. CASE id \in u.seen /\ other \in u.seen
      BY <2>3, <3>1 DEF OneSeenEach
    <3>2. CASE id = new /\ other \in u.seen
      BY <1>3, <2>3, <3>2
    <3>3. CASE other = new /\ id \in u.seen
      BY <1>3, <2>3, <3>3
    <3> QED
      BY <3>1, <3>2, <3>3
  <2> QED
    BY <2>1, <2>2, <2>3 DEF OneSeenEach
<1> QED
  BY <1>4, <1>6

\* The upload as it begins, ...
LEMMA BeginsAlone ==
  ASSUME AppTypeOK, NEW k, NEW items \in Upload, k.items = items, k.todo = items,
         k.existing = rows, k.seen = {}, k.added = NoRows, k.changed = NoRows
  PROVE  Current(k) /\ RestOfList(k) /\ OneSeenEach(k)
<1>1. items \in Seq(Entry)
  BY Distinct
<1>2. Len(items) \in Nat /\ DOMAIN items = 1 .. Len(items)
  BY <1>1
<1>3. Current(k)
  BY NoRowsById DEF Current
<1>4. RestOfList(k)
  BY <1>2 DEF RestOfList
<1>5. Handled(k) = {}
  BY <1>2 DEF Handled
<1>6. OneSeenEach(k)
  BY <1>5 DEF OneSeenEach
<1> QED
  BY <1>3, <1>4, <1>6

\* ... when it keeps a row, ...
LEMMA KeepsAlone ==
  ASSUME AppTypeOK, NEW w \in Worker, uploads[w].todo # << >>,
         Current(uploads[w]), RestOfList(uploads[w]), OneSeenEach(uploads[w]),
         NEW id \in Found(Head(uploads[w].todo).app)
  PROVE  LET k == Keep(w, id, Head(uploads[w].todo))
         IN  Current(k) /\ RestOfList(k) /\ OneSeenEach(k)
<1> DEFINE u == uploads[w]
           item == Head(u.todo)
           k == Keep(w, id, item)
           change == [version |-> item.version,
                      versionToo |-> item.version # Loaded(w, id).version,
                      installedToo |-> ~ Loaded(w, id).installed]
<1>1. UploadOK(u) /\ ById(u.changed, Change) /\ id \in DOMAIN rows /\ rows[id].app = item.app
  BY UploadParts DEF AppTypeOK, Found
<1>2. item \in Entry /\ \A j \in u.seen : AppOf(u, j) # item.app
  BY <1>1, HeadIsNew
<1>3. /\ k.items = u.items /\ k.existing = u.existing /\ k.added = u.added
      /\ k.todo = Tail(u.todo) /\ k.seen = u.seen \cup {id}
      /\ k.changed = Put(u.changed, id, change)
      /\ id \in 1 .. MaxId /\ change \in Change
  BY <1>1, <1>2, KeepFacts
<1>4. /\ u.existing = rows /\ DOMAIN u.added \cap DOMAIN rows = {}
      /\ DOMAIN u.changed \subseteq DOMAIN rows
      /\ u.seen = DOMAIN u.changed \cup DOMAIN u.added
      /\ \A j \in DOMAIN u.changed :
           /\ u.changed[j].versionToo <=> u.changed[j].version # rows[j].version
           /\ u.changed[j].installedToo <=> ~ rows[j].installed
      /\ \A j \in DOMAIN u.added : u.added[j].installed
  BY DEF Current
<1>5. /\ change.version = item.version
      /\ change.versionToo <=> item.version # rows[id].version
      /\ change.installedToo <=> ~ rows[id].installed
  BY <1>1, <1>4 DEF Loaded
<1> HIDE DEF change, k, item, u
<1>6. /\ DOMAIN k.changed = DOMAIN u.changed \cup {id} /\ k.changed[id] = change
      /\ \A j \in DOMAIN u.changed : j # id => k.changed[j] = u.changed[j]
  <2> DEFINE f == u.changed
  <2>1. id \in 1 .. MaxId
    BY <1>3
  <2> HIDE DEF f
  <2>2. /\ DOMAIN Put(f, id, change) = DOMAIN f \cup {id} /\ Put(f, id, change)[id] = change
        /\ \A j \in DOMAIN f : j # id => Put(f, id, change)[j] = f[j]
    BY <2>1 DEF Put
  <2> QED
    BY <1>3, <2>2 DEF f
<1>7. id \notin DOMAIN u.added /\ AppOf(u, id) = item.app
  BY <1>1, <1>4 DEF AppOf
<1>8. id \notin u.seen
  BY <1>2, <1>7
<1>9. Current(k)
  BY <1>1, <1>3, <1>4, <1>5, <1>6 DEF Current
<1>10. AppOf(k, id) = item.app /\ VersionOf(k, id) = item.version
  BY <1>1, <1>3, <1>5, <1>6, <1>7 DEF AppOf, VersionOf
<1>11. ASSUME NEW j \in u.seen
       PROVE  AppOf(k, j) = AppOf(u, j) /\ VersionOf(k, j) = VersionOf(u, j)
  BY <1>3, <1>4, <1>6, <1>8 DEF AppOf, VersionOf
<1>12. RestOfList(k) /\ OneSeenEach(k)
  <2>1. u.todo # << >> /\ RestOfList(u) /\ OneSeenEach(u) /\ item = Head(u.todo)
    BY DEF u, item
  <2> QED
    BY <1>1, <1>3, <1>8, <1>10, <1>11, <2>1, OneMore
<1> QED
  BY <1>9, <1>12 DEF k, item, u

\* ... and when it inserts one.
LEMMA InsertsAlone ==
  ASSUME AppTypeOK, Drawn, NEW w \in Worker, uploads[w].todo # << >>,
         Current(uploads[w]), RestOfList(uploads[w]), OneSeenEach(uploads[w]),
         nextId \in 1 .. MaxId,
         NEW k, k.items = uploads[w].items, k.existing = uploads[w].existing,
         k.changed = uploads[w].changed, k.todo = Tail(uploads[w].todo),
         k.seen = uploads[w].seen \cup {nextId},
         k.added = Put(uploads[w].added, nextId, NewRow(Head(uploads[w].todo)))
  PROVE  Current(k) /\ RestOfList(k) /\ OneSeenEach(k)
<1> DEFINE u == uploads[w]
           item == Head(u.todo)
           new == NewRow(item)
<1>1. UploadOK(u) /\ ById(u.added, Row)
  BY UploadParts DEF AppTypeOK
<1>2. item \in Entry /\ \A j \in u.seen : AppOf(u, j) # item.app
  BY <1>1, HeadIsNew
<1>3. /\ new \in Row /\ new.app = item.app /\ new.version = item.version
      /\ new.installed = TRUE
  BY <1>2, EntryParts DEF NewRow, Row
<1>4. nextId \notin DOMAIN rows /\ nextId \notin DOMAIN u.added
  BY DEF Drawn
<1>5. /\ u.existing = rows /\ DOMAIN u.added \cap DOMAIN rows = {}
      /\ DOMAIN u.changed \subseteq DOMAIN rows
      /\ u.seen = DOMAIN u.changed \cup DOMAIN u.added
      /\ \A j \in DOMAIN u.changed :
           /\ u.changed[j].versionToo <=> u.changed[j].version # rows[j].version
           /\ u.changed[j].installedToo <=> ~ rows[j].installed
      /\ \A j \in DOMAIN u.added : u.added[j].installed
  BY DEF Current
<1> HIDE DEF new, item, u
<1>6. /\ k.items = u.items /\ k.existing = u.existing /\ k.changed = u.changed
      /\ k.todo = Tail(u.todo) /\ k.seen = u.seen \cup {nextId}
      /\ k.added = Put(u.added, nextId, new)
  BY DEF u, item, new
<1>7. /\ DOMAIN k.added = DOMAIN u.added \cup {nextId} /\ k.added[nextId] = new
      /\ \A j \in DOMAIN u.added : j # nextId => k.added[j] = u.added[j]
  <2> DEFINE f == u.added
  <2>1. nextId \in 1 .. MaxId
    OBVIOUS
  <2> HIDE DEF f
  <2>2. /\ DOMAIN Put(f, nextId, new) = DOMAIN f \cup {nextId} /\ Put(f, nextId, new)[nextId] = new
        /\ \A j \in DOMAIN f : j # nextId => Put(f, nextId, new)[j] = f[j]
    BY <2>1 DEF Put
  <2> QED
    BY <1>6, <2>2 DEF f
<1>8. nextId \notin u.seen
  BY <1>4, <1>5
<1>9. Current(k)
  BY <1>3, <1>4, <1>5, <1>6, <1>7 DEF Current
<1>10. AppOf(k, nextId) = item.app /\ VersionOf(k, nextId) = item.version
  BY <1>3, <1>7 DEF AppOf, VersionOf
<1>11. ASSUME NEW j \in u.seen
       PROVE  AppOf(k, j) = AppOf(u, j) /\ VersionOf(k, j) = VersionOf(u, j)
  BY <1>6, <1>7, <1>8 DEF AppOf, VersionOf
<1>12. RestOfList(k) /\ OneSeenEach(k)
  <2>1. u.todo # << >> /\ RestOfList(u) /\ OneSeenEach(u) /\ item = Head(u.todo)
    BY DEF u, item
  <2> QED
    BY <1>1, <1>6, <1>8, <1>10, <1>11, <2>1, OneMore
<1> QED
  BY <1>9, <1>12

\* The list as the commit of such an upload leaves it.
LEMMA CommitsAlone ==
  ASSUME AppTypeOK, NEW w \in Worker, Commit(w),
         Current(uploads[w]), RestOfList(uploads[w]), OneSeenEach(uploads[w])
  PROVE  InventoryExact'
<1> DEFINE u == uploads[w]
<1>1. UploadOK(u) /\ ById(u.added, Row) /\ ById(u.changed, Change) /\ u.items \in Seq(Entry)
  BY UploadParts DEF AppTypeOK
<1>2. /\ u.todo = << >> /\ latest'.items = u.items
      /\ DOMAIN rows' = DOMAIN rows \cup DOMAIN u.added
      /\ \A id \in DOMAIN rows : rows'[id] = Written(u, id)
      /\ \A id \in DOMAIN u.added : id \notin DOMAIN rows => rows'[id] = u.added[id]
  BY CommitFacts
<1>3. /\ u.existing = rows /\ DOMAIN u.added \cap DOMAIN rows = {}
      /\ DOMAIN u.changed \subseteq DOMAIN rows
      /\ u.seen = DOMAIN u.changed \cup DOMAIN u.added
      /\ \A j \in DOMAIN u.changed :
           /\ u.changed[j].versionToo <=> u.changed[j].version # rows[j].version
           /\ u.changed[j].installedToo <=> ~ rows[j].installed
      /\ \A j \in DOMAIN u.added : u.added[j].installed
  BY DEF Current
<1>4. Handled(u) = DOMAIN u.items
  BY <1>1, <1>2 DEF Handled
<1>5. ASSUME NEW id \in DOMAIN u.added
      PROVE  /\ id \in DOMAIN rows' /\ rows'[id].installed
             /\ rows'[id].app = AppOf(u, id) /\ rows'[id].version = VersionOf(u, id)
  BY <1>2, <1>3 DEF AppOf, VersionOf
<1>6. ASSUME NEW id \in DOMAIN u.changed
      PROVE  /\ id \in DOMAIN rows' /\ rows'[id].installed
             /\ rows'[id].app = AppOf(u, id) /\ rows'[id].version = VersionOf(u, id)
  <2>1. id \in DOMAIN rows /\ id \notin DOMAIN u.added /\ rows'[id] = Written(u, id)
    BY <1>2, <1>3
  <2>2. /\ rows'[id].app = rows[id].app
        /\ rows'[id].version = IF u.changed[id].versionToo THEN u.changed[id].version
                               ELSE rows[id].version
        /\ rows'[id].installed <=> rows[id].installed \/ u.changed[id].installedToo
    BY <2>1, WrittenFacts
  <2>3. rows'[id].version = u.changed[id].version
    BY <1>3, <2>2
  <2>4. rows'[id].installed
    BY <1>3, <2>2
  <2> QED
    BY <1>2, <2>1, <2>2, <2>3, <2>4 DEF AppOf, VersionOf
<1>7. ASSUME NEW id \in DOMAIN rows, id \notin u.seen
      PROVE  ~ rows'[id].installed
  <2>1. id \notin DOMAIN u.changed /\ id \in DOMAIN u.existing \ u.seen
    BY <1>3, <1>7
  <2>2. rows'[id].installed <=> rows[id].installed /\ ~ u.existing[id].installed
    BY <1>2, <2>1, WrittenFacts
  <2> QED
    BY <1>3, <2>2
<1>8. Shown' = u.seen
  <2>1. \A id \in u.seen : id \in DOMAIN rows' /\ rows'[id].installed
    BY <1>3, <1>5, <1>6
  <2>2. \A id \in DOMAIN rows' : rows'[id].installed => id \in u.seen
    BY <1>2, <1>3, <1>7
  <2> QED
    BY <2>1, <2>2 DEF Shown
<1>9. \A id \in u.seen : rows'[id].app = AppOf(u, id) /\ rows'[id].version = VersionOf(u, id)
  BY <1>3, <1>5, <1>6
<1>10. /\ \A k \in DOMAIN u.items : \E id \in u.seen :
            rows'[id].app = u.items[k].app /\ rows'[id].version = u.items[k].version
       /\ \A id \in u.seen : \E k \in DOMAIN u.items : rows'[id].app = u.items[k].app
       /\ \A id, other \in u.seen : rows'[id].app = rows'[other].app => id = other
  <2>1. ASSUME NEW k \in DOMAIN u.items
        PROVE  \E id \in u.seen :
                 rows'[id].app = u.items[k].app /\ rows'[id].version = u.items[k].version
    <3>1. PICK id \in u.seen : AppOf(u, id) = u.items[k].app /\ VersionOf(u, id) = u.items[k].version
      BY <1>4 DEF OneSeenEach
    <3> QED
      BY <1>9, <3>1
  <2>2. ASSUME NEW id \in u.seen PROVE \E k \in DOMAIN u.items : rows'[id].app = u.items[k].app
    <3>1. PICK k \in DOMAIN u.items : AppOf(u, id) = u.items[k].app
      BY <1>4 DEF OneSeenEach
    <3> QED
      BY <1>9, <3>1
  <2>3. \A id, other \in u.seen : rows'[id].app = rows'[other].app => id = other
    BY <1>9 DEF OneSeenEach
  <2> QED
    BY <2>1, <2>2, <2>3
<1>11. {rows'[id].app : id \in u.seen} = Listed(u.items)
  BY <1>10 DEF Listed
<1> DEFINE With(app) == {id \in DOMAIN rows' : rows'[id].app = app}
<1>12. ASSUME NEW k \in DOMAIN u.items
       PROVE  \E id \in u.seen : /\ rows'[id].version = u.items[k].version
                                 /\ u.seen \cap With(u.items[k].app) = {id}
  <2>1. PICK id \in u.seen : rows'[id].app = u.items[k].app /\ rows'[id].version = u.items[k].version
    BY <1>10
  <2>2. u.seen \subseteq DOMAIN rows'
    BY <1>8 DEF Shown
  <2>3. u.seen \cap With(u.items[k].app) = {id}
    BY <1>10, <2>1, <2>2
  <2> QED
    BY <2>1, <2>3
<1> QED
  <2>1. {rows'[id].app : id \in Shown'} = Listed(latest'.items)
    BY <1>2, <1>8, <1>11
  <2>2. \A k \in DOMAIN latest'.items :
          \E id \in Shown' : /\ rows'[id].version = latest'.items[k].version
                            /\ Shown' \cap With(latest'.items[k].app) = {id}
    BY <1>2, <1>8, <1>12
  <2> QED
    BY <2>1, <2>2 DEF InventoryExact, Found

-----------------------------------------------------------------------------
(* The steps.                                                                *)

LEMMA TypeStep ==
  ASSUME AppTypeOK, Drawn, NEW w \in Worker, Begin(w) \/ Proceed(w)
  PROVE  AppTypeOK' /\ Drawn'
<1>0. /\ ById(rows, Row) /\ nextId \in Nat \ {0}
      /\ latest \in [items : Seq(Entry), alone : BOOLEAN]
      /\ \A v \in Worker : UploadOK(uploads[v])
  BY DEF AppTypeOK
<1>1. /\ DOMAIN rows \subseteq 1 .. nextId - 1
      /\ \A v \in Worker :
           /\ DOMAIN uploads[v].added \subseteq 1 .. nextId - 1
           /\ uploads[v].step = "insert" => uploads[v].todo # << >>
  BY DEF Drawn
<1>2. CASE Begin(w)
  <2>1. /\ UNCHANGED <<rows, nextId, latest>>
        /\ uploads' = [v \in Worker |-> uploads'[v]]
        /\ \A v \in Worker : UploadOK(uploads'[v])
        /\ uploads'[w].step = "find" /\ uploads'[w].added = NoRows
        /\ \A v \in Worker : v # w => /\ uploads'[v].step = uploads[v].step
                                      /\ uploads'[v].todo = uploads[v].todo
                                      /\ uploads'[v].added = uploads[v].added
    BY <1>2, BeginFacts
  <2>2. AppTypeOK'
    BY <1>0, <2>1 DEF AppTypeOK
  <2>3. ASSUME NEW v \in Worker
        PROVE  /\ DOMAIN uploads'[v].added \subseteq 1 .. nextId - 1
               /\ uploads'[v].step = "insert" => uploads'[v].todo # << >>
    <3>1. CASE v = w
      BY <2>1, <3>1, NoRowsById
    <3>2. CASE v # w
      BY <1>1, <2>1, <3>2
    <3> QED
      BY <3>1, <3>2
  <2>4. Drawn'
    BY <1>1, <2>1, <2>3 DEF Drawn
  <2> QED
    BY <2>2, <2>4
<1>3. ASSUME NEW k, UploadOK(k), uploads' = [uploads EXCEPT ![w] = k],
             ById(rows', Row), nextId' \in Nat \ {0}, nextId' \in {nextId, nextId + 1},
             latest' \in [items : Seq(Entry), alone : BOOLEAN],
             DOMAIN rows' \subseteq 1 .. nextId' - 1, DOMAIN k.added \subseteq 1 .. nextId' - 1,
             k.step = "insert" => k.todo # << >>
      PROVE  AppTypeOK' /\ Drawn'
  <2>1. /\ uploads' = [v \in Worker |-> uploads'[v]]
        /\ uploads'[w] = k /\ \A v \in Worker : v # w => uploads'[v] = uploads[v]
        /\ \A v \in Worker : UploadOK(uploads'[v])
    BY <1>3, OneUpload
  <2>2. AppTypeOK'
    BY <1>3, <2>1 DEF AppTypeOK
  <2>3. 1 .. nextId - 1 \subseteq 1 .. nextId' - 1
    BY <1>0, <1>3
  <2>4. ASSUME NEW v \in Worker
        PROVE  /\ DOMAIN uploads'[v].added \subseteq 1 .. nextId' - 1
               /\ uploads'[v].step = "insert" => uploads'[v].todo # << >>
    <3>1. CASE v = w
      BY <1>3, <2>1, <3>1
    <3>2. CASE v # w
      BY <1>1, <2>1, <2>3, <3>2
    <3> QED
      BY <3>1, <3>2
  <2>5. Drawn'
    BY <1>3, <2>4 DEF Drawn
  <2> QED
    BY <2>2, <2>5
<1>4. CASE Find(w)
  <2>1. uploads[w].step = "find" /\ uploads[w].todo # << >> /\ UNCHANGED <<rows, nextId, latest>>
    BY <1>4, FindFacts
  <2>2. PICK k : /\ UploadOK(k) /\ uploads' = [uploads EXCEPT ![w] = k]
                 /\ k.added = uploads[w].added /\ (k.step = "insert" => k.todo # << >>)
    <3>1. PICK k : /\ UploadOK(k) /\ uploads' = [uploads EXCEPT ![w] = k]
                   /\ \/ /\ k.todo = uploads[w].todo /\ k.added = uploads[w].added
                      \/ \E id \in Found(Head(uploads[w].todo).app) :
                           k = Keep(w, id, Head(uploads[w].todo))
      BY <1>4, FindFacts
    <3>2. CASE k.todo = uploads[w].todo /\ k.added = uploads[w].added
      BY <2>1, <3>1, <3>2
    <3>3. CASE \E id \in Found(Head(uploads[w].todo).app) : k = Keep(w, id, Head(uploads[w].todo))
      <4>1. PICK id \in Found(Head(uploads[w].todo).app) : k = Keep(w, id, Head(uploads[w].todo))
        BY <3>3
      <4>2. id \in DOMAIN rows /\ Head(uploads[w].todo) \in Entry
        BY <1>0, <2>1, UploadParts, Rest DEF Found
      <4>3. k.step = uploads[w].step /\ k.added = uploads[w].added
        BY <2>1, <4>1, <4>2, KeepFacts
      <4> QED
        BY <2>1, <3>1, <4>3
    <3> QED
      BY <3>1, <3>2, <3>3
  <2> QED
    BY <1>0, <1>1, <1>3, <2>1, <2>2
<1>5. CASE Insert(w)
  <2>1. /\ nextId \in 1 .. MaxId /\ nextId' = nextId + 1 /\ UNCHANGED <<rows, latest>>
        /\ NewRow(Head(uploads[w].todo)) \in Row
        /\ \E k : /\ UploadOK(k) /\ uploads' = [uploads EXCEPT ![w] = k] /\ k.step = "find"
                  /\ k.added = Put(uploads[w].added, nextId, NewRow(Head(uploads[w].todo)))
    BY <1>5, InsertFacts
  <2>2. PICK k : /\ UploadOK(k) /\ uploads' = [uploads EXCEPT ![w] = k] /\ k.step = "find"
                 /\ k.added = Put(uploads[w].added, nextId, NewRow(Head(uploads[w].todo)))
    BY <2>1
  <2>3. DOMAIN k.added = DOMAIN uploads[w].added \cup {nextId}
    BY <2>2 DEF Put
  <2>4. /\ DOMAIN rows' \subseteq 1 .. nextId' - 1 /\ DOMAIN k.added \subseteq 1 .. nextId' - 1
        /\ nextId' \in Nat \ {0} /\ nextId' \in {nextId, nextId + 1}
    BY <1>0, <1>1, <2>1, <2>3
  <2> QED
    BY <1>0, <1>3, <2>1, <2>2, <2>4
<1>6. CASE Commit(w)
  <2>1. /\ nextId' = nextId /\ uploads' = [uploads EXCEPT ![w] = Free]
        /\ latest' \in [items : Seq(Entry), alone : BOOLEAN] /\ ById(rows', Row)
        /\ DOMAIN rows' = DOMAIN rows \cup DOMAIN uploads[w].added
    BY <1>6, CommitFacts
  <2>2. UploadOK(Free) /\ DOMAIN Free.added = {} /\ Free.step # "insert"
    BY FreeIsUpload, NoRowsById
  <2> QED
    BY <1>0, <1>1, <1>3, <2>1, <2>2
<1>7. CASE Refuse(w) \/ BreakDeadlock(w) \/ Fail(w)
  <2>1. UNCHANGED <<rows, nextId, latest>> /\ uploads' = [uploads EXCEPT ![w] = Free]
    BY <1>7, RollbackFacts
  <2>2. UploadOK(Free) /\ DOMAIN Free.added = {} /\ Free.step # "insert"
    BY FreeIsUpload, NoRowsById
  <2> QED
    BY <1>0, <1>1, <1>3, <2>1, <2>2
<1> QED
  BY <1>2, <1>4, <1>5, <1>6, <1>7 DEF Proceed

\* An upload that has not been joined by another works on what is there.
Orderly ==
  \A w \in Running : uploads[w].alone =>
    /\ Running = {w}
    /\ Current(uploads[w]) /\ RestOfList(uploads[w]) /\ OneSeenEach(uploads[w])

LEMMA Steady ==
  ASSUME rows' = rows, NEW w, NEW k, uploads'[w] = k,
         Current(k), RestOfList(k), OneSeenEach(k)
  PROVE  Current(uploads[w])' /\ RestOfList(uploads[w])' /\ OneSeenEach(uploads[w])'
<1>1. Current(uploads[w])'
  BY DEF Current
<1>2. RestOfList(uploads[w])'
  BY DEF RestOfList
<1>3. OneSeenEach(uploads[w])'
  <2>1. Handled(uploads[w])' = Handled(k) /\ uploads'[w].seen = k.seen /\ uploads'[w].items = k.items
    BY DEF Handled
  <2>2. \A id \in k.seen : AppOf(k, id) = (IF id \in DOMAIN k.added THEN k.added[id].app ELSE rows'[id].app)
    BY DEF AppOf
  <2> QED
    BY <2>1, <2>2 DEF OneSeenEach, AppOf, VersionOf
<1> QED
  BY <1>1, <1>2, <1>3

LEMMA OrderlyStep ==
  ASSUME AppTypeOK, Drawn, Orderly, NEW w \in Worker, Begin(w) \/ Proceed(w)
  PROVE  Orderly'
<1> SUFFICES ASSUME NEW v \in Worker, uploads'[v].step # "free", uploads'[v].alone
             PROVE  /\ Running' = {v}
                    /\ Current(uploads[v])' /\ RestOfList(uploads[v])' /\ OneSeenEach(uploads[v])'
  BY DEF Orderly, Running
<1>0. \A x \in Worker : UploadOK(uploads[x])
  BY DEF AppTypeOK
<1>1. CASE Begin(w)
  <2>1. PICK items \in Upload :
          /\ uploads'[w].step = "find" /\ uploads'[w].items = items /\ uploads'[w].todo = items
          /\ uploads'[w].existing = rows /\ uploads'[w].seen = {} /\ uploads'[w].added = NoRows
          /\ uploads'[w].changed = NoRows /\ (uploads'[w].alone => Running = {})
    BY <1>1, BeginFacts
  <2>2. /\ rows' = rows
        /\ \A x \in Worker : x # w => /\ uploads'[x].alone => x \notin Running
                                      /\ uploads'[x].step = uploads[x].step
    BY <1>1, BeginFacts
  <2>3. v = w
    BY <2>2 DEF Running
  <2>4. Running' = {w}
    <3>1. \A x \in Worker : uploads[x].step = "free"
      BY <2>1, <2>3 DEF Running
    <3> QED
      BY <2>1, <2>2, <3>1 DEF Running
  <2>5. Current(uploads'[w]) /\ RestOfList(uploads'[w]) /\ OneSeenEach(uploads'[w])
    <3> DEFINE k == uploads'[w]
    <3>1. /\ k.items = items /\ k.todo = items /\ k.existing = rows /\ k.seen = {}
          /\ k.added = NoRows /\ k.changed = NoRows
      BY <2>1
    <3> HIDE DEF k
    <3>2. Current(k) /\ RestOfList(k) /\ OneSeenEach(k)
      BY <3>1, BeginsAlone
    <3> QED
      BY <3>2 DEF k
  <2> QED
    BY <2>2, <2>3, <2>4, <2>5, Steady
<1>2. ASSUME NEW k, UploadOK(k), uploads' = [uploads EXCEPT ![w] = k],
             rows' = rows, w \in Running, k.step # "free", k.alone = uploads[w].alone,
             Running = {w} /\ Current(uploads[w]) /\ RestOfList(uploads[w])
                /\ OneSeenEach(uploads[w])
             => Current(k) /\ RestOfList(k) /\ OneSeenEach(k)
      PROVE  /\ Running' = {v}
             /\ Current(uploads[v])' /\ RestOfList(uploads[v])' /\ OneSeenEach(uploads[v])'
  <2>1. uploads'[w] = k /\ \A x \in Worker : x # w => uploads'[x] = uploads[x]
    BY <1>2, OneUpload
  <2>2. v = w
    BY <1>2, <2>1 DEF Orderly, Running
  <2>3. /\ Running = {w} /\ Current(uploads[w]) /\ RestOfList(uploads[w])
        /\ OneSeenEach(uploads[w])
    BY <1>2, <2>1, <2>2 DEF Orderly
  <2>4. Running' = {w}
    BY <1>2, <2>1, <2>3 DEF Running
  <2> QED
    BY <1>2, <2>1, <2>2, <2>3, <2>4, Steady
<1>3. ASSUME w \in Running, uploads' = [uploads EXCEPT ![w] = Free] PROVE FALSE
  <2>1. uploads'[w] = Free /\ \A x \in Worker : x # w => uploads'[x] = uploads[x]
    BY <1>3, OneUpload, FreeIsUpload
  <2>2. v # w
    BY <2>1, FreeIsUpload
  <2> QED
    BY <1>3, <2>1, <2>2 DEF Orderly, Running
<1>4. CASE Find(w)
  <2>1. uploads[w].step = "find" /\ uploads[w].todo # << >> /\ rows' = rows
    BY <1>4, FindFacts
  <2>2. w \in Running
    BY <2>1 DEF Running
  <2>3. PICK k : /\ UploadOK(k) /\ uploads' = [uploads EXCEPT ![w] = k]
                 /\ \/ /\ k.step = "insert" /\ k.items = uploads[w].items
                       /\ k.todo = uploads[w].todo /\ k.existing = uploads[w].existing
                       /\ k.seen = uploads[w].seen /\ k.added = uploads[w].added
                       /\ k.changed = uploads[w].changed /\ k.alone = uploads[w].alone
                    \/ \E id \in Found(Head(uploads[w].todo).app) :
                         k = Keep(w, id, Head(uploads[w].todo))
    BY <1>4, FindFacts
  <2>4. CASE /\ k.step = "insert" /\ k.items = uploads[w].items
             /\ k.todo = uploads[w].todo /\ k.existing = uploads[w].existing
             /\ k.seen = uploads[w].seen /\ k.added = uploads[w].added
             /\ k.changed = uploads[w].changed /\ k.alone = uploads[w].alone
    <3>1. ASSUME Current(uploads[w]), RestOfList(uploads[w]), OneSeenEach(uploads[w])
          PROVE  Current(k) /\ RestOfList(k) /\ OneSeenEach(k)
      <4>1. Current(k) /\ RestOfList(k)
        BY <2>4, <3>1 DEF Current, RestOfList
      <4>2. /\ Handled(k) = Handled(uploads[w])
            /\ \A id \in k.seen : /\ AppOf(k, id) = AppOf(uploads[w], id)
                                 /\ VersionOf(k, id) = VersionOf(uploads[w], id)
        BY <2>4 DEF Handled, AppOf, VersionOf
      <4>3. OneSeenEach(k)
        BY <2>4, <3>1, <4>2 DEF OneSeenEach
      <4> QED
        BY <4>1, <4>3
    <3>2. k.step # "free" /\ k.alone = uploads[w].alone
      BY <2>4
    <3> QED
      BY <1>2, <2>1, <2>2, <2>3, <3>1, <3>2
  <2>5. CASE \E id \in Found(Head(uploads[w].todo).app) : k = Keep(w, id, Head(uploads[w].todo))
    <3>1. PICK id \in Found(Head(uploads[w].todo).app) : k = Keep(w, id, Head(uploads[w].todo))
      BY <2>5
    <3>2. id \in DOMAIN rows /\ Head(uploads[w].todo) \in Entry
      BY <1>0, <2>1, UploadParts, Rest DEF Found
    <3>3. k.step = uploads[w].step /\ k.alone = uploads[w].alone
      <4>1. PICK item \in Entry : k = Keep(w, id, item)
        BY <3>1, <3>2
      <4>2. /\ Keep(w, id, item).step = uploads[w].step
            /\ Keep(w, id, item).alone = uploads[w].alone
        BY <2>1, <3>2, KeepFacts
      <4> QED
        BY <4>1, <4>2
    <3>4. ASSUME Current(uploads[w]), RestOfList(uploads[w]), OneSeenEach(uploads[w])
          PROVE  Current(k) /\ RestOfList(k) /\ OneSeenEach(k)
      <4>1. uploads[w].todo # << >>
        BY <2>1
      <4> DEFINE kept == Keep(w, id, Head(uploads[w].todo))
      <4>2. Current(kept) /\ RestOfList(kept) /\ OneSeenEach(kept)
        BY <3>1, <3>4, <4>1, KeepsAlone
      <4> HIDE DEF kept
      <4>3. k = kept
        BY <3>1 DEF kept
      <4> QED
        BY <4>2, <4>3, Zenon
    <3> QED
      BY <1>2, <2>1, <2>2, <2>3, <3>3, <3>4
  <2> QED
    BY <2>3, <2>4, <2>5
<1>5. CASE Insert(w)
  <2>1. /\ uploads[w].step = "insert" /\ uploads[w].todo # << >>
        /\ nextId \in 1 .. MaxId /\ rows' = rows
    BY <1>5, InsertFacts
  <2>2. w \in Running
    BY <2>1 DEF Running
  <2>3. PICK k : /\ UploadOK(k) /\ uploads' = [uploads EXCEPT ![w] = k]
                 /\ k.step = "find" /\ k.items = uploads[w].items
                 /\ k.existing = uploads[w].existing
                 /\ k.changed = uploads[w].changed /\ k.alone = uploads[w].alone
                 /\ k.todo = Tail(uploads[w].todo) /\ k.seen = uploads[w].seen \cup {nextId}
                 /\ k.added = Put(uploads[w].added, nextId, NewRow(Head(uploads[w].todo)))
    BY <1>5, InsertFacts
  <2>4. ASSUME Current(uploads[w]), RestOfList(uploads[w]), OneSeenEach(uploads[w])
        PROVE  Current(k) /\ RestOfList(k) /\ OneSeenEach(k)
    BY <2>1, <2>3, <2>4, InsertsAlone
  <2> QED
    BY <1>2, <2>1, <2>2, <2>3, <2>4
<1>6. CASE Commit(w)
  BY <1>3, <1>6, CommitFacts
<1>7. CASE Refuse(w) \/ BreakDeadlock(w) \/ Fail(w)
  BY <1>3, <1>7, RollbackFacts
<1> QED
  BY <1>1, <1>4, <1>5, <1>6, <1>7 DEF Proceed

LEMMA ExactStep ==
  ASSUME AppTypeOK, Drawn, Orderly, InventoryExact, NEW w \in Worker, Begin(w) \/ Proceed(w)
  PROVE  InventoryExact'
<1>1. CASE rows' = rows /\ latest' = latest
  BY <1>1 DEF InventoryExact, Shown, Found
<1>2. CASE Commit(w)
  <2>1. w \in Running /\ latest'.alone = uploads[w].alone
    BY <1>2, CommitFacts
  <2>2. CASE uploads[w].alone
    BY <1>2, <2>1, <2>2, CommitsAlone DEF Orderly
  <2>3. CASE ~ uploads[w].alone
    BY <2>1, <2>3 DEF InventoryExact
  <2> QED
    BY <2>2, <2>3
<1>3. CASE ~ Commit(w)
  <2>1. rows' = rows /\ latest' = latest
    BY <1>3 DEF Begin, Proceed, Find, Insert, Refuse, BreakDeadlock, Fail, Rollback
  <2> QED
    BY <1>1, <2>1
<1> QED
  BY <1>2, <1>3

LEMMA AppInitial == AppInit => AppIInv
<1> SUFFICES ASSUME AppInit PROVE AppIInv
  OBVIOUS
<1>1. /\ rows = NoRows /\ nextId = 1 /\ uploads = [w \in Worker |-> Free]
      /\ latest = [items |-> << >>, alone |-> TRUE]
  BY DEF AppInit
<1>2. latest \in [items : Seq(Entry), alone : BOOLEAN] /\ latest.items = << >>
  BY <1>1
<1>3. AppTypeOK
  BY <1>1, <1>2, FreeIsUpload, NoRowsById DEF AppTypeOK
<1>4. Drawn
  BY <1>1, FreeIsUpload, NoRowsById DEF Drawn
<1>5. Running = {}
  BY <1>1, FreeIsUpload DEF Running
<1>6. InventoryExact
  <2>1. Shown = {} /\ DOMAIN latest.items = {}
    BY <1>1, <1>2, NoRowsById DEF Shown
  <2> QED
    BY <2>1 DEF InventoryExact, Listed
<1> QED
  BY <1>3, <1>4, <1>5, <1>6 DEF AppIInv

\* Every upload keeps the inductive invariant.
LEMMA AppStep ==
  ASSUME AppIInv, [AppNext]_appVars
  PROVE  AppIInv'
<1>1. AppTypeOK /\ Drawn /\ InventoryExact /\ Orderly
  BY DEF AppIInv, Orderly
<1>2. ASSUME NEW w \in Worker, Begin(w) \/ Proceed(w) PROVE AppIInv'
  <2>1. AppTypeOK' /\ Drawn' /\ InventoryExact' /\ Orderly'
    BY <1>1, <1>2, TypeStep, OrderlyStep, ExactStep
  <2> QED
    BY <2>1 DEF AppIInv, Orderly
<1>3. CASE UNCHANGED appVars
  <2>1. AppTypeOK' /\ Drawn' /\ InventoryExact'
    BY <1>1, <1>3 DEF appVars, AppTypeOK, Drawn, InventoryExact, Shown, Found
  <2>2. Running' = Running /\ rows' = rows /\ uploads' = uploads
    BY <1>3 DEF appVars, Running
  <2>3. Orderly'
    BY <1>1, <2>2, Steady DEF Orderly
  <2> QED
    BY <2>1, <2>3 DEF AppIInv, Orderly
<1> QED
  BY <1>2, <1>3 DEF AppNext

-----------------------------------------------------------------------------
(* The theorems.                                                             *)

(* The inductive invariant holds in every reachable state: an upload that no *)
(* other one has joined works on the rows as they are, has one row for each  *)
(* item it is done with, and the rest of its list before it                  *)
(* (installed_application_service.py 34-128).                                *)
THEOREM AppInvariance == AppSpec => []AppIInv
<1>1. AppInit => AppIInv
  BY AppInitial
<1>2. AppIInv /\ [AppNext]_appVars => AppIInv'
  BY AppStep
<1> QED
  BY <1>1, <1>2, PTL DEF AppSpec

(* The rows, the ids and what every upload has in hand are well formed.      *)
THEOREM AppTypeCorrect == AppSpec => []AppTypeOK
<1>1. AppIInv => AppTypeOK
  BY DEF AppIInv
<1> QED
  BY <1>1, AppInvariance, PTL

(* For any number of threads and any lists: when the upload that committed   *)
(* last ran alone, the device page shows exactly what it listed, whatever    *)
(* the overlapping uploads before it had left                                *)
(* (installed_application_service.py 48-117).                                *)
THEOREM InventoryIsExact == AppSpec => []InventoryExact
<1>1. AppIInv => InventoryExact
  BY DEF AppIInv
<1> QED
  BY <1>1, AppInvariance, PTL

-----------------------------------------------------------------------------
(* The row of a device.                                                      *)

Kinds == {"heartbeat", "inventory", "applications", "sync", "register"}

DeviceRow == [exists : BOOLEAN, token : BOOLEAN,
              lastSeen : Nat \cup {Null}, tokenUsed : Nat \cup {Null}]

LEMMA IdleIsCall ==
  /\ Idle \in Call
  /\ Idle.kind = "none" /\ Idle.step = "free" /\ Idle.now = Null /\ Idle.loaded = Null
BY DEF Idle, Call

LEMMA OneCall ==
  ASSUME TypeOK, NEW w \in Worker, NEW c \in Call, calls' = [calls EXCEPT ![w] = c]
  PROVE  /\ calls' \in [Worker -> Call] /\ calls'[w] = c
         /\ \A v \in Worker : v # w => calls'[v] = calls[v]
         /\ \A v \in Worker : calls'[v] = c \/ calls'[v] = calls[v]
BY DEF TypeOK

\* What TypeOK says, by column.
LEMMA Columns ==
  ASSUME TypeOK
  PROVE  /\ device.lastSeen \in Nat \cup {Null} /\ device.tokenUsed \in Nat \cup {Null}
         /\ \A w \in Worker :
              /\ calls[w] \in Call
              /\ calls[w].kind \in {"none", "heartbeat", "inventory", "applications", "register"}
              /\ calls[w].step \in {"free", "stamp", "store", "beat", "upload"}
              /\ calls[w].loaded \in Nat \cup {Null} /\ calls[w].now \in Nat \cup {Null}
         /\ clock \in Nat /\ answered \in Nat \cup {Null} /\ Null \notin Nat
<1>1. \A w \in Worker : calls[w] \in Call
  BY DEF TypeOK
<1>2. device \in [exists : BOOLEAN, token : BOOLEAN,
                  lastSeen : Nat \cup {Null}, tokenUsed : Nat \cup {Null}]
  BY DEF TypeOK
<1>3. device.lastSeen \in Nat \cup {Null} /\ device.tokenUsed \in Nat \cup {Null}
  BY <1>2
<1>4. \A w \in Worker :
         /\ calls[w].kind \in {"none", "heartbeat", "inventory", "applications", "register"}
         /\ calls[w].step \in {"free", "stamp", "store", "beat", "upload"}
         /\ calls[w].loaded \in Nat \cup {Null} /\ calls[w].now \in Nat \cup {Null}
  BY <1>1 DEF Call
<1>5. clock \in Nat /\ answered \in Nat \cup {Null}
  BY DEF TypeOK
<1> QED
  BY <1>1, <1>3, <1>4, <1>5, DeviceAssumption

\* A write of last_seen and of the two flags of a row.
LEMMA RowWritten ==
  ASSUME TypeOK, NEW w \in Worker, calls[w].now # Null
  PROVE  LET seen == Seen(w)
             new == [Seen(w) EXCEPT !.exists = TRUE, !.token = TRUE]
             written == IF calls[w].now = calls[w].loaded THEN device.lastSeen ELSE calls[w].now
         IN  /\ seen \in DeviceRow /\ seen.lastSeen = written
             /\ new \in DeviceRow /\ new.lastSeen = written
<1> DEFINE seen == Seen(w)
           written == IF calls[w].now = calls[w].loaded THEN device.lastSeen ELSE calls[w].now
<1>1. device \in DeviceRow
  BY DEF TypeOK, DeviceRow
<1>2. written \in Nat \cup {Null} /\ calls[w].now \in Nat \cup {Null}
  BY Columns
<1>3. seen = [device EXCEPT !.lastSeen = written, !.tokenUsed = calls[w].now]
  BY DEF Seen
<1> HIDE DEF written
<1>4. seen \in DeviceRow /\ seen.lastSeen = written
  BY <1>1, <1>2, <1>3 DEF DeviceRow
<1>5. [seen EXCEPT !.exists = TRUE, !.token = TRUE] \in DeviceRow
      /\ [seen EXCEPT !.exists = TRUE, !.token = TRUE].lastSeen = seen.lastSeen
  BY <1>4 DEF DeviceRow
<1> QED
  BY <1>4, <1>5 DEF written

\* What a request has read when it is let in.
LEMMA Received ==
  ASSUME TypeOK, NEW w \in Worker, NEW kind \in Kinds, Receive(w, kind)
  PROVE  /\ device' \in DeviceRow /\ device'.lastSeen = device.lastSeen
         /\ \E c \in Call :
              /\ calls' = [calls EXCEPT ![w] = c]
              /\ kind = "sync" => c = Idle
              /\ kind # "sync" => /\ c.kind = kind /\ c.step = FirstStep(kind)
                                  /\ c.loaded = device.lastSeen
                                  /\ c.now = IF kind = "register" THEN clock ELSE Null
<1>1. device \in DeviceRow /\ clock \in Nat
  BY DEF TypeOK, DeviceRow
<1>2. device' \in DeviceRow /\ device'.lastSeen = device.lastSeen
  <2>1. CASE device' = device
    BY <1>1, <2>1
  <2>2. CASE device' = [device EXCEPT !.tokenUsed = clock]
    BY <1>1, <2>2 DEF DeviceRow
  <2> QED
    BY <2>1, <2>2 DEF Receive
<1>3. CASE kind = "sync"
  BY <1>2, <1>3, IdleIsCall DEF Receive
<1>4. CASE kind # "sync"
  <2> DEFINE now == IF kind = "register" THEN clock ELSE Null
             c == [kind |-> kind, step |-> FirstStep(kind), found |-> device.exists,
                   loaded |-> device.lastSeen, now |-> now]
  <2>1. calls' = [calls EXCEPT ![w] = c]
    BY <1>4 DEF Receive
  <2>2. device.exists \in BOOLEAN
    BY <1>1 DEF DeviceRow
  <2>3. device.lastSeen \in Nat \cup {Null} /\ now \in Nat \cup {Null}
    BY <1>1 DEF DeviceRow
  <2>4. FirstStep(kind) \in {"free", "stamp", "store", "beat", "upload"}
    BY DEF FirstStep
  <2>5. kind \in {"none", "heartbeat", "inventory", "applications", "register"}
    BY <1>4 DEF Kinds
  <2>6. c \in Call
    <3> HIDE DEF now
    <3> QED
      BY <2>2, <2>3, <2>4, <2>5 DEF Call
  <2>7. /\ c.kind = kind /\ c.step = FirstStep(kind)
        /\ c.loaded = device.lastSeen /\ c.now = now
    OBVIOUS
  <2> QED
    BY <1>2, <1>4, <2>1, <2>6, <2>7
<1> QED
  BY <1>3, <1>4

LEMMA Stamped ==
  ASSUME TypeOK, NEW w \in Worker, Stamp(w)
  PROVE  \E c \in Call :
           /\ calls' = [calls EXCEPT ![w] = c]
           /\ c.kind = calls[w].kind /\ c.loaded = calls[w].loaded
           /\ c.step = "store" /\ c.now = clock
<1> DEFINE c == [calls[w] EXCEPT !.step = "store", !.now = clock]
<1>1. calls[w] \in Call /\ clock \in Nat /\ calls \in [Worker -> Call]
  BY DEF TypeOK
<1>2. c \in Call
  BY <1>1 DEF Call
<1>3. /\ c.kind = calls[w].kind /\ c.loaded = calls[w].loaded
      /\ c.step = "store" /\ c.now = clock
  BY <1>1 DEF Call
<1>4. calls' = [calls EXCEPT ![w] = c]
  BY <1>1 DEF Stamp
<1> QED
  BY <1>2, <1>3, <1>4

\* What a write does to the row: it sets last_seen, or leaves it.
LEMMA Stored ==
  ASSUME TypeOK, Timely, NEW w \in Worker, Store(w)
  PROVE  /\ device' \in DeviceRow
         /\ calls[w].now # Null
         /\ \E c \in Call :
              /\ calls' = [calls EXCEPT ![w] = c]
              /\ \/ /\ calls[w].kind = "heartbeat"
                    /\ c.kind = "heartbeat" /\ c.step = "beat" /\ c.now = calls[w].now
                    /\ device'.lastSeen = IF calls[w].now = calls[w].loaded
                                          THEN device.lastSeen ELSE calls[w].now
                 \/ /\ c = Idle
                    /\ device'.lastSeen = device.lastSeen
                 \/ /\ c = Idle /\ calls[w].kind = "register"
                    /\ device'.lastSeen = IF calls[w].now = calls[w].loaded
                                          THEN device.lastSeen ELSE calls[w].now
<1>1. calls[w].now # Null /\ calls[w].step = "store"
  BY DEF Store, Timely
<1>2. device \in DeviceRow /\ calls[w] \in Call /\ calls \in [Worker -> Call]
  BY DEF TypeOK, DeviceRow
<1> DEFINE written == IF calls[w].now = calls[w].loaded THEN device.lastSeen ELSE calls[w].now
           new == [Seen(w) EXCEPT !.exists = TRUE, !.token = TRUE]
<1>3. /\ Seen(w) \in DeviceRow /\ Seen(w).lastSeen = written
      /\ new \in DeviceRow /\ new.lastSeen = written
  BY <1>1, RowWritten DEF DeviceRow
<1> HIDE DEF written, new
<1>4. CASE calls[w].kind = "heartbeat"
  <2> DEFINE c == [calls[w] EXCEPT !.step = "beat"]
  <2>1. c \in Call /\ c.kind = calls[w].kind /\ c.step = "beat" /\ c.now = calls[w].now
    BY <1>2 DEF Call
  <2>2. device' = Seen(w)
    BY <1>4 DEF Store
  <2>3. calls' = [calls EXCEPT ![w] = c]
    BY <1>2, <1>4 DEF Store
  <2> HIDE DEF c
  <2> QED
    BY <1>1, <1>3, <1>4, <2>1, <2>2, <2>3 DEF written
<1>5. CASE calls[w].kind = "inventory"
  <2>1. device' = device /\ calls' = [calls EXCEPT ![w] = Idle]
    BY <1>5 DEF Store, Touched
  <2> QED
    BY <1>1, <1>2, <2>1, IdleIsCall
<1>6. CASE calls[w].kind = "register"
  <2>1. /\ device' = device \/ device' = new
        /\ calls' = [calls EXCEPT ![w] = Idle]
    BY <1>6 DEF Store, new
  <2> QED
    BY <1>1, <1>2, <1>3, <1>6, <2>1, IdleIsCall DEF written
<1> QED
  BY <1>4, <1>5, <1>6 DEF Store
-----------------------------------------------------------------------------
(* Types and times.                                                          *)

\* What Timely says of a call.
Sound(c) == Until(c.now) /\ (c.step \in {"store", "beat"} => c.now # Null)

LEMMA CallsSound ==
  ASSUME TypeOK, Timely, NEW w \in Worker, NEW c \in Call, Sound(c),
         calls' = [calls EXCEPT ![w] = c], clock' = clock
  PROVE  calls' \in [Worker -> Call] /\ \A v \in Worker : Sound(calls[v])'
<1>1. /\ calls' \in [Worker -> Call]
      /\ \A v \in Worker : calls'[v] = c \/ calls'[v] = calls[v]
  BY OneCall
<1>2. \A v \in Worker : Sound(calls[v])
  BY DEF Timely, Sound
<1> QED
  BY <1>1, <1>2 DEF Sound, Until

LEMMA IdleIsSound == Sound(Idle)
BY IdleIsCall DEF Sound, Until

\* A step that leaves the heartbeats alone.
LEMMA NoBeat ==
  ASSUME TypeOK, Timely, Recorded, UNCHANGED <<beats, answered, clock>>,
         device' \in DeviceRow, Until(device'.lastSeen),
         calls' \in [Worker -> Call], \A v \in Worker : Sound(calls[v])',
         requests' \in Nat, disturbed' \in BOOLEAN
  PROVE  TypeOK' /\ Timely' /\ Recorded'
<1>1. TypeOK'
  BY DEF TypeOK, DeviceRow
<1>2. Timely'
  BY DEF Timely, Until, Sound
<1>3. Recorded'
  BY DEF Recorded, Health
<1> QED
  BY <1>1, <1>2, <1>3

LEMMA SoundStep ==
  ASSUME TypeOK, Timely, Recorded, [Next]_vars
  PROVE  TypeOK' /\ Timely' /\ Recorded'
<1> USE DEF Until
<1>0. /\ device \in DeviceRow /\ device.lastSeen \in Nat \cup {Null} /\ clock \in Nat
      /\ requests \in Nat /\ Until(device.lastSeen)
      /\ calls \in [Worker -> Call] /\ \A v \in Worker : Sound(calls[v])
  BY Columns DEF TypeOK, DeviceRow, Timely, Sound
<1>1. CASE UNCHANGED deviceVars
  BY <1>1 DEF deviceVars, TypeOK, Timely, Recorded, Health
<1>2. CASE CreateDevice
  <2>1. device' = [device EXCEPT !.exists = TRUE, !.lastSeen = clock]
    BY <1>2 DEF CreateDevice
  <2>2. device' \in DeviceRow /\ device'.lastSeen = clock
    BY <1>0, <2>1 DEF DeviceRow
  <2>3. /\ UNCHANGED <<beats, calls, clock, requests, answered>> /\ disturbed' \in BOOLEAN
    BY <1>2 DEF CreateDevice
  <2>4. \A v \in Worker : Sound(calls[v])'
    BY <1>0, <2>3 DEF Sound
  <2> QED
    BY <1>0, <2>2, <2>3, <2>4, NoBeat
<1>3. CASE UpdateDevice
  <2>1. PICK time \in 1 .. clock : device' = [device EXCEPT !.lastSeen = time]
    BY <1>3 DEF UpdateDevice
  <2>2. device' \in DeviceRow /\ device'.lastSeen = time /\ time <= clock
    BY <1>0, <2>1 DEF DeviceRow
  <2>3. /\ UNCHANGED <<beats, calls, clock, requests, answered>> /\ disturbed' \in BOOLEAN
    BY <1>3 DEF UpdateDevice
  <2>4. \A v \in Worker : Sound(calls[v])'
    BY <1>0, <2>3 DEF Sound
  <2> QED
    BY <1>0, <2>2, <2>3, <2>4, NoBeat
<1>4. CASE Tick
  <2>1. UNCHANGED <<device, beats, calls, requests, answered, disturbed>> /\ clock' = clock + 1
    BY <1>4 DEF Tick
  <2>2. TypeOK' /\ Recorded'
    BY <1>0, <2>1 DEF TypeOK, Recorded, Health
  <2>3. /\ \A time \in Nat \cup {Null} : Until(time) => Until(time)'
        /\ \A b \in Nat : b <= clock => b <= clock'
    BY <1>0, <2>1
  <2>4. Timely'
    BY <2>1, <2>3, Columns DEF Timely, TypeOK
  <2> QED
    BY <2>2, <2>4
<1>5. ASSUME NEW w \in Worker, NEW kind \in Kinds, Receive(w, kind)
      PROVE  TypeOK' /\ Timely' /\ Recorded'
  <2>1. PICK c \in Call :
          /\ calls' = [calls EXCEPT ![w] = c]
          /\ kind = "sync" => c = Idle
          /\ kind # "sync" => /\ c.step = FirstStep(kind)
                              /\ c.now = IF kind = "register" THEN clock ELSE Null
    BY <1>5, Received
  <2>2. Sound(c)
    <3>1. CASE kind = "sync"
      BY <2>1, <3>1, IdleIsSound
    <3>2. CASE kind = "register"
      BY <1>0, <2>1, <3>2, Columns DEF Sound
    <3>3. CASE kind \notin {"sync", "register"}
      BY <2>1, <3>3 DEF Sound, FirstStep
    <3> QED
      BY <3>1, <3>2, <3>3
  <2>3. UNCHANGED <<beats, clock, answered>> /\ requests' \in Nat /\ disturbed' \in BOOLEAN
    BY <1>0, <1>5 DEF Receive, TypeOK
  <2>4. device' \in DeviceRow /\ device'.lastSeen = device.lastSeen
    BY <1>5, Received
  <2>5. calls' \in [Worker -> Call] /\ \A v \in Worker : Sound(calls[v])'
    BY <2>1, <2>2, <2>3, CallsSound
  <2> QED
    BY <1>0, <2>3, <2>4, <2>5, NoBeat
<1>6. ASSUME NEW w \in Worker, Stamp(w) PROVE TypeOK' /\ Timely' /\ Recorded'
  <2>1. PICK c \in Call :
          calls' = [calls EXCEPT ![w] = c] /\ c.step = "store" /\ c.now = clock
    BY <1>6, Stamped
  <2>2. UNCHANGED <<device, beats, clock, requests, answered, disturbed>>
    BY <1>6 DEF Stamp
  <2>3. Sound(c)
    BY <1>0, <2>1, Columns DEF Sound
  <2>4. calls' \in [Worker -> Call] /\ \A v \in Worker : Sound(calls[v])'
    BY <2>1, <2>2, <2>3, CallsSound
  <2> QED
    BY <1>0, <2>2, <2>4, NoBeat DEF TypeOK
<1>7. ASSUME NEW w \in Worker, Store(w) PROVE TypeOK' /\ Timely' /\ Recorded'
  <2>1. PICK c \in Call :
          /\ calls' = [calls EXCEPT ![w] = c]
          /\ c = Idle \/ (c.step = "beat" /\ c.now = calls[w].now)
    BY <1>7, Stored
  <2>2. /\ UNCHANGED <<beats, clock, requests, answered, disturbed>>
    BY <1>7 DEF Store
  <2>3. Sound(c)
    <3>1. calls[w].now # Null /\ Until(calls[w].now)
      BY <1>0, <1>7, Stored DEF Sound
    <3> QED
      BY <2>1, <3>1, IdleIsSound DEF Sound
  <2>4. calls' \in [Worker -> Call] /\ \A v \in Worker : Sound(calls[v])'
    BY <2>1, <2>2, <2>3, CallsSound
  <2>5. device' \in DeviceRow /\ Until(device'.lastSeen)
    BY <1>0, <1>7, Stored DEF Sound
  <2> QED
    BY <1>0, <2>2, <2>4, <2>5, NoBeat DEF TypeOK
<1>8. ASSUME NEW w \in Worker, Beat(w) PROVE TypeOK' /\ Timely' /\ Recorded'
  <2>1. /\ beats' = beats \cup {clock} /\ answered' = calls[w].now
        /\ calls' = [calls EXCEPT ![w] = Idle]
        /\ UNCHANGED <<device, clock, requests, disturbed>>
    BY <1>8 DEF Beat
  <2>2. calls' \in [Worker -> Call] /\ \A v \in Worker : Sound(calls[v])'
    BY <2>1, IdleIsCall, IdleIsSound, CallsSound
  <2>3. calls[w].now \in Nat \cup {Null} /\ Until(calls[w].now) /\ calls[w].now # Null
    BY <1>0, <1>8, Columns DEF Sound, Beat
  <2>4. TypeOK'
    BY <1>0, <2>1, <2>2, <2>3 DEF TypeOK
  <2>5. Timely'
    BY <1>0, <2>1, <2>2, <2>3 DEF Timely, Sound
  <2>6. clock \in Health'
    BY <1>0, <2>1 DEF Health, Timely
  <2> QED
    BY <2>1, <2>3, <2>4, <2>5, <2>6 DEF Recorded
<1>9. ASSUME NEW w \in Worker, BeginUpload(w) \/ Break(w) PROVE TypeOK' /\ Timely' /\ Recorded'
  <2>1. /\ calls' = [calls EXCEPT ![w] = Idle]
        /\ UNCHANGED <<device, beats, clock, requests, answered, disturbed>>
    BY <1>9 DEF BeginUpload, Break
  <2>2. calls' \in [Worker -> Call] /\ \A v \in Worker : Sound(calls[v])'
    BY <2>1, IdleIsCall, IdleIsSound, CallsSound
  <2> QED
    BY <1>0, <2>1, <2>2, NoBeat DEF TypeOK
<1> QED
  BY <1>1, <1>2, <1>3, <1>4, <1>5, <1>6, <1>7, <1>8, <1>9 DEF Next, vars, deviceVars, Kinds

-----------------------------------------------------------------------------
(* last_seen, as long as nobody writes it out of order.                      *)

\* The requests that will write last_seen, after a change of one request.
LEMMA StampingNext ==
  ASSUME TypeOK, NEW w \in Worker, NEW c \in Call, calls' = [calls EXCEPT ![w] = c]
  PROVE  /\ \A v \in Worker : v # w => (v \in Stamping' <=> v \in Stamping)
         /\ w \in Stamping' <=> c.kind \in {"heartbeat", "register"} /\ c.step \in {"stamp", "store"}
         /\ Stamping' \subseteq Worker /\ Stamping \subseteq Worker
BY OneCall DEF Stamping

\* A step of a request that leaves last_seen alone.
LEMMA RowKept ==
  ASSUME TypeOK, Timely, Undisturbed, NEW w \in Worker, NEW c \in Call,
         calls' = [calls EXCEPT ![w] = c], device'.lastSeen = device.lastSeen,
         answered' = answered,
         w \in Stamping' =>
           /\ Stamping \subseteq {w} /\ c.loaded = device.lastSeen
           /\ c.step = "store" => c.now = clock,
         c.step = "beat" => device.lastSeen # Null /\ c.now <= device.lastSeen
  PROVE  Undisturbed'
<1>1. /\ calls'[w] = c /\ \A v \in Worker : v # w => calls'[v] = calls[v]
  BY OneCall
<1>2. /\ \A v \in Worker : v # w => (v \in Stamping' <=> v \in Stamping)
      /\ Stamping' \subseteq Worker /\ Stamping \subseteq Worker
  BY StampingNext
<1>3. \A u, v \in Stamping' : u = v
  BY <1>2 DEF Undisturbed
<1>4. ASSUME NEW v \in Stamping'
      PROVE  /\ calls'[v].loaded = device'.lastSeen
             /\ calls'[v].step = "store" /\ device'.lastSeen # Null
                  => device'.lastSeen <= calls'[v].now
  <2>1. CASE v = w
    BY <1>1, <2>1 DEF Timely, Until
  <2>2. CASE v # w
    BY <1>1, <1>2, <2>2 DEF Undisturbed
  <2> QED
    BY <2>1, <2>2
<1>5. \A v \in Worker :
        calls'[v].step = "beat" => device'.lastSeen # Null /\ calls'[v].now <= device'.lastSeen
  BY <1>1 DEF Undisturbed
<1>6. answered' # Null => device'.lastSeen # Null /\ answered' <= device'.lastSeen
  BY DEF Undisturbed
<1> QED
  BY <1>3, <1>4, <1>5, <1>6 DEF Undisturbed

\* A write of last_seen: nobody else is about to write it, and it goes forward.
LEMMA RowMoved ==
  ASSUME TypeOK, Timely, Undisturbed, NEW w \in Stamping, NEW c \in Call,
         calls[w].step = "store", calls[w].now # Null,
         calls' = [calls EXCEPT ![w] = c], answered' = answered,
         c.step \notin {"stamp", "store"},
         c.step = "beat" => c.now = calls[w].now,
         device'.lastSeen = IF calls[w].now = calls[w].loaded
                            THEN device.lastSeen ELSE calls[w].now
  PROVE  Undisturbed'
<1>0. w \in Worker /\ calls[w].now \in Nat /\ device.lastSeen \in Nat \cup {Null}
  BY Columns DEF Stamping
<1>1. /\ calls'[w] = c /\ \A v \in Worker : v # w => calls'[v] = calls[v]
  BY <1>0, OneCall
<1>2. Stamping' = {}
  <2>1. \A v \in Worker : v # w => v \notin Stamping
    BY DEF Undisturbed
  <2> QED
    BY <1>0, <2>1, StampingNext
<1>3. device'.lastSeen = calls[w].now
  BY DEF Undisturbed
<1>4. device.lastSeen # Null => device.lastSeen <= device'.lastSeen
  BY <1>3 DEF Undisturbed
<1>5. device'.lastSeen \in Nat /\ device'.lastSeen # Null
  BY <1>0, <1>3
<1>6. ASSUME NEW v \in Worker, calls'[v].step = "beat" PROVE calls'[v].now <= device'.lastSeen
  <2>1. CASE v = w
    BY <1>0, <1>1, <1>3, <1>6, <2>1
  <2>2. CASE v # w
    <3>1. calls[v].step = "beat" /\ calls'[v] = calls[v]
      BY <1>1, <1>6, <2>2
    <3>2. device.lastSeen # Null /\ calls[v].now <= device.lastSeen
      BY <3>1 DEF Undisturbed
    <3>3. calls[v].now \in Nat
      BY <3>1, Columns DEF Timely
    <3> QED
      BY <1>0, <1>4, <1>5, <3>1, <3>2, <3>3
  <2> QED
    BY <2>1, <2>2
<1>7. answered' # Null => answered' <= device'.lastSeen
  BY <1>0, <1>4, <1>5, Columns DEF Undisturbed
<1> QED
  BY <1>2, <1>5, <1>6, <1>7 DEF Undisturbed

LEMMA UndisturbedStep ==
  ASSUME TypeOK, Timely, ~ disturbed => Undisturbed, [Next]_vars, ~ disturbed'
  PROVE  Undisturbed'
<1>1. CASE UNCHANGED deviceVars \/ Tick
  <2>1. UNCHANGED <<device, calls, answered, disturbed>>
    BY <1>1 DEF deviceVars, Tick
  <2> QED
    BY <2>1 DEF Undisturbed, Stamping
<1>2. CASE CreateDevice \/ UpdateDevice
  BY <1>2 DEF CreateDevice, UpdateDevice
<1>3. ASSUME NEW w \in Worker, NEW kind \in Kinds, Receive(w, kind) PROVE Undisturbed'
  <2>1. PICK c \in Call :
          /\ calls' = [calls EXCEPT ![w] = c]
          /\ kind = "sync" => c = Idle
          /\ kind # "sync" => /\ c.kind = kind /\ c.step = FirstStep(kind)
                              /\ c.loaded = device.lastSeen
                              /\ c.now = IF kind = "register" THEN clock ELSE Null
    BY <1>3, Received
  <2>2. /\ device'.lastSeen = device.lastSeen /\ answered' = answered
        /\ disturbed' = (disturbed \/ (kind \in {"heartbeat", "register"} /\ Stamping # {}))
    BY <1>3, Received DEF Receive
  <2>3. ~ disturbed /\ (kind \in {"heartbeat", "register"} => Stamping = {})
    BY <2>2 DEF TypeOK
  <2>4. c.step # "beat"
    BY <2>1, IdleIsCall DEF FirstStep
  <2>5. w \in Stamping' =>
          /\ Stamping \subseteq {w} /\ c.loaded = device.lastSeen
          /\ c.step = "store" => c.now = clock
    <3>1. w \in Stamping' => c.kind \in {"heartbeat", "register"}
      BY <2>1, StampingNext
    <3> QED
      BY <2>1, <2>3, <3>1, IdleIsCall DEF FirstStep
  <2> QED
    BY <2>1, <2>2, <2>3, <2>4, <2>5, RowKept
<1>4. ASSUME NEW w \in Worker, Stamp(w) PROVE Undisturbed'
  <2>1. PICK c \in Call :
          /\ calls' = [calls EXCEPT ![w] = c]
          /\ c.kind = calls[w].kind /\ c.loaded = calls[w].loaded
          /\ c.step = "store" /\ c.now = clock
    BY <1>4, Stamped
  <2>2. UNCHANGED <<device, answered, disturbed>> /\ calls[w].step = "stamp"
    BY <1>4 DEF Stamp
  <2>3. w \in Stamping' => w \in Stamping
    BY <2>1, <2>2, StampingNext DEF Stamping
  <2>4. Undisturbed
    BY <2>2
  <2>5. w \in Stamping => Stamping \subseteq {w} /\ calls[w].loaded = device.lastSeen
    BY <2>4 DEF Undisturbed
  <2> QED
    BY <2>1, <2>2, <2>3, <2>4, <2>5, RowKept
<1>5. ASSUME NEW w \in Worker, Store(w) PROVE Undisturbed'
  <2>1. PICK c \in Call :
              /\ calls' = [calls EXCEPT ![w] = c]
              /\ \/ /\ calls[w].kind = "heartbeat"
                    /\ c.kind = "heartbeat" /\ c.step = "beat" /\ c.now = calls[w].now
                    /\ device'.lastSeen = IF calls[w].now = calls[w].loaded
                                          THEN device.lastSeen ELSE calls[w].now
                 \/ /\ c = Idle
                    /\ device'.lastSeen = device.lastSeen
                 \/ /\ c = Idle /\ calls[w].kind = "register"
                    /\ device'.lastSeen = IF calls[w].now = calls[w].loaded
                                          THEN device.lastSeen ELSE calls[w].now
    BY <1>5, Stored
  <2>2. /\ UNCHANGED <<answered, disturbed>> /\ calls[w].step = "store" /\ calls[w].now # Null
    BY <1>5, Stored DEF Store
  <2>3. Undisturbed
    BY <2>2
  <2>4. CASE c = Idle /\ device'.lastSeen = device.lastSeen
    <3>1. w \notin Stamping'
      BY <2>1, <2>4, StampingNext, IdleIsCall
    <3> QED
      BY <2>1, <2>2, <2>3, <2>4, <3>1, RowKept, IdleIsCall
  <2>5. CASE ~ (c = Idle /\ device'.lastSeen = device.lastSeen)
    <3>1. w \in Stamping
      BY <2>1, <2>2, <2>5 DEF Stamping
    <3>2. /\ c.step \notin {"stamp", "store"}
          /\ c.step = "beat" => c.now = calls[w].now
          /\ device'.lastSeen = IF calls[w].now = calls[w].loaded
                                THEN device.lastSeen ELSE calls[w].now
      BY <2>1, <2>5, IdleIsCall
    <3> QED
      BY <2>1, <2>2, <2>3, <3>1, <3>2, RowMoved
  <2> QED
    BY <2>4, <2>5
<1>6. ASSUME NEW w \in Worker, Beat(w) PROVE Undisturbed'
  <2>1. /\ calls' = [calls EXCEPT ![w] = Idle] /\ answered' = calls[w].now
        /\ UNCHANGED <<device, disturbed>> /\ calls[w].step = "beat"
    BY <1>6 DEF Beat
  <2>2. Undisturbed
    BY <2>1
  <2>3. /\ \A v \in Worker : calls'[v] = Idle \/ calls'[v] = calls[v]
        /\ Stamping' \subseteq Stamping
        /\ \A v \in Stamping' : calls'[v] = calls[v]
    BY <2>1, OneCall, IdleIsCall DEF Stamping
  <2> QED
    BY <2>1, <2>2, <2>3, IdleIsCall DEF Undisturbed
<1>7. ASSUME NEW w \in Worker, BeginUpload(w) \/ Break(w) PROVE Undisturbed'
  <2>1. /\ calls' = [calls EXCEPT ![w] = Idle] /\ UNCHANGED <<device, answered, disturbed>>
    BY <1>7 DEF BeginUpload, Break
  <2>2. w \notin Stamping'
    BY <2>1, StampingNext, IdleIsCall
  <2> QED
    BY <2>1, <2>2, IdleIsCall, RowKept
<1> QED
  BY <1>1, <1>2, <1>3, <1>4, <1>5, <1>6, <1>7 DEF Next, vars, deviceVars, Kinds

-----------------------------------------------------------------------------
(* The inductive invariant and what follows from it.                         *)

LEMMA InitIInv == Init => IInv
<1> SUFFICES ASSUME Init PROVE IInv
  OBVIOUS
<1>1. /\ device = [exists |-> FALSE, token |-> FALSE, lastSeen |-> Null, tokenUsed |-> Null]
      /\ beats = {} /\ calls = [w \in Worker |-> Idle] /\ clock = 1 /\ requests = 0
      /\ answered = Null /\ disturbed = FALSE
  BY DEF Init
<1>2. TypeOK
  <2>1. disturbed \in BOOLEAN
    BY <1>1, Zenon
  <2>2. calls \in [Worker -> Call]
    BY <1>1, IdleIsCall
  <2>3. device \in [exists : BOOLEAN, token : BOOLEAN,
                    lastSeen : Nat \cup {Null}, tokenUsed : Nat \cup {Null}]
    BY <1>1
  <2> QED
    BY <1>1, <2>1, <2>2, <2>3 DEF TypeOK
<1>3. Timely /\ Recorded
  BY <1>1, IdleIsCall DEF Timely, Recorded, Until
<1>4. Undisturbed
  BY <1>1, IdleIsCall DEF Undisturbed, Stamping
<1> QED
  BY <1>2, <1>3, <1>4 DEF IInv

(* The invariant is inductive: types and times, the newest heartbeat, and    *)
(* who is about to write last_seen knows what it is.                         *)
THEOREM Invariance == Spec => []IInv
<1>1. IInv /\ [Next]_vars => IInv'
  BY SoundStep, UndisturbedStep DEF IInv
<1> QED
  BY InitIInv, <1>1, PTL DEF Spec

(* The row of the device, its heartbeats and every request have their types. *)
THEOREM TypeCorrect == Spec => []TypeOK
<1>1. IInv => TypeOK
  BY DEF IInv
<1> QED
  BY Invariance, <1>1, PTL

(* A heartbeat that was answered is on the health page and keeps the badge   *)
(* ONLINE for the threshold, for any number of threads, requests and lists   *)
(* (agent_service.py 155-180, device_liveness_service.py 63).                *)
THEOREM HeartbeatShown == Spec => []AnsweredIsShown
<1>1. IInv => AnsweredIsShown
  <2> SUFFICES ASSUME IInv, answered # Null PROVE AnsweredIsShown
    BY DEF AnsweredIsShown
  <2>1. \E b \in Health : b >= answered
    BY DEF IInv, Recorded
  <2>2. ASSUME ~ disturbed, clock - answered <= Threshold PROVE Online
    <3>1. device.lastSeen # Null /\ answered <= device.lastSeen
      BY <2>2 DEF IInv, Undisturbed
    <3>2. device.lastSeen <= clock
      BY <3>1 DEF IInv, Timely, Until
    <3>3. device.lastSeen \in Nat /\ answered \in Nat /\ clock \in Nat /\ Threshold \in Nat
      BY <3>1, Columns, DeviceAssumption DEF IInv
    <3> QED
      BY <2>2, <3>1, <3>2, <3>3 DEF Online
  <2> QED
    BY <2>1, <2>2 DEF AnsweredIsShown
<1> QED
  BY Invariance, <1>1, PTL

-----------------------------------------------------------------------------
(* The device and the uploads it composes.                                   *)

(* Among the heartbeats, inventories and sync calls of a device its uploads   *)
(* behave as they do alone: a request begins one, takes one of its steps, or  *)
(* touches none of its state (api/agent.py 90-165, agent_service.py 155-242).   *)
THEOREM UploadsImplemented == Spec => AppSpec
<1>1. Init => AppInit
  BY DEF Init
<1>2. [Next]_vars => [AppNext]_appVars
  <2> SUFFICES ASSUME [Next]_vars PROVE [AppNext]_appVars
    OBVIOUS
  <2>1. CASE UNCHANGED vars
    BY <2>1 DEF vars
  <2>2. CASE CreateDevice \/ UpdateDevice \/ Tick
    BY <2>2 DEF CreateDevice, UpdateDevice, Tick
  <2>3. ASSUME NEW w \in Worker, NEW kind \in Kinds, Receive(w, kind) PROVE UNCHANGED appVars
    BY <2>3 DEF Receive
  <2>4. ASSUME NEW w \in Worker, Stamp(w) \/ Store(w) \/ Beat(w) \/ Break(w)
        PROVE  UNCHANGED appVars
    BY <2>4 DEF Stamp, Store, Beat, Break
  <2>5. ASSUME NEW w \in Worker, BeginUpload(w) \/ Proceed(w) PROVE AppNext
    BY <2>5 DEF BeginUpload, AppNext
  <2> QED
    BY <2>1, <2>2, <2>3, <2>4, <2>5 DEF Next, Kinds
<1> QED
  BY <1>1, <1>2, PTL DEF Spec, AppSpec

(* For any number of threads, requests and lists: what the device page shows  *)
(* after an upload that ran alone is what it listed                           *)
(* (installed_application_service.py 48-117).                                 *)
THEOREM InventoryShown == Spec => []InventoryExact
BY UploadsImplemented, InventoryIsExact, PTL
=============================================================================
