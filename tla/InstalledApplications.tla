----------------------- MODULE InstalledApplications -----------------------
(***************************************************************************)
(* Uploads of the complete list of the applications installed on a device.  *)
(* An upload loads the rows of the device, looks up every application it    *)
(* lists, inserts or changes its row, and marks the rows it has not seen as *)
(* removed, all in one transaction that reads what others have committed.   *)
(* The unique index on (device, name, path) makes an insert wait for        *)
(* another one of the same application, and refuses it if that commits; it  *)
(* does not apply to applications without a path.                           *)
(***************************************************************************)
EXTENDS Naturals, Sequences, FiniteSets

CONSTANTS
  Worker,     \* the threads of the server
  Pathless,   \* the applications that are reported without a path
  Upload,     \* the lists the agent may send: sequences of [app, version]
  MaxId       \* bound of the ids that are drawn

Listed(items) == {items[k].app : k \in DOMAIN items}

Application == UNION {Listed(items) : items \in Upload}
Version == UNION {{items[k].version : k \in DOMAIN items} : items \in Upload}
Entry == [app : Application, version : Version]

\* A list names no application twice.
ASSUME UploadAssumption ==
  /\ MaxId \in Nat
  /\ \A items \in Upload : items \in Seq(Entry) /\ Cardinality(Listed(items)) = Len(items)

VARIABLES
  rows,      \* the committed rows, by id
  nextId,    \* the sequence the ids are drawn from
  uploads,   \* what every thread has read and changed so far
  latest     \* the upload that committed last, and whether it ran alone

appVars == <<rows, nextId, uploads, latest>>

NoRows == [id \in {} |-> 0]

\* A function with one value put into it.
Put(f, id, x) == [k \in DOMAIN f \cup {id} |-> IF k = id THEN x ELSE f[k]]

Free == [step |-> "free", items |-> << >>, todo |-> << >>, existing |-> NoRows,
         seen |-> {}, added |-> NoRows, changed |-> NoRows, alone |-> TRUE]

AppInit ==
  /\ rows = NoRows
  /\ nextId = 1
  /\ uploads = [w \in Worker |-> Free]
  /\ latest = [items |-> << >>, alone |-> TRUE]

Running == {w \in Worker : uploads[w].step # "free"}

-----------------------------------------------------------------------------
\* get_all_by_device, before the first item.
Begin(w) ==
  \E items \in Upload :
    /\ w \notin Running
    /\ uploads' = [v \in Worker |->
         IF v = w
         THEN [Free EXCEPT !.step = "find", !.items = items, !.todo = items,
                           !.existing = rows, !.alone = (Running = {})]
         ELSE [uploads[v] EXCEPT !.alone = @ /\ v \notin Running]]
    /\ UNCHANGED <<rows, nextId, latest>>

\* get_by_identity: any row of the application that is committed.  A list
\* names no application twice, so that an upload never finds its own inserts.
Found(app) == {id \in DOMAIN rows : rows[id].app = app}

\* The object of a row: as it was first loaded, not as it is now.
Loaded(w, id) ==
  IF id \in DOMAIN uploads[w].existing THEN uploads[w].existing[id] ELSE rows[id]

\* Faulty: the row is changed and not remembered as seen.
FaultyKeep(w, id, item) == [uploads[w] EXCEPT !.todo = Tail(@)]

\* What differs from the loaded object is changed.
Keep(w, id, item) ==
  [uploads[w] EXCEPT
     !.todo = Tail(@),
     !.seen = @ \cup {id},
     !.changed = Put(@, id, [version |-> item.version,
                             versionToo |-> item.version # Loaded(w, id).version,
                             installedToo |-> ~ Loaded(w, id).installed])]

Find(w) ==
  LET item == Head(uploads[w].todo)
      found == Found(item.app)
  IN
  /\ uploads[w].step = "find"
  /\ uploads[w].todo # << >>
  /\ \/ /\ found = {}
        /\ uploads' = [uploads EXCEPT ![w].step = "insert"]
     \/ \E id \in found : uploads' = [uploads EXCEPT ![w] = Keep(w, id, item)]
  /\ UNCHANGED <<rows, nextId, latest>>

-----------------------------------------------------------------------------
\* The uploads whose uncommitted row the unique index makes w wait for.
WaitsFor(w) ==
  LET app == Head(uploads[w].todo).app
  IN  {v \in Worker \ {w} :
         /\ uploads[w].step = "insert"
         /\ app \notin Pathless
         /\ \E id \in DOMAIN uploads[v].added : uploads[v].added[id].app = app}

\* The insert is refused, or would be: the row was committed by another.
Taken(w) ==
  LET app == Head(uploads[w].todo).app
  IN  app \notin Pathless /\ Found(app) # {}

\* add and flush
Insert(w) ==
  LET item == Head(uploads[w].todo)
      new == [app |-> item.app, version |-> item.version, installed |-> TRUE]
  IN
  /\ uploads[w].step = "insert"
  /\ WaitsFor(w) = {}
  /\ ~ Taken(w)
  /\ nextId <= MaxId
  /\ nextId' = nextId + 1
  /\ uploads' = [uploads EXCEPT
                   ![w].step = "find",
                   ![w].todo = Tail(@),
                   ![w].seen = @ \cup {nextId},
                   ![w].added = Put(@, nextId, new)]
  /\ UNCHANGED <<rows, latest>>

Rollback(w) ==
  /\ uploads' = [uploads EXCEPT ![w] = Free]
  /\ UNCHANGED <<rows, nextId, latest>>

\* The unique index refuses the insert.
Refuse(w) ==
  /\ uploads[w].step = "insert"
  /\ WaitsFor(w) = {}
  /\ Taken(w)
  /\ Rollback(w)

\* Two inserts that wait for each other: the database breaks one of them off.
BreakDeadlock(w) ==
  /\ \E v \in WaitsFor(w) : w \in WaitsFor(v)
  /\ Rollback(w)

\* Any other statement fails, or the thread dies.
Fail(w) ==
  /\ w \in Running
  /\ Rollback(w)

-----------------------------------------------------------------------------
\* The row after the commit: an UPDATE writes the changed columns only.
Written(u, id) ==
  IF id \in DOMAIN u.changed
  THEN [rows[id] EXCEPT
          !.version = IF u.changed[id].versionToo THEN u.changed[id].version ELSE @,
          !.installed = @ \/ u.changed[id].installedToo]
  ELSE [rows[id] EXCEPT
          !.installed = @ /\ ~ (/\ id \in DOMAIN u.existing \ u.seen
                                /\ u.existing[id].installed)]

Commit(w) ==
  LET u == uploads[w] IN
  /\ u.step = "find"
  /\ u.todo = << >>
  /\ rows' = [id \in DOMAIN rows \cup DOMAIN u.added |->
                IF id \in DOMAIN rows THEN Written(u, id) ELSE u.added[id]]
  /\ latest' = [items |-> u.items, alone |-> u.alone]
  /\ uploads' = [uploads EXCEPT ![w] = Free]
  /\ UNCHANGED nextId

Proceed(w) ==
  \/ Find(w) \/ Insert(w) \/ Commit(w)
  \/ Refuse(w) \/ BreakDeadlock(w) \/ Fail(w)

AppNext == \E w \in Worker : Begin(w) \/ Proceed(w)

AppSpec == AppInit /\ [][AppNext]_appVars

-----------------------------------------------------------------------------
\* device_installed_applications
Shown == {id \in DOMAIN rows : rows[id].installed}

(* Whatever duplicates and stale marks uploads that overlapped have left     *)
(* behind, the next one that runs alone puts right: the device page shows    *)
(* exactly the applications it listed, each of them once and in the version  *)
(* it reported (installed_application_service.py 48-117).                    *)
InventoryExact ==
  latest.alone =>
    /\ {rows[id].app : id \in Shown} = Listed(latest.items)
    /\ \A k \in DOMAIN latest.items :
         \E id \in Shown : /\ rows[id].version = latest.items[k].version
                          /\ Shown \cap Found(latest.items[k].app) = {id}
-----------------------------------------------------------------------------
\* The parts of the inductive invariant.

Row == [app : Application, version : Version, installed : BOOLEAN]
Change == [version : Version, versionToo : BOOLEAN, installedToo : BOOLEAN]

\* A function from ids to S.
ById(f, S) == f \in [DOMAIN f -> S] /\ DOMAIN f \subseteq 1 .. MaxId

UploadOK(u) ==
  /\ u \in [step : {"free", "find", "insert"}, items : Seq(Entry), todo : Seq(Entry),
            existing : {u.existing}, seen : SUBSET (1 .. MaxId), added : {u.added},
            changed : {u.changed}, alone : BOOLEAN]
  /\ ById(u.existing, Row) /\ ById(u.added, Row) /\ ById(u.changed, Change)

AppTypeOK ==
  /\ ById(rows, Row)
  /\ nextId \in Nat \ {0}
  /\ uploads = [w \in Worker |-> uploads[w]] /\ \A w \in Worker : UploadOK(uploads[w])
  /\ latest \in [items : Seq(Entry), alone : BOOLEAN]

\* The ids that are in use have been drawn, and an insert has its item.
Drawn ==
  /\ DOMAIN rows \subseteq 1 .. nextId - 1
  /\ \A w \in Worker :
       /\ DOMAIN uploads[w].added \subseteq 1 .. nextId - 1
       /\ uploads[w].step = "insert" => uploads[w].todo # << >>

\* The items of an upload that are done with.
Handled(u) == 1 .. Len(u.items) - Len(u.todo)

\* The application and the version of a row as the upload will leave it.
AppOf(u, id) == IF id \in DOMAIN u.added THEN u.added[id].app ELSE rows[id].app
VersionOf(u, id) == IF id \in DOMAIN u.added THEN u.added[id].version ELSE u.changed[id].version

\* The upload works on the rows as they are.
Current(u) ==
  /\ u.existing = rows
  /\ DOMAIN u.added \cap DOMAIN rows = {}
  /\ DOMAIN u.changed \subseteq DOMAIN rows
  /\ u.seen = DOMAIN u.changed \cup DOMAIN u.added
  /\ \A id \in DOMAIN u.changed :
       /\ u.changed[id].versionToo <=> u.changed[id].version # rows[id].version
       /\ u.changed[id].installedToo <=> ~ rows[id].installed
  /\ \A id \in DOMAIN u.added : u.added[id].installed

\* What is left to do is the rest of the list.
RestOfList(u) ==
  /\ u.items \in Upload
  /\ Len(u.todo) <= Len(u.items)
  /\ \A k \in DOMAIN u.todo : u.todo[k] = u.items[Len(u.items) - Len(u.todo) + k]

\* Each item that is done with has one row among those that were seen.
OneSeenEach(u) ==
  /\ \A k \in Handled(u) : \E id \in u.seen :
       AppOf(u, id) = u.items[k].app /\ VersionOf(u, id) = u.items[k].version
  /\ \A id \in u.seen : \E k \in Handled(u) : AppOf(u, id) = u.items[k].app
  /\ \A id, other \in u.seen : AppOf(u, id) = AppOf(u, other) => id = other

AppIInv ==
  /\ AppTypeOK /\ Drawn /\ InventoryExact
  /\ \A w \in Running : uploads[w].alone =>
       /\ Running = {w}
       /\ Current(uploads[w]) /\ RestOfList(uploads[w]) /\ OneSeenEach(uploads[w])
=============================================================================
