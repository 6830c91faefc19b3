-------------------------- MODULE EnrollmentProofs --------------------------
(***************************************************************************)
(* Proofs about Enrollment, for every set of threads, machines, keys and    *)
(* requests, every bound and every table of rows from before uuids.         *)
(***************************************************************************)
EXTENDS Enrollment, FiniteSetTheorems, TLAPS

\* What a registration leaves in the row it found.
LEMMA MergedRow ==
  ASSUME NEW row \in Row, NEW old \in Row, NEW q \in Request
  PROVE  /\ Merged(row, old, q) \in Row
         /\ Merged(row, old, q).uuid = IF old.uuid = q.uuid THEN row.uuid ELSE q.uuid
         /\ Merged(row, old, q).serial = IF old.serial = q.serial THEN row.serial ELSE q.serial
         /\ row.registered => Merged(row, old, q).registered
         /\ Merged(row, old, q).token = Minted(q)
<1> DEFINE uuid == IF old.uuid = q.uuid THEN row.uuid ELSE q.uuid
           serial == IF old.serial = q.serial THEN row.serial ELSE q.serial
           registered == IF old.registered THEN row.registered ELSE TRUE
           token == Minted(q)
           new == [row EXCEPT !.uuid = uuid, !.serial = serial, !.registered = registered,
                              !.token = token]
<1>1. uuid \in Uuid \union {NoUuid} /\ serial \in Serial /\ registered \in BOOLEAN
  BY RequestAssumption DEF Row
<1>2. token \in Identity
  BY RequestAssumption DEF Minted, Identity
<1> HIDE DEF uuid, serial, registered, token
<1>3. /\ new \in Row /\ new.uuid = uuid /\ new.serial = serial
      /\ new.registered = registered /\ new.token = token
  BY <1>1, <1>2 DEF Row
<1>4. new = Merged(row, old, q)
  BY DEF Merged, uuid, serial, registered, token
<1>5. QED
  BY <1>3, <1>4 DEF uuid, serial, registered, token

LEMMA NewRowType ==
  ASSUME NEW q \in Request
  PROVE  /\ NewRow(q) \in Row /\ NewRow(q).serial = q.serial /\ NewRow(q).uuid = q.uuid
         /\ NewRow(q).token = [uuid |-> q.uuid, serial |-> q.serial]
         /\ q.uuid \in Uuid /\ q.serial \in Serial /\ q.key \in Key
BY RequestAssumption DEF NewRow, Minted, Row, Identity

\* The ways a step writes the table: a row is added under a new id, deleted,
\* or merged with a request.
Adds(row) == /\ row \in Row
             /\ row.token # NoToken => row.token = [uuid |-> row.uuid, serial |-> row.serial]
             /\ row.uuid # NoUuid
             /\ WithUuid(row.uuid) = {} /\ WithSerial(row.serial) = {}
             /\ Add(row)
Deletes(i) == /\ device' = [device EXCEPT ![i] = NoRow]
              /\ UNCHANGED <<lastId, named, numbered>>
Merges(w) == /\ pc[w] = "write" /\ hit[w] \in Present /\ ~Taken(w)
             /\ device' = [device EXCEPT ![hit[w]] = Merged(@, seen[w], req[w])]
             /\ UNCHANGED <<lastId, named, numbered>>

LEMMA DeviceStep ==
  ASSUME TypeOK, JobOK, [Next]_vars
  PROVE  \/ UNCHANGED tableVars
         \/ \E row : Adds(row)
         \/ \E i \in Id : Deletes(i)
         \/ \E w \in Worker : Merges(w)
<1>1. ASSUME NEW entry \in Entered, AdminCreate(entry) PROVE \E row : Adds(row)
  <2> DEFINE row == [uuid |-> entry.uuid, serial |-> entry.serial, registered |-> TRUE,
                     token |-> NoToken]
  <2>1. /\ row \in Row /\ row.uuid = entry.uuid /\ row.serial = entry.serial
        /\ row.token = NoToken /\ row.uuid # NoUuid
    BY RequestAssumption, NullAssumption DEF Row, Identity
  <2>2. Adds(row)
    BY <1>1, <2>1 DEF AdminCreate, Adds
  <2>3. QED
    BY <2>2
<1>2. ASSUME NEW i \in Id, AdminDelete(i) PROVE Deletes(i)
  BY <1>2 DEF AdminDelete, Deletes
<1>3. ASSUME NEW w \in Worker, Update(w) PROVE Merges(w)
  BY <1>3 DEF Update, Merges
<1>4. ASSUME NEW w \in Worker, Insert(w) PROVE \E row : Adds(row)
  <2>1. req[w] \in Request
    BY <1>4 DEF Insert, JobOK
  <2>2. /\ NewRow(req[w]) \in Row /\ NewRow(req[w]).uuid = req[w].uuid /\ req[w].uuid \in Uuid
        /\ NewRow(req[w]).serial = req[w].serial
        /\ NewRow(req[w]).token = [uuid |-> req[w].uuid, serial |-> req[w].serial]
    BY <2>1, NewRowType
  <2>3. /\ WithUuid(req[w].uuid) = {} /\ WithSerial(req[w].serial) = {}
        /\ Add(NewRow(req[w]))
    BY <1>4 DEF Insert
  <2> DEFINE row == NewRow(req[w])
  <2>4. /\ WithUuid(row.uuid) = {} /\ WithSerial(row.serial) = {}
        /\ row.token = [uuid |-> row.uuid, serial |-> row.serial]
        /\ row \in Row /\ row.uuid \in Uuid /\ Add(row)
    BY <2>2, <2>3, Zenon
  <2>0. row.uuid # NoUuid
    BY <2>2, NullAssumption
  <2> HIDE DEF row
  <2>5. Adds(row)
    BY <2>0, <2>4 DEF Adds
  <2>6. QED
    BY <2>5
<1>5. QED
  BY <1>1, <1>2, <1>3, <1>4
     DEF Next, CreateKey, DeleteKey, Expire, Start, Register, Validate, Forbid, LookupUuid,
         LookupSerial, Conflict, WriteFails, LoadCount, StoreCount, KeyGone, Abort, vars,
         tableVars

\* A thread that merges found the row, and writes nothing over what the row was
\* created with.
LEMMA MergesFits ==
  ASSUME TypeOK, TableOK, JobOK, NEW w \in Worker, Merges(w)
  PROVE  /\ hit[w] \in Id /\ hit[w] <= lastId /\ req[w] \in Request
         /\ device[hit[w]] \in Row /\ seen[w] \in Row /\ device'[hit[w]] \in Row
         /\ device'[hit[w]].uuid =
              IF seen[w].uuid = req[w].uuid THEN device[hit[w]].uuid ELSE req[w].uuid
         /\ device'[hit[w]].serial =
              IF seen[w].serial = req[w].serial THEN device[hit[w]].serial ELSE req[w].serial
         /\ device[hit[w]].registered => device'[hit[w]].registered
         /\ device'[hit[w]].token = Minted(req[w])
         /\ \A j \in Id \ {hit[w]} : device'[j] = device[j]
         /\ hit[w] \in named => /\ device[hit[w]].uuid = req[w].uuid
                                /\ device'[hit[w]].uuid = req[w].uuid
         /\ hit[w] \in numbered => /\ device[hit[w]].serial = req[w].serial
                                   /\ device'[hit[w]].serial = req[w].serial
<1>1. hit[w] \in Id /\ hit[w] # NoId /\ device[hit[w]] # NoRow /\ device[hit[w]] \in Row
  BY DEF Merges, Present, TypeOK, Id, NoId
<1>2. /\ req[w] \in Request /\ seen[w] \in Row /\ hit[w] <= lastId
      /\ Agrees(seen[w], req[w])
      /\ hit[w] \in named => device[hit[w]].uuid = seen[w].uuid /\ Given(seen[w].uuid)
      /\ hit[w] \in numbered => device[hit[w]].serial = seen[w].serial /\ Given(seen[w].serial)
  BY <1>1 DEF Merges, JobOK
<1>3. /\ hit[w] \in named => seen[w].uuid = req[w].uuid
      /\ hit[w] \in numbered => seen[w].serial = req[w].serial
  BY <1>2 DEF Agrees
<1> DEFINE new == Merged(device[hit[w]], seen[w], req[w])
<1>4. device' = [device EXCEPT ![hit[w]] = new]
  BY DEF Merges
<1>5. /\ new \in Row
      /\ new.uuid = IF seen[w].uuid = req[w].uuid THEN device[hit[w]].uuid ELSE req[w].uuid
      /\ new.serial = IF seen[w].serial = req[w].serial THEN device[hit[w]].serial
                                                       ELSE req[w].serial
      /\ device[hit[w]].registered => new.registered
      /\ new.token = Minted(req[w])
  <2>1. PICK row \in Row, old \in Row, q \in Request :
          row = device[hit[w]] /\ old = seen[w] /\ q = req[w]
    BY <1>1, <1>2
  <2>2. /\ Merged(row, old, q) \in Row
        /\ Merged(row, old, q).uuid = IF old.uuid = q.uuid THEN row.uuid ELSE q.uuid
        /\ Merged(row, old, q).serial = IF old.serial = q.serial THEN row.serial ELSE q.serial
        /\ row.registered => Merged(row, old, q).registered
        /\ Merged(row, old, q).token = Minted(q)
    BY MergedRow
  <2>3. QED
    BY <2>1, <2>2
<1> HIDE DEF new
<1>6. device'[hit[w]] = new /\ \A j \in Id \ {hit[w]} : device'[j] = device[j]
  BY <1>1, <1>4 DEF TypeOK
<1>7. QED
  BY <1>1, <1>2, <1>3, <1>5, <1>6

LEMMA AddsFits ==
  ASSUME TypeOK, TableOK, NEW row, Adds(row)
  PROVE  /\ lastId + 1 \in Id /\ lastId' = lastId + 1 /\ device[lastId + 1] = NoRow
         /\ device'[lastId + 1] = row
         /\ \A j \in Id \ {lastId + 1} : device'[j] = device[j]
         /\ named' = IF Given(row.uuid) THEN named \union {lastId + 1} ELSE named
         /\ numbered' = IF Given(row.serial) THEN numbered \union {lastId + 1} ELSE numbered
<1>1. lastId + 1 \in Id /\ lastId + 1 > lastId
  BY BoundAssumption DEF TypeOK, Adds, Add, Id
<1>2. /\ device' = [device EXCEPT ![lastId + 1] = row] /\ lastId' = lastId + 1
      /\ named' = IF Given(row.uuid) THEN named \union {lastId + 1} ELSE named
      /\ numbered' = IF Given(row.serial) THEN numbered \union {lastId + 1} ELSE numbered
  BY DEF Adds, Add
<1>3. QED
  BY <1>1, <1>2 DEF TypeOK, TableOK

-----------------------------------------------------------------------------
\* Types.
LEMMA TypeInit == Init => TypeOK
<1> SUFFICES ASSUME Init PROVE TypeOK
  OBVIOUS
<1>1. \A i \in Legacy : LegacyRow(i) \in Row
  BY LegacyAssumption DEF Legacy, LegacyRow, Row
<1>2. device \in [Id -> Row \union {NoRow}]
  BY <1>1 DEF Init
<1>3. lastId \in 0..MaxId
  BY LegacyAssumption, BoundAssumption DEF Init
<1>4. named \subseteq Id /\ numbered \subseteq Id
  BY LegacyAssumption, BoundAssumption DEF Init, Legacy, Id
<1>5. QED
  BY <1>2, <1>3, <1>4, BoundAssumption DEF Init, TypeOK

LEMMA DeviceType ==
  ASSUME TypeOK, TableOK, JobOK, [Next]_vars
  PROVE  /\ device' \in [Id -> Row \union {NoRow}] /\ lastId' \in 0..MaxId
         /\ named' \subseteq Id /\ numbered' \subseteq Id
<1> USE DEF TypeOK
<1> DEFINE Goal == /\ device' \in [Id -> Row \union {NoRow}] /\ lastId' \in 0..MaxId
                   /\ named' \subseteq Id /\ numbered' \subseteq Id
<1>1. ASSUME NEW row, Adds(row)
      PROVE  Goal
  BY <1>1, BoundAssumption DEF Adds, Add, Id
<1>2. ASSUME NEW i \in Id, Deletes(i)
      PROVE  Goal
  BY <1>2 DEF Deletes
<1>3. ASSUME NEW w \in Worker, Merges(w)
      PROVE  Goal
  <2>1. /\ device' = [device EXCEPT ![hit[w]] = Merged(@, seen[w], req[w])] /\ lastId' = lastId
        /\ named' = named /\ numbered' = numbered
    BY <1>3 DEF Merges
  <2>2. QED
    BY <1>3, <2>1, MergesFits
<1>4. ASSUME UNCHANGED tableVars PROVE Goal
  BY <1>4 DEF tableVars
<1>5. QED
  BY <1>1, <1>2, <1>3, <1>4, DeviceStep

LEMMA ReleaseType ==
  ASSUME TypeOK, NEW w \in Worker, Release(w)
  PROVE  /\ pc' \in [Worker -> {"idle", "validate", "byUuid", "bySerial", "write",
                                "load", "store"}]
         /\ req' \in [Worker -> Request \union {NoReq}]
         /\ hit' \in [Worker -> Id \union {NoId}]
         /\ seen' \in [Worker -> Row \union {NoRow}]
         /\ loaded' \in [Worker -> Nat]
BY DEF TypeOK, Release

LEMMA LookupType ==
  ASSUME TypeOK, NEW w \in Worker, NEW i \in Present,
         hit' = [hit EXCEPT ![w] = i], seen' = [seen EXCEPT ![w] = device[i]]
  PROVE  /\ hit' \in [Worker -> Id \union {NoId}]
         /\ seen' \in [Worker -> Row \union {NoRow}]
BY DEF TypeOK, Present

LEMMA KeyOf ==
  ASSUME JobOK, NEW w \in Worker, pc[w] # "idle"
  PROVE  req[w] \in Request /\ req[w].key \in Key
BY RequestAssumption DEF JobOK

LEMMA CommittedType ==
  ASSUME TypeOK, JobOK, NEW w \in Worker, pc[w] = "write", NEW new \in BOOLEAN, Committed(w, new)
  PROVE  /\ pc' \in [Worker -> {"idle", "validate", "byUuid", "bySerial", "write",
                                "load", "store"}]
         /\ req' \in [Worker -> Request \union {NoReq}]
         /\ hit' \in [Worker -> Id \union {NoId}]
         /\ seen' \in [Worker -> Row \union {NoRow}]
         /\ loaded' \in [Worker -> Nat]
         /\ enrolled' \in [Key -> Nat]
<1>1. req[w].key \in Key
  BY KeyOf
<1>2. QED
  BY <1>1, ReleaseType DEF Committed, TypeOK, localVars

LEMMA TypeStep == TypeOK /\ TableOK /\ JobOK /\ [Next]_vars => TypeOK'
<1> SUFFICES ASSUME TypeOK, TableOK, JobOK, [Next]_vars PROVE TypeOK'
  OBVIOUS
<1> DEFINE Rest ==
     /\ status \in [Key -> {"unmade", "active", "deleted"}]
     /\ expired \subseteq Key
     /\ count \in [Key -> Nat]
     /\ pc \in [Worker -> {"idle", "validate", "byUuid", "bySerial", "write", "load", "store"}]
     /\ req \in [Worker -> Request \union {NoReq}]
     /\ hit \in [Worker -> Id \union {NoId}]
     /\ seen \in [Worker -> Row \union {NoRow}]
     /\ loaded \in [Worker -> Nat]
     /\ enrolled \in [Key -> Nat]
     /\ faults \in 0..MaxFault
<1>1. Rest
  BY DEF TypeOK
<1>2. ASSUME NEW k \in Key, CreateKey(k) \/ DeleteKey(k) \/ Expire(k) PROVE Rest'
  BY <1>1, <1>2 DEF CreateKey, DeleteKey, Expire, localVars
<1>3. ASSUME NEW entry \in Entered, AdminCreate(entry) PROVE Rest'
  BY <1>1, <1>3 DEF AdminCreate, keyVars, localVars
<1>4. ASSUME NEW i \in Id, AdminDelete(i) PROVE Rest'
  BY <1>1, <1>4 DEF AdminDelete, keyVars, localVars
<1>5. ASSUME NEW w \in Worker, NEW q \in Request, Start(w, q) PROVE Rest'
  BY <1>1, <1>5 DEF Start, keyVars
<1>6. ASSUME NEW w \in Worker, Validate(w) PROVE Rest'
  BY <1>1, <1>6 DEF Validate, keyVars, localVars
<1>7. ASSUME NEW w \in Worker, Forbid(w) \/ Conflict(w) \/ WriteFails(w) \/ KeyGone(w) PROVE Rest'
  BY <1>1, <1>7, ReleaseType DEF Forbid, Conflict, WriteFails, KeyGone, keyVars
<1>8. ASSUME NEW w \in Worker, LookupUuid(w) PROVE Rest'
  <2>1. hit' \in [Worker -> Id \union {NoId}] /\ seen' \in [Worker -> Row \union {NoRow}]
    BY <1>1, <1>8, LookupType DEF LookupUuid, WithUuid
  <2>2. QED
    BY <1>1, <1>8, <2>1 DEF LookupUuid, keyVars
<1>9. ASSUME NEW w \in Worker, LookupSerial(w) PROVE Rest'
  <2>1. hit' \in [Worker -> Id \union {NoId}] /\ seen' \in [Worker -> Row \union {NoRow}]
    BY <1>1, <1>9, LookupType DEF LookupSerial, WithSerial
  <2>2. QED
    BY <1>1, <1>9, <2>1 DEF LookupSerial, keyVars
<1>10. ASSUME NEW w \in Worker, Update(w) PROVE Rest'
  BY <1>1, <1>10, CommittedType DEF Update, keyVars
<1>11. ASSUME NEW w \in Worker, Insert(w) PROVE Rest'
  BY <1>1, <1>11, CommittedType DEF Insert, keyVars
<1>12. ASSUME NEW w \in Worker, LoadCount(w) PROVE Rest'
  <2>1. req[w].key \in Key
    BY <1>12, KeyOf DEF LoadCount
  <2>2. QED
    BY <1>1, <1>12, <2>1 DEF LoadCount, keyVars
<1>13. ASSUME NEW w \in Worker, StoreCount(w) PROVE Rest'
  <2>1. req[w].key \in Key
    BY <1>13, KeyOf DEF StoreCount
  <2>2. QED
    BY <1>1, <1>13, <2>1, ReleaseType DEF StoreCount
<1>14. ASSUME NEW w \in Worker, Abort(w) PROVE Rest'
  BY <1>1, <1>14, ReleaseType, BoundAssumption DEF Abort, keyVars
<1>15. ASSUME UNCHANGED vars PROVE Rest'
  BY <1>1, <1>15 DEF vars, keyVars, localVars
<1>16. Rest'
  BY <1>2, <1>3, <1>4, <1>5, <1>6, <1>7, <1>8, <1>9, <1>10, <1>11, <1>12, <1>13, <1>14, <1>15
     DEF Next, Register
<1>17. QED
  BY <1>16, DeviceType DEF TypeOK

-----------------------------------------------------------------------------
\* The table of devices.
LEMMA TableInit == Init => TableOK /\ JobOK /\ IdentityUnique /\ TokenMatchesRow
<1> SUFFICES ASSUME Init PROVE TableOK /\ JobOK /\ IdentityUnique /\ TokenMatchesRow
  OBVIOUS
<1>1. Legacy = 1..Len(LegacySerial) /\ Len(LegacySerial) \in Nat
  BY LegacyAssumption DEF Legacy
<1>2. \A i \in Id : device[i] = IF i \in Legacy THEN LegacyRow(i) ELSE NoRow
  BY DEF Init
<1>3. \A i \in Present : i \in Legacy /\ device[i] = LegacyRow(i)
  BY <1>2 DEF Present
<1>4. TableOK
  <2>1. /\ named = {} /\ numbered = {i \in Legacy : Given(LegacySerial[i])}
        /\ lastId = Len(LegacySerial)
    BY DEF Init
  <2>2. \A i \in Present \cap numbered : Given(device[i].serial)
    <3>1. \A i \in Legacy : LegacyRow(i).serial = LegacySerial[i]
      BY DEF LegacyRow
    <3>2. QED
      BY <1>3, <2>1, <3>1
  <2>3. \A i \in Id : i > lastId => device[i] = NoRow
    BY <1>1, <1>2, <2>1 DEF Id
  <2>4. \A i \in named \union numbered : i <= lastId
    BY <1>1, <2>1
  <2>5. QED
    BY <2>1, <2>2, <2>3, <2>4 DEF TableOK
<1>5. JobOK
  BY DEF Init, JobOK
<1>6. IdentityUnique
  <2>1. \A i \in Present : /\ i \in DOMAIN LegacySerial
                           /\ device[i].serial = LegacySerial[i] /\ device[i].uuid = NoUuid
    <3>1. \A i \in Legacy : LegacyRow(i).serial = LegacySerial[i] /\ LegacyRow(i).uuid = NoUuid
      BY DEF LegacyRow
    <3>2. QED
      BY <1>3, <3>1 DEF Legacy
  <2>2. QED
    BY <2>1, LegacyAssumption DEF IdentityUnique
<1>7. TokenMatchesRow
  <2>1. \A i \in Legacy : LegacyRow(i).token = NoToken
    BY DEF LegacyRow
  <2>2. QED
    BY <1>3, <2>1 DEF TokenMatchesRow
<1>8. QED
  BY <1>4, <1>5, <1>6, <1>7

LEMMA TableStep == TypeOK /\ TableOK /\ JobOK /\ [Next]_vars => TableOK'
<1> SUFFICES ASSUME TypeOK, TableOK, JobOK, [Next]_vars PROVE TableOK'
  OBVIOUS
<1>1. ASSUME UNCHANGED tableVars PROVE TableOK'
  BY <1>1 DEF TableOK, Present, tableVars
<1>2. ASSUME NEW row, Adds(row) PROVE TableOK'
  <2>1. lastId \in Nat
    BY <1>2 DEF TypeOK
  <2>2. lastId + 1 \notin named \union numbered
    BY <2>1 DEF TableOK
  <2>3. \A i \in Id : i > lastId' => device'[i] = NoRow
    BY <1>2, <2>1, AddsFits DEF TableOK, Id
  <2>4. \A i \in Present' \cap named' : Given(device'[i].uuid)
    BY <1>2, <2>2, AddsFits DEF TableOK, Present
  <2>5. \A i \in Present' \cap numbered' : Given(device'[i].serial)
    BY <1>2, <2>2, AddsFits DEF TableOK, Present
  <2>6. \A i \in named' \union numbered' : i <= lastId'
    <3>1. \A i \in named \union numbered : i \in Nat /\ i <= lastId
      BY DEF TableOK, TypeOK, Id
    <3>2. /\ named' \union numbered' \subseteq named \union numbered \union {lastId + 1}
          /\ lastId' = lastId + 1
      BY <1>2, AddsFits
    <3>3. QED
      BY <2>1, <3>1, <3>2
  <2>7. QED
    BY <2>3, <2>4, <2>5, <2>6 DEF TableOK
<1>3. ASSUME NEW i \in Id, Deletes(i) PROVE TableOK'
  BY <1>3 DEF Deletes, TableOK, Present, TypeOK
<1>4. ASSUME NEW w \in Worker, Merges(w) PROVE TableOK'
  <2>1. lastId' = lastId /\ named' = named /\ numbered' = numbered
    BY <1>4 DEF Merges
  <2>2. ASSUME NEW i \in Id, i > lastId PROVE device'[i] = NoRow
    <3>1. i # hit[w]
      BY <1>4, <2>2, MergesFits DEF TypeOK, Id
    <3>2. QED
      BY <1>4, <2>2, <3>1, MergesFits DEF TableOK
  <2>3. ASSUME NEW i \in Id, device'[i] # NoRow
        PROVE  /\ i \in named => Given(device'[i].uuid)
               /\ i \in numbered => Given(device'[i].serial)
    <3>1. CASE i = hit[w]
      <4>1. i \in Present
        BY <1>4, <3>1 DEF Merges
      <4>2. /\ i \in named => device'[i].uuid = device[i].uuid
            /\ i \in numbered => device'[i].serial = device[i].serial
        BY <1>4, <3>1, MergesFits
      <4>3. QED
        BY <4>1, <4>2 DEF TableOK
    <3>2. CASE i # hit[w]
      BY <1>4, <2>3, <3>2, MergesFits DEF TableOK, Present
    <3>3. QED
      BY <3>1, <3>2
  <2>4. QED
    BY <2>1, <2>2, <2>3 DEF TableOK, Present
<1>5. QED
  BY <1>1, <1>2, <1>3, <1>4, DeviceStep

\* A row keeps what it was created with, as long as it is there.
LEMMA RowsStay ==
  ASSUME TypeOK, TableOK, JobOK, [Next]_vars, NEW i \in Id, device'[i] # NoRow, i <= lastId
  PROVE  /\ i \in Present
         /\ device[i].registered => device'[i].registered
         /\ i \in named <=> i \in named'
         /\ i \in numbered <=> i \in numbered'
         /\ i \in named => device'[i].uuid = device[i].uuid
         /\ i \in numbered => device'[i].serial = device[i].serial
<1>1. ASSUME NEW row, Adds(row)
      PROVE  /\ device'[i] = device[i]
             /\ i \in named <=> i \in named'
             /\ i \in numbered <=> i \in numbered'
  <2>1. lastId \in Nat
    BY DEF TypeOK
  <2>2. i # lastId + 1
    BY <2>1 DEF Id
  <2>3. QED
    BY <1>1, <2>2, AddsFits
<1>2. ASSUME NEW j \in Id, Deletes(j)
      PROVE  device'[i] = device[i] /\ named' = named /\ numbered' = numbered
  BY <1>2 DEF Deletes, TypeOK
<1>3. ASSUME NEW w \in Worker, Merges(w), i # hit[w]
      PROVE  device'[i] = device[i] /\ named' = named /\ numbered' = numbered
  BY <1>3, MergesFits DEF Merges
<1>4. ASSUME NEW w \in Worker, Merges(w), i = hit[w]
      PROVE  /\ i \in Present
             /\ device[i].registered => device'[i].registered
             /\ named' = named /\ numbered' = numbered
             /\ i \in named => device'[i].uuid = device[i].uuid
             /\ i \in numbered => device'[i].serial = device[i].serial
  <2>1. i \in Present /\ named' = named /\ numbered' = numbered
    BY <1>4 DEF Merges
  <2>2. QED
    BY <1>4, <2>1, MergesFits
<1>5. ASSUME UNCHANGED tableVars
      PROVE  device'[i] = device[i] /\ named' = named /\ numbered' = numbered
  BY <1>5 DEF tableVars
<1>6. QED
  BY <1>1, <1>2, <1>3, <1>4, <1>5, DeviceStep DEF Present

LEMMA LastIdGrows == ASSUME TypeOK, JobOK, [Next]_vars PROVE lastId <= lastId'
<1>1. lastId' \in {lastId, lastId + 1}
  BY DeviceStep DEF Adds, Add, Deletes, Merges, tableVars
<1>2. QED
  BY <1>1 DEF TypeOK

\* The invariant of one thread's locals.
Fits(w) ==
  hit[w] # NoId =>
    /\ hit[w] <= lastId
    /\ seen[w] \in Row
    /\ hit[w] \in named =>
         /\ Given(seen[w].uuid)
         /\ device[hit[w]] # NoRow => device[hit[w]].uuid = seen[w].uuid
    /\ hit[w] \in numbered =>
         /\ Given(seen[w].serial)
         /\ device[hit[w]] # NoRow => device[hit[w]].serial = seen[w].serial

\* What an id was created with is settled once it is given out.
LEMMA CreatedStays ==
  ASSUME TypeOK, JobOK, TableOK, [Next]_vars, NEW i \in Id, i <= lastId
  PROVE  (i \in named <=> i \in named') /\ (i \in numbered <=> i \in numbered')
<1>1. i # lastId + 1
  BY DEF TypeOK, Id
<1>2. ASSUME NEW row, Adds(row)
      PROVE  (i \in named <=> i \in named') /\ (i \in numbered <=> i \in numbered')
  BY <1>1, <1>2, AddsFits
<1>3. QED
  BY <1>2, DeviceStep DEF Deletes, Merges, tableVars

\* A thread that takes no step keeps what it knows.
LEMMA FitsStays ==
  ASSUME TypeOK, TableOK, JobOK, [Next]_vars, NEW w \in Worker,
         hit'[w] = hit[w], seen'[w] = seen[w]
  PROVE  Fits(w)'
<1> SUFFICES ASSUME hit[w] # NoId PROVE Fits(w)'
  BY DEF Fits
<1>1. hit[w] \in Id /\ hit[w] <= lastId
  BY DEF TypeOK, JobOK
<1>2. hit[w] <= lastId'
  <2>1. hit[w] \in Nat /\ lastId \in Nat /\ hit[w] <= lastId
    BY <1>1 DEF TypeOK, Id
  <2>2. lastId' \in Nat
    BY TypeStep DEF TypeOK
  <2>3. lastId <= lastId'
    BY LastIdGrows
  <2> QED
    BY <2>1, <2>2, <2>3
<1>3. device'[hit[w]] # NoRow =>
        /\ device[hit[w]] # NoRow
        /\ hit[w] \in named => device'[hit[w]].uuid = device[hit[w]].uuid
        /\ hit[w] \in numbered => device'[hit[w]].serial = device[hit[w]].serial
  BY <1>1, RowsStay DEF Present
<1>4. /\ hit[w] \in named <=> hit[w] \in named'
      /\ hit[w] \in numbered <=> hit[w] \in numbered'
  BY <1>1, CreatedStays
<1>5. QED
  BY <1>1, <1>2, <1>3, <1>4 DEF Fits, JobOK

\* A thread that loads a row knows it.
LEMMA FitsLoaded ==
  ASSUME TypeOK, TableOK, UNCHANGED tableVars, NEW w \in Worker, NEW i \in Present,
         hit'[w] = i, seen'[w] = device[i]
  PROVE  Fits(w)'
<1>1. device[i] \in Row /\ i <= lastId
  <2>1. i \in Id /\ device[i] # NoRow
    BY DEF Present
  <2>2. device[i] \in Row
    BY <2>1 DEF TypeOK
  <2>3. ~ (i > lastId)
    BY <2>1 DEF TableOK
  <2>4. i \in Nat /\ lastId \in Nat
    BY <2>1, BoundAssumption DEF TypeOK, Id
  <2> QED
    BY <2>2, <2>3, <2>4
<1>2. /\ i \in named => Given(device[i].uuid)
      /\ i \in numbered => Given(device[i].serial)
  BY DEF TableOK
<1>3. QED
  BY <1>1, <1>2 DEF Fits, tableVars

LEMMA JobStep == TypeOK /\ TableOK /\ JobOK /\ [Next]_vars => JobOK'
<1> SUFFICES ASSUME TypeOK, TableOK, JobOK, [Next]_vars, NEW w \in Worker
             PROVE  /\ pc'[w] # "idle" => req'[w] \in Request
                    /\ Fits(w)'
                    /\ pc'[w] = "write" /\ hit'[w] # NoId => Agrees(seen'[w], req'[w])
  BY DEF JobOK, Fits
<1> DEFINE Goal == /\ pc'[w] # "idle" => req'[w] \in Request
                   /\ Fits(w)'
                   /\ pc'[w] = "write" /\ hit'[w] # NoId => Agrees(seen'[w], req'[w])
<1> USE DEF TypeOK
<1>1. ASSUME pc'[w] = pc[w], req'[w] = req[w], hit'[w] = hit[w], seen'[w] = seen[w] PROVE Goal
  BY <1>1, FitsStays DEF JobOK
<1>2. ASSUME Release(w) PROVE Goal
  BY <1>2 DEF Release, Fits
<1>3. ASSUME NEW q \in Request, Start(w, q) PROVE Goal
  BY <1>3, FitsStays DEF Start
<1>4. ASSUME Validate(w) PROVE Goal
  BY <1>4, FitsStays DEF Validate, localVars, JobOK
<1>5. ASSUME LookupUuid(w) PROVE Goal
  <2>1. pc'[w] = "bySerial" /\ req'[w] \in Request
    BY <1>5 DEF LookupUuid, JobOK
  <2>2. CASE UNCHANGED <<hit, seen>>
    BY <2>1, <2>2, FitsStays
  <2>3. ASSUME NEW i \in WithUuid(req[w].uuid),
               hit' = [hit EXCEPT ![w] = i], seen' = [seen EXCEPT ![w] = device[i]]
        PROVE  Goal
    <3>1. Fits(w)'
      BY <1>5, <2>3, FitsLoaded DEF LookupUuid, WithUuid
    <3>2. QED
      BY <2>1, <3>1
  <2>4. QED
    BY <1>5, <2>2, <2>3 DEF LookupUuid
<1>6. ASSUME LookupSerial(w) PROVE Goal
  <2>1. pc'[w] = "write" /\ req'[w] = req[w] /\ req[w] \in Request
    BY <1>6 DEF LookupSerial, JobOK
  <2>2. CASE UNCHANGED <<hit, seen>> /\ (hit[w] # NoId => Agrees(seen[w], req[w]))
    BY <2>1, <2>2, FitsStays
  <2>3. ASSUME NEW i \in WithSerial(req[w].serial), Agrees(device[i], req[w]),
               hit' = [hit EXCEPT ![w] = i], seen' = [seen EXCEPT ![w] = device[i]]
        PROVE  Goal
    <3>1. Fits(w)'
      BY <1>6, <2>3, FitsLoaded DEF LookupSerial, WithSerial
    <3>2. QED
      BY <2>1, <2>3, <3>1
  <2>4. QED
    BY <1>6, <2>2, <2>3 DEF LookupSerial
<1>7. ASSUME NEW new \in BOOLEAN, Committed(w, new), pc[w] = "write" PROVE Goal
  <2>1. CASE Release(w)
    BY <1>2, <2>1
  <2>2. CASE pc' = [pc EXCEPT ![w] = "load"] /\ UNCHANGED localVars
    BY <1>7, <2>2, FitsStays DEF localVars, JobOK
  <2>3. QED
    BY <1>7, <2>1, <2>2 DEF Committed
<1>8. ASSUME LoadCount(w) PROVE Goal
  BY <1>8, FitsStays DEF LoadCount, JobOK
<1>9. ASSUME NEW v \in Worker, v # w, Register(v) \/ Abort(v) \/ \E q \in Request : Start(v, q)
      PROVE  pc'[w] = pc[w] /\ req'[w] = req[w] /\ hit'[w] = hit[w] /\ seen'[w] = seen[w]
  BY <1>9 DEF Register, Start, Validate, Forbid, LookupUuid, LookupSerial, Conflict, Update,
              Insert, WriteFails, LoadCount, StoreCount, KeyGone, Abort, Release, Committed,
              localVars
<1>10. ASSUME UNCHANGED <<pc, localVars>> PROVE Goal
  BY <1>1, <1>10 DEF localVars
<1>11. ASSUME Register(w) \/ Abort(w) PROVE Goal
  BY <1>2, <1>4, <1>5, <1>6, <1>7, <1>8, <1>11
     DEF Register, Forbid, Conflict, Update, Insert, WriteFails, StoreCount, KeyGone, Abort
<1>12. Goal
  BY <1>1, <1>3, <1>9, <1>10, <1>11
     DEF Next, CreateKey, DeleteKey, Expire, AdminCreate, AdminDelete, vars
<1>13. QED
  BY <1>12

-----------------------------------------------------------------------------
\* A uuid or a serial number names one device: the unique constraints, and
\* what the lookups found, keep it so.
LEMMA IdentityStep ==
  TypeOK /\ TableOK /\ JobOK /\ IdentityUnique /\ [Next]_vars => IdentityUnique'
<1> SUFFICES ASSUME TypeOK, TableOK, JobOK, IdentityUnique, [Next]_vars PROVE IdentityUnique'
  OBVIOUS
<1> DEFINE Differ(a, b) == a.serial # b.serial /\ (a.uuid # b.uuid \/ a.uuid = NoUuid)
<1>1. \A i, j \in Present : i # j => Differ(device[i], device[j])
  BY DEF IdentityUnique
<1>2. ASSUME \A i, j \in Present' : i # j => Differ(device'[i], device'[j])
      PROVE  IdentityUnique'
  BY <1>2 DEF IdentityUnique
<1>3. CASE UNCHANGED tableVars
  BY <1>1, <1>2, <1>3 DEF Present, tableVars
<1>4. ASSUME NEW row, Adds(row) PROVE IdentityUnique'
  <2> DEFINE n == lastId + 1
  <2>1. Present' \subseteq Present \union {n} /\ device'[n] = row
    BY <1>4, AddsFits DEF Present
  <2>2. \A i \in Present : device'[i] = device[i] /\ i # n
    BY <1>4, AddsFits DEF Present
  <2>3. \A i \in Present : Differ(device[i], row) /\ Differ(row, device[i])
    BY <1>4 DEF Adds, WithUuid, WithSerial
  <2> HIDE DEF n, Differ
  <2>4. QED
    BY <1>1, <1>2, <2>1, <2>2, <2>3
<1>5. ASSUME NEW i \in Id, Deletes(i) PROVE IdentityUnique'
  <2>1. \A j \in Present' : j \in Present /\ device'[j] = device[j]
    BY <1>5 DEF Deletes, Present, TypeOK
  <2> HIDE DEF Differ
  <2>2. QED
    BY <1>1, <1>2, <2>1
<1>6. ASSUME NEW w \in Worker, Merges(w) PROVE IdentityUnique'
  <2> DEFINE h == hit[w]
  <2>1. /\ h \in Present
        /\ device'[h].uuid = IF seen[w].uuid = req[w].uuid THEN device[h].uuid ELSE req[w].uuid
        /\ device'[h].serial = IF seen[w].serial = req[w].serial THEN device[h].serial
                                                              ELSE req[w].serial
        /\ \A j \in Id \ {h} : device'[j] = device[j]
    BY <1>6, MergesFits DEF Merges
  <2>2. \A j \in Present' \ {h} : j \in Present /\ device'[j] = device[j]
    BY <2>1 DEF Present
  <2>3. ASSUME NEW j \in Present \ {h}
        PROVE  Differ(device'[h], device[j]) /\ Differ(device[j], device'[h])
    <3>1. Differ(device[h], device[j]) /\ Differ(device[j], device[h])
      BY <1>1, <2>1, <2>3
    <3>2. /\ seen[w].uuid = req[w].uuid \/ device[j].uuid # req[w].uuid
          /\ seen[w].serial = req[w].serial \/ device[j].serial # req[w].serial
      BY <1>6, <2>3 DEF Merges, Taken, WithUuid, WithSerial
    <3>3. QED
      BY <2>1, <3>1, <3>2
  <2> HIDE DEF h, Differ
  <2>4. QED
    BY <1>1, <1>2, <2>2, <2>3
<1>7. QED
  BY <1>3, <1>4, <1>5, <1>6, DeviceStep

\* A token is minted for what the row was created with.
LEMMA TokenStep ==
  TypeOK /\ TableOK /\ JobOK /\ TokenMatchesRow /\ [Next]_vars => TokenMatchesRow'
<1> SUFFICES ASSUME TypeOK, TableOK, JobOK, TokenMatchesRow, [Next]_vars,
                    NEW i \in Id, device'[i] # NoRow, device'[i].token # NoToken
             PROVE  /\ i \in named' => device'[i].token.uuid = device'[i].uuid
                    /\ i \in numbered' => device'[i].token.serial = device'[i].serial
  BY DEF TokenMatchesRow, Present
<1> DEFINE Goal == /\ i \in named' => device'[i].token.uuid = device'[i].uuid
                   /\ i \in numbered' => device'[i].token.serial = device'[i].serial
<1>1. ASSUME device'[i] = device[i], i \in named' => i \in named, i \in numbered' => i \in numbered
      PROVE  Goal
  BY <1>1 DEF TokenMatchesRow, Present
<1>2. ASSUME NEW row, Adds(row) PROVE Goal
  <2>1. CASE i = lastId + 1
    <3>1. device'[i].token = [uuid |-> device'[i].uuid, serial |-> device'[i].serial]
      BY <1>2, <2>1, AddsFits DEF Adds
    <3>2. QED
      BY <3>1
  <2>2. CASE i # lastId + 1
    BY <1>1, <1>2, <2>2, AddsFits
  <2>3. QED
    BY <2>1, <2>2
<1>3. ASSUME NEW w \in Worker, Merges(w) PROVE Goal
  <2>1. named' = named /\ numbered' = numbered
    BY <1>3 DEF Merges
  <2>2. CASE i = hit[w]
    <3>1. device'[i].token = [uuid |-> req[w].uuid, serial |-> req[w].serial]
      BY <1>3, <2>2, MergesFits DEF Minted
    <3>2. /\ i \in named => device'[i].uuid = req[w].uuid
          /\ i \in numbered => device'[i].serial = req[w].serial
      BY <1>3, <2>2, MergesFits
    <3>3. QED
      BY <2>1, <3>1, <3>2
  <2>3. CASE i # hit[w]
    BY <1>1, <1>3, <2>1, <2>3, MergesFits
  <2>4. QED
    BY <2>2, <2>3
<1>4. ASSUME NEW j \in Id, Deletes(j) PROVE Goal
  BY <1>1, <1>4 DEF Deletes, TypeOK
<1>5. ASSUME UNCHANGED tableVars PROVE Goal
  BY <1>1, <1>5 DEF tableVars
<1>6. QED
  BY <1>2, <1>3, <1>4, <1>5, DeviceStep

-----------------------------------------------------------------------------
\* Counting.  Disjoint parts of a finite set are no larger together than it.
LEMMA TwoParts ==
  ASSUME NEW W, IsFiniteSet(W), NEW A \in SUBSET W, NEW B \in SUBSET W, A \cap B = {}
  PROVE  /\ IsFiniteSet(A) /\ IsFiniteSet(B)
         /\ Cardinality(A) \in Nat /\ Cardinality(B) \in Nat /\ Cardinality(W) \in Nat
         /\ Cardinality(A) + Cardinality(B) <= Cardinality(W)
<1>1. IsFiniteSet(A) /\ IsFiniteSet(B) /\ IsFiniteSet(A \union B)
  <2>1. A \union B \in SUBSET W
    OBVIOUS
  <2>2. QED
    BY <2>1, FS_Subset
<1>2. Cardinality(A \union B) <= Cardinality(W)
  <2>1. A \union B \in SUBSET W
    OBVIOUS
  <2>2. QED
    BY <2>1, FS_Subset
<1>3. Cardinality(A \union B) = Cardinality(A) + Cardinality(B)
  <2>1. Cardinality(A \cap B) = 0
    BY FS_EmptySet
  <2>2. /\ Cardinality(A \union B) = Cardinality(A) + Cardinality(B) - Cardinality(A \cap B)
        /\ Cardinality(A) \in Nat /\ Cardinality(B) \in Nat
    BY <1>1, FS_Union, FS_CardinalityType
  <2>3. QED
    BY <2>1, <2>2
<1>4. QED
  BY <1>1, <1>2, <1>3, FS_CardinalityType

LEMMA PartsOfWorker ==
  ASSUME NEW k \in Key
  PROVE  /\ IsFiniteSet(Uncounted(k)) /\ IsFiniteSet(Validated(k))
         /\ Cardinality(Uncounted(k)) \in Nat /\ Cardinality(Validated(k)) \in Nat
         /\ Cardinality(Worker) \in Nat /\ Cardinality(Worker) # 0
         /\ Cardinality(Uncounted(k)) + Cardinality(Validated(k)) <= Cardinality(Worker)
<1>1. /\ Uncounted(k) \in SUBSET Worker /\ Validated(k) \in SUBSET Worker
      /\ Uncounted(k) \cap Validated(k) = {}
  BY DEF Uncounted, Validated
<1>2. IsFiniteSet(Worker) /\ Cardinality(Worker) # 0
  BY BoundAssumption, FS_EmptySet
<1>3. QED
  BY <1>1, <1>2, TwoParts

\* What a step is to key k.  The threads about to store keep what they read.
StoresKept(k) ==
  \A v \in Worker : pc'[v] = "store" /\ req'[v].key = k =>
    pc[v] = "store" /\ req[v].key = k /\ loaded'[v] = loaded[v]

Quiet(k) ==
  /\ Uncounted(k)' = Uncounted(k) /\ Validated(k)' \subseteq Validated(k)
  /\ count'[k] = count[k] /\ enrolled'[k] = enrolled[k] /\ StoresKept(k)
Validates(w, k) ==
  /\ Uncounted(k)' = Uncounted(k)
  /\ count[k] < MaxDevices[k]
  /\ count'[k] = count[k] /\ enrolled'[k] = enrolled[k] /\ StoresKept(k)
Enrolls(w, k) ==
  /\ w \notin Uncounted(k) /\ Uncounted(k)' = Uncounted(k) \union {w}
  /\ w \in Validated(k) /\ Validated(k)' = Validated(k) \ {w}
  /\ count'[k] = count[k] /\ enrolled'[k] = enrolled[k] + 1 /\ StoresKept(k)
Loads(w, k) ==
  /\ Uncounted(k)' = Uncounted(k) /\ Validated(k)' = Validated(k)
  /\ count'[k] = count[k] /\ enrolled'[k] = enrolled[k] /\ loaded'[w] = count[k]
  /\ \A v \in Worker \ {w} : pc'[v] = "store" /\ req'[v].key = k =>
       pc[v] = "store" /\ req[v].key = k /\ loaded'[v] = loaded[v]
Counts(w, k) ==
  /\ w \in Uncounted(k) /\ Uncounted(k)' = Uncounted(k) \ {w}
  /\ Validated(k)' = Validated(k)
  /\ pc[w] = "store" /\ req[w].key = k /\ count'[k] = loaded[w] + 1
  /\ enrolled'[k] = enrolled[k] /\ StoresKept(k)
Drops(w, k) ==
  /\ w \in Uncounted(k) /\ Uncounted(k)' = Uncounted(k) \ {w}
  /\ Validated(k)' = Validated(k)
  /\ count'[k] = count[k] /\ enrolled'[k] = enrolled[k] /\ StoresKept(k)

\* A thread changes the two sets by itself at most.
LEMMA SameBut ==
  ASSUME NEW W, NEW w \in W, NEW A \in SUBSET W, NEW B \in SUBSET W,
         \A v \in W \ {w} : v \in B <=> v \in A
  PROVE  /\ (w \in B <=> w \in A) => B = A
         /\ w \in B => B = A \union {w}
         /\ w \notin B => B = A \ {w} /\ B \subseteq A
OBVIOUS

LEMMA Moves ==
  ASSUME NEW k, NEW w \in Worker, \A v \in Worker \ {w} : pc'[v] = pc[v] /\ req'[v] = req[v]
  PROVE  /\ w \in Uncounted(k) <=> pc[w] \in {"load", "store"} /\ req[w].key = k
         /\ w \in Uncounted(k)' <=> pc'[w] \in {"load", "store"} /\ req'[w].key = k
         /\ (w \in Uncounted(k)' <=> w \in Uncounted(k)) => Uncounted(k)' = Uncounted(k)
         /\ w \in Uncounted(k)' => Uncounted(k)' = Uncounted(k) \union {w}
         /\ w \notin Uncounted(k)' => Uncounted(k)' = Uncounted(k) \ {w}
         /\ w \in Validated(k) <=> pc[w] \in {"byUuid", "bySerial", "write"} /\ req[w].key = k
         /\ w \in Validated(k)' <=> pc'[w] \in {"byUuid", "bySerial", "write"} /\ req'[w].key = k
         /\ (w \in Validated(k)' <=> w \in Validated(k)) => Validated(k)' = Validated(k)
         /\ w \notin Validated(k)' =>
              Validated(k)' = Validated(k) \ {w} /\ Validated(k)' \subseteq Validated(k)
<1>1. /\ Uncounted(k) \in SUBSET Worker /\ Uncounted(k)' \in SUBSET Worker
      /\ \A v \in Worker \ {w} : v \in Uncounted(k)' <=> v \in Uncounted(k)
  BY DEF Uncounted
<1>2. /\ Validated(k) \in SUBSET Worker /\ Validated(k)' \in SUBSET Worker
      /\ \A v \in Worker \ {w} : v \in Validated(k)' <=> v \in Validated(k)
  BY DEF Validated
<1>3. /\ w \in Uncounted(k) <=> pc[w] \in {"load", "store"} /\ req[w].key = k
      /\ w \in Uncounted(k)' <=> pc'[w] \in {"load", "store"} /\ req'[w].key = k
  BY DEF Uncounted
<1>4. /\ w \in Validated(k) <=> pc[w] \in {"byUuid", "bySerial", "write"} /\ req[w].key = k
      /\ w \in Validated(k)' <=> pc'[w] \in {"byUuid", "bySerial", "write"} /\ req'[w].key = k
  BY DEF Validated
<1>5. /\ (w \in Uncounted(k)' <=> w \in Uncounted(k)) => Uncounted(k)' = Uncounted(k)
      /\ w \in Uncounted(k)' => Uncounted(k)' = Uncounted(k) \union {w}
      /\ w \notin Uncounted(k)' => Uncounted(k)' = Uncounted(k) \ {w}
  BY <1>1, SameBut
<1>6. /\ (w \in Validated(k)' <=> w \in Validated(k)) => Validated(k)' = Validated(k)
      /\ w \notin Validated(k)' =>
           Validated(k)' = Validated(k) \ {w} /\ Validated(k)' \subseteq Validated(k)
  BY <1>2, SameBut
<1>7. QED
  BY <1>3, <1>4, <1>5, <1>6

LEMMA KeyStep ==
  ASSUME TypeOK, JobOK, [Next]_vars, NEW k \in Key
  PROVE  \/ Quiet(k)
         \/ \E w \in Worker : \/ Validates(w, k) \/ Enrolls(w, k) \/ Loads(w, k)
                              \/ Counts(w, k) \/ Drops(w, k)
<1>1. ASSUME UNCHANGED <<pc, req, loaded, count, enrolled>> PROVE Quiet(k)
  BY <1>1 DEF Quiet, StoresKept, Uncounted, Validated
<1>2. ASSUME NEW w \in Worker, NEW q \in Request, Start(w, q) PROVE Quiet(k)
  <2>1. w \notin Uncounted(k) /\ w \notin Validated(k) /\ pc'[w] = "validate"
    BY <1>2 DEF TypeOK, Start, Uncounted, Validated
  <2>2. \A v \in Worker \ {w} : pc'[v] = pc[v] /\ req'[v] = req[v]
    BY <1>2 DEF TypeOK, Start
  <2>3. Uncounted(k)' = Uncounted(k) /\ Validated(k)' = Validated(k)
    BY <2>1, <2>2, Moves
  <2>4. StoresKept(k)
    BY <1>2 DEF TypeOK, Start, StoresKept
  <2>5. QED
    BY <1>2, <2>3, <2>4 DEF TypeOK, Start, Quiet, keyVars
<1>3. ASSUME NEW w \in Worker, Validate(w) PROVE Quiet(k) \/ Validates(w, k)
  <2>1. w \notin Uncounted(k) /\ w \notin Validated(k) /\ pc'[w] = "byUuid" /\ req' = req
    BY <1>3 DEF TypeOK, Validate, Uncounted, Validated, localVars
  <2>2. \A v \in Worker \ {w} : pc'[v] = pc[v] /\ req'[v] = req[v]
    BY <1>3 DEF TypeOK, Validate, localVars
  <2>3. Uncounted(k)' = Uncounted(k)
    BY <2>1, <2>2, Moves
  <2>4. StoresKept(k) /\ count' = count /\ enrolled' = enrolled
    BY <1>3 DEF TypeOK, Validate, StoresKept, localVars, keyVars
  <2>5. CASE req[w].key = k
    BY <1>3, <2>3, <2>4, <2>5 DEF TypeOK, Validate, Usable, Validates
  <2>6. CASE req[w].key # k
    <3>1. Validated(k)' \subseteq Validated(k)
      BY <2>1, <2>2, <2>6, Moves
    <3>2. QED
      BY <2>3, <2>4, <3>1 DEF Quiet
  <2>7. QED
    BY <2>5, <2>6
<1>4. ASSUME NEW w \in Worker, LookupUuid(w) \/ LookupSerial(w) PROVE Quiet(k)
  <2>1. pc[w] \in {"byUuid", "bySerial"} /\ pc'[w] \in {"bySerial", "write"} /\ req' = req
    BY <1>4 DEF TypeOK, LookupUuid, LookupSerial
  <2>2. \A v \in Worker \ {w} : pc'[v] = pc[v] /\ req'[v] = req[v]
    BY <1>4 DEF TypeOK, LookupUuid, LookupSerial
  <2>3. Uncounted(k)' = Uncounted(k) /\ Validated(k)' = Validated(k)
    <3>1. /\ w \in Validated(k) <=> req[w].key = k
          /\ w \notin Uncounted(k)
      BY <2>1 DEF Uncounted, Validated
    <3>2. QED
      BY <2>1, <2>2, <3>1, Moves
  <2>4. StoresKept(k) /\ count' = count /\ enrolled' = enrolled
    BY <1>4 DEF TypeOK, LookupUuid, LookupSerial, StoresKept, keyVars
  <2>5. QED
    BY <2>3, <2>4 DEF Quiet
<1>5. ASSUME NEW w \in Worker, Release(w), pc[w] \notin {"load", "store"},
             UNCHANGED <<count, enrolled>>
      PROVE  Quiet(k)
  <2>1. w \notin Uncounted(k) /\ pc'[w] = "idle"
    BY <1>5 DEF TypeOK, Release, Uncounted
  <2>2. \A v \in Worker \ {w} : pc'[v] = pc[v] /\ req'[v] = req[v] /\ loaded'[v] = loaded[v]
    BY <1>5 DEF TypeOK, Release
  <2>3. Uncounted(k)' = Uncounted(k) /\ Validated(k)' \subseteq Validated(k)
    BY <2>1, <2>2, Moves
  <2>4. StoresKept(k)
    BY <2>1, <2>2 DEF StoresKept
  <2>5. QED
    BY <1>5, <2>3, <2>4 DEF Quiet
<1>6. ASSUME NEW w \in Worker, Release(w), pc[w] \in {"load", "store"}, UNCHANGED enrolled,
             UNCHANGED count \/ StoreCount(w)
      PROVE  Quiet(k) \/ Drops(w, k) \/ Counts(w, k)
  <2>1. pc'[w] = "idle"
    BY <1>6 DEF TypeOK, Release
  <2>2. \A v \in Worker \ {w} : pc'[v] = pc[v] /\ req'[v] = req[v] /\ loaded'[v] = loaded[v]
    BY <1>6 DEF TypeOK, Release
  <2>3. StoresKept(k)
    BY <2>1, <2>2 DEF StoresKept
  <2>4. w \notin Validated(k) /\ (w \in Uncounted(k) <=> req[w].key = k)
    BY <1>6 DEF Validated, Uncounted
  <2>5. Uncounted(k)' = Uncounted(k) \ {w} /\ Validated(k)' = Validated(k)
    BY <2>1, <2>2, <2>4, Moves
  <2>6. CASE UNCHANGED count
    <3>1. CASE req[w].key = k
      BY <1>6, <2>3, <2>4, <2>5, <2>6, <3>1 DEF Drops
    <3>2. CASE req[w].key # k
      BY <1>6, <2>3, <2>4, <2>5, <2>6, <3>2 DEF Quiet
    <3>3. QED
      BY <3>1, <3>2
  <2>7. CASE StoreCount(w)
    <3>1. CASE req[w].key = k
      BY <1>6, <2>3, <2>4, <2>5, <2>7, <3>1 DEF TypeOK, Counts, StoreCount
    <3>2. CASE req[w].key # k
      BY <1>6, <2>3, <2>4, <2>5, <2>7, <3>2 DEF Quiet, StoreCount
    <3>3. QED
      BY <3>1, <3>2
  <2>8. QED
    BY <1>6, <2>6, <2>7
<1>7. ASSUME NEW w \in Worker, NEW new \in BOOLEAN, pc[w] = "write", Committed(w, new),
             UNCHANGED count
      PROVE  Quiet(k) \/ Enrolls(w, k)
  <2>1. CASE Release(w) /\ UNCHANGED enrolled
    BY <1>5, <1>7, <2>1
  <2>2. CASE /\ enrolled' = [enrolled EXCEPT ![req[w].key] = @ + 1]
             /\ pc' = [pc EXCEPT ![w] = "load"] /\ UNCHANGED localVars
    <3>1. \A v \in Worker \ {w} : pc'[v] = pc[v] /\ req'[v] = req[v]
      BY <2>2 DEF TypeOK, localVars
    <3>2. StoresKept(k) /\ pc'[w] = "load" /\ req'[w] = req[w]
      BY <2>2 DEF TypeOK, StoresKept, localVars
    <3>3. w \notin Uncounted(k) /\ (w \in Validated(k) <=> req[w].key = k)
      BY <1>7 DEF Uncounted, Validated
    <3>4. CASE req[w].key = k
      <4>1. Uncounted(k)' = Uncounted(k) \union {w} /\ Validated(k)' = Validated(k) \ {w}
        BY <3>1, <3>2, <3>4, Moves
      <4>2. QED
        BY <1>7, <2>2, <3>2, <3>3, <3>4, <4>1 DEF TypeOK, Enrolls
    <3>5. CASE req[w].key # k
      <4>1. Uncounted(k)' = Uncounted(k) /\ Validated(k)' = Validated(k)
        BY <3>1, <3>2, <3>3, <3>5, Moves
      <4>2. QED
        BY <1>7, <2>2, <3>2, <3>5, <4>1 DEF Quiet
    <3>6. QED
      BY <3>4, <3>5
  <2>3. QED
    BY <1>7, <2>1, <2>2 DEF Committed
<1>8. ASSUME NEW w \in Worker, LoadCount(w) PROVE Quiet(k) \/ Loads(w, k)
  <2>1. /\ pc[w] = "load" /\ pc'[w] = "store" /\ req' = req /\ loaded'[w] = count[req[w].key]
        /\ UNCHANGED <<count, enrolled>>
        /\ \A v \in Worker \ {w} : pc'[v] = pc[v] /\ loaded'[v] = loaded[v]
    BY <1>8 DEF TypeOK, LoadCount, keyVars
  <2>2. Uncounted(k)' = Uncounted(k) /\ Validated(k)' = Validated(k)
    <3>1. /\ w \in Uncounted(k) <=> req[w].key = k
          /\ w \notin Validated(k)
      BY <2>1 DEF Uncounted, Validated
    <3>2. QED
      BY <2>1, <3>1, Moves
  <2>3. CASE req[w].key = k
    BY <2>1, <2>2, <2>3 DEF Loads
  <2>4. CASE req[w].key # k
    BY <2>1, <2>2, <2>4 DEF Quiet, StoresKept
  <2>5. QED
    BY <2>3, <2>4
<1>9. ASSUME NEW w \in Worker, Register(w) \/ Abort(w)
      PROVE  \/ Quiet(k) \/ Validates(w, k) \/ Enrolls(w, k) \/ Loads(w, k)
             \/ Counts(w, k) \/ Drops(w, k)
  BY <1>3, <1>4, <1>5, <1>6, <1>7, <1>8, <1>9
     DEF Register, Forbid, Conflict, Update, Insert, WriteFails, StoreCount, KeyGone, Abort, keyVars
<1>10. QED
  BY <1>1, <1>2, <1>9
     DEF Next, CreateKey, DeleteKey, Expire, AdminCreate, AdminDelete, vars, keyVars, localVars

\* NeverOvercounts, LoadedOK and Headroom for one key.
Counted(k) ==
  /\ count[k] + Cardinality(Uncounted(k)) <= enrolled[k]
  /\ \A v \in Worker : pc[v] = "store" /\ req[v].key = k =>
       /\ loaded[v] + Cardinality(Uncounted(k)) <= enrolled[k]
       /\ loaded[v] + Cardinality(Uncounted(k)) = enrolled[k] => loaded[v] = count[k]
  /\ count[k] + Cardinality(Uncounted(k)) = enrolled[k] =>
       enrolled[k] + Cardinality(Validated(k)) < MaxDevices[k] + Cardinality(Worker)

LEMMA CountedAll ==
  ASSUME JobOK
  PROVE  NeverOvercounts /\ LoadedOK /\ Headroom <=> \A k \in Key : Counted(k)
<1>1. \A w \in Worker : pc[w] = "store" => req[w].key \in Key
  BY KeyOf
<1>2. QED
  BY <1>1 DEF NeverOvercounts, LoadedOK, Headroom, Counted

LEMMA CountedInit == Init => \A k \in Key : Counted(k)
<1> SUFFICES ASSUME Init, NEW k \in Key PROVE Counted(k)
  OBVIOUS
<1>1. Uncounted(k) = {} /\ Validated(k) = {}
  BY DEF Init, Uncounted, Validated
<1>2. count[k] = 0 /\ enrolled[k] = 0 /\ \A v \in Worker : pc[v] = "idle"
  BY DEF Init
<1>3. Cardinality({}) = 0 /\ Cardinality(Worker) \in Nat \ {0} /\ MaxDevices[k] \in Nat
  BY FS_EmptySet, PartsOfWorker, BoundAssumption
<1>4. QED
  BY <1>1, <1>2, <1>3 DEF Counted

\* A store adds one to what it read, and one registration is counted: the
\* sum comes out as if its read had been the counter.
LEMMA CountedStep ==
  ASSUME TypeOK, TableOK, JobOK, [Next]_vars, NEW k \in Key, Counted(k)
  PROVE  Counted(k)'
<1> DEFINE U == Cardinality(Uncounted(k))
           V == Cardinality(Validated(k))
           N == Cardinality(Worker)
           U1 == Cardinality(Uncounted(k)')
           V1 == Cardinality(Validated(k)')
<1>1. /\ U \in Nat /\ V \in Nat /\ N \in Nat /\ U + V <= N
      /\ IsFiniteSet(Uncounted(k)) /\ IsFiniteSet(Validated(k))
  BY PartsOfWorker
<1>2. U1 \in Nat /\ V1 \in Nat /\ U1 + V1 <= N
  <2>1. /\ Uncounted(k)' \in SUBSET Worker /\ Validated(k)' \in SUBSET Worker
        /\ Uncounted(k)' \cap Validated(k)' = {}
    BY DEF Uncounted, Validated
  <2>2. QED
    BY <2>1, BoundAssumption, TwoParts
<1>3. /\ count[k] \in Nat /\ enrolled[k] \in Nat /\ MaxDevices[k] \in Nat
      /\ \A v \in Worker : loaded[v] \in Nat
  BY BoundAssumption DEF TypeOK
<1>4. /\ count'[k] \in Nat /\ enrolled'[k] \in Nat
      /\ \A v \in Worker : loaded'[v] \in Nat
  BY TypeStep DEF TypeOK
<1>5. /\ count[k] + U <= enrolled[k]
      /\ \A v \in Worker : pc[v] = "store" /\ req[v].key = k =>
           loaded[v] + U <= enrolled[k] /\ (loaded[v] + U = enrolled[k] => loaded[v] = count[k])
      /\ count[k] + U = enrolled[k] => enrolled[k] + V < MaxDevices[k] + N
  BY DEF Counted
<1>6. ASSUME /\ count'[k] + U1 <= enrolled'[k]
             /\ \A v \in Worker : pc'[v] = "store" /\ req'[v].key = k =>
                  /\ loaded'[v] + U1 <= enrolled'[k]
                  /\ loaded'[v] + U1 = enrolled'[k] => loaded'[v] = count'[k]
             /\ count'[k] + U1 = enrolled'[k] => enrolled'[k] + V1 < MaxDevices[k] + N
      PROVE  Counted(k)'
  BY <1>6 DEF Counted
<1>7. CASE Quiet(k)
  <2>1. U1 = U /\ V1 <= V
    BY <1>1, <1>7, FS_Subset DEF Quiet
  <2> HIDE DEF U, V, N, U1, V1
  <2>2. QED
    BY <1>1, <1>2, <1>3, <1>5, <1>6, <1>7, <2>1 DEF Quiet, StoresKept
<1>8. ASSUME NEW w \in Worker, Validates(w, k) PROVE Counted(k)'
  <2>1. U1 = U
    BY <1>8 DEF Validates
  <2> HIDE DEF U, V, N, U1, V1
  <2>2. QED
    BY <1>1, <1>2, <1>3, <1>5, <1>6, <1>8, <2>1 DEF Validates, StoresKept
<1>9. ASSUME NEW w \in Worker, Enrolls(w, k) PROVE Counted(k)'
  <2>0. w \notin Uncounted(k) /\ Uncounted(k)' = Uncounted(k) \union {w}
    BY <1>9 DEF Enrolls
  <2>1. U1 = U + 1
    <3>1. Cardinality(Uncounted(k) \union {w}) = U + 1
      BY <1>1, <2>0, FS_AddElement
    <3> QED
      BY <2>0, <3>1
  <2>2. V1 = V - 1
    BY <1>1, <1>9, FS_RemoveElement DEF Enrolls
  <2> HIDE DEF U, V, N, U1, V1
  <2>3. QED
    BY <1>1, <1>2, <1>3, <1>5, <1>6, <1>9, <2>1, <2>2 DEF Enrolls, StoresKept
<1>10. ASSUME NEW w \in Worker, Loads(w, k) PROVE Counted(k)'
  <2>1. U1 = U /\ V1 = V
    BY <1>10 DEF Loads
  <2> HIDE DEF U, V, N, U1, V1
  <2>2. ASSUME NEW v \in Worker, pc'[v] = "store", req'[v].key = k
        PROVE  /\ loaded'[v] + U1 <= enrolled'[k]
               /\ loaded'[v] + U1 = enrolled'[k] => loaded'[v] = count'[k]
    <3>1. CASE v = w
      BY <1>1, <1>3, <1>5, <1>10, <2>1, <2>2, <3>1 DEF Loads
    <3>2. CASE v # w
      BY <1>1, <1>3, <1>5, <1>10, <2>1, <2>2, <3>2 DEF Loads
    <3>3. QED
      BY <3>1, <3>2
  <2>3. QED
    BY <1>5, <1>6, <1>10, <2>1, <2>2 DEF Loads
<1>11. ASSUME NEW w \in Worker, Counts(w, k) PROVE Counted(k)'
  <2>1. U1 = U - 1 /\ V1 = V
    BY <1>1, <1>11, FS_RemoveElement DEF Counts
  <2> HIDE DEF U, V, N, U1, V1
  <2>2. /\ loaded[w] + U <= enrolled[k]
        /\ loaded[w] + U = enrolled[k] => loaded[w] = count[k]
        /\ count'[k] = loaded[w] + 1 /\ enrolled'[k] = enrolled[k]
    BY <1>5, <1>11 DEF Counts
  <2>3. ASSUME NEW v \in Worker, pc'[v] = "store", req'[v].key = k
        PROVE  loaded'[v] + U1 < enrolled'[k]
    BY <1>1, <1>3, <1>5, <1>11, <2>1, <2>3 DEF Counts, StoresKept
  <2>4. \A v \in Worker : loaded'[v] + U1 \in Nat
    BY <1>2, <1>4
  <2>5. QED
    BY <1>1, <1>2, <1>3, <1>4, <1>5, <1>6, <2>1, <2>2, <2>3, <2>4
<1>12. ASSUME NEW w \in Worker, Drops(w, k) PROVE Counted(k)'
  <2>1. U1 = U - 1 /\ V1 = V
    BY <1>1, <1>12, FS_RemoveElement DEF Drops
  <2> HIDE DEF U, V, N, U1, V1
  <2>2. ASSUME NEW v \in Worker, pc'[v] = "store", req'[v].key = k
        PROVE  loaded'[v] + U1 < enrolled'[k]
    BY <1>1, <1>3, <1>5, <1>12, <2>1, <2>2 DEF Drops, StoresKept
  <2>3. \A v \in Worker : loaded'[v] + U1 \in Nat
    BY <1>2, <1>4
  <2>4. QED
    BY <1>1, <1>2, <1>3, <1>4, <1>5, <1>6, <1>12, <2>1, <2>2, <2>3 DEF Drops
<1>13. QED
  BY <1>7, <1>8, <1>9, <1>10, <1>11, <1>12, KeyStep

-----------------------------------------------------------------------------
\* The strengthened invariant is inductive.
THEOREM Invariance == Spec => []IInv
<1>1. Init => IInv
  BY TypeInit, TableInit, CountedInit, CountedAll DEF IInv
<1>2. IInv /\ [Next]_vars => IInv'
  <2> SUFFICES ASSUME IInv, [Next]_vars PROVE IInv'
    OBVIOUS
  <2>1. TypeOK' /\ TableOK' /\ JobOK' /\ IdentityUnique' /\ TokenMatchesRow'
    BY TypeStep, TableStep, JobStep, IdentityStep, TokenStep DEF IInv
  <2>2. \A k \in Key : Counted(k)
    BY CountedAll DEF IInv
  <2>3. \A k \in Key : Counted(k)'
    BY <2>2, CountedStep DEF IInv
  <2>4. (NeverOvercounts /\ LoadedOK /\ Headroom <=> \A k \in Key : Counted(k))'
    BY <2>1, CountedAll, PTL
  <2>5. QED
    BY <2>1, <2>3, <2>4 DEF IInv
<1>3. QED
  BY <1>1, <1>2, PTL DEF Spec

\* The variables keep their types.
THEOREM TypeCorrect == Spec => []TypeOK
<1>1. IInv => TypeOK
  BY DEF IInv
<1>2. QED
  BY Invariance, <1>1, PTL

\* A uuid or a serial number names one device.
THEOREM OneIdentity == Spec => []IdentityUnique
<1>1. IInv => IdentityUnique
  BY DEF IInv
<1>2. QED
  BY Invariance, <1>1, PTL

\* The token of a device was minted for the uuid and the serial number that the
\* device was created with.
THEOREM TokenFits == Spec => []TokenMatchesRow
<1>1. IInv => TokenMatchesRow
  BY DEF IInv
<1>2. QED
  BY Invariance, <1>1, PTL

\* Whatever registrations and deletions race over it, a device keeps the uuid and
\* the serial number it was created with, and stays registered.
THEOREM Bound == Spec => BoundForLife
<1>1. IInv /\ [Next]_vars =>
        [\A i \in Present : device'[i] # NoRow =>
           /\ device[i].registered => device'[i].registered
           /\ i \in named => device'[i].uuid = device[i].uuid
           /\ i \in numbered => device'[i].serial = device[i].serial]_vars
  <2>1. ASSUME IInv, [Next]_vars, NEW i \in Present, device'[i] # NoRow
        PROVE  /\ device[i].registered => device'[i].registered
               /\ i \in named => device'[i].uuid = device[i].uuid
               /\ i \in numbered => device'[i].serial = device[i].serial
    <3>1. i \in Id /\ i <= lastId
      BY <2>1 DEF IInv, TypeOK, TableOK, Present, Id
    <3>2. QED
      BY <2>1, <3>1, RowsStay DEF IInv
  <2>2. QED
    BY <2>1
<1>2. QED
  BY Invariance, <1>1, PTL DEF Spec, BoundForLife

\* The counter of a key never gets ahead of the registrations under it.
THEOREM CounterBehind == Spec => []NeverOvercounts
<1>1. IInv => NeverOvercounts
  BY DEF IInv
<1>2. QED
  BY Invariance, <1>1, PTL

\* As long as no increment was lost, racing threads let in fewer devices above
\* a key's limit than there are threads.
THEOREM Overshoot == Spec => []OvershootBounded
<1>1. IInv => OvershootBounded
  <2> SUFFICES ASSUME IInv, NEW k \in Key,
                      count[k] + Cardinality(Uncounted(k)) = enrolled[k]
               PROVE  enrolled[k] < MaxDevices[k] + Cardinality(Worker)
    BY DEF OvershootBounded
  <2>1. enrolled[k] + Cardinality(Validated(k)) < MaxDevices[k] + Cardinality(Worker)
    BY DEF IInv, Headroom
  <2>2. /\ enrolled[k] \in Nat /\ MaxDevices[k] \in Nat
        /\ Cardinality(Validated(k)) \in Nat /\ Cardinality(Worker) \in Nat
    BY BoundAssumption, PartsOfWorker DEF IInv, TypeOK
  <2>3. QED
    BY <2>1, <2>2
<1>2. QED
  BY Invariance, <1>1, PTL

=============================================================================
