----------------------------- MODULE Enrollment -----------------------------
(***************************************************************************)
(* Agent registration: POST /api/agent/register and /api/device/register    *)
(* (AgentService.register_agent), with what administrators do meanwhile to  *)
(* enrollment keys and devices.                                             *)
(*                                                                          *)
(* A registration is a sequence of statements: the enrollment key is        *)
(* validated, the device looked up by uuid and by serial number, the row    *)
(* written and committed, and then, in a transaction of its own, the        *)
(* counter of the key is read and written.  Nothing is locked in between.   *)
(* An UPDATE writes the columns whose value differs from the one the        *)
(* session loaded, and no others.                                           *)
(*                                                                          *)
(* The schemas accept the empty string for the uuid and the serial number.  *)
(* It is a value like any other to the lookups and the unique constraints,  *)
(* and no value at all to the checks of a registration.                     *)
(*                                                                          *)
(* A token is represented by the identity it was minted for.                *)
(***************************************************************************)
EXTENDS Naturals, Sequences, FiniteSets

CONSTANTS
  Worker,           \* the threads that serve requests
  Uuid, Serial,     \* what a machine calls itself
  Key,              \* enrollment keys, by their secret: none is ever made twice
  MaxDevices,       \* MaxDevices[k]: max_devices of key k
  Request,          \* the registrations agents may send
  Entered,          \* the devices administrators may enter
  MaxId,            \* bound: how many device rows there may ever be
  LegacySerial,     \* serial numbers of the rows from before there were uuids
  MaxFault,         \* bound: how many requests may break off
  Empty,            \* the empty string, which may be a Uuid and a Serial
  NoUuid, NoToken, NoRow, NoReq

Identity == [uuid : Uuid, serial : Serial]
Row == [uuid : Uuid \union {NoUuid}, serial : Serial, registered : BOOLEAN,
        token : Identity \union {NoToken}]
Id == 1..MaxId
NoId == 0

ASSUME RequestAssumption ==
  /\ Request \subseteq [uuid : Uuid, serial : Serial, key : Key]
  /\ Entered \subseteq Identity
ASSUME NullAssumption ==
  /\ NoUuid \notin Uuid /\ NoToken \notin Identity
  /\ NoRow \notin Row /\ NoReq \notin Request
ASSUME BoundAssumption ==
  /\ MaxId \in Nat /\ MaxFault \in Nat
  /\ MaxDevices \in [Key -> Nat]
  /\ IsFiniteSet(Worker) /\ Worker # {}
ASSUME LegacyAssumption ==
  /\ LegacySerial \in Seq(Serial)
  /\ Len(LegacySerial) <= MaxId
  /\ \A i, j \in DOMAIN LegacySerial : LegacySerial[i] = LegacySerial[j] => i = j

VARIABLES
  device,           \* table devices by id; NoRow before and after the row's life
  lastId,           \* the highest id given out
  status,           \* status[k]: is the row of key k there?
  expired,          \* the keys whose expires_at has passed
  count,            \* count[k]: devices_registered of key k
  pc,               \* pc[w]: where the thread is in register_agent
  req,              \* req[w]: its request
  hit,              \* hit[w]: id of the device it found, or NoId
  seen,             \* seen[w]: that row as the session loaded it
  loaded,           \* loaded[w]: devices_registered as it read it
  enrolled,         \* enrolled[k]: new registrations committed under k (history)
  named, numbered,  \* the ids created with a uuid, with a serial number (history)
  faults            \* how many requests broke off

keyVars == <<status, expired, count>>
localVars == <<req, hit, seen, loaded>>
tableVars == <<device, lastId, named, numbered>>
vars == <<tableVars, keyVars, pc, localVars, enrolled, faults>>

TypeOK ==
  /\ device \in [Id -> Row \union {NoRow}]
  /\ lastId \in 0..MaxId
  /\ status \in [Key -> {"unmade", "active", "deleted"}]
  /\ expired \subseteq Key
  /\ count \in [Key -> Nat]
  /\ pc \in [Worker -> {"idle", "validate", "byUuid", "bySerial", "write",
                        "load", "store"}]
  /\ req \in [Worker -> Request \union {NoReq}]
  /\ hit \in [Worker -> Id \union {NoId}]
  /\ seen \in [Worker -> Row \union {NoRow}]
  /\ loaded \in [Worker -> Nat]
  /\ enrolled \in [Key -> Nat]
  /\ named \subseteq Id /\ numbered \subseteq Id
  /\ faults \in 0..MaxFault

\* Python's truth of a string that may be missing.
Given(value) == value \notin {NoUuid, Empty}

Legacy == DOMAIN LegacySerial
LegacyRow(i) ==
  [uuid |-> NoUuid, serial |-> LegacySerial[i], registered |-> FALSE, token |-> NoToken]

Init ==
  /\ device = [i \in Id |-> IF i \in Legacy THEN LegacyRow(i) ELSE NoRow]
  /\ lastId = Len(LegacySerial)
  /\ named = {}
  /\ numbered = {i \in Legacy : Given(LegacySerial[i])}
  /\ status = [k \in Key |-> "unmade"]
  /\ expired = {}
  /\ count = [k \in Key |-> 0]
  /\ pc = [w \in Worker |-> "idle"]
  /\ req = [w \in Worker |-> NoReq]
  /\ hit = [w \in Worker |-> NoId]
  /\ seen = [w \in Worker |-> NoRow]
  /\ loaded = [w \in Worker |-> 0]
  /\ enrolled = [k \in Key |-> 0]
  /\ faults = 0

Present == {i \in Id : device[i] # NoRow}
WithUuid(u) == {i \in Present : device[i].uuid = u}
WithSerial(s) == {i \in Present : device[i].serial = s}

-----------------------------------------------------------------------------
(* Administrators, and time.                                                *)

CreateKey(k) ==
  /\ status[k] = "unmade"
  /\ status' = [status EXCEPT ![k] = "active"]
  /\ UNCHANGED <<tableVars, expired, count, pc, localVars, enrolled, faults>>

DeleteKey(k) ==
  /\ status[k] = "active"
  /\ status' = [status EXCEPT ![k] = "deleted"]
  /\ UNCHANGED <<tableVars, expired, count, pc, localVars, enrolled, faults>>

Expire(k) ==
  /\ status[k] = "active" /\ k \notin expired
  /\ expired' = expired \union {k}
  /\ UNCHANGED <<tableVars, status, count, pc, localVars, enrolled, faults>>

\* A row enters the table under the next id; the unique constraints on uuid
\* and serial number let it in.
Add(row) ==
  /\ lastId < MaxId
  /\ lastId' = lastId + 1
  /\ device' = [device EXCEPT ![lastId + 1] = row]
  /\ named' = IF Given(row.uuid) THEN named \union {lastId + 1} ELSE named
  /\ numbered' = IF Given(row.serial) THEN numbered \union {lastId + 1} ELSE numbered

\* DeviceService.create_device.  Its two lookups only turn a refusal by the
\* constraints into an answer of its own, so the step is one.
AdminCreate(entry) ==
  /\ WithUuid(entry.uuid) = {} /\ WithSerial(entry.serial) = {}
  /\ Add([uuid |-> entry.uuid, serial |-> entry.serial, registered |-> TRUE, token |-> NoToken])
  /\ UNCHANGED <<keyVars, pc, localVars, enrolled, faults>>

\* DeviceService.delete_device, of a row nothing references yet: a foreign key
\* of a heartbeat, session or event refuses the others.
AdminDelete(i) ==
  /\ i \in Present
  /\ device' = [device EXCEPT ![i] = NoRow]
  /\ UNCHANGED <<lastId, named, numbered, keyVars, pc, localVars, enrolled, faults>>

-----------------------------------------------------------------------------
(* register_agent, one statement at a time.                                 *)

Start(w, q) ==
  /\ pc[w] = "idle"
  /\ pc' = [pc EXCEPT ![w] = "validate"]
  /\ req' = [req EXCEPT ![w] = q]
  /\ UNCHANGED <<tableVars, keyVars, hit, seen, loaded, enrolled, faults>>

\* The request ends, with an answer or an exception.
Release(w) ==
  /\ pc' = [pc EXCEPT ![w] = "idle"]
  /\ req' = [req EXCEPT ![w] = NoReq]
  /\ hit' = [hit EXCEPT ![w] = NoId]
  /\ seen' = [seen EXCEPT ![w] = NoRow]
  /\ loaded' = [loaded EXCEPT ![w] = 0]

\* Faulty: one device too many.
FaultyUsable(k) == status[k] = "active" /\ k \notin expired /\ count[k] <= MaxDevices[k]

\* The filter of validate_key.
Usable(k) == status[k] = "active" /\ k \notin expired /\ count[k] < MaxDevices[k]

Validate(w) ==
  /\ pc[w] = "validate"
  /\ Usable(req[w].key)
  /\ pc' = [pc EXCEPT ![w] = "byUuid"]
  /\ UNCHANGED <<tableVars, keyVars, localVars, enrolled, faults>>

\* PermissionError: 403.
Forbid(w) ==
  /\ pc[w] = "validate"
  /\ ~Usable(req[w].key)
  /\ Release(w)
  /\ UNCHANGED <<tableVars, keyVars, enrolled, faults>>

\* existing_by_uuid.
LookupUuid(w) ==
  LET found == WithUuid(req[w].uuid) IN
  /\ pc[w] = "byUuid"
  /\ \/ /\ found = {}
        /\ UNCHANGED <<hit, seen>>
     \/ \E i \in found :
          /\ hit' = [hit EXCEPT ![w] = i]
          /\ seen' = [seen EXCEPT ![w] = device[i]]
  /\ pc' = [pc EXCEPT ![w] = "bySerial"]
  /\ UNCHANGED <<tableVars, keyVars, req, loaded, enrolled, faults>>

\* Faulty: a reinstalled machine may take over the row of its serial number.
FaultyAgrees(row, q) == Given(row.serial) => row.serial = q.serial

\* Faulty: the row of the uuid is taken whatever its serial number.
CarelessAgrees(row, q) == Given(row.uuid) => row.uuid = q.uuid

\* A device may take this registration: what it already says of its uuid and
\* its serial number, if anything, is what the request says.
Agrees(row, q) ==
  /\ Given(row.uuid) => row.uuid = q.uuid
  /\ Given(row.serial) => row.serial = q.serial

\* existing_by_serial and the checks on what the two lookups found.  A row the
\* first lookup loaded keeps the values it was loaded with.
LookupSerial(w) ==
  LET found == WithSerial(req[w].serial) IN
  /\ pc[w] = "bySerial"
  /\ \/ /\ hit[w] # NoId /\ found \subseteq {hit[w]}
        /\ Agrees(seen[w], req[w])
        /\ UNCHANGED <<hit, seen>>
     \/ /\ hit[w] = NoId /\ found = {}
        /\ UNCHANGED <<hit, seen>>
     \/ /\ hit[w] = NoId
        /\ \E i \in found :
             /\ Agrees(device[i], req[w])
             /\ hit' = [hit EXCEPT ![w] = i]
             /\ seen' = [seen EXCEPT ![w] = device[i]]
  /\ pc' = [pc EXCEPT ![w] = "write"]
  /\ UNCHANGED <<tableVars, keyVars, req, loaded, enrolled, faults>>

\* DeviceAlreadyExists: 409.
Conflict(w) ==
  LET found == WithSerial(req[w].serial) IN
  /\ pc[w] = "bySerial"
  /\ \/ hit[w] # NoId /\ (~(found \subseteq {hit[w]}) \/ ~Agrees(seen[w], req[w]))
     \/ hit[w] = NoId /\ \E i \in found : ~Agrees(device[i], req[w])
  /\ Release(w)
  /\ UNCHANGED <<tableVars, keyVars, enrolled, faults>>

\* Faulty: the token is minted for the whole request.
FaultyMinted(q) == q

\* The token generated for the machine of the request.
Minted(q) == [uuid |-> q.uuid, serial |-> q.serial]

\* What an UPDATE leaves in the row: the columns that differ from what the
\* session loaded, over what the row holds by now.
Merged(row, old, q) ==
  [row EXCEPT !.uuid = IF old.uuid = q.uuid THEN @ ELSE q.uuid,
              !.serial = IF old.serial = q.serial THEN @ ELSE q.serial,
              !.registered = IF old.registered THEN @ ELSE TRUE,
              !.token = Minted(q)]

\* Faulty: every registration is counted, those of registered devices too.
FaultyCommitted(w, new) ==
  /\ enrolled' = [enrolled EXCEPT ![req[w].key] = IF new THEN @ + 1 ELSE @]
  /\ pc' = [pc EXCEPT ![w] = "load"]
  /\ UNCHANGED localVars

\* Where the thread goes after the commit of the device: on to the counter if
\* this is a new registration, otherwise the answer is next.
Committed(w, new) ==
  \/ /\ new
     /\ enrolled' = [enrolled EXCEPT ![req[w].key] = @ + 1]
     /\ pc' = [pc EXCEPT ![w] = "load"]
     /\ UNCHANGED localVars
  \/ /\ ~new
     /\ Release(w)
     /\ UNCHANGED enrolled

\* Another device has a uuid or a serial number that the UPDATE writes.
Taken(w) ==
  \/ seen[w].uuid # req[w].uuid /\ ~(WithUuid(req[w].uuid) \subseteq {hit[w]})
  \/ seen[w].serial # req[w].serial /\ ~(WithSerial(req[w].serial) \subseteq {hit[w]})

\* update_device: commit of a device that exists.
Update(w) ==
  LET i == hit[w] IN
  /\ pc[w] = "write" /\ i # NoId
  /\ i \in Present /\ ~Taken(w)
  /\ device' = [device EXCEPT ![i] = Merged(@, seen[w], req[w])]
  /\ Committed(w, ~seen[w].registered)
  /\ UNCHANGED <<lastId, named, numbered, keyVars, faults>>

NewRow(q) ==
  [uuid |-> q.uuid, serial |-> q.serial, registered |-> TRUE, token |-> Minted(q)]

\* Faulty: only the uuid is unique.
FaultyInsert(w) ==
  /\ pc[w] = "write" /\ hit[w] = NoId
  /\ WithUuid(req[w].uuid) = {}
  /\ Add(NewRow(req[w]))
  /\ Committed(w, TRUE)
  /\ UNCHANGED <<keyVars, faults>>

\* create_device: commit of a new one.
Insert(w) ==
  /\ pc[w] = "write" /\ hit[w] = NoId
  /\ WithUuid(req[w].uuid) = {} /\ WithSerial(req[w].serial) = {}
  /\ Add(NewRow(req[w]))
  /\ Committed(w, TRUE)
  /\ UNCHANGED <<keyVars, faults>>

\* The commit raises, the session rolls back, and the answer is 500: the row
\* is gone, or another has taken the uuid or the serial number.
WriteFails(w) ==
  LET i == hit[w] IN
  /\ pc[w] = "write"
  /\ \/ i # NoId /\ i \notin Present
     \/ i # NoId /\ Taken(w)
     \/ i = NoId /\ (WithUuid(req[w].uuid) # {} \/ WithSerial(req[w].serial) # {})
  /\ Release(w)
  /\ UNCHANGED <<tableVars, keyVars, enrolled, faults>>

\* key.devices_registered: the commit expired the key, so this is a SELECT.
LoadCount(w) ==
  LET k == req[w].key IN
  /\ pc[w] = "load"
  /\ status[k] = "active"
  /\ loaded' = [loaded EXCEPT ![w] = count[k]]
  /\ pc' = [pc EXCEPT ![w] = "store"]
  /\ UNCHANGED <<tableVars, keyVars, req, hit, seen, enrolled, faults>>

\* += 1 and its commit; then the answer carries the token.
StoreCount(w) ==
  LET k == req[w].key IN
  /\ pc[w] = "store"
  /\ status[k] = "active"
  /\ count' = [count EXCEPT ![k] = loaded[w] + 1]
  /\ Release(w)
  /\ UNCHANGED <<tableVars, status, expired, enrolled, faults>>

\* The key was deleted under the registration: 500 after the device is in.
KeyGone(w) ==
  /\ pc[w] \in {"load", "store"}
  /\ status[req[w].key] # "active"
  /\ Release(w)
  /\ UNCHANGED <<tableVars, keyVars, enrolled, faults>>

\* A statement fails, or the process stops: what was committed stays.
Abort(w) ==
  /\ pc[w] # "idle"
  /\ faults < MaxFault
  /\ faults' = faults + 1
  /\ Release(w)
  /\ UNCHANGED <<tableVars, keyVars, enrolled>>

Register(w) ==
  \/ Validate(w) \/ Forbid(w)
  \/ LookupUuid(w) \/ LookupSerial(w) \/ Conflict(w)
  \/ Update(w) \/ Insert(w) \/ WriteFails(w)
  \/ LoadCount(w) \/ StoreCount(w) \/ KeyGone(w)

Next ==
  \/ \E k \in Key : CreateKey(k) \/ DeleteKey(k) \/ Expire(k)
  \/ \E entry \in Entered : AdminCreate(entry)
  \/ \E i \in Id : AdminDelete(i)
  \/ \E w \in Worker, q \in Request : Start(w, q)
  \/ \E w \in Worker : Register(w) \/ Abort(w)

Spec == Init /\ [][Next]_vars

-----------------------------------------------------------------------------
(* Properties.                                                              *)

\* The registrations of key k that are committed and not yet counted.
Uncounted(k) == {w \in Worker : pc[w] \in {"load", "store"} /\ req[w].key = k}

\* Lost updates, aborts and deletions make the counter fall behind, never
\* ahead: a key never looks more used than it is, so no slot is refused to a
\* machine because of a registration that did not happen.
NeverOvercounts == \A k \in Key : count[k] + Cardinality(Uncounted(k)) <= enrolled[k]

\* As long as no increment of the counter was lost, a key lets in one device
\* too many for each other thread that validated it before the counter moved,
\* and no more.  (Once an increment is lost there is no bound of this kind.)
OvershootBounded ==
  \A k \in Key :
    count[k] + Cardinality(Uncounted(k)) = enrolled[k] =>
      enrolled[k] < MaxDevices[k] + Cardinality(Worker)

\* A uuid or a serial number names one device.
IdentityUnique ==
  \A i, j \in Present :
    \/ i = j
    \/ /\ device[i].serial # device[j].serial
       /\ device[i].uuid # device[j].uuid \/ device[i].uuid = NoUuid

\* A device that was created with a uuid holds a token minted for that uuid,
\* and one created with a serial number a token for that number, whatever
\* registrations race over it.  A field that was left open may be filled in by
\* two requests at a time, and the token of one end up beside the value of the
\* other.
TokenMatchesRow ==
  \A i \in Present : device[i].token # NoToken =>
    /\ i \in named => device[i].token.uuid = device[i].uuid
    /\ i \in numbered => device[i].token.serial = device[i].serial

\* A device keeps the uuid and the serial number it was created with, and never
\* goes back to unregistered, whatever registrations race over it.  (A field
\* that was left open, by a NULL or an empty string, may even change twice:
\* a session that loaded it empty overwrites what another has filled in.)
BoundForLife ==
  [][\A i \in Present : device'[i] # NoRow =>
       /\ device[i].registered => device'[i].registered
       /\ i \in named => device'[i].uuid = device[i].uuid
       /\ i \in numbered => device'[i].serial = device[i].serial]_vars

-----------------------------------------------------------------------------
(* The inductive invariant behind the properties.                            *)

\* No id is given out twice, and what a row was created with it still has.
TableOK ==
  /\ \A i \in Id : i > lastId => device[i] = NoRow
  /\ \A i \in Present \cap named : Given(device[i].uuid)
  /\ \A i \in Present \cap numbered : Given(device[i].serial)
  /\ \A i \in named \union numbered : i <= lastId

\* While the row a thread found is there, it has what it was created with and
\* had when it was loaded; what is written was found to agree with the request.
JobOK ==
  \A w \in Worker :
    /\ pc[w] # "idle" => req[w] \in Request
    /\ hit[w] # NoId =>
         /\ hit[w] <= lastId
         /\ seen[w] \in Row
         /\ hit[w] \in named =>
              /\ Given(seen[w].uuid)
              /\ device[hit[w]] # NoRow => device[hit[w]].uuid = seen[w].uuid
         /\ hit[w] \in numbered =>
              /\ Given(seen[w].serial)
              /\ device[hit[w]] # NoRow => device[hit[w]].serial = seen[w].serial
    /\ pc[w] = "write" /\ hit[w] # NoId => Agrees(seen[w], req[w])

\* A registration that is over and not yet counted counts for every thread
\* that has read the counter; what such a thread read is current if nothing
\* was lost when it is added to.
LoadedOK ==
  \A w \in Worker : pc[w] = "store" =>
    LET k == req[w].key
        sum == loaded[w] + Cardinality(Uncounted(k))
    IN  /\ sum <= enrolled[k]
        /\ sum = enrolled[k] => loaded[w] = count[k]

\* The threads that have validated key k and not yet written the device.
Validated(k) == {w \in Worker : pc[w] \in {"byUuid", "bySerial", "write"} /\ req[w].key = k}

\* OvershootBounded with the threads that may still write.
Headroom ==
  \A k \in Key :
    count[k] + Cardinality(Uncounted(k)) = enrolled[k] =>
      enrolled[k] + Cardinality(Validated(k)) < MaxDevices[k] + Cardinality(Worker)

IInv ==
  /\ TypeOK /\ TableOK /\ JobOK
  /\ IdentityUnique /\ TokenMatchesRow
  /\ NeverOvercounts /\ LoadedOK /\ Headroom

=============================================================================
