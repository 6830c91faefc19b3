-------------------------------- MODULE Device --------------------------------
(***************************************************************************)
(* The row of one device and the requests its agent sends with its token:   *)
(* heartbeats, inventories, lists of applications and the sync calls.  Each *)
(* is authenticated in a transaction of its own, which loads the row, and   *)
(* then writes the columns it changes.  The dashboard calls the device      *)
(* ONLINE by last_seen, the health page shows the newest heartbeat.         *)
(***************************************************************************)
EXTENDS InstalledApplications

CONSTANTS
  Threshold,    \* STALE_THRESHOLD_SECONDS
  MaxTime,      \* bound of the clock
  MaxRequests,  \* bound of the requests
  Null

ASSUME DeviceAssumption ==
  /\ Threshold \in Nat \ {0} /\ MaxTime \in Nat /\ MaxRequests \in Nat
  /\ Null \notin Nat

VARIABLES
  device,     \* the committed row
  beats,      \* the timestamps of the heartbeat rows
  calls,      \* what every thread does before it begins an upload
  clock,
  requests,   \* how many requests there have been
  answered,   \* the time of the last heartbeat that was answered
  disturbed   \* whether last_seen was written out of order, or by hand

deviceVars == <<device, beats, calls, clock, requests, answered, disturbed>>
vars == <<appVars, deviceVars>>

Idle == [kind |-> "none", step |-> "free", found |-> FALSE, loaded |-> Null, now |-> Null]

Init ==
  /\ AppInit
  /\ device = [exists |-> FALSE, token |-> FALSE, lastSeen |-> Null, tokenUsed |-> Null]
  /\ beats = {}
  /\ calls = [w \in Worker |-> Idle]
  /\ clock = 1
  /\ requests = 0
  /\ answered = Null
  /\ disturbed = FALSE

Waiting(w) == calls[w] = Idle /\ w \notin Running

\* The requests under way that will write last_seen.
Stamping == {w \in Worker : calls[w].kind \in {"heartbeat", "register"}
                              /\ calls[w].step \in {"stamp", "store"}}

-----------------------------------------------------------------------------
\* is_stale and online_status_label

Online == device.lastSeen # Null /\ clock - device.lastSeen <= Threshold

\* device_health
Health == {b \in beats : \A other \in beats : other <= b}

-----------------------------------------------------------------------------
\* DeviceService.create_device, by an administrator.  last_seen is given as
\* None, which the mapper leaves out of the INSERT of a column with a server
\* default: the row gets the time of the database.
CreateDevice ==
  /\ ~ device.exists
  /\ device' = [device EXCEPT !.exists = TRUE, !.lastSeen = clock]
  /\ disturbed' = TRUE
  /\ UNCHANGED <<appVars, beats, calls, clock, requests, answered>>

\* DeviceService.update_device: whatever the administrator sends.
UpdateDevice ==
  \E time \in 1 .. clock :
    /\ device.exists
    /\ device' = [device EXCEPT !.lastSeen = time]
    /\ disturbed' = TRUE
    /\ UNCHANGED <<appVars, beats, calls, clock, requests, answered>>

FirstStep(kind) ==
  CASE kind = "applications" -> "upload"
    [] kind = "register"     -> "store"
    [] OTHER                 -> "stamp"

\* get_current_device, or for a registration the check of its key.  A sync
\* call goes on in other tables.
Receive(w, kind) ==
  /\ Waiting(w)
  /\ requests < MaxRequests
  /\ kind # "register" => device.token
  /\ requests' = requests + 1
  /\ device' = IF kind = "register" THEN device ELSE [device EXCEPT !.tokenUsed = clock]
  /\ calls' = [calls EXCEPT ![w] =
       IF kind = "sync" THEN Idle
       ELSE [kind |-> kind, step |-> FirstStep(kind), found |-> device.exists,
             loaded |-> device.lastSeen,
             now |-> IF kind = "register" THEN clock ELSE Null]]
  /\ disturbed' = (disturbed \/ (kind \in {"heartbeat", "register"} /\ Stamping # {}))
  /\ UNCHANGED <<appVars, beats, clock, answered>>

\* now = datetime.now(timezone.utc)
Stamp(w) ==
  /\ calls[w].step = "stamp"
  /\ calls' = [calls EXCEPT ![w].step = "store", ![w].now = clock]
  /\ UNCHANGED <<appVars, device, beats, clock, requests, answered, disturbed>>

\* Faulty: the whole row is written back as it was loaded.
FaultyTouched(w) == [device EXCEPT !.lastSeen = calls[w].loaded]

\* The row after update_inventory, which writes none of these columns.
Touched(w) == device

\* The row after heartbeat or register_agent.
Seen(w) ==
  [device EXCEPT
     !.lastSeen = IF calls[w].now = calls[w].loaded THEN @ ELSE calls[w].now,
     !.tokenUsed = calls[w].now]

\* create_device and update_device of the repository: a second INSERT is
\* refused, an UPDATE writes the columns that differ from the loaded row.
Store(w) ==
  /\ calls[w].step = "store"
  /\ \/ /\ calls[w].kind = "heartbeat"
        /\ device' = Seen(w)
        /\ calls' = [calls EXCEPT ![w].step = "beat"]
     \/ /\ calls[w].kind = "inventory"
        /\ device' = Touched(w)
        /\ calls' = [calls EXCEPT ![w] = Idle]
     \/ /\ calls[w].kind = "register"
        /\ device' = IF device.exists /\ ~ calls[w].found
                     THEN device
                     ELSE [Seen(w) EXCEPT !.exists = TRUE, !.token = TRUE]
        /\ calls' = [calls EXCEPT ![w] = Idle]
  /\ UNCHANGED <<appVars, beats, clock, requests, answered, disturbed>>

\* create_heartbeat
Beat(w) ==
  /\ calls[w].step = "beat"
  /\ beats' = beats \cup {clock}
  /\ answered' = calls[w].now
  /\ calls' = [calls EXCEPT ![w] = Idle]
  /\ UNCHANGED <<appVars, device, clock, requests, disturbed>>

\* applications_inventory
BeginUpload(w) ==
  /\ calls[w].step = "upload"
  /\ Begin(w)
  /\ calls' = [calls EXCEPT ![w] = Idle]
  /\ UNCHANGED <<device, beats, clock, requests, answered, disturbed>>

\* A statement fails, or the thread dies: what is committed stays.
Break(w) ==
  /\ calls[w] # Idle
  /\ calls' = [calls EXCEPT ![w] = Idle]
  /\ UNCHANGED <<appVars, device, beats, clock, requests, answered, disturbed>>

Tick ==
  /\ clock < MaxTime
  /\ clock' = clock + 1
  /\ UNCHANGED <<appVars, device, beats, calls, requests, answered, disturbed>>

Next ==
  \/ CreateDevice \/ UpdateDevice \/ Tick
  \/ \E w \in Worker :
       \/ \E kind \in {"heartbeat", "inventory", "applications", "sync", "register"} :
            Receive(w, kind)
       \/ Stamp(w) \/ Store(w) \/ Beat(w) \/ BeginUpload(w) \/ Break(w)
       \/ Proceed(w) /\ UNCHANGED deviceVars

Spec == Init /\ [][Next]_vars

-----------------------------------------------------------------------------
(* A heartbeat that was answered is on the health page, and keeps the badge  *)
(* of the device ONLINE for the whole threshold, whatever inventories, lists *)
(* and sync calls load the row before it and write after it, as long as no   *)
(* two heartbeats or registrations overlap and nobody edits last_seen by     *)
(* hand (agent_service.py 155-180, device_liveness_service.py 63).           *)
AnsweredIsShown ==
  answered # Null =>
    /\ \E b \in Health : b >= answered
    /\ ~ disturbed /\ clock - answered <= Threshold => Online
-----------------------------------------------------------------------------
\* The parts of the inductive invariant.

Call == [kind : {"none", "heartbeat", "inventory", "applications", "register"},
         step : {"free", "stamp", "store", "beat", "upload"},
         found : BOOLEAN, loaded : Nat \cup {Null}, now : Nat \cup {Null}]

TypeOK ==
  /\ device \in [exists : BOOLEAN, token : BOOLEAN,
                 lastSeen : Nat \cup {Null}, tokenUsed : Nat \cup {Null}]
  /\ beats \subseteq Nat
  /\ calls \in [Worker -> Call]
  /\ clock \in Nat /\ requests \in Nat
  /\ answered \in Nat \cup {Null}
  /\ disturbed \in BOOLEAN

Until(time) == time # Null => time <= clock

\* Nothing is of the future, and who writes a time has taken it.
Timely ==
  /\ Until(device.lastSeen) /\ Until(answered)
  /\ \A b \in beats : b <= clock
  /\ \A w \in Worker :
       /\ Until(calls[w].now)
       /\ calls[w].step \in {"store", "beat"} => calls[w].now # Null

\* The newest heartbeat is as new as the one that was answered last.
Recorded == answered # Null => \E b \in Health : b >= answered

\* What holds as long as last_seen is written in order: who is about to write
\* it has loaded what it still is and will not set it back, and who has
\* written it, or was answered, is not ahead of it.
Undisturbed ==
  /\ \A v, w \in Stamping : v = w
  /\ \A w \in Stamping :
       /\ calls[w].loaded = device.lastSeen
       /\ calls[w].step = "store" /\ device.lastSeen # Null => device.lastSeen <= calls[w].now
  /\ \A w \in Worker :
       calls[w].step = "beat" => device.lastSeen # Null /\ calls[w].now <= device.lastSeen
  /\ answered # Null => device.lastSeen # Null /\ answered <= device.lastSeen

IInv == TypeOK /\ Timely /\ Recorded /\ (~ disturbed => Undisturbed)
=============================================================================
