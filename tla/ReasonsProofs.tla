--------------------------- MODULE ReasonsProofs ---------------------------
(***************************************************************************)
(* Proofs about the reasons of gaps: for any log that a machine can leave,  *)
(* whichever of its events are uploaded, with or without boottimes and read *)
(* through any window, evidence of a reboot is of a real one, and what the  *)
(* events explain is explained.                                             *)
(***************************************************************************)
EXTENDS Reasons, WellFoundedInduction, TLAPS

-----------------------------------------------------------------------------
(* Numbers and lists.                                                        *)

LEMMA MinFacts ==
  ASSUME NEW T, T \subseteq Nat, T # {}
  PROVE  Min(T) \in T /\ \A x \in T : Min(T) <= x
<1> DEFINE R == OpToRel(<, Nat)
<1>1. IsWellFoundedOn(R, Nat)
  BY NatLessThanWellFounded, Zenon
<1>2. \A x, y \in Nat : x < y => <<x, y>> \in R
  BY DEF OpToRel
<1> HIDE DEF R
<1>3. PICK x \in T : \A y \in T : ~ (<<y, x>> \in R)
  BY <1>1, WFMin
<1>4. \A y \in T : y \in Nat /\ x \in Nat /\ ~ (y < x)
  BY <1>2, <1>3
<1>5. \A y \in T : x <= y
  BY <1>4
<1> QED
  BY <1>5 DEF Min

LEMMA MaxFacts ==
  ASSUME NEW n \in Nat, NEW T, T \subseteq 0..n, T # {}
  PROVE  Max(T) \in T /\ \A x \in T : x <= Max(T)
<1> DEFINE U == {n - x : x \in T}
<1>1. U \subseteq Nat /\ U # {}
  <2>1. \A x \in T : n - x \in Nat
    OBVIOUS
  <2> QED
    BY <2>1
<1> HIDE DEF U
<1>2. Min(U) \in U /\ \A y \in U : Min(U) <= y
  BY <1>1, MinFacts
<1>3. PICK m \in T : Min(U) = n - m
  BY <1>2 DEF U
<1>4. \A x \in T : n - x \in U
  BY DEF U
<1>5. \A x \in T : x <= m
  BY <1>2, <1>3, <1>4
<1>6. \A x \in T : m >= x
  BY <1>5
<1>7. Max(T) \in T /\ \A x \in T : Max(T) >= x
  BY <1>6 DEF Max
<1> QED
  BY <1>7

LEMMA Appended ==
  ASSUME NEW s \in Seq(Event), NEW e \in Event
  PROVE  LET t == Append(s, e)
         IN  /\ t \in Seq(Event) /\ Len(s) \in Nat /\ Len(t) = Len(s) + 1
             /\ DOMAIN s = 1..Len(s) /\ DOMAIN t = 1..(Len(s) + 1)
             /\ \A i \in 1..Len(s) : t[i] = s[i]
             /\ t[Len(s) + 1] = e
OBVIOUS

\* What TypeOK says of the log.
LEMMA LogTypes ==
  ASSUME TypeOK
  PROVE  /\ now \in Nat /\ boot \in Nat /\ log \in Seq(Event) /\ Len(log) \in Nat
         /\ DOMAIN log = 1..Len(log) /\ uploaded \subseteq DOMAIN log
         /\ \A i \in DOMAIN log : /\ log[i] \in Event /\ log[i].type \in Type
                                  /\ log[i].time \in Nat
                                  /\ log[i].boottime \in Nat \union {Null}
<1>1. now \in Nat /\ boot \in Nat /\ log \in Seq(Event) /\ uploaded \subseteq DOMAIN log
  BY DEF TypeOK
<1>2. Len(log) \in Nat /\ DOMAIN log = 1..Len(log) /\ \A i \in DOMAIN log : log[i] \in Event
  BY <1>1
<1>3. \A i \in DOMAIN log : /\ log[i].type \in Type /\ log[i].time \in Nat
                            /\ log[i].boottime \in Nat \union {Null}
  BY <1>2 DEF Event
<1> QED
  BY <1>1, <1>2, <1>3

LEMMA Constants ==
  /\ Pad \in Nat /\ Tolerance \in Nat /\ RestartGap \in Nat /\ Jitter \in Nat /\ First \in Nat
  /\ Jitter <= Tolerance /\ Null \notin Nat
  /\ \A t \in Target : /\ UnavailableEvent[t] \in {"NETWORK_UNAVAILABLE", "SERVER_UNAVAILABLE"}
                       /\ RecoveredEvent[t] \in {"NETWORK_RECOVERED", "SERVER_RECOVERED"}
                       /\ UnavailableEvent[t] \in Type /\ RecoveredEvent[t] \in Type
<1>1. /\ Pad \in Nat /\ Tolerance \in Nat /\ RestartGap \in Nat /\ Jitter \in Nat /\ First \in Nat
      /\ Jitter <= Tolerance /\ Null \notin Nat /\ Target \subseteq {"NETWORK", "SERVER"}
  BY ReasonsAssumption, NullAssumption
<1>2. ASSUME NEW t \in Target
      PROVE  /\ UnavailableEvent[t] \in {"NETWORK_UNAVAILABLE", "SERVER_UNAVAILABLE"}
             /\ RecoveredEvent[t] \in {"NETWORK_RECOVERED", "SERVER_RECOVERED"}
             /\ UnavailableEvent[t] \in Type /\ RecoveredEvent[t] \in Type
  <2>1. t = "NETWORK" \/ t = "SERVER"
    BY <1>1
  <2>2. UnavailableEvent[t] \in Type /\ RecoveredEvent[t] \in Type
    BY DEF Type
  <2>3. UnavailableEvent[t] \in {"NETWORK_UNAVAILABLE", "SERVER_UNAVAILABLE"}
    BY <2>1 DEF UnavailableEvent
  <2>4. RecoveredEvent[t] \in {"NETWORK_RECOVERED", "SERVER_RECOVERED"}
    BY <2>1 DEF RecoveredEvent
  <2> QED
    BY <2>2, <2>3, <2>4
<1> QED
  BY <1>1, <1>2

-----------------------------------------------------------------------------
(* The steps of the machine.                                                 *)

\* An entry is added, of a time of its own.
Adds(e) == /\ e \in Event /\ e.time = now /\ log' = Append(log, e)
           /\ \A i \in DOMAIN log : log[i].time < now
           /\ now' = now /\ uploaded' = uploaded

LEMMA HappensFacts ==
  ASSUME TypeOK, Ordered, NEW type \in Type, NEW boottime \in Nat \union {Null},
         Happens(type, boottime), now' = now, uploaded' = uploaded
  PROVE  \E e : Adds(e) /\ e.type = type /\ e.boottime = boottime
<1> DEFINE e == Entry(type, boottime)
<1>1. e \in Event /\ e.time = now /\ e.type = type /\ e.boottime = boottime
  BY DEF TypeOK, Entry, Event
<1>2. log' = Append(log, e) /\ (log # <<>> => Last(log).time < now)
  BY DEF Happens
<1>3. /\ log \in Seq(Event) /\ Len(log) \in Nat /\ Len(log) > 0 /\ DOMAIN log = 1..Len(log)
      /\ \A i \in DOMAIN log : log[i].time \in Nat
      /\ now \in Nat
  BY LogTypes DEF Ordered
<1>4. log # <<>> /\ log[Len(log)].time < now
  BY <1>2, <1>3 DEF Last
<1>5. ASSUME NEW i \in DOMAIN log PROVE log[i].time < now
  <2>1. i = Len(log) \/ i < Len(log)
    BY <1>3
  <2>2. Len(log) \in DOMAIN log
    BY <1>3
  <2>3. i < Len(log) => log[i].time < log[Len(log)].time
    BY <2>2 DEF Ordered
  <2> QED
    BY <1>3, <1>4, <2>1, <2>2, <2>3
<1> HIDE DEF e
<1> QED
  BY <1>1, <1>2, <1>5 DEF Adds

\* Nothing is added.
Waits == /\ UNCHANGED <<power, boot, agent, log>> /\ now' \in {now, now + 1}
         /\ uploaded' \subseteq DOMAIN log

Boots(e) == /\ e.type = "BOOT" /\ power = "off" /\ power' = "awake"
            /\ boot' = now /\ now - boot > Tolerance + Jitter /\ agent' = agent

Starts(e) == /\ e.type = "AGENT_STARTED" /\ power = "awake" /\ power' = power
             /\ boot' = boot /\ e.boottime \in Boottimes(boot) /\ agent' = TRUE

Loses(e) == /\ e.type = "POWER_LOSS" /\ power # "off" /\ power' = "off"
            /\ boot' = boot /\ agent' = FALSE

Notes(e) == /\ e.type \notin {"BOOT", "AGENT_STARTED", "POWER_LOSS"}
            /\ power # "off" /\ power' \in {"asleep", "awake"}
            /\ boot' = boot /\ agent /\ agent' \in BOOLEAN

LEMMA Steps ==
  ASSUME TypeOK, Ordered, [Next]_vars
  PROVE  \/ Waits
         \/ \E e : Adds(e) /\ (Boots(e) \/ Starts(e) \/ Loses(e) \/ Notes(e))
<1>0. /\ Null \in Nat \union {Null} /\ uploaded \subseteq DOMAIN log /\ Len(log) \in Nat
      /\ {"AGENT_STARTED", "AGENT_STOPPED", "SLEEP", "WAKE",
          "SHUTDOWN_OR_RESTART_IMMINENT", "POWER_LOSS", "BOOT", "AGENT_DIED"} \subseteq Type
  BY LogTypes DEF Type, Silent
<1>1. CASE Tick \/ (\E i \in DOMAIN log : Upload(i)) \/ UNCHANGED vars
  BY <1>0, <1>1 DEF Tick, Upload, vars, Waits
<1>2. CASE Sleep
  <2>1. \E e : Adds(e) /\ e.type = "SLEEP"
    BY <1>0, <1>2, HappensFacts DEF Sleep
  <2> QED
    BY <1>2, <2>1 DEF Sleep, Notes, TypeOK
<1>3. CASE Wake
  <2>1. \E e : Adds(e) /\ e.type = "WAKE"
    BY <1>0, <1>3, HappensFacts DEF Wake
  <2> QED
    BY <1>3, <2>1 DEF Wake, Notes, TypeOK
<1>4. ASSUME NEW target \in Target, Unreachable(target) \/ Recovered(target)
      PROVE  \E e : Adds(e) /\ Notes(e)
  <2>1. \E e : Adds(e) /\ e.type \in {"NETWORK_UNAVAILABLE", "SERVER_UNAVAILABLE",
                                      "NETWORK_RECOVERED", "SERVER_RECOVERED"}
    <3>1. /\ UnavailableEvent[target] \in {"NETWORK_UNAVAILABLE", "SERVER_UNAVAILABLE"}
          /\ RecoveredEvent[target] \in {"NETWORK_RECOVERED", "SERVER_RECOVERED"}
          /\ UnavailableEvent[target] \in Type /\ RecoveredEvent[target] \in Type
      BY Constants
    <3>2. ASSUME Unreachable(target) PROVE \E e : Adds(e) /\ e.type = UnavailableEvent[target]
      <4> DEFINE type == UnavailableEvent[target]
      <4>1. Happens(type, Null) /\ now' = now /\ uploaded' = uploaded
        BY <3>2 DEF Unreachable
      <4>2. type \in Type
        BY <3>1
      <4> HIDE DEF type
      <4>3. \E e : Adds(e) /\ e.type = type
        BY <1>0, <4>1, <4>2, HappensFacts
      <4> QED
        BY <4>3 DEF type
    <3>3. ASSUME Recovered(target) PROVE \E e : Adds(e) /\ e.type = RecoveredEvent[target]
      <4> DEFINE type == RecoveredEvent[target]
      <4>1. Happens(type, Null) /\ now' = now /\ uploaded' = uploaded
        BY <3>3 DEF Recovered
      <4>2. type \in Type
        BY <3>1
      <4> HIDE DEF type
      <4>3. \E e : Adds(e) /\ e.type = type
        BY <1>0, <4>1, <4>2, HappensFacts
      <4> QED
        BY <4>3 DEF type
    <3> QED
      BY <1>4, <3>1, <3>2, <3>3
  <2> QED
    BY <1>4, <2>1 DEF Unreachable, Recovered, Notes, TypeOK
<1>5. CASE Warn
  <2>1. \E e : Adds(e) /\ e.type = "SHUTDOWN_OR_RESTART_IMMINENT"
    BY <1>0, <1>5, HappensFacts DEF Warn
  <2> QED
    BY <1>5, <2>1 DEF Warn, Notes, TypeOK
<1>6. CASE PowerLoss
  <2>1. \E e : Adds(e) /\ e.type = "POWER_LOSS"
    BY <1>0, <1>6, HappensFacts DEF PowerLoss
  <2> QED
    BY <1>6, <2>1 DEF PowerLoss, Loses
<1>7. CASE Boot
  <2>1. \E e : Adds(e) /\ e.type = "BOOT"
    BY <1>0, <1>7, HappensFacts DEF Boot
  <2> QED
    BY <1>7, <2>1 DEF Boot, Boots
<1>8. CASE AgentStart
  <2>1. PICK boottime \in Boottimes(boot) : Happens("AGENT_STARTED", boottime)
    BY <1>8 DEF AgentStart
  <2>2. boottime \in Nat \union {Null}
    BY Constants, LogTypes DEF Boottimes
  <2>3. \E e : Adds(e) /\ e.type = "AGENT_STARTED" /\ e.boottime = boottime
    BY <1>0, <1>8, <2>1, <2>2, HappensFacts DEF AgentStart
  <2> QED
    BY <1>8, <2>2, <2>3 DEF AgentStart, Starts
<1>9. CASE AgentStop
  <2>1. \E e : Adds(e) /\ e.type = "AGENT_STOPPED"
    BY <1>0, <1>9, HappensFacts DEF AgentStop
  <2> QED
    BY <1>9, <2>1 DEF AgentStop, Notes, TypeOK
<1>10. CASE AgentDies
  <2>1. \E e : Adds(e) /\ e.type = "AGENT_DIED"
    BY <1>0, <1>10, HappensFacts DEF AgentDies
  <2> QED
    BY <1>10, <2>1 DEF AgentDies, Notes, TypeOK
<1> QED
  BY <1>1, <1>2, <1>3, <1>4, <1>5, <1>6, <1>7, <1>8, <1>9, <1>10 DEF Next

\* The log with its new entry.
LEMMA NewLog ==
  ASSUME TypeOK, NEW e, Adds(e)
  PROVE  LET n == Len(log) + 1
         IN  /\ log' \in Seq(Event) /\ Len(log) \in Nat /\ Len(log') = n
             /\ DOMAIN log = 1..Len(log) /\ DOMAIN log' = 1..n
             /\ \A i \in DOMAIN log : i \in DOMAIN log' /\ log'[i] = log[i] /\ i # n /\ i < n
             /\ log'[n] = e /\ n \in DOMAIN log'
             /\ \A i \in DOMAIN log' : i \in DOMAIN log \/ i = n
<1>1. log \in Seq(Event) /\ e \in Event /\ log' = Append(log, e)
  BY DEF TypeOK, Adds
<1> QED
  BY <1>1, Appended

LEMMA TypeStep == TypeOK /\ Ordered /\ [Next]_vars => TypeOK'
<1> SUFFICES ASSUME TypeOK, Ordered, [Next]_vars PROVE TypeOK'
  OBVIOUS
<1>1. unreachable' \subseteq Target
  BY DEF TypeOK, Next, Tick, Upload, Sleep, Wake, Unreachable, Recovered, Warn, PowerLoss, Boot,
         AgentStart, AgentStop, AgentDies, vars
<1>2. CASE Waits
  BY <1>1, <1>2 DEF Waits, TypeOK
<1>3. ASSUME NEW e, Adds(e), Boots(e) \/ Starts(e) \/ Loses(e) \/ Notes(e) PROVE TypeOK'
  <2>1. log' \in Seq(Event) /\ uploaded' \subseteq DOMAIN log' /\ now' \in Nat
    BY <1>3, NewLog DEF TypeOK, Adds
  <2>2. boot' \in Nat
    BY <1>3 DEF TypeOK, Boots, Starts, Loses, Notes
  <2>3. agent' \in BOOLEAN
    <3>1. TRUE \in BOOLEAN /\ FALSE \in BOOLEAN
      OBVIOUS
    <3> QED
      BY <1>3, <3>1, Zenon DEF TypeOK, Boots, Starts, Loses, Notes
  <2>4. power' \in {"off", "asleep", "awake"}
    BY <1>3 DEF Boots, Starts, Loses, Notes
  <2> QED
    BY <1>1, <2>1, <2>2, <2>3, <2>4 DEF TypeOK
<1> QED
  BY <1>2, <1>3, Steps

LEMMA OrderedStep == TypeOK /\ Ordered /\ [Next]_vars => Ordered'
<1> SUFFICES ASSUME TypeOK, Ordered, [Next]_vars PROVE Ordered'
  OBVIOUS
<1>1. CASE Waits
  BY <1>1, LogTypes DEF Waits, Ordered
<1>2. ASSUME NEW e, Adds(e) PROVE Ordered'
  <2>1. /\ Len(log') > 0 /\ log'[1].type = "AGENT_STARTED"
    BY <1>2, NewLog DEF Ordered
  <2>2. \A i \in DOMAIN log' : log'[i].time <= now'
    BY <1>2, NewLog, LogTypes DEF Ordered, Adds
  <2>3. ASSUME NEW i \in DOMAIN log', NEW j \in DOMAIN log', i < j
        PROVE  log'[i].time < log'[j].time
    <3>1. i \in DOMAIN log
      BY <1>2, <2>3, NewLog
    <3>2. CASE j \in DOMAIN log
      BY <1>2, <2>3, <3>1, <3>2, NewLog DEF Ordered
    <3>3. CASE j = Len(log) + 1
      BY <1>2, <3>1, <3>3, NewLog DEF Adds
    <3> QED
      BY <1>2, <3>2, <3>3, NewLog
  <2> QED
    BY <2>1, <2>2, <2>3 DEF Ordered
<1> QED
  BY <1>1, <1>2, Steps

\* The boots after a step.
LEMMA BootTimesNext ==
  ASSUME TypeOK, NEW e, Adds(e)
  PROVE  BootTimes' = BootTimes \union (IF e.type = "BOOT" THEN {now} ELSE {})
<1> DEFINE n == Len(log) + 1
<1>1. Of(DOMAIN log, "BOOT")' = Of(DOMAIN log, "BOOT") \union (IF e.type = "BOOT" THEN {n} ELSE {})
  BY NewLog DEF Of
<1>2. \A i \in Of(DOMAIN log, "BOOT") : log'[i].time = log[i].time
  BY NewLog DEF Of
<1>3. log'[n].time = now
  BY NewLog DEF Adds
<1> QED
  BY <1>1, <1>2, <1>3 DEF BootTimes

LEMMA BootTimesAre ==
  ASSUME TypeOK, Ordered
  PROVE  BootTimes \subseteq Nat /\ \A t \in BootTimes : t <= now
BY LogTypes DEF BootTimes, Of, Ordered

LEMMA BootsStep == TypeOK /\ Ordered /\ BootsApart /\ [Next]_vars => BootsApart'
<1> SUFFICES ASSUME TypeOK, Ordered, BootsApart, [Next]_vars PROVE BootsApart'
  OBVIOUS
<1>0. /\ BootTimes \subseteq Nat /\ boot \in Nat /\ now \in Nat
      /\ Tolerance \in Nat /\ Jitter \in Nat
      /\ boot \in BootTimes /\ \A t \in BootTimes : t <= boot
      /\ \A s, t \in BootTimes : s < t => t - s > Tolerance + Jitter
  BY BootTimesAre, LogTypes, Constants DEF BootsApart
<1>1. CASE BootTimes' = BootTimes /\ boot' = boot
  BY <1>0, <1>1 DEF BootsApart
<1>2. CASE Waits
  BY <1>1, <1>2 DEF Waits, BootTimes, Of
<1>3. ASSUME NEW e, Adds(e), Starts(e) \/ Loses(e) \/ Notes(e) PROVE BootsApart'
  BY <1>1, <1>3, BootTimesNext DEF Starts, Loses, Notes
<1>4. ASSUME NEW e, Adds(e), Boots(e) PROVE BootsApart'
  <2>1. BootTimes' = BootTimes \union {now} /\ boot' = now /\ now - boot > Tolerance + Jitter
    BY <1>4, BootTimesNext DEF Boots
  <2>2. \A t \in BootTimes : t < now /\ now - t > Tolerance + Jitter
    BY <1>0, <2>1
  <2>3. boot' \in BootTimes' /\ \A t \in BootTimes' : t <= boot'
    BY <1>0, <2>1, <2>2
  <2>4. ASSUME NEW s \in BootTimes', NEW t \in BootTimes', s < t PROVE t - s > Tolerance + Jitter
    BY <1>0, <2>1, <2>2, <2>4
  <2> QED
    BY <2>3, <2>4 DEF BootsApart
<1> QED
  BY <1>2, <1>3, <1>4, Steps

LEMMA BoottimesStep ==
  TypeOK /\ Ordered /\ BootsApart /\ BoottimesRead /\ [Next]_vars => BoottimesRead'
<1> SUFFICES ASSUME TypeOK, Ordered, BootsApart, BoottimesRead, [Next]_vars PROVE BoottimesRead'
  OBVIOUS
<1>1. CASE Waits
  BY <1>1 DEF Waits, BoottimesRead, BootTimes, Of
<1>2. ASSUME NEW e, Adds(e), Boots(e) \/ Starts(e) \/ Loses(e) \/ Notes(e) PROVE BoottimesRead'
  <2>0. /\ BootTimes' = BootTimes \union (IF e.type = "BOOT" THEN {now} ELSE {})
        /\ BootTimes \subseteq Nat /\ now \in Nat /\ boot \in Nat
    BY <1>2, BootTimesNext, BootTimesAre, LogTypes
  <2> SUFFICES ASSUME NEW i \in DOMAIN log', log'[i].type = "AGENT_STARTED"
               PROVE  \E b \in BootTimes' :
                        /\ b <= log'[i].time /\ \A t \in BootTimes' : t <= log'[i].time => t <= b
                        /\ log'[i].boottime \in Boottimes(b)
    BY DEF BoottimesRead, Of
  <2>1. CASE i \in DOMAIN log
    <3>1. log'[i] = log[i] /\ log[i].time < now /\ log[i].time \in Nat
      BY <1>2, <2>1, NewLog, LogTypes DEF Adds
    <3>2. PICK b \in BootTimes :
            /\ b <= log[i].time /\ \A t \in BootTimes : t <= log[i].time => t <= b
            /\ log[i].boottime \in Boottimes(b)
      BY <2>1, <3>1 DEF BoottimesRead, Of
    <3>3. \A t \in BootTimes' : t <= log[i].time => t <= b
      BY <2>0, <3>1, <3>2
    <3> QED
      BY <2>0, <3>1, <3>2, <3>3
  <2>2. CASE i = Len(log) + 1
    <3>1. log'[i] = e /\ e.time = now /\ e.type = "AGENT_STARTED"
      BY <1>2, <2>2, NewLog DEF Adds
    <3>2. Starts(e)
      BY <1>2, <3>1 DEF Boots, Loses, Notes
    <3>3. BootTimes' = BootTimes /\ boot \in BootTimes /\ \A t \in BootTimes : t <= boot
      BY <2>0, <3>1 DEF BootsApart
    <3>4. boot <= now /\ e.boottime \in Boottimes(boot)
      BY <3>2, <3>3, BootTimesAre DEF Starts
    <3> QED
      BY <3>1, <3>3, <3>4
  <2> QED
    BY <1>2, <2>1, <2>2, NewLog
<1> QED
  BY <1>1, <1>2, Steps

\* A start of an agent that runs still is one after the step.
LEMMA RunsNext ==
  ASSUME TypeOK, NEW e, Adds(e), NEW k \in DOMAIN log, NEW n \in 1..(Len(log) + 1), RunsSince(k, n)
  PROVE  /\ k \in DOMAIN log'
         /\ n \in DOMAIN log' /\ RunsSince(k, n)'
         /\ n = Len(log) + 1 /\ e.type \notin {"POWER_LOSS", "BOOT"} => RunsSince(k, Len(log) + 1)'
<1>1. /\ Len(log) \in Nat /\ Len(log') = Len(log) + 1
      /\ DOMAIN log = 1..Len(log) /\ DOMAIN log' = 1..(Len(log) + 1)
      /\ \A i \in DOMAIN log : i \in DOMAIN log' /\ log'[i] = log[i] /\ i # Len(log) + 1
      /\ log'[Len(log) + 1] = e
  BY NewLog
<1>2. k \in DOMAIN log' /\ log'[k].type = "AGENT_STARTED" /\ k < n
  BY <1>1 DEF RunsSince, Of
<1>3. ASSUME NEW j \in DOMAIN log', k < j, j < n PROVE log'[j].type \notin {"POWER_LOSS", "BOOT"}
  <2>1. j \in DOMAIN log
    BY <1>1, <1>3
  <2> QED
    BY <1>1, <1>3, <2>1 DEF RunsSince
<1> QED
  BY <1>1, <1>2, <1>3 DEF RunsSince, Of

LEMMA AgentRunsStep ==
  TypeOK /\ Ordered /\ AgentRuns /\ OffIsSilent /\ [Next]_vars => AgentRuns'
<1> SUFFICES ASSUME TypeOK, Ordered, AgentRuns, OffIsSilent, [Next]_vars PROVE AgentRuns'
  OBVIOUS
<1>1. CASE Waits
  BY <1>1 DEF Waits, AgentRuns, Announced, RunsSince, Of
<1>2. ASSUME NEW e, Adds(e), Boots(e) \/ Starts(e) \/ Loses(e) \/ Notes(e),
             NEW n, n = Len(log) + 1
      PROVE  AgentRuns'
  <2>0. /\ Len(log) \in Nat /\ Len(log') = n /\ DOMAIN log = 1..Len(log) /\ DOMAIN log' = 1..n
        /\ \A i \in DOMAIN log : i \in DOMAIN log' /\ log'[i] = log[i]
        /\ log'[n] = e /\ n \in DOMAIN log' /\ n \in 1..(Len(log) + 1)
    BY <1>2, NewLog
  <2>1. ASSUME agent PROVE power # "off" /\ \E k \in DOMAIN log : RunsSince(k, Len(log) + 1)
    BY <2>1 DEF AgentRuns
  <2>2. ASSUME agent' PROVE power' # "off" /\ \E k \in DOMAIN log' : RunsSince(k, Len(log) + 1)'
    <3>1. CASE Boots(e)
      BY <2>1, <2>2, <3>1 DEF Boots
    <3>2. CASE Loses(e)
      BY <2>2, <3>2 DEF Loses
    <3>3. CASE Starts(e)
      <4>1. RunsSince(n, Len(log) + 1)'
        BY <1>2, <2>0, <3>3 DEF RunsSince, Of, Starts
      <4> QED
        BY <2>0, <3>3, <4>1 DEF Starts
    <3>4. CASE Notes(e)
      <4>1. PICK k \in DOMAIN log : RunsSince(k, Len(log) + 1)
        BY <2>1, <3>4 DEF Notes
      <4>2. k \in DOMAIN log' /\ RunsSince(k, Len(log) + 1)'
        BY <1>2, <2>0, <3>4, <4>1, RunsNext DEF Notes
      <4> QED
        BY <3>4, <4>2 DEF Notes
    <3> QED
      BY <1>2, <3>1, <3>2, <3>3, <3>4
  <2>3. ASSUME NEW i \in DOMAIN log', log'[i].type = "SHUTDOWN_OR_RESTART_IMMINENT"
        PROVE  \E k \in DOMAIN log' : RunsSince(k, i)'
    <3>1. CASE i \in DOMAIN log
      <4>1. PICK k \in DOMAIN log : RunsSince(k, i)
        BY <2>0, <2>3, <3>1 DEF AgentRuns, Announced, Of
      <4>2. i \in 1..(Len(log) + 1)
        BY <2>0, <3>1
      <4> QED
        BY <1>2, <4>1, <4>2, RunsNext
    <3>2. CASE i = n
      <4>1. Notes(e)
        BY <1>2, <2>0, <2>3, <3>2 DEF Boots, Starts, Loses
      <4>2. PICK k \in DOMAIN log : RunsSince(k, n)
        BY <1>2, <2>1, <4>1 DEF Notes
      <4>3. k \in DOMAIN log' /\ RunsSince(k, n)'
        BY <1>2, <2>0, <4>2, RunsNext
      <4> QED
        BY <3>2, <4>3
    <3> QED
      BY <2>0, <3>1, <3>2
  <2> QED
    BY <2>2, <2>3 DEF AgentRuns, Announced, Of
<1> QED
  BY <1>1, <1>2, Steps

LEMMA OffIsSilentStep ==
  TypeOK /\ Ordered /\ AgentRuns /\ OffIsSilent /\ [Next]_vars => OffIsSilent'
<1> SUFFICES ASSUME TypeOK, Ordered, AgentRuns, OffIsSilent, [Next]_vars PROVE OffIsSilent'
  OBVIOUS
<1>1. CASE Waits
  BY <1>1 DEF Waits, OffIsSilent
<1>2. ASSUME NEW e, Adds(e), Boots(e) \/ Starts(e) \/ Loses(e) \/ Notes(e) PROVE OffIsSilent'
  <2> DEFINE n == Len(log) + 1
  <2>0. /\ Len(log) \in Nat /\ Len(log) > 0 /\ Len(log') = n /\ DOMAIN log = 1..Len(log)
        /\ \A i \in DOMAIN log : log'[i] = log[i]
        /\ log'[n] = e
    BY <1>2, NewLog DEF Ordered
  <2>1. power' = "off" <=> e.type = "POWER_LOSS"
    BY <1>2 DEF Boots, Starts, Loses, Notes
  <2>2. ASSUME log[Len(log)].type = "POWER_LOSS" PROVE e.type = "BOOT"
    <3>1. power = "off"
      BY <2>2 DEF OffIsSilent
    <3> QED
      BY <1>2, <3>1 DEF Boots, Starts, Loses, Notes
  <2>3. ASSUME NEW i \in 1..Len(log), log'[i].type = "POWER_LOSS" PROVE log'[i + 1].type = "BOOT"
    <3>1. log[i].type = "POWER_LOSS"
      BY <2>0, <2>3
    <3>2. CASE i = Len(log)
      <4>1. log'[i + 1] = e
        BY <2>0, <3>2
      <4> QED
        BY <2>2, <3>1, <3>2, <4>1
    <3>3. CASE i < Len(log)
      <4>1. i \in 1..(Len(log) - 1) /\ i + 1 \in DOMAIN log
        BY <2>0, <3>3
      <4>2. log[i + 1].type = "BOOT" /\ log'[i + 1] = log[i + 1]
        BY <2>0, <3>1, <4>1 DEF OffIsSilent
      <4> QED
        BY <4>2
    <3>4. i = Len(log) \/ i < Len(log)
      <4>1. Len(log) \in Nat
        BY <2>0
      <4> DEFINE m == Len(log)
      <4>2. i \in 1..m /\ m \in Nat
        BY <4>1
      <4> HIDE DEF m
      <4>3. i = m \/ i < m
        BY <4>2
      <4> QED
        BY <4>3 DEF m
    <3> QED
      BY <3>2, <3>3, <3>4
  <2>4. 1..(Len(log') - 1) = 1..Len(log)
    BY <2>0
  <2> QED
    BY <2>0, <2>1, <2>3, <2>4 DEF OffIsSilent
<1> QED
  BY <1>1, <1>2, Steps

LEMMA InitIInv == Init => IInv
<1> SUFFICES ASSUME Init PROVE IInv
  OBVIOUS
<1>1. PICK boottime \in Boottimes(0) :
        /\ now = First /\ power = "awake" /\ boot = 0 /\ agent = TRUE /\ unreachable = {}
        /\ uploaded = {}
        /\ log = <<[type |-> "AGENT_STARTED", time |-> First, boottime |-> boottime]>>
  BY DEF Init, Entry
<1>0. First \in Nat /\ boottime \in Nat \union {Null}
  BY Constants DEF Boottimes
<1>2. /\ log \in Seq(Event) /\ Len(log) = 1 /\ DOMAIN log = {1}
      /\ log[1].type = "AGENT_STARTED" /\ log[1].time = First /\ log[1].boottime = boottime
  BY <1>0, <1>1 DEF Event, Type
<1>3. TypeOK
  BY <1>0, <1>1, <1>2 DEF TypeOK
<1>4. Ordered
  BY <1>0, <1>1, <1>2 DEF Ordered
<1>5. BootTimes = {0}
  BY <1>2 DEF BootTimes, Of
<1>6. BootsApart
  BY <1>1, <1>5 DEF BootsApart
<1>7. BoottimesRead
  BY <1>0, <1>1, <1>2, <1>5 DEF BoottimesRead, Of
<1>8. AgentRuns
  <2>1. RunsSince(1, Len(log) + 1)
    BY <1>2 DEF RunsSince, Of
  <2>2. Announced(DOMAIN log) = {}
    BY <1>2 DEF Announced, Of
  <2> QED
    BY <1>1, <1>2, <2>1, <2>2 DEF AgentRuns
<1>9. OffIsSilent
  BY <1>1, <1>2 DEF OffIsSilent
<1> QED
  BY <1>3, <1>4, <1>6, <1>7, <1>8, <1>9 DEF IInv

\* Every reachable log is one that a machine can leave (Reasons.IInv).
THEOREM Invariance == Spec => []IInv
<1>1. IInv /\ [Next]_vars => IInv'
  BY TypeStep, OrderedStep, BootsStep, BoottimesStep, AgentRunsStep, OffIsSilentStep DEF IInv
<1> QED
  BY <1>1, InitIInv, PTL DEF Spec

\* Instants, positions and events have their types (Reasons.TypeOK).
THEOREM TypeCorrect == Spec => []TypeOK
<1>1. IInv => TypeOK
  BY DEF IInv
<1> QED
  BY <1>1, Invariance, PTL

-----------------------------------------------------------------------------
(* What the log says of boots.                                               *)

\* Times are in the order of positions.
LEMMA TimesOrder ==
  ASSUME IInv, NEW i \in DOMAIN log, NEW j \in DOMAIN log
  PROVE  /\ i \in Nat /\ j \in Nat /\ log[i].time \in Nat /\ log[j].time \in Nat
         /\ log[i].time < log[j].time <=> i < j
         /\ log[i].time <= log[j].time <=> i <= j
<1>1. i \in Nat /\ j \in Nat /\ log[i].time \in Nat /\ log[j].time \in Nat
  BY LogTypes DEF IInv
<1>2. (i < j => log[i].time < log[j].time) /\ (j < i => log[j].time < log[i].time)
  BY DEF IInv, Ordered
<1>3. i = j => log[i].time = log[j].time
  OBVIOUS
<1> QED
  BY <1>1, <1>2, <1>3

Start(i) == i \in Of(DOMAIN log, "AGENT_STARTED")

\* A boot after one instant and not after another.
BootedIn(a, b) == \E t \in BootTimes : a < t /\ t <= b

\* Boottimes of two starts tell whether the machine was booted between them.
LEMMA RebootedExactly ==
  ASSUME IInv, NEW i, NEW j, Start(i), Start(j), i < j
  PROVE  /\ Rebooted(log[i].boottime, log[j].boottime) => BootedIn(log[i].time, log[j].time)
         /\ SameBoot(log[i].boottime, log[j].boottime) => ~BootedIn(log[i].time, log[j].time)
         /\ log[i].boottime # Null /\ log[j].boottime # Null
              /\ BootedIn(log[i].time, log[j].time)
            => Rebooted(log[i].boottime, log[j].boottime)
<1>0. SUFFICES ASSUME log[i].boottime # Null, log[j].boottime # Null
               PROVE  /\ Rebooted(log[i].boottime, log[j].boottime)
                            <=> BootedIn(log[i].time, log[j].time)
                      /\ SameBoot(log[i].boottime, log[j].boottime)
                            => ~BootedIn(log[i].time, log[j].time)
  BY DEF Rebooted, SameBoot
<1>1. /\ i \in DOMAIN log /\ j \in DOMAIN log
      /\ log[i].time \in Nat /\ log[j].time \in Nat /\ log[i].time < log[j].time
      /\ BootTimes \subseteq Nat
  BY TimesOrder, BootTimesAre DEF Start, Of, IInv
<1>2. /\ Tolerance \in Nat /\ Jitter \in Nat /\ Jitter <= Tolerance /\ Null \notin Nat
  BY Constants
<1>3. PICK a \in BootTimes : /\ a <= log[i].time /\ \A t \in BootTimes : t <= log[i].time => t <= a
                             /\ log[i].boottime \in a..(a + Jitter)
  BY <1>0 DEF Start, IInv, BoottimesRead, Boottimes
<1>4. PICK b \in BootTimes : /\ b <= log[j].time /\ \A t \in BootTimes : t <= log[j].time => t <= b
                             /\ log[j].boottime \in b..(b + Jitter)
  BY <1>0 DEF Start, IInv, BoottimesRead, Boottimes
<1> DEFINE x == log[i].boottime
           y == log[j].boottime
           u == log[i].time
           v == log[j].time
<1>5. /\ a \in Nat /\ b \in Nat /\ x \in Nat /\ y \in Nat /\ u \in Nat /\ v \in Nat
      /\ a <= x /\ x <= a + Jitter /\ b <= y /\ y <= b + Jitter
      /\ a <= u /\ u < v /\ b <= v
      /\ \A t \in BootTimes : (t <= u => t <= a) /\ (t <= v => t <= b)
  BY <1>1, <1>2, <1>3, <1>4
<1>6. x # Null /\ y # Null
  BY <1>0
<1> HIDE DEF x, y, u, v
<1>7. a <= b
  BY <1>5
<1>8. CASE a = b
  <2>1. Distance(x, y) <= Tolerance /\ ~ (Distance(x, y) > Tolerance)
    BY <1>2, <1>5, <1>8 DEF Distance
  <2>2. ~BootedIn(u, v)
    BY <1>1, <1>5, <1>8 DEF BootedIn
  <2> QED
    BY <2>1, <2>2 DEF Rebooted, SameBoot, x, y, u, v
<1>9. CASE a < b
  <2>1. b - a > Tolerance + Jitter
    BY <1>9 DEF IInv, BootsApart
  <2>2. Distance(x, y) > Tolerance /\ ~ (Distance(x, y) <= Tolerance)
    BY <1>2, <1>5, <2>1 DEF Distance
  <2>3. ~ (b <= u)
    BY <1>5, <1>9
  <2>4. BootedIn(u, v)
    BY <1>5, <2>3 DEF BootedIn
  <2> QED
    BY <1>6, <2>2, <2>4 DEF Rebooted, SameBoot, x, y, u, v
<1> QED
  BY <1>5, <1>7, <1>8, <1>9

\* While the agent runs the machine is not booted.
LEMMA NoBootSince ==
  ASSUME IInv, NEW k \in DOMAIN log, NEW n \in DOMAIN log, RunsSince(k, n), log[n].type # "BOOT"
  PROVE  ~BootedIn(log[k].time, log[n].time)
<1> SUFFICES ASSUME NEW t \in BootTimes, log[k].time < t, t <= log[n].time PROVE FALSE
  BY DEF BootedIn
<1>1. t # 0
  BY TimesOrder
<1>2. PICK m \in DOMAIN log : log[m].type = "BOOT" /\ t = log[m].time
  BY <1>1 DEF BootTimes, Of
<1>3. k < m /\ m <= n /\ m # n
  BY <1>2, TimesOrder
<1>4. m < n
  BY <1>3, TimesOrder
<1> QED
  BY <1>2, <1>3, <1>4 DEF RunsSince

-----------------------------------------------------------------------------
(* What a window shows.                                                      *)

LEMMA GapFacts ==
  ASSUME TypeOK, NEW gap \in Gaps
  PROVE  gap.start \in Nat /\ gap.end \in Nat /\ gap.start < gap.end
<1>1. PICK w \in (First..now) \X (First..now) : w[1] < w[2] /\ gap = Span(w[1], w[2], "MONITORING_GAP")
  BY DEF Gaps
<1>2. gap.start = w[1] /\ gap.end = w[2]
  BY <1>1 DEF Span
<1>3. w[1] \in First..now /\ w[2] \in First..now
  BY <1>1
<1>4. First \in Nat /\ now \in Nat
  BY Constants DEF TypeOK
<1> QED
  BY <1>1, <1>2, <1>3, <1>4

\* The events of a window are uploaded ones, and all of those that lie between two
\* of them.
LEMMA Visible ==
  ASSUME IInv, NEW window, window.start \in Nat, window.end \in Nat
  PROVE  /\ EventsIn(window) \subseteq DOMAIN log /\ EventsIn(window) \subseteq uploaded
         /\ \A i \in uploaded :
              i \in EventsIn(window) <=> /\ window.start - Pad <= log[i].time
                                        /\ log[i].time <= window.end + Pad
         /\ \A i, j \in EventsIn(window) : \A k \in uploaded :
              i <= k /\ k <= j => k \in EventsIn(window)
<1>1. uploaded \subseteq DOMAIN log
  BY LogTypes DEF IInv
<1>2. ASSUME NEW i \in EventsIn(window), NEW j \in EventsIn(window), NEW k \in uploaded,
             i <= k, k <= j
      PROVE  k \in EventsIn(window)
  <2>1. /\ i \in uploaded /\ window.start - Pad <= log[i].time
        /\ j \in uploaded /\ log[j].time <= window.end + Pad
    BY DEF EventsIn
  <2>2. i \in DOMAIN log /\ j \in DOMAIN log /\ k \in DOMAIN log
    BY <1>1, <2>1
  <2>3. /\ log[i].time <= log[k].time /\ log[k].time <= log[j].time
        /\ log[i].time \in Nat /\ log[k].time \in Nat /\ log[j].time \in Nat
    BY <1>2, <2>2, TimesOrder
  <2>4. window.start - Pad <= log[k].time /\ log[k].time <= window.end + Pad
    BY <2>1, <2>3, Constants
  <2> QED
    BY <2>4 DEF EventsIn
<1> QED
  BY <1>1, <1>2 DEF EventsIn

\* The next event of a type is the first one after, and None if there is none.
LEMMA NextOfFacts ==
  ASSUME IInv, NEW events, events \subseteq DOMAIN log, NEW i, NEW type
  PROVE  LET r == NextOf(events, i, type)
         IN  /\ r # Null => /\ r \in Of(events, type) /\ r > i
                            /\ \A j \in Of(events, type) : j > i => r <= j
             /\ (\E j \in Of(events, type) : j > i) => r # Null
<1> DEFINE later == {j \in Of(events, type) : j > i}
<1>1. later \subseteq Nat /\ Null \notin Nat
  BY LogTypes, Constants DEF IInv, Of
<1>2. CASE later = {}
  BY <1>2 DEF NextOf
<1>3. CASE later # {}
  <2>1. Min(later) \in later /\ \A x \in later : Min(later) <= x
    BY <1>1, <1>3, MinFacts
  <2>2. NextOf(events, i, type) = Min(later)
    BY <1>3 DEF NextOf
  <2> HIDE DEF later
  <2>3. Min(later) # Null
    BY <1>1, <2>1
  <2> QED
    BY <2>1, <2>2, <2>3 DEF later
<1> QED
  BY <1>2, <1>3

-----------------------------------------------------------------------------
(* Evidence of a reboot is of a real one.                                    *)

\* The start before an announcement that _find_prior_boottime finds: the last that
\* carries a boottime.
LEMMA PriorFacts ==
  ASSUME IInv, NEW events, events \subseteq DOMAIN log, NEW i, PriorBoottime(events, i) # Null
  PROVE  \E p \in Of(events, "AGENT_STARTED") :
           /\ p < i /\ PriorBoottime(events, i) = log[p].boottime
           /\ \A q \in Of(events, "AGENT_STARTED") : q < i /\ log[q].boottime # Null => q <= p
<1> DEFINE starts == {j \in Of(events, "AGENT_STARTED") : j < i /\ log[j].boottime # Null}
<1>1. starts # {} /\ PriorBoottime(events, i) = log[Max(starts)].boottime
  BY DEF PriorBoottime
<1>2. Len(log) \in Nat /\ starts \subseteq 0..Len(log)
  BY LogTypes DEF IInv, Of
<1>3. \A q \in Of(events, "AGENT_STARTED") : q < i /\ log[q].boottime # Null => q \in starts
  OBVIOUS
<1> HIDE DEF starts
<1>4. Max(starts) \in starts /\ \A x \in starts : x <= Max(starts)
  BY <1>1, <1>2, MaxFacts
<1>5. Max(starts) \in Of(events, "AGENT_STARTED") /\ Max(starts) < i
  BY <1>4 DEF starts
<1> QED
  BY <1>1, <1>3, <1>4, <1>5

\* An announcement whose next start shows another boottime led to a reboot, if the
\* start that it came from is there with its own.
LEMMA AnnouncedReboot ==
  ASSUME IInv, NEW window, window.start \in Nat, window.end \in Nat,
         NEW events, events = EventsIn(window), NEW i \in Announced(events),
         NEW r, r = Resumption(events, i), r # Null, BootKnown(log[i].time),
         Rebooted(PriorBoottime(events, i), log[r].boottime)
  PROVE  BootedIn(log[i].time, log[r].time)
<1>1. /\ events \subseteq DOMAIN log
      /\ \A x, y \in events : \A k \in uploaded : x <= k /\ k <= y => k \in events
  BY Visible
<1>2. i \in events /\ i \in DOMAIN log /\ log[i].type = "SHUTDOWN_OR_RESTART_IMMINENT"
  BY <1>1 DEF Announced, Of
<1>3. r \in events /\ r \in DOMAIN log /\ r > i /\ Start(r)
  BY <1>1, NextOfFacts DEF Resumption, Of, Start
<1>4. PriorBoottime(events, i) # Null
  BY DEF Rebooted
<1>5. PICK p \in Of(events, "AGENT_STARTED") :
        /\ p < i /\ PriorBoottime(events, i) = log[p].boottime
        /\ \A q \in Of(events, "AGENT_STARTED") : q < i /\ log[q].boottime # Null => q <= p
  BY <1>1, <1>4, PriorFacts
<1>6. p \in events /\ p \in DOMAIN log /\ Start(p)
  BY <1>1 DEF Of, Start
<1>7. PICK k \in DOMAIN log : RunsSince(k, i)
  BY <1>1, <1>2 DEF IInv, AgentRuns, Announced, Of
<1>8. k < i /\ Start(k)
  BY <1>7 DEF RunsSince, Start
<1>9. /\ i \in Nat /\ r \in Nat /\ p \in Nat /\ k \in Nat
      /\ log[i].time \in Nat /\ log[p].time \in Nat
  BY <1>2, <1>3, <1>6, TimesOrder
<1>10. k <= p
  <2> DEFINE starts == {m \in Of(DOMAIN log, "AGENT_STARTED") : log[m].time <= log[i].time}
  <2>1. PICK start : start = Max(starts)
    OBVIOUS
  <2>2. start \in uploaded /\ log[start].boottime # Null
    BY <2>1 DEF BootKnown
  <2>3. Len(log) \in Nat /\ starts \subseteq 0..Len(log)
    BY LogTypes DEF IInv, Of
  <2>4. k \in starts /\ p \in starts
    <3>1. log[k].time <= log[i].time /\ log[p].time <= log[i].time
      BY <1>2, <1>5, <1>6, <1>8, <1>9, TimesOrder
    <3> QED
      BY <1>6, <1>8, <3>1 DEF Start
  <2>5. start \in DOMAIN log /\ Start(start) /\ log[start].time <= log[i].time
    <3> HIDE DEF starts
    <3>1. start \in starts
      BY <2>1, <2>3, <2>4, MaxFacts
    <3> QED
      BY <3>1 DEF starts, Start, Of
  <2>6. k <= start /\ p <= start
    <3> HIDE DEF starts
    <3> QED
      BY <2>1, <2>3, <2>4, MaxFacts
  <2>7. start < i
    <3>1. start \in Nat /\ start <= i
      BY <1>2, <2>5, TimesOrder
    <3>2. start # i
      BY <1>2, <2>5 DEF Start, Of
    <3> QED
      BY <1>9, <3>1, <3>2
  <2>8. start \in events
    BY <1>1, <1>2, <1>6, <1>9, <2>2, <2>5, <2>6, <2>7, TimesOrder
  <2>9. start <= p
    BY <1>5, <2>2, <2>5, <2>7, <2>8 DEF Start, Of
  <2> QED
    BY <1>9, <2>5, <2>6, <2>9, TimesOrder
<1>11. RunsSince(p, i)
  <2>1. ASSUME NEW j \in DOMAIN log, p < j, j < i PROVE log[j].type \notin {"POWER_LOSS", "BOOT"}
    <3>1. k < j
      BY <1>9, <1>10, <2>1, TimesOrder
    <3> QED
      BY <1>7, <2>1, <3>1 DEF RunsSince
  <2> QED
    BY <1>5, <1>6, <2>1 DEF RunsSince, Start
<1>12. ~BootedIn(log[p].time, log[i].time)
  BY <1>2, <1>6, <1>11, NoBootSince
<1>13. p < r
  BY <1>3, <1>5, <1>9
<1>14. BootedIn(log[p].time, log[r].time)
  BY <1>3, <1>5, <1>6, <1>13, RebootedExactly
<1>15. PICK t \in BootTimes : log[p].time < t /\ t <= log[r].time
  BY <1>14 DEF BootedIn
<1>16. t \in Nat /\ ~ (t <= log[i].time)
  BY <1>12, <1>15, BootTimesAre DEF BootedIn, IInv
<1> QED
  BY <1>9, <1>15, <1>16 DEF BootedIn

\* The start before a start, of those that are shown.
LEMMA PreviousFacts ==
  ASSUME IInv, NEW events, events \subseteq DOMAIN log, NEW j \in Of(events, "AGENT_STARTED"),
         \E i \in Of(events, "AGENT_STARTED") : i < j
  PROVE  LET p == Previous(events, j)
         IN  /\ p \in Of(events, "AGENT_STARTED") /\ p < j
             /\ \A q \in Of(events, "AGENT_STARTED") : q < j => q <= p
<1> DEFINE starts == {i \in Of(events, "AGENT_STARTED") : i < j}
<1>1. Len(log) \in Nat /\ starts \subseteq 0..Len(log) /\ starts # {}
  BY LogTypes DEF IInv, Of
<1>2. Previous(events, j) = Max(starts)
  BY DEF Previous
<1> HIDE DEF starts
<1>3. Max(starts) \in starts /\ \A x \in starts : x <= Max(starts)
  BY <1>1, MaxFacts
<1> QED
  BY <1>2, <1>3 DEF starts

\* What the evidence of a restart, a shutdown or a recovery is derived from.
LEMMA EvidenceOf ==
  ASSUME NEW window, NEW e \in Evidence(window),
         e.kind \in {"RESTART", "RESTART_UNPLANNED", "SHUTDOWN",
                     "AGENT_RESTART", "UNEXPECTED_AGENT_RECOVERY"}
  PROVE  e \in Shutdowns(EventsIn(window)) \/ e \in Recoveries(EventsIn(window))
<1> DEFINE events == EventsIn(window)
<1>1. ASSUME NEW opening, NEW closing, NEW reason, e \in Brackets(events, window, opening, closing, reason)
      PROVE  e.kind = reason
  BY <1>1 DEF Brackets, Span
<1>2. e \in Pending(events, window) => e.kind = "SHUTDOWN_OR_RESTART_PENDING"
  BY DEF Pending, Span
<1>3. e \in {Span(o.start, o.end, "SERVER_UNAVAILABLE") : o \in Outage}
        => e.kind = "SERVER_UNAVAILABLE"
  BY DEF Span
<1>4. \/ e \in Brackets(events, window, "SLEEP", "WAKE", "SLEEP")
      \/ e \in Brackets(events, window, "AGENT_STOPPED", "AGENT_STARTED", "AGENT_STOPPED")
      \/ e \in Brackets(events, window, "NETWORK_UNAVAILABLE", "NETWORK_RECOVERED",
                        "NETWORK_UNAVAILABLE")
      \/ e \in Brackets(events, window, "SERVER_UNAVAILABLE", "SERVER_RECOVERED",
                        "SERVER_UNAVAILABLE")
      \/ e \in Pending(events, window) \/ e \in Shutdowns(events) \/ e \in Recoveries(events)
      \/ e \in {Span(o.start, o.end, "SERVER_UNAVAILABLE") : o \in Outage}
  BY DEF Evidence
<1> HIDE DEF events
<1>5. \/ e \in Shutdowns(events) \/ e \in Recoveries(events)
      \/ e.kind \in {"SLEEP", "AGENT_STOPPED", "NETWORK_UNAVAILABLE", "SERVER_UNAVAILABLE",
                     "SHUTDOWN_OR_RESTART_PENDING"}
  BY <1>1, <1>2, <1>3, <1>4
<1> QED
  BY <1>5 DEF events

\* Evidence of an unplanned restart spans a boot of the machine, so does evidence of
\* an announced restart or shutdown if the start of the agent that gave the warning
\* is uploaded with its boottime, and evidence that only the agent went away spans
\* none: for every log, pad, tolerance and window, and whichever events are uploaded
\* (Reasons.RebootReal).
THEOREM RebootsAreReal == Spec => []RebootReal
<1>1. IInv => RebootReal
  <2> SUFFICES ASSUME IInv, NEW window \in Gaps, NEW e \in Evidence(window)
               PROVE  /\ e.kind = "RESTART_UNPLANNED" => BootedIn(e.start, e.end)
                      /\ e.kind \in {"RESTART", "SHUTDOWN"} /\ BootKnown(e.start)
                           => BootedIn(e.start, e.end)
                      /\ e.kind \in {"AGENT_RESTART", "UNEXPECTED_AGENT_RECOVERY"}
                           => ~BootedIn(e.start, e.end)
    BY DEF RebootReal, BootedIn
  <2>0. PICK events : events = EventsIn(window)
    OBVIOUS
  <2>1. /\ window.start \in Nat /\ window.end \in Nat
    BY GapFacts DEF IInv
  <2>2. events \subseteq DOMAIN log
    BY <2>0, <2>1, Visible
  <2>3. CASE e \in Shutdowns(events)
    <3>1. PICK i \in Announced(events) :
            /\ Resumption(events, i) # Null
            /\ Rebooted(PriorBoottime(events, i), log[Resumption(events, i)].boottime)
            /\ e.start = log[i].time /\ e.end = log[Resumption(events, i)].time
            /\ e.kind \in {"RESTART", "SHUTDOWN"}
      BY <2>3 DEF Shutdowns, Span
    <3>2. BootKnown(e.start) => BootedIn(e.start, e.end)
      BY <2>0, <2>1, <3>1, AnnouncedReboot
    <3> QED
      BY <3>1, <3>2
  <2>4. ASSUME NEW j \in Unannounced(events), NEW reason, e = SincePrevious(events, j, reason),
               NEW p, p = Previous(events, j)
        PROVE  /\ e.kind = reason
               /\ Rebooted(log[p].boottime, log[j].boottime) => BootedIn(e.start, e.end)
               /\ SameBoot(log[p].boottime, log[j].boottime) => ~BootedIn(e.start, e.end)
    <3>1. /\ j \in Of(events, "AGENT_STARTED")
          /\ \E i \in Of(events, "AGENT_STARTED") : i < j
      BY <2>4 DEF Unannounced
    <3>2. p \in Of(events, "AGENT_STARTED") /\ p < j
      BY <2>2, <2>4, <3>1, PreviousFacts
    <3>3. Start(p) /\ Start(j)
      BY <2>2, <3>1, <3>2 DEF Start, Of
    <3>4. e.kind = reason /\ e.start = log[p].time /\ e.end = log[j].time
      BY <2>4 DEF SincePrevious, Span
    <3> QED
      BY <3>2, <3>3, <3>4, RebootedExactly
  <2>5. CASE e \in Recoveries(events)
    <3>1. \/ \E j \in Unannounced(events) :
               /\ Rebooted(log[Previous(events, j)].boottime, log[j].boottime)
               /\ e = SincePrevious(events, j, "RESTART_UNPLANNED")
          \/ \E j \in Unannounced(events) :
               /\ SameBoot(log[Previous(events, j)].boottime, log[j].boottime)
               /\ \E reason \in {"AGENT_RESTART", "UNEXPECTED_AGENT_RECOVERY"} :
                    e = SincePrevious(events, j, reason)
      BY <2>5 DEF Recoveries
    <3>2. \/ e.kind = "RESTART_UNPLANNED" /\ BootedIn(e.start, e.end)
          \/ e.kind \in {"AGENT_RESTART", "UNEXPECTED_AGENT_RECOVERY"} /\ ~BootedIn(e.start, e.end)
      BY <2>4, <3>1
    <3> QED
      BY <3>2
  <2> QED
    BY <2>0, <2>3, <2>5, EvidenceOf
<1> QED
  BY <1>1, Invariance, PTL

-----------------------------------------------------------------------------
(* What the events explain is explained.                                     *)

\* The reason of a gap ranks as high as that of any evidence that overlaps it.
LEMMA BestFacts ==
  ASSUME NEW evidence, NEW gap, NEW e \in evidence, Overlaps(e, gap),
         NEW i \in DOMAIN Priority, e.kind = Priority[i]
  PROVE  \E j \in DOMAIN Priority : j <= i /\ Best(evidence, gap) = Priority[j]
<1> DEFINE found == {f.kind : f \in {f \in evidence : Overlaps(f, gap)}}
           ranks == {j \in DOMAIN Priority : Priority[j] \in found}
<1>1. i \in ranks
  OBVIOUS
<1>2. ranks \subseteq Nat
  <2>1. DOMAIN Priority = 1..10
    BY DEF Priority
  <2> QED
    BY <2>1
<1>3. Best(evidence, gap) = IF ranks = {} THEN Null ELSE Priority[Min(ranks)]
  BY DEF Best
<1> HIDE DEF ranks
<1>4. Min(ranks) \in ranks /\ Min(ranks) <= i
  BY <1>1, <1>2, MinFacts
<1>5. Min(ranks) \in DOMAIN Priority
  BY <1>4 DEF ranks
<1> QED
  BY <1>1, <1>3, <1>4, <1>5

\* The window that a view of gaps is read through holds each of them.
View(gaps) == [start |-> Min({g.start : g \in gaps}), end |-> Max({g.end : g \in gaps})]

LEMMA ViewFacts ==
  ASSUME TypeOK, NEW gap \in Gaps, NEW other \in Gaps
  PROVE  LET window == View({gap, other})
         IN  /\ window.start \in Nat /\ window.end \in Nat
             /\ window.start <= gap.start /\ gap.end <= window.end
             /\ gap = other => window.start = gap.start /\ window.end = gap.end
<1> DEFINE S == {g.start : g \in {gap, other}}
           E == {g.end : g \in {gap, other}}
<1>1. S = {gap.start, other.start} /\ E = {gap.end, other.end}
  OBVIOUS
<1>2. /\ gap.start \in Nat /\ gap.end \in Nat /\ other.start \in Nat /\ other.end \in Nat
  BY GapFacts
<1>3. View({gap, other}).start = Min(S) /\ View({gap, other}).end = Max(E)
  BY DEF View
<1> HIDE DEF S, E
<1>4. S \subseteq Nat /\ S # {}
  BY <1>1, <1>2
<1>5. Min(S) \in S /\ \A x \in S : Min(S) <= x
  BY <1>4, MinFacts
<1>6. E \subseteq 0..(gap.end + other.end) /\ E # {} /\ gap.end + other.end \in Nat
  BY <1>1, <1>2
<1>7. Max(E) \in E /\ \A x \in E : x <= Max(E)
  BY <1>6, MaxFacts
<1>8. Min(S) \in Nat /\ Max(E) \in Nat /\ Min(S) <= gap.start /\ gap.end <= Max(E)
  BY <1>1, <1>2, <1>5, <1>7
<1>9. gap = other => Min(S) = gap.start /\ Max(E) = gap.end
  BY <1>1, <1>5, <1>7
<1> QED
  BY <1>3, <1>8, <1>9

\* What ends a stretch is the first that can.
LEMMA StretchFacts ==
  ASSUME IInv, NEW begin, NEW ends, NEW s \in Stretches(begin, ends)
  PROVE  \E i \in Of(DOMAIN log, begin) :
           /\ s.start = log[i].time /\ s.end \in Nat /\ s.end <= now
           /\ \A j \in DOMAIN log : j > i /\ log[j].type \in ends => s.end <= log[j].time
           /\ \/ s.end = now
              \/ \E j \in DOMAIN log : j > i /\ log[j].type \in ends /\ s.end = log[j].time
<1>1. PICK i \in Of(DOMAIN log, begin) :
        s = [start |-> log[i].time,
             end |-> Min({now} \union {log[j].time : j \in {k \in DOMAIN log : k > i /\ log[k].type \in ends}})]
  BY DEF Stretches
<1> DEFINE T == {now} \union {log[j].time : j \in {k \in DOMAIN log : k > i /\ log[k].type \in ends}}
<1>2. T \subseteq Nat /\ T # {} /\ now \in T
  BY LogTypes DEF IInv
<1>3. \A j \in DOMAIN log : j > i /\ log[j].type \in ends => log[j].time \in T
  OBVIOUS
<1>4. s.start = log[i].time /\ s.end = Min(T)
  BY <1>1
<1>5. \A t \in T : \/ t = now
                   \/ \E j \in DOMAIN log : j > i /\ log[j].type \in ends /\ t = log[j].time
  OBVIOUS
<1> HIDE DEF T
<1>6. Min(T) \in T /\ \A t \in T : Min(T) <= t
  BY <1>2, MinFacts
<1> QED
  BY <1>2, <1>3, <1>4, <1>5, <1>6

\* A gap of a view in which the machine slept has a reason if the sleep began
\* within the pad and is uploaded, whatever else the view and the log show
\* (Reasons.SleepExplained).
THEOREM SleepsExplained == Spec => []SleepExplained
<1>1. IInv => SleepExplained
  <2> SUFFICES ASSUME IInv, NEW sleep \in SleepTimes, NEW gap \in Gaps, Overlaps(sleep, gap),
                      NEW other \in Gaps, NEW i \in uploaded,
                      log[i].type = "SLEEP", log[i].time = sleep.start,
                      sleep.start >= gap.start - Pad,
                      NEW r \in AttachReason({gap, other}), r.gap = gap
               PROVE  r.reason # Null
    BY DEF SleepExplained
  <2>0. PICK window : window = View({gap, other})
    OBVIOUS
  <2>1. /\ window.start \in Nat /\ window.end \in Nat /\ gap.start \in Nat /\ gap.end \in Nat
        /\ window.start <= gap.start /\ gap.end <= window.end /\ gap.start < gap.end
    BY <2>0, ViewFacts, GapFacts DEF IInv
  <2>2. PICK n \in Of(DOMAIN log, "SLEEP") :
          /\ sleep.start = log[n].time /\ sleep.end \in Nat
          /\ \A j \in DOMAIN log : j > n /\ log[j].type \in {"WAKE", "POWER_LOSS"}
                                  => sleep.end <= log[j].time
    BY StretchFacts DEF SleepTimes
  <2>3. /\ i \in DOMAIN log /\ n \in DOMAIN log /\ log[i].time \in Nat
    BY <2>2, LogTypes DEF IInv, Of
  <2>4. i = n
    BY <2>2, <2>3, TimesOrder
  <2>5. sleep.start < gap.end /\ sleep.end > gap.start
    BY DEF Overlaps
  <2>6. PICK events : events = EventsIn(window)
    OBVIOUS
  <2>7. /\ events \subseteq DOMAIN log
        /\ i \in events
    <3>1. /\ window.start - Pad <= log[i].time
          /\ log[i].time <= window.end + Pad
      BY <2>1, <2>3, <2>5, Constants
    <3> QED
      BY <2>1, <2>6, <3>1, Visible
  <2>8. PICK close : close = NextOf(events, i, "WAKE")
    OBVIOUS
  <2>9. PICK end : end = IF close = Null THEN window.end ELSE log[close].time
    OBVIOUS
  <2>10. end > gap.start /\ end > window.start
    <3>1. CASE close = Null
      BY <2>1, <2>9, <3>1
    <3>2. CASE close # Null
      <4>1. close \in Of(events, "WAKE") /\ close > i
        BY <2>7, <2>8, <3>2, NextOfFacts
      <4>2. close \in DOMAIN log /\ log[close].type = "WAKE"
        BY <2>7, <4>1 DEF Of
      <4>3. sleep.end <= log[close].time /\ log[close].time \in Nat
        BY <2>2, <2>4, <4>1, <4>2, TimesOrder
      <4> QED
        BY <2>1, <2>2, <2>5, <2>9, <3>2, <4>3
    <3> QED
      BY <3>1, <3>2
  <2>11. PICK e : e = Span(log[i].time, end, "SLEEP")
    OBVIOUS
  <2>12. e.start = log[i].time /\ e.end = end /\ e.kind = "SLEEP"
    BY <2>11 DEF Span
  <2>13. e \in Brackets(events, window, "SLEEP", "WAKE", "SLEEP")
    BY <2>7, <2>8, <2>9, <2>11 DEF Brackets, Of
  <2>14. Overlaps(e, gap)
    BY <2>5, <2>10, <2>12 DEF Overlaps
  <2>15. Overlaps(e, window)
    <3>1. log[i].time < window.end
      BY <2>1, <2>3, <2>5
    <3> QED
      BY <2>10, <2>12, <3>1 DEF Overlaps
  <2>16. e \in Evidence(window)
    BY <2>6, <2>13, <2>15 DEF Evidence
  <2>17. r.reason = Best(Evidence(window), gap)
    BY <2>0 DEF AttachReason, View
  <2>18. 8 \in DOMAIN Priority /\ e.kind = Priority[8]
    BY <2>12 DEF Priority
  <2>19. \E j \in DOMAIN Priority : r.reason = Priority[j]
    BY <2>14, <2>16, <2>17, <2>18, BestFacts
  <2> QED
    BY <2>19, NullAssumption
<1> QED
  BY <1>1, Invariance, PTL

\* The machine went off at position i, between the starts p and s, of which the
\* server knows none between, and the next that happened is its boot.
OffBetween(p, i, s) ==
  /\ Start(p) /\ Start(s) /\ i \in Of(DOMAIN log, "POWER_LOSS") /\ p < i /\ i < s
  /\ i + 1 \in DOMAIN log /\ log[i + 1].type = "BOOT" /\ i + 1 < s
  /\ \A q \in Of(uploaded, "AGENT_STARTED") : ~ (p < q /\ q < s)

LEMMA OffFacts ==
  ASSUME IInv, NEW off \in OffTimes,
         NEW p \in Of(uploaded, "AGENT_STARTED"), NEW s \in Of(uploaded, "AGENT_STARTED"),
         log[p].time <= off.start, off.end <= log[s].time,
         ~ \E k \in Of(uploaded, "AGENT_STARTED") : p < k /\ k < s
  PROVE  /\ off.end \in Nat
         /\ \E i : /\ off.start = log[i].time /\ OffBetween(p, i, s)
                   /\ off.end <= log[i + 1].time
<1>1. PICK i \in Of(DOMAIN log, "POWER_LOSS") :
        /\ off.start = log[i].time /\ off.end \in Nat /\ off.end <= now
        /\ \A j \in DOMAIN log : j > i /\ log[j].type \in {"BOOT"} => off.end <= log[j].time
        /\ \/ off.end = now
           \/ \E j \in DOMAIN log : j > i /\ log[j].type \in {"BOOT"} /\ off.end = log[j].time
  BY StretchFacts DEF OffTimes
<1>2. /\ Len(log) \in Nat /\ DOMAIN log = 1..Len(log) /\ uploaded \subseteq DOMAIN log
      /\ now \in Nat /\ i \in DOMAIN log /\ log[i].type = "POWER_LOSS"
      /\ \A j \in DOMAIN log : log[j].time \in Nat
  BY <1>1, LogTypes DEF IInv, Of
<1>3. /\ p \in DOMAIN log /\ log[p].type = "AGENT_STARTED"
      /\ s \in DOMAIN log /\ log[s].type = "AGENT_STARTED"
  BY <1>2 DEF Of
<1>4. i < s
  <2> SUFFICES ASSUME s <= i PROVE FALSE
    BY <1>2, <1>3
  <2>0. s # i
    BY <1>2, <1>3
  <2>1. s < i
    BY <1>2, <1>3, <2>0
  <2>2. log[s].time < log[i].time /\ log[i].time <= now
    <3>1. log[s].time < log[i].time
      BY <1>2, <1>3, <2>1, TimesOrder
    <3> QED
      BY <1>2, <3>1 DEF IInv, Ordered
  <2>3. off.end # now
    BY <1>2, <1>3, <2>2
  <2>4. PICK j \in DOMAIN log : j > i /\ off.end = log[j].time
    BY <1>1, <2>3
  <2>5. log[i].time < log[j].time
    BY <1>2, <2>4, TimesOrder
  <2> QED
    BY <1>2, <1>3, <2>2, <2>4, <2>5
<1>5. i + 1 \in DOMAIN log /\ log[i + 1].type = "BOOT"
  <2>1. i \in 1..(Len(log) - 1) /\ i + 1 \in DOMAIN log
    BY <1>2, <1>3, <1>4
  <2> QED
    BY <1>2, <2>1 DEF IInv, OffIsSilent
<1>6. i + 1 < s
  <2>1. i + 1 # s
    BY <1>3, <1>5
  <2> QED
    BY <1>2, <1>3, <1>4, <2>1
<1>7. p < i
  <2>1. p <= i /\ p # i
    BY <1>1, <1>2, <1>3, TimesOrder
  <2> QED
    BY <1>2, <1>3, <2>1
<1>8. off.end <= log[i + 1].time
  BY <1>1, <1>2, <1>5
<1>9. Start(p) /\ Start(s)
  BY <1>3 DEF Start, Of
<1>10. OffBetween(p, i, s)
  BY <1>1, <1>4, <1>5, <1>6, <1>7, <1>9 DEF OffBetween
<1> QED
  BY <1>1, <1>8, <1>10

\* The evidence that two starts with boottimes and what was announced between them
\* make, unless the machine had come back before the announcement.
LEMMA OffEvidence ==
  ASSUME IInv, NEW window, window.start \in Nat, window.end \in Nat,
         NEW events, events = EventsIn(window),
         NEW p \in events, NEW s \in events, NEW i, OffBetween(p, i, s),
         log[p].boottime # Null, log[s].boottime # Null,
         NEW back \in Nat, back <= log[i + 1].time,
         ~ \E k \in Announced(uploaded) : back <= log[k].time /\ k < s
  PROVE  \E e \in Shutdowns(events) \union Recoveries(events) :
           /\ e.kind \in {"RESTART", "RESTART_UNPLANNED", "SHUTDOWN"}
           /\ e.start \in Nat /\ e.start <= log[i].time /\ e.end = log[s].time
<1>1. /\ Start(p) /\ Start(s) /\ i \in DOMAIN log /\ log[i].type = "POWER_LOSS" /\ p < i /\ i < s
      /\ i + 1 \in DOMAIN log /\ log[i + 1].type = "BOOT" /\ i + 1 < s
      /\ \A q \in Of(uploaded, "AGENT_STARTED") : ~ (p < q /\ q < s)
      /\ p \in DOMAIN log /\ s \in DOMAIN log
  BY DEF OffBetween, Of, Start
<1>2. /\ events \subseteq DOMAIN log /\ events \subseteq uploaded /\ DOMAIN log \subseteq Nat
      /\ \A j \in DOMAIN log : log[j].time \in Nat
  BY Visible, LogTypes DEF IInv
<1>3. p < s /\ p \in Nat /\ s \in Nat /\ i \in Nat
  BY <1>1, <1>2
<1>4. /\ p \in Of(events, "AGENT_STARTED") /\ s \in Of(events, "AGENT_STARTED")
      /\ \A q \in Of(events, "AGENT_STARTED") : q \in DOMAIN log /\ ~ (p < q /\ q < s)
  BY <1>1, <1>2 DEF Of, Start
<1>5. Rebooted(log[p].boottime, log[s].boottime)
  <2>1. log[p].time < log[i + 1].time /\ log[i + 1].time <= log[s].time
    <3>1. p < i + 1 /\ i + 1 <= s
      BY <1>1, <1>2
    <3> QED
      BY <1>1, <3>1, TimesOrder
  <2>2. log[i + 1].time \in BootTimes
    BY <1>1 DEF BootTimes, Of
  <2>3. BootedIn(log[p].time, log[s].time)
    BY <2>1, <2>2 DEF BootedIn
  <2> QED
    BY <1>1, <1>3, <2>3, RebootedExactly
<1>6. log[p].time <= log[i].time
  BY <1>1, TimesOrder
<1>7. CASE s \notin Handled(events)
  <2>1. PICK e : e = SincePrevious(events, s, "RESTART_UNPLANNED")
    OBVIOUS
  <2>2. s \in Unannounced(events)
    BY <1>3, <1>4, <1>7 DEF Unannounced
  <2>3. Previous(events, s) = p
    <3>1. PICK m : m = Previous(events, s)
      OBVIOUS
    <3>2. /\ m \in Of(events, "AGENT_STARTED") /\ m < s /\ p <= m
      BY <1>2, <1>3, <1>4, <3>1, PreviousFacts
    <3>3. m \in Nat /\ ~ (p < m)
      BY <1>2, <1>4, <3>2
    <3> QED
      BY <1>3, <3>1, <3>2, <3>3
  <2>4. e \in Recoveries(events)
    BY <1>5, <2>1, <2>2, <2>3 DEF Recoveries
  <2>5. e.kind = "RESTART_UNPLANNED" /\ e.start = log[p].time /\ e.end = log[s].time
    BY <2>1, <2>3 DEF SincePrevious, Span
  <2> QED
    BY <1>1, <1>2, <1>6, <2>4, <2>5
<1>8. CASE s \in Handled(events)
  <2>1. PICK a \in Announced(events) : s = Resumption(events, a)
    BY <1>8 DEF Handled
  <2>2. a \in events /\ a \in DOMAIN log /\ log[a].type = "SHUTDOWN_OR_RESTART_IMMINENT" /\ a \in Nat
    BY <1>2 DEF Announced, Of
  <2>3. s # Null
    BY <1>3, Constants
  <2>4. s > a /\ \A j \in Of(events, "AGENT_STARTED") : j > a => s <= j
    BY <1>2, <2>1, <2>3, NextOfFacts DEF Resumption
  <2>5. p < a
    <3>1. log[p].type = "AGENT_STARTED"
      BY <1>1 DEF Start, Of
    <3>2. p # a
      BY <2>2, <3>1
    <3>3. ~ (p > a)
      BY <1>3, <1>4, <2>4
    <3> QED
      BY <1>3, <2>2, <3>2, <3>3
  <2>6. PriorBoottime(events, a) = log[p].boottime
    <3>1. p \in {j \in Of(events, "AGENT_STARTED") : j < a /\ log[j].boottime # Null}
      BY <1>4, <2>5
    <3>2. PICK starts : starts = {j \in Of(events, "AGENT_STARTED") : j < a /\ log[j].boottime # Null}
      OBVIOUS
    <3>3. Len(log) \in Nat /\ starts \subseteq 0..Len(log) /\ starts # {}
      BY <1>4, <3>1, <3>2, LogTypes DEF IInv
    <3>4. Max(starts) \in starts /\ \A x \in starts : x <= Max(starts)
      BY <3>3, MaxFacts
    <3>5. PICK m : m = Max(starts)
      OBVIOUS
    <3>6. m \in Of(events, "AGENT_STARTED") /\ m < a /\ p <= m /\ m \in Nat
      BY <1>2, <1>4, <3>1, <3>2, <3>4, <3>5
    <3>7. m < s
      BY <1>3, <2>2, <2>4, <3>6
    <3>8. m = p
      BY <1>3, <1>4, <3>6, <3>7
    <3> QED
      BY <3>1, <3>2, <3>5, <3>8 DEF PriorBoottime
  <2>7. a < i
    <3>1. a # i /\ a # i + 1
      BY <1>1, <2>2
    <3>2. a \in Announced(uploaded)
      BY <1>2, <2>2 DEF Announced, Of
    <3>3. log[a].time < back
      BY <1>2, <2>2, <2>4, <3>2
    <3>4. log[a].time < log[i + 1].time
      BY <1>1, <1>2, <2>2, <3>3
    <3>5. a < i + 1
      BY <1>1, <2>2, <3>4, TimesOrder
    <3> QED
      BY <1>3, <2>2, <3>1, <3>5
  <2>8. PICK kind \in {"RESTART", "SHUTDOWN"} :
          kind = IF log[s].time - log[a].time <= RestartGap THEN "RESTART" ELSE "SHUTDOWN"
    OBVIOUS
  <2>9. PICK e : e = Span(log[a].time, log[s].time, kind)
    OBVIOUS
  <2>10. e.kind = kind /\ e.start = log[a].time /\ e.end = log[s].time
    BY <2>9 DEF Span
  <2>11. e \in Shutdowns(events)
    <3>1. a \in {j \in Announced(events) :
                   /\ Resumption(events, j) # Null
                   /\ Rebooted(PriorBoottime(events, j), log[Resumption(events, j)].boottime)}
      BY <1>5, <2>1, <2>3, <2>6
    <3> QED
      BY <2>1, <2>8, <2>9, <3>1 DEF Shutdowns
  <2>12. log[a].time <= log[i].time /\ log[a].time \in Nat
    BY <1>1, <2>2, <2>7, TimesOrder
  <2> QED
    BY <2>8, <2>10, <2>11, <2>12
<1> QED
  BY <1>7, <1>8

\* A gap in which the machine was off is put down to a restart or a shutdown once
\* two neighbouring starts around it are uploaded with their boottimes and in the
\* pad, whatever else is missing, but for a warning that was given after it without
\* the start that gave it (Reasons.OffExplained).
THEOREM OffsExplained == Spec => []OffExplained
<1>1. IInv => OffExplained
  <2> SUFFICES ASSUME IInv, NEW off \in OffTimes, NEW gap \in Gaps, Overlaps(off, gap),
                      NEW p \in Of(uploaded, "AGENT_STARTED"),
                      NEW s \in Of(uploaded, "AGENT_STARTED"),
                      log[p].time <= off.start, off.end <= log[s].time,
                      StartsAround(gap, p, s),
                      ~ \E k \in Announced(uploaded) : off.end <= log[k].time /\ k < s,
                      NEW r \in AttachReason({gap})
               PROVE  r.reason \in {"RESTART", "RESTART_UNPLANNED", "SHUTDOWN"}
    BY DEF OffExplained
  <2>1. /\ ~ \E k \in Of(uploaded, "AGENT_STARTED") : p < k /\ k < s
        /\ log[p].boottime # Null /\ log[s].boottime # Null
        /\ gap.start - Pad <= log[p].time /\ log[s].time <= gap.end + Pad
    BY DEF StartsAround
  <2>2. PICK i : /\ off.start = log[i].time /\ OffBetween(p, i, s)
                 /\ off.end <= log[i + 1].time
    BY <2>1, OffFacts
  <2>3. /\ p \in uploaded /\ log[p].type = "AGENT_STARTED"
        /\ s \in uploaded /\ log[s].type = "AGENT_STARTED"
    BY DEF Of
  <2>5. PICK window : window = View({gap, gap})
    OBVIOUS
  <2>6. /\ window.start \in Nat /\ window.end \in Nat /\ window.start = gap.start /\ window.end = gap.end
    BY <2>5, ViewFacts DEF IInv
  <2>7. PICK events : events = EventsIn(window)
    OBVIOUS
  <2>8. /\ log[p].time \in Nat /\ log[s].time \in Nat /\ off.end \in Nat
        /\ off.start \in Nat /\ off.start < gap.end /\ off.end > gap.start
    <3>1. off.start < gap.end /\ off.end > gap.start
      BY DEF Overlaps
    <3>2. off.end \in Nat
      BY StretchFacts DEF OffTimes
    <3>3. p \in DOMAIN log /\ s \in DOMAIN log /\ i \in DOMAIN log
      BY <2>2 DEF OffBetween, Start, Of
    <3> QED
      BY <2>2, <3>1, <3>2, <3>3, TimesOrder
  <2>9. p \in events /\ s \in events
    <3>1. gap.start \in Nat /\ gap.end \in Nat /\ Pad \in Nat
      BY GapFacts, Constants DEF IInv
    <3>2. gap.start - Pad <= log[p].time /\ log[p].time <= gap.end + Pad
      BY <2>1, <2>8, <3>1
    <3>3. gap.start - Pad <= log[s].time /\ log[s].time <= gap.end + Pad
      BY <2>1, <2>8, <3>1
    <3> QED
      BY <2>3, <2>6, <2>7, <3>2, <3>3, Visible
  <2>10. PICK e \in Shutdowns(events) \union Recoveries(events) :
           /\ e.kind \in {"RESTART", "RESTART_UNPLANNED", "SHUTDOWN"}
           /\ e.start \in Nat /\ e.start <= log[i].time /\ e.end = log[s].time
    BY <2>1, <2>2, <2>6, <2>7, <2>8, <2>9, OffEvidence
  <2>11. Overlaps(e, gap) /\ Overlaps(e, window)
    <3>1. e.start < gap.end /\ e.end > gap.start
      BY <2>2, <2>3, <2>6, <2>8, <2>10
    <3> QED
      BY <2>6, <3>1 DEF Overlaps
  <2>12. e \in Evidence(window)
    BY <2>7, <2>10, <2>11 DEF Evidence
  <2>13. r.reason = Best(Evidence(window), gap)
    <3>1. {gap} = {gap, gap}
      OBVIOUS
    <3>2. r \in AttachReason({gap, gap})
      BY <3>1, Zenon
    <3>3. \A x \in {gap, gap} : x = gap
      OBVIOUS
    <3> QED
      BY <2>5, <3>2, <3>3 DEF AttachReason, View
  <2>14. PICK n \in 1..3 : n \in DOMAIN Priority /\ e.kind = Priority[n]
    BY <2>10 DEF Priority
  <2>15. PICK j \in DOMAIN Priority : j <= n /\ r.reason = Priority[j]
    BY <2>11, <2>12, <2>13, <2>14, BestFacts
  <2>16. j \in 1..3
    <3>1. DOMAIN Priority = 1..10
      BY DEF Priority
    <3> QED
      BY <2>14, <2>15, <3>1
  <2>17. j = 1 \/ j = 2 \/ j = 3
    BY <2>16
  <2> QED
    BY <2>15, <2>17 DEF Priority
<1> QED
  BY <1>1, Invariance, PTL

=============================================================================
