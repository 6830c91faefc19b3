------------------------- MODULE EvidenceSyncProofs -------------------------
(***************************************************************************)
(* Proofs about EvidenceSync, for every set of devices, uids, threads and   *)
(* batches.                                                                 *)
(***************************************************************************)
EXTENDS EvidenceSync, TLAPS

\* Appending a row adds that row to the table and keeps the others.
LEMMA RangeAppend ==
  ASSUME NEW S, NEW s \in Seq(S), NEW x \in S
  PROVE  Range(Append(s, x)) = Range(s) \union {x}
<1>1. DOMAIN Append(s, x) = 1..(Len(s) + 1) /\ DOMAIN s = 1..Len(s)
  OBVIOUS
<1>2. Append(s, x)[Len(s) + 1] = x /\ \A i \in 1..Len(s) : Append(s, x)[i] = s[i]
  OBVIOUS
<1>3. 1..(Len(s) + 1) = 1..Len(s) \union {Len(s) + 1}
  OBVIOUS
<1>4. QED
  BY <1>1, <1>2, <1>3 DEF Range

\* The two ways a thread's locals change together keep their types.
LEMMA ReleaseType ==
  ASSUME TypeOK, NEW w \in Worker, Release(w)
  PROVE  /\ pc' \in [Worker -> {"idle", "check", "lookup", "insert"}]
         /\ dev' \in [Worker -> Device \union {NoDevice}]
         /\ batch' \in [Worker -> Seq(Uid)]
         /\ pos' \in [Worker -> Nat \ {0}]
         /\ accepted' \in [Worker -> SUBSET Uid]
<1>1. <<>> \in Seq(Uid)
  OBVIOUS
<1>2. QED
  BY <1>1 DEF TypeOK, Release

LEMMA AcceptType ==
  ASSUME TypeOK, NEW w \in Worker, pos[w] \in DOMAIN batch[w], Accept(w)
  PROVE  /\ Item(w) \in Uid
         /\ pos' \in [Worker -> Nat \ {0}]
         /\ accepted' \in [Worker -> SUBSET Uid]
<1>1. Item(w) \in Uid
  BY DEF TypeOK, Item
<1>2. QED
  BY <1>1 DEF TypeOK, Accept

\* The row of an insert is a row, and it is the only one the table gains.
LEMMA InsertGrows ==
  ASSUME TypeOK, JobOK, NEW w \in Worker, Insert(w)
  PROVE  /\ [device |-> dev[w], uid |-> Item(w)] \in Row
         /\ rows' \in Seq(Row)
         /\ Range(rows') = Range(rows) \union {[device |-> dev[w], uid |-> Item(w)]}
<1>1. dev[w] \in Device /\ pos[w] \in DOMAIN batch[w] /\ batch[w] \in Seq(Uid)
  BY DEF Insert, TypeOK, JobOK
<1>2. [device |-> dev[w], uid |-> Item(w)] \in Row
  BY <1>1 DEF Row, Item
<1>3. rows' = Append(rows, [device |-> dev[w], uid |-> Item(w)])
  BY DEF Insert
<1>4. rows \in Seq(Row)
  BY DEF TypeOK
<1>5. QED
  BY <1>2, <1>3, <1>4, RangeAppend

\* What is stored stays stored.
LEMMA StoredStays ==
  ASSUME TypeOK, JobOK, [Next]_vars
  PROVE  Range(rows) \subseteq Range(rows')
<1>1. ASSUME NEW w \in Worker, Insert(w) PROVE Range(rows) \subseteq Range(rows')
  BY <1>1, InsertGrows
<1>2. CASE UNCHANGED rows
  BY <1>2
<1>3. QED
  BY <1>1, <1>2
     DEF Next, Serve, Capture, Send, Deliver, Lose, Oversized, Fitting, Found, Missing,
         Refused, Respond, Abort, vars

\* A thread that goes past an event leaves it stored: the lookup found it, or
\* the insert put it there.
LEMMA AcceptStores ==
  ASSUME TypeOK, JobOK, NEW w \in Worker, Found(w) \/ Insert(w)
  PROVE  /\ Accept(w)
         /\ UNCHANGED <<captured, queue, dev, batch, answers>>
         /\ [device |-> dev[w], uid |-> Item(w)] \in Range(rows')
<1>1. CASE Found(w)
  BY <1>1 DEF Found, Stored
<1>2. CASE Insert(w)
  BY <1>2, InsertGrows DEF Insert
<1>3. QED
  BY <1>1, <1>2

-----------------------------------------------------------------------------
LEMMA TypeInit == Init => TypeOK
BY BoundAssumption DEF Init, TypeOK

LEMMA TypeStep == TypeOK /\ JobOK /\ [Next]_vars => TypeOK'
<1> SUFFICES ASSUME TypeOK, JobOK, [Next]_vars PROVE TypeOK'
  OBVIOUS
<1> USE DEF TypeOK, Row, Answer
<1>1. ASSUME NEW e \in Event, Capture(e[1], e[2]) PROVE TypeOK'
  BY <1>1, EventAssumption DEF Capture
<1>2. ASSUME NEW d \in Device, NEW b \in Batch, NEW w \in Worker, Send(d, b, w)
      PROVE TypeOK'
  BY <1>2, BatchAssumption DEF Send
<1>3. ASSUME NEW a \in answers, Deliver(a) PROVE TypeOK'
  BY <1>3 DEF Deliver
<1>4. ASSUME NEW a \in answers, Lose(a) PROVE TypeOK'
  BY <1>4, BoundAssumption DEF Lose
<1>5. ASSUME NEW w \in Worker, Oversized(w) PROVE TypeOK'
  BY <1>5, ReleaseType DEF Oversized
<1>6. ASSUME NEW w \in Worker, Fitting(w) PROVE TypeOK'
  BY <1>6 DEF Fitting
<1>7. ASSUME NEW w \in Worker, Found(w) PROVE TypeOK'
  BY <1>7, AcceptType DEF Found
<1>8. ASSUME NEW w \in Worker, Missing(w) PROVE TypeOK'
  BY <1>8 DEF Missing
<1>9. ASSUME NEW w \in Worker, Insert(w) PROVE TypeOK'
  BY <1>9, AcceptType, InsertGrows DEF Insert, JobOK
<1>10. ASSUME NEW w \in Worker, Refused(w) PROVE TypeOK'
  BY <1>10, ReleaseType DEF Refused
<1>11. ASSUME NEW w \in Worker, Respond(w) PROVE TypeOK'
  BY <1>11, ReleaseType DEF Respond, JobOK
<1>12. ASSUME NEW w \in Worker, Abort(w) PROVE TypeOK'
  BY <1>12, BoundAssumption, ReleaseType DEF Abort
<1>13. CASE UNCHANGED vars
  BY <1>13 DEF vars
<1>14. QED
  BY <1>1, <1>2, <1>3, <1>4, <1>5, <1>6, <1>7, <1>8, <1>9, <1>10, <1>11, <1>12, <1>13
     DEF Next, Serve

-----------------------------------------------------------------------------
LEMMA JobInit == Init => JobOK /\ CapturedOK
BY DEF Init, JobOK, CapturedOK

LEMMA JobStep == TypeOK /\ JobOK /\ CapturedOK /\ [Next]_vars => JobOK'
<1> SUFFICES ASSUME TypeOK, JobOK, CapturedOK, [Next]_vars PROVE JobOK'
  OBVIOUS
<1> USE DEF TypeOK, JobOK
<1>1. ASSUME NEW e \in Event, Capture(e[1], e[2]) PROVE JobOK'
  BY <1>1, EventAssumption DEF Capture
<1>2. ASSUME NEW d \in Device, NEW b \in Batch, NEW w \in Worker, Send(d, b, w)
      PROVE JobOK'
  <2>1. Range(b) \subseteq captured[d]
    BY <1>2 DEF Send, CapturedOK
  <2>2. QED
    BY <1>2, <2>1 DEF Send
<1>3. ASSUME NEW w \in Worker, Release(w), UNCHANGED captured PROVE JobOK'
  BY <1>3 DEF Release
<1>4. ASSUME NEW w \in Worker, Fitting(w) PROVE JobOK'
  BY <1>4 DEF Fitting
<1>5. ASSUME NEW w \in Worker, Found(w) PROVE JobOK'
  BY <1>5 DEF Found, Accept
<1>6. ASSUME NEW w \in Worker, Missing(w) PROVE JobOK'
  BY <1>6 DEF Missing
<1>7. ASSUME NEW w \in Worker, Insert(w) PROVE JobOK'
  BY <1>7 DEF Insert, Accept
<1>8. CASE UNCHANGED <<captured, pc, dev, batch, pos, accepted>>
  BY <1>8
<1>9. QED
  BY <1>1, <1>2, <1>3, <1>4, <1>5, <1>6, <1>7, <1>8
     DEF Next, Serve, Deliver, Lose, Oversized, Refused, Respond, Abort, vars

LEMMA CapturedStep == TypeOK /\ CapturedOK /\ [Next]_vars => CapturedOK'
<1> SUFFICES ASSUME TypeOK, CapturedOK, [Next]_vars PROVE CapturedOK'
  OBVIOUS
<1> USE DEF TypeOK, CapturedOK
<1>1. ASSUME NEW e \in Event, Capture(e[1], e[2]) PROVE CapturedOK'
  <2>1. e[1] \in Device /\ e[2] \in Uid /\ e = <<e[1], e[2]>>
    BY EventAssumption
  <2>2. SUFFICES ASSUME NEW d \in Device
                 PROVE  /\ queue'[d] \subseteq captured'[d]
                        /\ \A u \in captured'[d] : <<d, u>> \in Event
    OBVIOUS
  <2>3. CASE d = e[1]
    BY <1>1, <2>1, <2>3 DEF Capture
  <2>4. CASE d # e[1]
    BY <1>1, <2>1, <2>4 DEF Capture
  <2>5. QED
    BY <2>3, <2>4
<1>2. ASSUME NEW a \in answers, Deliver(a) PROVE CapturedOK'
  BY <1>2 DEF Deliver
<1>3. CASE UNCHANGED <<captured, queue>>
  BY <1>3
<1>4. QED
  BY <1>1, <1>2, <1>3
     DEF Next, Serve, Send, Lose, Oversized, Fitting, Found, Missing, Insert, Refused,
         Respond, Abort, vars

-----------------------------------------------------------------------------
LEMMA OneRowStep == TypeOK /\ JobOK /\ AtMostOneRow /\ [Next]_vars => AtMostOneRow'
<1> SUFFICES ASSUME TypeOK, JobOK, AtMostOneRow, [Next]_vars PROVE AtMostOneRow'
  OBVIOUS
<1>1. ASSUME NEW w \in Worker, Insert(w) PROVE AtMostOneRow'
  <2> DEFINE r == [device |-> dev[w], uid |-> Item(w)]
  <2>1. rows' = Append(rows, r) /\ r \notin Range(rows)
    BY <1>1 DEF Insert, Admits, Stored
  <2>2. r \in Row /\ rows \in Seq(Row)
    BY <1>1, InsertGrows DEF TypeOK
  <2>3. DOMAIN rows' = 1..(Len(rows) + 1) /\ DOMAIN rows = 1..Len(rows) /\ Len(rows) \in Nat
    BY <2>1, <2>2
  <2>4. /\ rows'[Len(rows) + 1] = r
        /\ \A i \in 1..Len(rows) : rows'[i] = rows[i] /\ rows[i] # r
    BY <2>1, <2>2, <2>3 DEF Range
  <2>5. QED
    BY <2>3, <2>4 DEF AtMostOneRow
<1>2. CASE UNCHANGED rows
  BY <1>2 DEF AtMostOneRow
<1>3. QED
  BY <1>1, <1>2
     DEF Next, Serve, Capture, Send, Deliver, Lose, Oversized, Fitting, Found, Missing,
         Refused, Respond, Abort, vars

\* Only Found and Insert add to an accepted list, and only Respond makes an
\* answer of one.
LEMMA AcceptedStep ==
  TypeOK /\ JobOK /\ AcceptedIsStored /\ [Next]_vars => AcceptedIsStored'
<1> SUFFICES ASSUME TypeOK, JobOK, AcceptedIsStored, [Next]_vars
             PROVE  AcceptedIsStored'
  OBVIOUS
<1> USE StoredStays DEF TypeOK, AcceptedIsStored, Stored
<1>1. ASSUME NEW d \in Device, NEW b \in Batch, NEW w \in Worker, Send(d, b, w)
      PROVE AcceptedIsStored'
  BY <1>1 DEF Send
<1>2. ASSUME NEW w \in Worker, Release(w), answers' \subseteq answers
      PROVE AcceptedIsStored'
  BY <1>2 DEF Release
<1>3. ASSUME NEW w \in Worker, Found(w) \/ Insert(w) PROVE AcceptedIsStored'
  <2>1. /\ Accept(w)
        /\ UNCHANGED <<dev, answers>>
        /\ [device |-> dev[w], uid |-> Item(w)] \in Range(rows')
    BY <1>3, AcceptStores
  <2>2. Range(rows) \subseteq Range(rows')
    OBVIOUS
  <2>3. /\ accepted'[w] = accepted[w] \union {Item(w)}
        /\ \A v \in Worker : v # w => accepted'[v] = accepted[v]
    BY <2>1 DEF Accept
  <2>4. QED
    BY <2>1, <2>2, <2>3
<1>4. ASSUME NEW w \in Worker, Respond(w) PROVE AcceptedIsStored'
  BY <1>4 DEF Respond, Release
<1>5. ASSUME UNCHANGED <<dev, accepted>>, answers' \subseteq answers
      PROVE AcceptedIsStored'
  BY <1>5
<1>6. QED
  BY <1>1, <1>2, <1>3, <1>4, <1>5
     DEF Next, Serve, Capture, Deliver, Lose, Oversized, Fitting, Missing, Refused,
         Abort, vars

LEMMA PrefixStep ==
  TypeOK /\ JobOK /\ PrefixStored /\ [Next]_vars => PrefixStored'
<1> SUFFICES ASSUME TypeOK, JobOK, PrefixStored, [Next]_vars PROVE PrefixStored'
  OBVIOUS
<1> USE StoredStays DEF TypeOK, PrefixStored, Stored
<1>1. ASSUME NEW d \in Device, NEW b \in Batch, NEW w \in Worker, Send(d, b, w)
      PROVE PrefixStored'
  BY <1>1, BatchAssumption DEF Send
<1>2. ASSUME NEW w \in Worker, Release(w) PROVE PrefixStored'
  BY <1>2 DEF Release
<1>3. ASSUME NEW w \in Worker, Found(w) \/ Insert(w) PROVE PrefixStored'
  <2>1. /\ Accept(w)
        /\ UNCHANGED <<dev, batch>>
        /\ [device |-> dev[w], uid |-> Item(w)] \in Range(rows')
    BY <1>3, AcceptStores
  <2>2. Range(rows) \subseteq Range(rows')
    OBVIOUS
  <2>3. /\ pos'[w] = pos[w] + 1
        /\ \A v \in Worker : v # w => pos'[v] = pos[v]
    BY <2>1 DEF Accept
  <2>4. \A i \in DOMAIN batch[w] : i < pos'[w] => i < pos[w] \/ i = pos[w]
    BY <2>3
  <2>5. QED
    BY <2>1, <2>2, <2>3, <2>4 DEF Item
<1>4. CASE UNCHANGED <<dev, batch, pos>>
  BY <1>4
<1>5. QED
  BY <1>1, <1>2, <1>3, <1>4
     DEF Next, Serve, Capture, Deliver, Lose, Oversized, Fitting, Missing, Refused,
         Respond, Abort, vars

\* A queue shrinks only by what an answer names, and an answer names what is
\* stored.
LEMMA NothingLostStep ==
  TypeOK /\ JobOK /\ AcceptedIsStored /\ NothingLost /\ [Next]_vars => NothingLost'
<1> SUFFICES ASSUME TypeOK, JobOK, AcceptedIsStored, NothingLost, [Next]_vars
             PROVE  NothingLost'
  OBVIOUS
<1> USE StoredStays DEF TypeOK, NothingLost, Stored
<1>1. ASSUME NEW e \in Event, Capture(e[1], e[2]) PROVE NothingLost'
  BY <1>1, EventAssumption DEF Capture
<1>2. ASSUME NEW a \in answers, Deliver(a) PROVE NothingLost'
  BY <1>2 DEF Deliver, AcceptedIsStored, Answer
<1>3. CASE UNCHANGED <<captured, queue>>
  BY <1>3
<1>4. QED
  BY <1>1, <1>2, <1>3
     DEF Next, Serve, Send, Lose, Oversized, Fitting, Found, Missing, Insert, Refused,
         Respond, Abort, vars

-----------------------------------------------------------------------------
LEMMA InitIInv == Init => IInv
<1> SUFFICES ASSUME Init PROVE IInv
  OBVIOUS
<1>1. TypeOK /\ JobOK /\ CapturedOK
  BY TypeInit, JobInit
<1>2. AtMostOneRow /\ AcceptedIsStored /\ NothingLost /\ PrefixStored
  BY DEF Init, AtMostOneRow, AcceptedIsStored, NothingLost, PrefixStored
<1>3. QED
  BY <1>1, <1>2 DEF IInv

LEMMA StepIInv == IInv /\ [Next]_vars => IInv'
BY TypeStep, JobStep, CapturedStep, OneRowStep, AcceptedStep, NothingLostStep, PrefixStep
   DEF IInv

\* The strengthened invariant, and with it each of its conjuncts below.
THEOREM Invariance == Spec => []IInv
BY InitIInv, StepIInv, PTL DEF Spec

\* Type correctness of the upload, for every instance.
THEOREM TypeCorrect == Spec => []TypeOK
BY Invariance, PTL DEF IInv

\* No interleaving of retries stores an event of a device twice.
THEOREM StoredOnce == Spec => []AtMostOneRow
BY Invariance, PTL DEF IInv

\* The server never acknowledges an event it has not stored for that device.
THEOREM AcknowledgedIsDurable == Spec => []AcceptedIsStored
BY Invariance, PTL DEF IInv

\* What a device has dropped from its queue the server holds.
THEOREM NoLoss == Spec => []NothingLost
BY Invariance, PTL DEF IInv

\* A request leaves a prefix of its batch behind, wherever it stops.
THEOREM PrefixDurable == Spec => []PrefixStored
BY Invariance, PTL DEF IInv

-----------------------------------------------------------------------------
LEMMA RefinesInit == Init => Store!Init
<1> SUFFICES ASSUME Init PROVE Store!Init
  OBVIOUS
<1>1. \A d, u : ~Stored(d, u)
  BY DEF Init, Stored, Range
<1>2. QED
  BY <1>1, EventAssumption DEF Init, Store!Init

\* An event is its device and its uid.
LEMMA EventPair ==
  \A e, f \in Event : /\ e[1] \in Device /\ e[2] \in Uid
                      /\ e = f <=> e[1] = f[1] /\ e[2] = f[2]
<1>1. \A e, f \in Device \X Uid : /\ e[1] \in Device /\ e[2] \in Uid
                                  /\ e = f <=> e[1] = f[1] /\ e[2] = f[2]
  OBVIOUS
<1>2. QED
  BY <1>1, EventAssumption

LEMMA RefinesStep == IInv /\ [Next]_vars => [Store!Next]_Store!vars
<1> SUFFICES ASSUME IInv, [Next]_vars PROVE [Store!Next]_Store!vars
  OBVIOUS
<1> USE DEF IInv, TypeOK
<1>1. ASSUME NEW e \in Event, Capture(e[1], e[2]) PROVE Store!Capture(e)
  <2>1. e[1] \in Device /\ e[2] \in Uid
    BY EventPair
  <2>2. \A f \in Event : f[2] \in captured'[f[1]] <=> f[2] \in captured[f[1]] \/ f = e
    BY <1>1, <2>1, EventPair DEF Capture
  <2>3. \A f \in Event :
          f[2] \in captured'[f[1]] \ queue'[f[1]] <=> f[2] \in captured[f[1]] \ queue[f[1]]
    BY <1>1, <2>1, EventPair DEF Capture, CapturedOK
  <2>4. rows' = rows /\ e[2] \notin captured[e[1]]
    BY <1>1 DEF Capture
  <2>5. {f \in Event : f[2] \in captured'[f[1]]}
          = {f \in Event : f[2] \in captured[f[1]]} \union {e}
    BY <2>2
  <2>6. {f \in Event : Stored(f[1], f[2])'} = {f \in Event : Stored(f[1], f[2])}
    BY <2>4 DEF Stored
  <2>7. {f \in Event : f[2] \in captured'[f[1]] \ queue'[f[1]]}
          = {f \in Event : f[2] \in captured[f[1]] \ queue[f[1]]}
    BY <2>3
  <2>8. QED
    BY <2>4, <2>5, <2>6, <2>7 DEF Store!Capture
<1>2. ASSUME NEW w \in Worker, Insert(w)
      PROVE  \E e \in Event : Store!Store(e)
  <2> DEFINE e == <<dev[w], Item(w)>>
  <2>1. dev[w] \in Device /\ pos[w] \in DOMAIN batch[w]
    BY <1>2 DEF Insert, JobOK
  <2>2. Item(w) \in captured[dev[w]]
    BY <1>2, <2>1 DEF Insert, JobOK, Item, Range
  <2>3. e \in Event
    BY <2>1, <2>2 DEF CapturedOK
  <2>4. ~Stored(e[1], e[2])
    BY <1>2 DEF Insert, Admits
  <2>5. \A f \in Event : [device |-> f[1], uid |-> f[2]] \in Range(rows')
                           <=> [device |-> f[1], uid |-> f[2]] \in Range(rows) \/ f = e
    <3>1. Range(rows') = Range(rows) \union {[device |-> e[1], uid |-> e[2]]}
      BY <1>2, InsertGrows
    <3>2. \A f \in Event : f = e <=> f[1] = e[1] /\ f[2] = e[2]
      BY <2>3, EventPair
    <3>3. QED
      BY <3>1, <3>2
  <2>6. {f \in Event : Stored(f[1], f[2])'} = {f \in Event : Stored(f[1], f[2])} \union {e}
    <3> HIDE DEF e
    <3> QED
      BY <2>3, <2>5 DEF Stored
  <2>7. UNCHANGED <<captured, queue>>
    BY <1>2 DEF Insert
  <2>8. Store!Store(e)
    BY <2>2, <2>3, <2>4, <2>6, <2>7 DEF Store!Store
  <2>9. QED
    BY <2>3, <2>8
<1>3. ASSUME NEW a \in answers, Deliver(a)
      PROVE  \E S \in SUBSET Event : Store!Prune(S)
  <2> DEFINE P == {f \in Event : f[1] = a.device /\ f[2] \in a.uids
                                   /\ f[2] \in captured[f[1]]}
  <2>1. a.device \in Device /\ a.uids \subseteq Uid
    BY DEF Answer
  <2>2. P \subseteq {f \in Event : Stored(f[1], f[2])}
    BY DEF AcceptedIsStored
  <2>3. UNCHANGED <<captured, rows>>
    BY <1>3 DEF Deliver
  <2>4. \A f \in Event : f[2] \in captured'[f[1]] \ queue'[f[1]]
                           <=> f[2] \in captured[f[1]] \ queue[f[1]] \/ f \in P
    BY <1>3, <2>1, EventPair DEF Deliver
  <2>5. {f \in Event : f[2] \in captured'[f[1]] \ queue'[f[1]]}
          = {f \in Event : f[2] \in captured[f[1]] \ queue[f[1]]} \union P
    BY <2>4
  <2>6. Store!Prune(P)
    BY <2>2, <2>3, <2>5 DEF Store!Prune, Stored
  <2>7. P \in SUBSET Event
    OBVIOUS
  <2>8. QED
    BY <2>6, <2>7 DEF Store!Prune
<1>4. CASE UNCHANGED <<captured, queue, rows>>
  BY <1>4 DEF Store!vars, Stored
<1>5. QED
  BY <1>1, <1>2, <1>3, <1>4
     DEF Store!Next, Next, Serve, Send, Lose, Oversized, Fitting, Found, Missing, Refused,
         Respond, Abort, vars

\* Every behaviour of the upload is one of EvidenceStore: events are captured,
\* stored once and for all, and forgotten by the device only when stored.
THEOREM Refinement == Spec => ImplementsStore
<1>1. Init => Store!Init
  BY RefinesInit
<1>2. IInv /\ [Next]_vars => [Store!Next]_Store!vars
  BY RefinesStep
<1>3. QED
  BY <1>1, <1>2, Invariance, PTL DEF Spec, ImplementsStore, Store!Spec

=============================================================================
