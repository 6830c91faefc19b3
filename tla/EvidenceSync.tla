---------------------------- MODULE EvidenceSync ----------------------------
(***************************************************************************)
(* POST /api/agent/lifecycle: an agent drains its queue of lifecycle        *)
(* evidence in batches (AgentLifecycleService.sync).  Requests run on a     *)
(* pool of threads, each with a session of its own, so a batch the agent    *)
(* retries may race with the attempt it gave up on.  Every event is looked  *)
(* up, and inserted and committed on its own when the lookup found nothing; *)
(* UNIQUE(device_id, event_uid) is the last line of defence.                *)
(*                                                                          *)
(* A step of a worker is one database statement.  A statement can fail, a   *)
(* process can stop between two statements and an answer can be lost: in    *)
(* all three the agent sees no answer.  The agent itself is not in the      *)
(* repository: its queue is modelled from what the service and its tests    *)
(* say of it (unsent rows stay queued until they are acknowledged).         *)
(***************************************************************************)
EXTENDS Naturals, Sequences, Functions

CONSTANTS
  Device,           \* the enrolled devices
  Uid,              \* event_uid values
  Event,            \* the events that may happen: a device and its uid for it
  Worker,           \* the threads that serve requests
  NoDevice,         \* dev of a thread that serves no request
  Batch,            \* the batches (sequences of uids) an agent may send
  MaxBatch,         \* MAX_EVENTS_PER_BATCH
  MaxFault          \* bound: how many requests and answers may be lost

ASSUME BatchAssumption == Batch \subseteq Seq(Uid)
ASSUME EventAssumption == Event \subseteq Device \X Uid
ASSUME NoDeviceAssumption == NoDevice \notin Device
ASSUME BoundAssumption == MaxBatch \in Nat \ {0} /\ MaxFault \in Nat

VARIABLES
  captured,         \* captured[d]: every event device d has ever observed
  queue,            \* queue[d]: the events d holds until they are acknowledged
  rows,             \* table agent_lifecycle_events, in the order of its ids
  pc,               \* pc[w]: where the thread is in sync()
  dev,              \* dev[w]: the device its request authenticated as
  batch,            \* batch[w]: request.events
  pos,              \* pos[w]: index of the event of the for loop
  accepted,         \* accepted[w]: accepted_event_uids
  answers,          \* the 200 answers on their way to the agents
  faults            \* how many requests and answers were lost

vars == <<captured, queue, rows, pc, dev, batch, pos, accepted, answers, faults>>

Row == [device : Device, uid : Uid]
Answer == [device : Device, uids : SUBSET Uid]

TypeOK ==
  /\ captured \in [Device -> SUBSET Uid]
  /\ queue \in [Device -> SUBSET Uid]
  /\ rows \in Seq(Row)
  /\ pc \in [Worker -> {"idle", "check", "lookup", "insert"}]
  /\ dev \in [Worker -> Device \union {NoDevice}]
  /\ batch \in [Worker -> Seq(Uid)]
  /\ pos \in [Worker -> Nat \ {0}]
  /\ accepted \in [Worker -> SUBSET Uid]
  /\ answers \subseteq Answer
  /\ faults \in 0..MaxFault

\* get_by_event_uid: is there a row of this device with this uid?
Stored(d, u) == [device |-> d, uid |-> u] \in Range(rows)

Init ==
  /\ captured = [d \in Device |-> {}]
  /\ queue = [d \in Device |-> {}]
  /\ rows = <<>>
  /\ pc = [w \in Worker |-> "idle"]
  /\ dev = [w \in Worker |-> NoDevice]
  /\ batch = [w \in Worker |-> <<>>]
  /\ pos = [w \in Worker |-> 1]
  /\ accepted = [w \in Worker |-> {}]
  /\ answers = {}
  /\ faults = 0

-----------------------------------------------------------------------------
(* The agent.                                                               *)

Capture(d, u) ==
  /\ u \notin captured[d]
  /\ captured' = [captured EXCEPT ![d] = @ \union {u}]
  /\ queue' = [queue EXCEPT ![d] = @ \union {u}]
  /\ UNCHANGED <<rows, pc, dev, batch, pos, accepted, answers, faults>>

\* A thread takes up a request of d.  An agent that gave up on an earlier
\* request sends its events again while that request may still be running.
Send(d, b, w) ==
  /\ pc[w] = "idle"
  /\ Range(b) \subseteq queue[d]
  /\ pc' = [pc EXCEPT ![w] = "check"]
  /\ dev' = [dev EXCEPT ![w] = d]
  /\ batch' = [batch EXCEPT ![w] = b]
  /\ pos' = [pos EXCEPT ![w] = 1]
  /\ accepted' = [accepted EXCEPT ![w] = {}]
  /\ UNCHANGED <<captured, queue, rows, answers, faults>>

\* The agent reads an answer and drops what it names.
Deliver(a) ==
  /\ a \in answers
  /\ queue' = [queue EXCEPT ![a.device] = @ \ a.uids]
  /\ answers' = answers \ {a}
  /\ UNCHANGED <<captured, rows, pc, dev, batch, pos, accepted, faults>>

Lose(a) ==
  /\ a \in answers
  /\ faults < MaxFault
  /\ faults' = faults + 1
  /\ answers' = answers \ {a}
  /\ UNCHANGED <<captured, queue, rows, pc, dev, batch, pos, accepted>>

-----------------------------------------------------------------------------
(* AgentLifecycleService.sync, one statement at a time.                     *)

\* The request ends; nothing of it stays with the thread.
Release(w) ==
  /\ pc' = [pc EXCEPT ![w] = "idle"]
  /\ dev' = [dev EXCEPT ![w] = NoDevice]
  /\ batch' = [batch EXCEPT ![w] = <<>>]
  /\ pos' = [pos EXCEPT ![w] = 1]
  /\ accepted' = [accepted EXCEPT ![w] = {}]

\* The size check: 400 before anything is written, or on to the loop.
Oversized(w) ==
  /\ pc[w] = "check"
  /\ Len(batch[w]) > MaxBatch
  /\ Release(w)
  /\ UNCHANGED <<captured, queue, rows, answers, faults>>

Fitting(w) ==
  /\ pc[w] = "check"
  /\ Len(batch[w]) <= MaxBatch
  /\ pc' = [pc EXCEPT ![w] = "lookup"]
  /\ UNCHANGED <<captured, queue, rows, dev, batch, pos, accepted, answers, faults>>

\* item.event_uid of the loop.
Item(w) == batch[w][pos[w]]

\* Faulty: remembers the position of the event instead of its uid.
FaultyAccept(w) ==
  /\ accepted' = [accepted EXCEPT ![w] = @ \union {pos[w]}]
  /\ pos' = [pos EXCEPT ![w] = @ + 1]

\* accepted_event_uids.append, and on to the next event.
Accept(w) ==
  /\ accepted' = [accepted EXCEPT ![w] = @ \union {Item(w)}]
  /\ pos' = [pos EXCEPT ![w] = @ + 1]

\* Faulty: looks the uid up without the device filter.
FaultyFound(w) ==
  /\ pc[w] = "lookup"
  /\ pos[w] \in DOMAIN batch[w]
  /\ \E d \in Device : Stored(d, Item(w))
  /\ Accept(w)
  /\ UNCHANGED <<captured, queue, rows, pc, dev, batch, answers, faults>>

\* Faulty: acknowledges only the events this request inserted itself.
ForgetfulFound(w) ==
  /\ pc[w] = "lookup"
  /\ pos[w] \in DOMAIN batch[w]
  /\ Stored(dev[w], Item(w))
  /\ pos' = [pos EXCEPT ![w] = @ + 1]
  /\ UNCHANGED <<captured, queue, rows, pc, dev, batch, accepted, answers, faults>>

\* get_by_event_uid finds the event: a replay, accepted without a write.
Found(w) ==
  /\ pc[w] = "lookup"
  /\ pos[w] \in DOMAIN batch[w]
  /\ Stored(dev[w], Item(w))
  /\ Accept(w)
  /\ UNCHANGED <<captured, queue, rows, pc, dev, batch, answers, faults>>

\* It finds nothing: on to the insert, which is another statement.
Missing(w) ==
  /\ pc[w] = "lookup"
  /\ pos[w] \in DOMAIN batch[w]
  /\ ~Stored(dev[w], Item(w))
  /\ pc' = [pc EXCEPT ![w] = "insert"]
  /\ UNCHANGED <<captured, queue, rows, dev, batch, pos, accepted, answers, faults>>

\* Faulty: there is no unique constraint.
FaultyAdmits(d, u) == TRUE

\* The unique constraint lets the row in.
Admits(d, u) == ~Stored(d, u)

\* create: the row is committed and the event accepted.
Insert(w) ==
  /\ pc[w] = "insert"
  /\ Admits(dev[w], Item(w))
  /\ rows' = Append(rows, [device |-> dev[w], uid |-> Item(w)])
  /\ Accept(w)
  /\ pc' = [pc EXCEPT ![w] = "lookup"]
  /\ UNCHANGED <<captured, queue, dev, batch, answers, faults>>

\* Faulty: the exception is caught and the event is accepted all the same.
FaultyRefused(w) ==
  /\ pc[w] = "insert"
  /\ faults < MaxFault
  /\ faults' = faults + 1
  /\ Accept(w)
  /\ pc' = [pc EXCEPT ![w] = "lookup"]
  /\ UNCHANGED <<captured, queue, rows, dev, batch, answers>>

\* create: another request stored the event since the lookup, the commit
\* raises IntegrityError and the request ends with 500 and no accepted list.
Refused(w) ==
  /\ pc[w] = "insert"
  /\ ~Admits(dev[w], Item(w))
  /\ Release(w)
  /\ UNCHANGED <<captured, queue, rows, answers, faults>>

\* The loop is over: 200 with the accepted list.
Respond(w) ==
  /\ pc[w] = "lookup"
  /\ pos[w] \notin DOMAIN batch[w]
  /\ answers' = answers \union {[device |-> dev[w], uids |-> accepted[w]]}
  /\ Release(w)
  /\ UNCHANGED <<captured, queue, rows, faults>>

\* Faulty: a failed request takes back every row of its batch.
FaultyAbort(w) ==
  /\ pc[w] # "idle"
  /\ faults < MaxFault
  /\ faults' = faults + 1
  /\ rows' = SelectSeq(rows, LAMBDA r : ~(r.device = dev[w] /\ r.uid \in Range(batch[w])))
  /\ Release(w)
  /\ UNCHANGED <<captured, queue, answers>>

\* A statement fails, or the process stops: what was committed stays.
Abort(w) ==
  /\ pc[w] # "idle"
  /\ faults < MaxFault
  /\ faults' = faults + 1
  /\ Release(w)
  /\ UNCHANGED <<captured, queue, rows, answers>>

Serve(w) ==
  \/ Oversized(w) \/ Fitting(w)
  \/ Found(w) \/ Missing(w)
  \/ Insert(w) \/ Refused(w)
  \/ Respond(w)

Next ==
  \/ \E e \in Event : Capture(e[1], e[2])
  \/ \E d \in Device, b \in Batch, w \in Worker : Send(d, b, w)
  \/ \E a \in answers : Deliver(a) \/ Lose(a)
  \/ \E w \in Worker : Serve(w) \/ Abort(w)

Spec == Init /\ [][Next]_vars

\* An agent keeps retrying what it still holds, in batches the server takes.
Retry(d, u) ==
  \E b \in Batch, w \in Worker :
    u \in Range(b) /\ Len(b) <= MaxBatch /\ Send(d, b, w)

Fairness ==
  /\ \A w \in Worker : WF_vars(Serve(w))
  /\ \A e \in Event : SF_vars(Retry(e[1], e[2]))
  /\ \A a \in Answer : WF_vars(Deliver(a))

FairSpec == Spec /\ Fairness

-----------------------------------------------------------------------------
(* Properties.                                                              *)

\* An event is stored once, however many requests carry it and however they
\* interleave: the lookup alone does not ensure it, two threads may both miss.
AtMostOneRow ==
  \A i, j \in DOMAIN rows : rows[i] = rows[j] => i = j

\* A request that is past an event has it durably stored, for its own device:
\* the comment in sync() on what the client may safely prune.
AcceptedIsStored ==
  /\ \A w \in Worker : \A u \in accepted[w] : Stored(dev[w], u)
  /\ \A a \in answers : \A u \in a.uids : Stored(a.device, u)

\* No event is lost: what a device has dropped from its queue the server holds.
NothingLost ==
  \A d \in Device : \A u \in captured[d] \ queue[d] : Stored(d, u)

\* A failed request leaves a prefix of its batch behind, never a later event
\* without the earlier ones: a request at event i has stored all before i.
PrefixStored ==
  \A w \in Worker : \A i \in DOMAIN batch[w] :
    i < pos[w] => Stored(dev[w], batch[w][i])

\* Every captured event ends up stored and out of the device's queue, despite
\* refused batches, races between retries, aborts and lost answers.
EventuallyDrained ==
  \A e \in Event :
    e[2] \in captured[e[1]] ~> (e[2] \notin queue[e[1]] /\ Stored(e[1], e[2]))

-----------------------------------------------------------------------------
(* What the proofs need besides: what a busy thread holds was captured.     *)

JobOK ==
  \A w \in Worker :
    /\ pc[w] = "idle" => batch[w] = <<>> /\ pos[w] = 1 /\ accepted[w] = {}
    /\ pc[w] # "idle" => /\ dev[w] \in Device
                        /\ Range(batch[w]) \subseteq captured[dev[w]]
    /\ pc[w] = "insert" => pos[w] \in DOMAIN batch[w]

CapturedOK ==
  \A d \in Device :
    /\ queue[d] \subseteq captured[d]
    /\ \A u \in captured[d] : <<d, u>> \in Event

IInv == TypeOK /\ JobOK /\ CapturedOK /\ AtMostOneRow /\ AcceptedIsStored
          /\ NothingLost /\ PrefixStored

-----------------------------------------------------------------------------
(* The upload implements what EvidenceStore promises.                       *)

Store == INSTANCE EvidenceStore WITH
  captured <- {e \in Event : e[2] \in captured[e[1]]},
  stored <- {e \in Event : Stored(e[1], e[2])},
  pruned <- {e \in Event : e[2] \in captured[e[1]] \ queue[e[1]]}

ImplementsStore == Store!Spec

=============================================================================
