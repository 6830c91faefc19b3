---------------------------- MODULE EvidenceStore ----------------------------
(***************************************************************************)
(* What the lifecycle-evidence upload promises an agent, whatever requests, *)
(* workers and answers carry it out: an event the agent has captured is     *)
(* either still queued on the device or durably stored, it is stored once,  *)
(* and nothing stored is ever taken back.                                   *)
(***************************************************************************)
CONSTANT Event      \* every event a device may ever capture

VARIABLES
  captured,         \* the events that have happened so far
  stored,           \* the events the server holds
  pruned            \* the events the device no longer holds

vars == <<captured, stored, pruned>>

Init ==
  /\ captured = {}
  /\ stored = {}
  /\ pruned = {}

\* The device observes an event.
Capture(e) ==
  /\ e \notin captured
  /\ captured' = captured \union {e}
  /\ UNCHANGED <<stored, pruned>>

\* The server makes a captured event durable.
Store(e) ==
  /\ e \in captured \ stored
  /\ stored' = stored \union {e}
  /\ UNCHANGED <<captured, pruned>>

\* The device forgets events, and only events the server holds.
Prune(S) ==
  /\ S \subseteq stored
  /\ pruned' = pruned \union S
  /\ UNCHANGED <<captured, stored>>

Next ==
  \/ \E e \in Event : Capture(e) \/ Store(e)
  \/ \E S \in SUBSET Event : Prune(S)

Spec == Init /\ [][Next]_vars

=============================================================================
