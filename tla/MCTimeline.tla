------------------------------ MODULE MCTimeline ------------------------------
(***************************************************************************)
(* A session that starts with the clock and is closed late or never, a      *)
(* second one after it, and an idle event whose end is reported later.      *)
(* Times of reports are wall-clock times: instants plus 1.                  *)
(***************************************************************************)
EXTENDS Timeline, TLC

CONSTANTS s1, s2, i1

Session(login, logout) == [login |-> login, logout |-> logout]
Idle(s, start, end) == [session |-> s, start |-> start, end |-> end]

MCSessionReport ==
  (s1 :> {Session(1, Null), Session(1, 6)}) @@ (s2 :> {Session(6, Null), Session(7, 8)})
MCIdleReport ==
  i1 :> {Idle(s1, 3, Null), Idle(s1, 3, 5)}

=============================================================================
