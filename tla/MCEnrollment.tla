---------------------------- MODULE MCEnrollment ----------------------------
(* A small instance of Enrollment: two machines, one of which reinstalls and *)
(* comes back with the other's uuid or a uuid of its own, or does not know   *)
(* its serial number or its uuid at first, and a row from before uuids.      *)
EXTENDS Enrollment, TLC

CONSTANTS u1, u2, s1, s2, k1, w1, w2

Asks(u, s) == [uuid |-> u, serial |-> s, key |-> k1]

MCMaxDevices == [k \in Key |-> 1]
MCRequest ==
  {Asks(u1, s1), Asks(u2, s1), Asks(u1, s2), Asks(u1, Empty), Asks(Empty, s2)}
MCEntered == {[uuid |-> u2, serial |-> s2], [uuid |-> u1, serial |-> Empty]}
MCLegacy == <<s1>>

\* Threads are alike.
Threads == Permutations(Worker)

=============================================================================
