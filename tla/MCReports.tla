------------------------------ MODULE MCReports ------------------------------
(***************************************************************************)
(* A session of one user that is closed late or never, one of another, an   *)
(* idle event, and two uses of applications that meet, or overlap while the *)
(* end of the first is not reported.                                        *)
(***************************************************************************)
EXTENDS Reports, TLC

CONSTANTS s1, s2, i1, a1, a2, ann, bob, editor, browser

Session(login, logout) == [login |-> login, logout |-> logout]
Idle(s, start, end) == [session |-> s, start |-> start, end |-> end]
Used(s, name, start, end) == [session |-> s, name |-> name, start |-> start, end |-> end]

MCSessionReport ==
  (s1 :> {Session(1, Null), Session(1, 6)}) @@ (s2 :> {Session(6, Null)})
MCIdleReport ==
  i1 :> {Idle(s1, 3, 4)}
MCAppReport ==
  (a1 :> {Used(s1, editor, 1, Null), Used(s1, editor, 1, 4)})
    @@ (a2 :> {Used(s1, browser, 4, Null)})
MCUser == (s1 :> ann) @@ (s2 :> bob)
MCMonthStart == {-2, 1, 3, 5}

=============================================================================
