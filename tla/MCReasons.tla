------------------------------ MODULE MCReasons ------------------------------
(* A short life of a machine, with one outage of the server in it.           *)
EXTENDS Reasons

MCOutage == {Span(3, 4, "CONFIRMED")}

=============================================================================
