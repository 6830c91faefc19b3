----------------------------- MODULE MCAgentSync -----------------------------
(* A small instance of AgentSync: a session that is reported open, with a     *)
(* duration, and closed; a session whose logout time is corrected; and an     *)
(* idle event of the second one.                                              *)
EXTENDS AgentSync

CONSTANTS t1, t2, long, started, ended

Open == [logout |-> Null, duration |-> Null]

MCOwner == [x \in LocalItem |-> 2]
MCReport ==
  [s \in LocalSession |->
     IF s = 1 THEN <<[logout |-> Null, duration |-> long], [logout |-> t1, duration |-> Null]>>
              ELSE <<Open, [logout |-> t1, duration |-> Null], [logout |-> t2, duration |-> long]>>]
MCContent == [x \in LocalItem |-> <<started, ended>>]

=============================================================================
