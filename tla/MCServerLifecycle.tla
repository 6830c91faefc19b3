-------------------------- MODULE MCServerLifecycle --------------------------
(* A small instance of ServerLifecycle: a few lives of the server in a few    *)
(* ticks, with a padding that outages can outlast.                            *)
EXTENDS ServerLifecycle

=============================================================================
