----------------------------- MODULE MCTracking -----------------------------
(* Two threads that serve one device, with all of its requests.              *)
EXTENDS Tracking, TLC

CONSTANTS w1, w2
TwoWorkers == {w1, w2}
Symmetric == Permutations(TwoWorkers)
=============================================================================
