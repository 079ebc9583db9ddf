---------------------------- MODULE MCMessaging ----------------------------
(* Bounds for model checking Messaging; the .cfg file sets the sets.        *)
EXTENDS Messaging, TLC

CONSTANTS w1, w2, u1, u2, p1

Symmetry == Permutations(WebWorkers) \cup Permutations(Users)
=============================================================================
