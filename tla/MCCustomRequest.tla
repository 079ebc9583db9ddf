-------------------------- MODULE MCCustomRequest --------------------------
(* Bounds for model checking CustomRequest; the .cfg files set the sets of   *)
(* requests and processes.                                                   *)
EXTENDS CustomRequest, TLC

CONSTANTS w1, w2, w3, c1, r1, r2, p1, p2

Symmetry ==
    Permutations(WebWorkers) \cup Permutations(Requests) \cup Permutations(Prices)

=============================================================================
