----------------------------- MODULE MCReviews -----------------------------
(* Bounds for model checking Reviews; the .cfg file sets the sets.          *)
EXTENDS Reviews, TLC

CONSTANTS w1, w2, p1, p2, c1, i1, i2, t1

Symmetry == Permutations(WebWorkers) \cup Permutations(ReviewIds) \cup Permutations(Products)
=============================================================================
