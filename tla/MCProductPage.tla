--------------------------- MODULE MCProductPage ---------------------------
(* Bounds for model checking ProductPage; the .cfg file sets the sets.      *)
EXTENDS ProductPage, TLC

CONSTANTS w1, w2, r1, r2, r3, i1, i2, i3, i4, wished

Symmetry == Permutations(WebWorkers) \cup Permutations(RowIds) \cup Permutations(ImageIds)
=============================================================================
