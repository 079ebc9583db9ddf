-------------------------- MODULE MCNotifications --------------------------
(* Bounds for model checking Notifications; the .cfg file sets the sets.    *)
EXTENDS Notifications, TLC

CONSTANTS w1, w2

\* Request workers are alike.
Symmetry == Permutations(WebWorkers)

=============================================================================
