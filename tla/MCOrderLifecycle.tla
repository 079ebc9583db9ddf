-------------------------- MODULE MCOrderLifecycle --------------------------
(* Bounds for model checking OrderLifecycle; the .cfg files set the sets of  *)
(* orders and processes.                                                     *)
EXTENDS OrderLifecycle, TLC

CONSTANTS w1, w2, c1, o1, o2

\* Request workers are alike, and so are orders.
Symmetry == Permutations(WebWorkers) \cup Permutations(Orders)

Untouched(o) ==
    /\ order[o] = NewRow
    /\ \A w \in WebWorkers : job[w].at # "idle" => job[w].order # o

\* Requests overlap on one order while the other waits; once both have moved,
\* one request is at work at a time, beside the sweep of both.
OverlapOnOneOrder ==
    Cardinality({w \in WebWorkers : job[w] # Idle}) > 1 =>
        \E o \in Orders : Untouched(o)

=============================================================================
