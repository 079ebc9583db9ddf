---------------------------- MODULE MCInventory ----------------------------
(* Carts and stock levels for model checking Inventory; the .cfg files set   *)
(* the sets of products, orders and processes.                               *)
EXTENDS Inventory, TLC

CONSTANTS a, b, w1, w2, o1, o2, o3

Of(p, n) == [product |-> p, qty |-> n]

\* One unit or more than one; two products in both orders.
OneProductCarts == {<<Of(a, 1)>>, <<Of(a, 2)>>}
TwoProductCarts == {<<Of(a, 1), Of(b, 1)>>, <<Of(b, 1), Of(a, 1)>>}
SingleUnitCart == {<<Of(a, 1)>>}

UnitStock == [p \in Products |-> 1]
OneStock == [p \in Products |-> 2]

Requests == Permutations({w1, w2}) \cup Permutations({o1, o2, o3})

=============================================================================
