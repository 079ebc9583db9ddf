---------------------------- MODULE OrderStatus ----------------------------
(***************************************************************************)
(* The order status machine as the code states it: the statuses of         *)
(* Order.Status, the table in OrderStatusUpdateSerializer.validate_status, *)
(* Order.is_cancellable, the time-stamp columns, and who may ask for what  *)
(* through PATCH /orders/<pk>/status/.                                     *)
(***************************************************************************)

Status == {"pending", "confirmed", "processing", "shipped", "delivered",
           "completed", "cancelled", "refunded"}

\* valid_transitions: the pairs <<current, requested>> validate_status accepts.
Transition == {<<"pending", "confirmed">>,    <<"pending", "cancelled">>,
               <<"confirmed", "processing">>, <<"confirmed", "cancelled">>,
               <<"processing", "shipped">>,   <<"processing", "cancelled">>,
               <<"shipped", "delivered">>,
               <<"delivered", "completed">>,  <<"delivered", "refunded">>,
               <<"completed", "refunded">>}

\* The statuses with a column of their own: confirmed_at ... cancelled_at.
Stamped == {"confirmed", "shipped", "delivered", "completed", "cancelled"}

Cancellable == {"pending", "confirmed"}

\* Everyone else is refused with 403 before anything happens.  A customer who
\* is also an artisan of the order counts as its artisan.
Roles == {"artisan", "customer", "admin"}

Bug_MayUpdate(role, current, new) ==
    /\ role = "admin" \/ <<current, new>> \in Transition
    /\ role = "customer" => new = "cancelled" /\ current \in Cancellable

\* The checks of OrderStatusUpdateView.patch, all on one copy of the order.
MayUpdate(role, current, new) ==
    /\ <<current, new>> \in Transition
    /\ role = "customer" => new = "cancelled" /\ current \in Cancellable

=============================================================================
