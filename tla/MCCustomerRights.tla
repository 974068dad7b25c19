-------------------------- MODULE MCCustomerRights --------------------------
(* Two ticks a day, 22 days: room for a delay of more than five days and   *)
(* for a withdrawal window after it.                                       *)
EXTENDS CustomerRights

MCShippingFees == {0, 900}

=============================================================================
