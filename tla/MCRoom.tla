-------------------------------- MODULE MCRoom --------------------------------
(* Small instances of Room: users are numbers. *)
EXTENDS Room

\* Who wins a showdown: user 1, user 2, or everybody alike.
SomeOrders ==
  {[u \in 1..3 |-> IF u = best THEN 1 ELSE 0] : best \in {0, 1, 2}}
=============================================================================
