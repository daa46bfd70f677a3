-------------------------- MODULE MCBlockingQueue --------------------------
(* Two sampling threads feeding two takers: the smallest instance in which a
   notification can go to the wrong waiter or to nobody. *)
EXTENDS BlockingQueue

CONSTANTS p1, p2, c1, c2, u, v

MCProducers == {p1, p2}
MCConsumers == {c1, c2}
MCValues == {u, v}
============================================================================
