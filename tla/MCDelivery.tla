---------------------------- MODULE MCDelivery ----------------------------
(* Instances of Delivery: handlers are interchangeable. *)
EXTENDS Delivery, TLC

Slots == Permutations(Handlers)
============================================================================
