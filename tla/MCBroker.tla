------------------------------ MODULE MCBroker ------------------------------
(* EventBroker on small instances: two publishers, each of a device of its own. *)
EXTENDS EventBroker, TLC

CONSTANTS c1, c2, p1, p2, d1, d2

MCTwoDevices == p1 :> d1 @@ p2 :> d2

MCSymmetry == Permutations(Clients)
=============================================================================
