---------------------------- MODULE MCLifecycle ----------------------------
(* Lifecycle with two POSTs in progress, of CPEs of one device, and one stream. *)
EXTENDS Lifecycle, TLC

CONSTANTS c1, p1, p2, d1, d2

MCOneDevice == [p \in Publishers |-> d1]
=============================================================================
