----------------------------- MODULE MCSessions -----------------------------
(* CwmpSessions on small instances. *)
EXTENDS CwmpDelivery, TLC

CONSTANTS d1, d2, m1, m2, s1, s2, r1, r2, noUrl

MCSymmetry == Permutations(Sessions) \cup Permutations(Requests)
              \cup Permutations(Messages) \cup Permutations(Devices)
=============================================================================
