-------------------------------- MODULE MCApi --------------------------------
(* AcsApi on small instances. *)
EXTENDS AcsApi, TLC

CONSTANTS d1, d2, m1, m2, s1, s2, r1, r2, c1, c2, noUrl, url1

MCSymmetry == Permutations(Sessions) \cup Permutations(Requests)
              \cup Permutations(Messages) \cup Permutations(Calls)
=============================================================================
