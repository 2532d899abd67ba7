---------------------------- MODULE MCRateLimit ----------------------------
(* Instances of RateLimit for TLC. *)
EXTENDS RateLimit, TLC

CONSTANTS k1, k2

KeySymmetry == Permutations(Key)

=============================================================================
