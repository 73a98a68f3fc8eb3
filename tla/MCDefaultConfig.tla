--------------------------- MODULE MCDefaultConfig ---------------------------
(* Instances of DefaultConfig for TLC. *)
EXTENDS DefaultConfig, TLC

CONSTANTS b1, b2, c1, c2, r1, r2

ConfigSymmetry == Permutations({c1, c2}) \cup Permutations({r1, r2})
=============================================================================
