---------------------------- MODULE MCPolicyCache ----------------------------
(* Instances of PolicyCache for TLC. *)
EXTENDS PolicyCache, TLC

CONSTANTS s1, s2, c1, c2, p1, p2, p3

CacheSymmetry == Permutations({s1, s2}) \cup Permutations({c1, c2}) \cup Permutations({p2, p3})
=============================================================================
