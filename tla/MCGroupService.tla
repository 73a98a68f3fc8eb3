-------------------------- MODULE MCGroupService ---------------------------
(* Small instances of GroupService.                                        *)
EXTENDS GroupService, TLC

\* A permission withdrawn; group admin granted; group admin revoked.
MCChange ==
  {[canRead |-> {FALSE}, canWrite |-> {}, isGroupAdmin |-> {}],
   [canRead |-> {}, canWrite |-> {}, isGroupAdmin |-> {TRUE}],
   [canRead |-> {}, canWrite |-> {}, isGroupAdmin |-> {FALSE}]}

MCPolicy == DefaultPermissionPolicy

RequestSymmetry == Permutations(Request)
=============================================================================
