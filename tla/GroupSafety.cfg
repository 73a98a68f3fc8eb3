SPECIFICATION Spec
CONSTANTS
  User = {root, u1, u2}
  Group = {g}
  Admin = {root}
  Request = {r1, r2}
  NoRow = NoRow
  Policy <- MCPolicy
  Change <- MCChange
SYMMETRY RequestSymmetry
INVARIANTS
  TypeOK
  RolesAreDecidedByAdmins
PROPERTY OnlyAddMemberAdds
\* Every request of the instance has been served.
CHECK_DEADLOCK FALSE
