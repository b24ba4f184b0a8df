SPECIFICATION Spec
CONSTANTS
  Users = {u1, u2, u3}
  Rows = {m1, m2, m3}
  Roles = {"OWNER", "ADMIN", "MEMBER"}
  Workers = {w1, w2}
  Founder = u1
  FirstRow = m1
  None = None
SYMMETRY Symmetry
INVARIANTS
  OwnerRemains
  OwnersMakeOwners
  MembersAccepted
CHECK_DEADLOCK FALSE
