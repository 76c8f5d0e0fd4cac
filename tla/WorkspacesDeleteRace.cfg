\* Counting the members, and deleting later.
SPECIFICATION Spec
CONSTANTS
  Users = {u1, u2}
  WorkspaceIds = {w1}
  MemberIds = {m1, m2}
  InviteIds = {i1}
  Requests = {r1, r2}
  GivenRoles = {"OWNER", "ADMIN"}
  Closers = {}
  Null = Null
SYMMETRY MCSymmetry
PROPERTY DeletedOnlyWhenAlone
