SPECIFICATION Spec
CONSTANTS
  Users = {u1, u2}
  WorkspaceIds = {w1}
  MemberIds = {m1, m2, m3}
  InviteIds = {i1}
  Requests = {r1, r2}
  GivenRoles = {"OWNER", "ADMIN"}
  Closers = {u1, u2}
  Null = Null
SYMMETRY MCSymmetry
INVARIANTS TypeOK CreatorIsOwner OneMembershipPerUser
PROPERTIES JoinConsumesInvite
