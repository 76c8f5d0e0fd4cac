\* Tires, their history, media, milestones, vehicles and workspaces, one
\* after the other.  Some of them may stop.
SPECIFICATION GarageSpec
CONSTANTS
  Null = Null
  Requests = {r1, r2}
  \* tires
  VehicleIds = {v1}
  TireIds = {t1, t2, t3}
  Users = {u1}
  Privileged = {u1}
  OwnTires = TRUE
  \* media: a vehicle and a profile, an ADMIN and somebody else
  MediaIds = {b1, b2}
  Entities = {"v1", "p1"}
  Vehicles = {"v1"}
  Profiles = {"p1"}
  Uploaders = {"admin", "other"}
  Members = {"admin"}
  Admins = {"admin"}
  \* the history of a tire
  ChangeIds = {t1, t2, t3}
  Dates = {1, 2}
  Mileages = {0, 1}
  \* milestones
  Levels = {1, 2}
  MinTotal <- MCMinTotal
  MaxTotal = 2
  MaxRows = 3
  \* vehicles
  Homes = {"w1"}
  RowIds = {b1, b2}
  Specs = {"p1"}
  \* workspaces: two of them
  People = {b1, b2}
  WorkspaceIds = {r1, r2}
  MemberIds = {t1, t2, t3, "m4"}
  InviteIds = {"i1"}
  GivenRoles = {"OWNER", "MEMBER"}
  Closers = {b1, b2}
  Caller = "r1"
SYMMETRY MCSymmetry
CHECK_DEADLOCK FALSE
INVARIANTS OneSetPerRequest DrivenOnce PhotosInStep RowHasImage AwardsInStep
  DeletionTakesAll AcceptFindsWorkspace
PROPERTIES HistoryIsKept StaysInWorkspace
