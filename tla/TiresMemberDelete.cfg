SPECIFICATION Spec
CONSTANTS
  VehicleIds = {v1}
  TireIds = {t1}
  Requests = {r1}
  Users = {u1, u2}
  Privileged = {u1}
  OwnTires = TRUE
  Null = Null
SYMMETRY MCSymmetry
PROPERTIES CreatorMayDelete
