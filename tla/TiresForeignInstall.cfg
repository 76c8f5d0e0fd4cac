SPECIFICATION Spec
CONSTANTS
  VehicleIds = {v1, v2}
  TireIds = {t1, t2}
  Requests = {r1}
  Users = {u1}
  Privileged = {u1}
  OwnTires = FALSE
  Null = Null
SYMMETRY MCSymmetry
INVARIANTS OneMountedSet
