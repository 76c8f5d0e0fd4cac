\* Two events and two mileages: logs of which one is the largest.
SPECIFICATION Spec
CONSTANTS
  EventIds = {e1, e2}
  Stations = {}
  Requests = {r1, r2}
  Types = {"SERVICE"}
  Mileages = {1, 2}
  First = 1
  Null = Null
SYMMETRY MCSymmetry
INVARIANT OdometerInStep
