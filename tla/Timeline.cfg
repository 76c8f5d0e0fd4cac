\* One event and two stations: all that two requests can do to it.
SPECIFICATION Spec
CONSTANTS
  EventIds = {e1}
  Stations = {s1, s2}
  Requests = {r1, r2}
  Types = {"DOCUMENT", "SALE"}
  Mileages = {1}
  First = 1
  Null = Null
SYMMETRY MCSymmetry
INVARIANTS TypeOK EventInStep DerivedInStep
