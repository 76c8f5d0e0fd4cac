SPECIFICATION Spec
CONSTANTS
  IntervalIds = {i1}
  ReminderIds = {m1, m2}
  Requests = {r1, r2}
  Kms = {10, 20}
  Mileages = {50}
  Null = Null
SYMMETRY MCSymmetry
INVARIANTS TypeOK DisabledIsSilent OneReminderPerInterval
PROPERTIES ChangesAreSynced
