SPECIFICATION FairSpec
CONSTANTS
  IntervalIds = {i1}
  ReminderIds = {m1}
  Requests = {r1, r2}
  Kms = {10}
  Mileages = {50}
  Null = Null
PROPERTIES RequestsEnd
