SPECIFICATION Spec
CONSTANTS
  Users = {u1}
  Conversations = {c1}
  Requests = {r1}
  Window = 2
  MaxTurns = 3
  Null = Null
PROPERTY HistoryIsRecent
