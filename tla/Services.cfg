\* Services, one after the other.  The clocks stop, and so may each part.
SPECIFICATION ServicesSpec
CONSTANTS
  Null = Null
  \* the rate limit
  Keys = {k1, k2}
  Limit = 2
  Window = 2
  Block = 4
  Retention = 2
  MaxNow = 9
  \* conversations
  Users = {"u1", "u2"}
  Conversations = {"c1"}
  HistoryWindow = 2
  MaxTurns = 3
  \* notifications: days are two instants
  Servers = {a1, a2}
  Reminders = {b1, b2}
  Thresholds = {1}
  MaxInstant = 4
  \* service stations, and the requests of conversations too
  Owners = {"u1"}
  StationIds = {b1, b2}
  Places = {"p1"}
  Requests = {a1, a2}
  \* the progress of reminders
  Plans <- MCPlans
  PlanDates <- MCPlanDates
  PlanOdometers = {14, 15}
  \* pages
  Ids = {b1, b2, "c3"}
  Dates = {1, 2}
  Limits = {1, 2}
  MaxStamp = 1
  \* statistics
  StatsIds = {b1, b2}
  StatsRows <- MCStatsRows
  StatsStations = {"s1"}
  StatsDates <- MCStatsDates
  StatsOdometers = {40}
  TopLimit = 2
  \* the dashboard
  EventIds = {b1, b2}
  EventRows <- MCEventRows
  ReminderIds = {a1, a2}
  ReminderRows <- MCReminderRows
  IntervalIds = {a1, a2}
  IntervalRows <- MCIntervalRows
  Vehicles = {"v1", "v2"}
  Odometers = {30}
  Day = 2
  Month = 2
  Year = 4
  KmPerMonth = 10
  Expiring = 1
  UpcomingLimit = 1
  MaxRows = 2
  MaxDay = 2
  MaxChanges = 1
  \* tires, one request at a time on two vehicles
  VehicleIds = {b1, b2}
  TireIds = {"t1", "t2", "t3"}
  Caller = "r1"
SYMMETRY MCSymmetry
CHECK_DEADLOCK FALSE
INVARIANTS EveryTurnAnswered MailedOnceADay RemindedBeforeDue ToggledInStep DueLooksDue NoneMissed
  ReportAddsUp PreviousPeriodPrecedes DashboardTells
PROPERTIES ImplementsWindow ImplementsMountedSet
