------------------------------ MODULE Dashboard ------------------------------
(***************************************************************************)
(* The dashboard of a workspace, src/modules/dashboard, and the summary of *)
(* a vehicle that it is made from (VehiclesService.buildVehicleResponses): *)
(* ten queries without a transaction, between any two of which the tables  *)
(* and the clock may move.  The queries that Promise.all sends together    *)
(* are taken in the order it sends them.  Time is counted in ticks.        *)
(***************************************************************************)
EXTENDS Integers, Sequences, FiniteSets, FiniteSetsExt, SequencesExt

CONSTANTS
  Vehicles,     \* ids of vehicles rows
  EventIds, EventRows,        \* ids of timeline_events rows, and what these may be
  ReminderIds, ReminderRows,  \* of reminders rows that are ACTIVE
  IntervalIds, IntervalRows,  \* of maintenance_intervals rows that are ACTIVE
  Odometers,    \* values of vehicles.currentMileage
  Day, Month, Year,  \* lengths in ticks; a date is the first tick of its day
  KmPerMonth,   \* AVG_KM_PER_MONTH
  Expiring,     \* INSURANCE_EXPIRING_THRESHOLD_DAYS
  Limit,        \* DASHBOARD_UPCOMING_REMINDERS_LIMIT
  MaxRows, MaxNow, MaxChanges,  \* bounds: rows in all, the clock, what changes in a request
  Null          \* no value

(* What the module asks of its constants. *)
ConstantsAssumption ==
  /\ {Day, Month, Year, KmPerMonth, Limit} \subseteq Nat \ {0}
  /\ {Expiring, MaxRows, MaxNow, MaxChanges} \subseteq Nat
  /\ Year % Month = 0 /\ Odometers \subseteq Nat
  /\ IsFiniteSet(Vehicles \cup EventIds \cup ReminderIds \cup IntervalIds)
  /\ Null \notin Vehicles \cup EventIds \cup ReminderIds \cup IntervalIds
  /\ \A row \in EventRows :
       row.date \in Int /\ {row.cost, row.expire} \subseteq Int \cup {Null}
  /\ \A row \in ReminderRows \cup IntervalRows : {row.date, row.mileage} \subseteq Int \cup {Null}

VARIABLES
  odo,       \* vehicles.currentMileage of the vehicles there are, or Null
  event, reminder, interval,  \* the tables; Null: no row
  now,       \* the clock
  pc,        \* the step of the request that comes next
  got,       \* what the steps yielded
  changes    \* changes during this request

vars == <<odo, event, reminder, interval, now, pc, got, changes>>

Steps == <<"vehicles", "expenses", "insurance", "count", "maintenance", "refuels", "cards",
           "documents", "month", "year", "reminders", "upcoming", "nearest">>
NothingGot == [s \in {Steps[i] : i \in DOMAIN Steps} |-> Null]

TypeOK ==
  /\ odo \in [Vehicles -> Odometers \cup {Null}]
  /\ event \in [EventIds -> EventRows \cup {Null}]
  /\ reminder \in [ReminderIds -> ReminderRows \cup {Null}]
  /\ interval \in [IntervalIds -> IntervalRows \cup {Null}]
  /\ now \in 0..MaxNow /\ pc \in 0..(Len(Steps) + 1) /\ changes \in 0..MaxChanges
  /\ DOMAIN got = DOMAIN NothingGot
  /\ \A i \in 1..Len(Steps) : pc \in 1..i => got[Steps[i]] = Null

Live == {v \in Vehicles : odo[v] # Null}
Rows(table) == {table[i] : i \in {j \in DOMAIN table : table[j] # Null}}
Count(table) == Cardinality({i \in DOMAIN table : table[i] # Null})

Init ==
  /\ odo \in [Vehicles -> Odometers]
  /\ event = [e \in EventIds |-> Null]
  /\ reminder = [r \in ReminderIds |-> Null]
  /\ interval = [i \in IntervalIds |-> Null]
  /\ now = 0 /\ pc = 0 /\ got = NothingGot /\ changes = 0

-----------------------------------------------------------------------------
(* The queries *)

Asked == DOMAIN got["vehicles"]  \* the ids that findAllByWorkspaceId returned
EventsOf(V) == {e \in EventIds : event[e] # Null /\ event[e].vehicle \in V}

CostOf(e) == IF event[e].cost = Null THEN 0 ELSE event[e].cost
Total(E) == MapThenSumSet(CostOf, E)

Excluded == {"PURCHASE", "SALE", "TRIP"}  \* DASHBOARD_EXPENSE_EXCLUDED_TYPES
Start(length) == now - (now % length)     \* of the current month or year

MonthlyExpenses(v) == Total({e \in EventsOf({v}) : event[e].date >= Start(Month)})

FindExpensesSum(from) ==
  Total({e \in EventsOf(Asked) : event[e].date \in from..now /\ event[e].type \notin Excluded})

DocumentsOf(V) ==
  {event[e] : e \in {f \in EventsOf(V) : event[f].document # Null}}

(* orderBy expireDate desc: PostgreSQL puts NULL first, which wins. *)
LatestInsuranceExpireDate(v) ==
  LET dates == {d.expire : d \in {c \in DocumentsOf({v}) : c.document = "INSURANCE_OC"}} IN
  IF dates = {} \/ Null \in dates THEN Null ELSE Max(dates)

FindNearestDocuments == {d \in DocumentsOf(Asked) : d.expire # Null}

(* The latest full tanks first; at most three. *)
RecentFullTanks(v) ==
  LET tanks == {e \in EventsOf({v}) : event[e].liters # Null /\ event[e].full} IN
  {SubSeq(s, 1, IF Len(s) < 3 THEN Len(s) ELSE 3) :
     s \in {t \in SetToSeqs(tanks) :
              \A i \in 1..(Len(t) - 1) : event[t[i]].date >= event[t[i + 1]].date}}
TankOf(e) == [mileage |-> event[e].mileage, liters |-> event[e].liters]

RemindersOf(V) == {r \in ReminderIds : reminder[r] # Null /\ reminder[r].vehicle \in V}

-----------------------------------------------------------------------------
(* The summary of a vehicle *)

CeilingDays(ticks) == -((-ticks) \div Day)

BuildInsuranceInfo(expire) ==
  CASE expire = Null -> "MISSING"
    [] expire # Null /\ CeilingDays(expire - now) < 0 -> "EXPIRED"
    [] expire # Null /\ CeilingDays(expire - now) \in 0..Expiring -> "EXPIRING"
    [] OTHER -> "ACTIVE"

(* The months that are left until the date and until the mileage, times    *)
(* Month * KmPerMonth.  A mileage of 0 is not looked at.                   *)
Candidates(row, km) ==
  {(row.date - now) * KmPerMonth : x \in {row.date} \ {Null}}
    \cup {(row.mileage - km) * Month : x \in {row.mileage} \ {Null, 0}}

PickNearestByDate(rows, km) ==  \* mutant: the mileage counts only when there is no date
  LET Score(row) == IF row.date # Null THEN {(row.date - now) * KmPerMonth}
                    ELSE Candidates(row, km)
      scored == {row \in rows : Score(row) # {}} IN
  IF rows = {} THEN {Null}
  ELSE IF scored = {} THEN rows
  ELSE {row \in scored : \A other \in scored : Min(Score(row)) <= Min(Score(other))}

PickNearestMaintenance(rows, km) ==
  LET scored == {row \in rows : Candidates(row, km) # {}}
      Score(row) == Min(Candidates(row, km)) IN
  IF rows = {} THEN {Null}
  ELSE IF scored = {} THEN rows
  ELSE {row \in scored : \A other \in scored : Score(row) <= Score(other)}

(* In tenths of a litre per 100 km; without it comes the figure of specs.  *)
CalculateFuelConsumption(tanks) ==
  LET km == tanks[1].mileage - tanks[2].mileage IN
  IF Len(tanks) >= 2 /\ km > 0 THEN (2000 * tanks[1].liters + km) \div (2 * km) ELSE Null

(* One step of the request: what it may yield, where an order is open. *)
Cards ==
  LET Nearest(v) == PickNearestMaintenance(got["maintenance"][v], got["vehicles"][v]) IN
  {[at |-> now,
    insurance |-> [v \in Asked |-> BuildInsuranceInfo(got["insurance"][v])],
    consumption |-> [v \in Asked |-> CalculateFuelConsumption(got["refuels"][v])],
    next |-> next] :
     next \in {f \in [Asked -> UNION {Nearest(v) : v \in Asked}] :
                 \A v \in Asked : f[v] \in Nearest(v)}}

-----------------------------------------------------------------------------
(* The lists of the dashboard *)

(* The latest document of each type, and of these the one that expires     *)
(* first; of equals, the one that happened to come first.                  *)
BuildNearestDocument(v) ==
  LET rows == {d \in got["documents"] : d.vehicle = v}
      latest == {d \in rows : \A other \in rows :
                                other.document = d.document => other.expire <= d.expire} IN
  IF rows = {} THEN {Null}
  ELSE {d \in latest : \A other \in latest : d.expire <= other.expire}

(* sortRemindersByUrgency: by date, then by the kilometres that are left,  *)
(* then the rest.                                                          *)
Remaining(row) == row.mileage - got["vehicles"][row.vehicle]
Rank(row) == IF row.date # Null THEN 1 ELSE IF row.mileage # Null THEN 2 ELSE 3

NotAfter(a, b) ==
  \/ Rank(a) < Rank(b)
  \/ Rank(a) = 1 /\ Rank(b) = 1 /\ a.date <= b.date
  \/ Rank(a) = 2 /\ Rank(b) = 2 /\ Remaining(a) <= Remaining(b)
  \/ Rank(a) = 3 /\ Rank(b) = 3

SortRemindersByUrgency(R) ==
  {s \in SetToSeqs(R) : \A i \in 1..(Len(s) - 1) : NotAfter(got["reminders"][s[i]],
                                                            got["reminders"][s[i + 1]])}
Upcoming ==
  {SubSeq(s, 1, IF Len(s) < Limit THEN Len(s) ELSE Limit) :
     s \in SortRemindersByUrgency(DOMAIN got["reminders"])}

OnAsked(F(_)) == {[v \in Asked |-> F(v)]}

Yields(step) ==
  CASE step = "vehicles" -> {[v \in Live |-> odo[v]]}
    [] step = "expenses" -> OnAsked(MonthlyExpenses)
    [] step = "insurance" -> OnAsked(LatestInsuranceExpireDate)
    [] step = "count" -> {[v \in Asked |-> Cardinality(RemindersOf({v}))]}
    [] step = "maintenance" -> {[v \in Asked |-> {row \in Rows(interval) : row.vehicle = v}]}
    [] step = "refuels" ->
         {[v \in Asked |-> [i \in DOMAIN f[v] |-> TankOf(f[v][i])]] :
            f \in {g \in [Asked -> UNION {RecentFullTanks(v) : v \in Asked}] :
                     \A v \in Asked : g[v] \in RecentFullTanks(v)}}
    [] step = "cards" -> Cards
    [] step = "documents" -> {FindNearestDocuments}
    [] step = "month" -> {FindExpensesSum(Start(Month))}
    [] step = "year" -> {FindExpensesSum(Start(Year))}
    [] step = "reminders" -> {[r \in RemindersOf(Asked) |-> reminder[r]]}
    [] step = "upcoming" -> Upcoming
    [] step = "nearest" ->
         {f \in [Asked -> UNION {BuildNearestDocument(v) : v \in Asked}] :
            \A v \in Asked : f[v] \in BuildNearestDocument(v)}

-----------------------------------------------------------------------------
Open ==
  /\ pc = 0
  /\ pc' = 1
  /\ UNCHANGED <<odo, event, reminder, interval, now, got, changes>>

Step ==
  /\ pc \in 1..Len(Steps)
  /\ pc > 1 => Asked # {}
  /\ \E yield \in Yields(Steps[pc]) : got' = [got EXCEPT ![Steps[pc]] = yield]
  /\ pc' = pc + 1
  /\ UNCHANGED <<odo, event, reminder, interval, now, changes>>

(* A workspace without vehicles is answered at once. *)
Reply ==
  /\ pc = Len(Steps) + 1 \/ (pc = 2 /\ Asked = {})
  /\ pc' = 0 /\ got' = NothingGot /\ changes' = 0
  /\ UNCHANGED <<odo, event, reminder, interval, now>>

(* What other requests do, and the clock: after the last query it no       *)
(* longer matters to the answer.                                           *)
LastQuery == 11

Changed ==
  /\ pc <= LastQuery /\ (pc > 0 => changes < MaxChanges)
  /\ changes' = IF pc = 0 THEN changes ELSE changes + 1
  /\ UNCHANGED <<pc, got>>

(* Rows come and go: with their vehicle, or one by one. *)
SetRow(table, i, row) ==
  /\ table[i] # row
  /\ row # Null => /\ Count(event) + Count(reminder) + Count(interval) < MaxRows
                   /\ row.vehicle \in Live
  /\ Changed
  /\ UNCHANGED <<odo, now>>

SetEvent ==
  \E e \in EventIds, row \in EventRows \cup {Null} :
    /\ SetRow(event, e, row)
    /\ event' = [event EXCEPT ![e] = row]
    /\ UNCHANGED <<reminder, interval>>

SetReminder ==
  \E r \in ReminderIds, row \in ReminderRows \cup {Null} :
    /\ SetRow(reminder, r, row)
    /\ reminder' = [reminder EXCEPT ![r] = row]
    /\ UNCHANGED <<event, interval>>

SetInterval ==
  \E i \in IntervalIds, row \in IntervalRows \cup {Null} :
    /\ SetRow(interval, i, row)
    /\ interval' = [interval EXCEPT ![i] = row]
    /\ UNCHANGED <<event, reminder>>

(* The odometer moves, or the vehicle is deleted; its rows stay. *)
SetOdometer(v, km) ==
  /\ odo[v] \notin {km, Null}
  /\ odo' = [odo EXCEPT ![v] = km]
  /\ Changed
  /\ UNCHANGED <<event, reminder, interval, now>>

Tick ==
  /\ now < MaxNow
  /\ now' = now + 1
  /\ Changed
  /\ UNCHANGED <<odo, event, reminder, interval>>

Next ==
  \/ Open \/ Step \/ Reply
  \/ SetEvent \/ SetReminder \/ SetInterval
  \/ \E v \in Vehicles, km \in Odometers \cup {Null} : SetOdometer(v, km)
  \/ Tick

Spec == Init /\ [][Next]_vars

-----------------------------------------------------------------------------
Answered == pc = Len(Steps) + 1

(* An interval that was due when the summary was made, by its date or by   *)
(* the mileage that was read, is not hidden behind one that was not,       *)
(* whatever changes in between.                                            *)
IsDue(row, km, at) ==
  \/ row.date # Null /\ row.date < at
  \/ row.mileage \notin {Null, 0} /\ row.mileage < km

OverdueShown ==
  Answered =>
    \A v \in Asked :
      LET km == got["vehicles"][v]  at == got["cards"].at IN
      (\E row \in got["maintenance"][v] : IsDue(row, km, at))
        => IsDue(got["cards"].next[v], km, at)

(* The document that a vehicle is shown to need next was not renewed, and  *)
(* of each of its kinds some document is still good on that day.           *)
RenewedNotShown ==
  Answered =>
    \A v \in Asked :
      LET rows == {d \in got["documents"] : d.vehicle = v}
          shown == got["nearest"][v] IN
      IF rows = {} THEN shown = Null
      ELSE /\ shown \in rows
           /\ \A d \in rows : d.document = shown.document => d.expire <= shown.expire
           /\ \A d \in rows : \E e \in rows :
                e.document = d.document /\ e.expire >= shown.expire

(* A reminder is left out only of a full list.  One with a date gives way  *)
(* to those with none later, so one past its date only to others past      *)
(* theirs; one that is overdue by its mileage gives way to any with a      *)
(* date, however distant, and to those overdue by theirs, never to one     *)
(* that is not, on whichever vehicles and odometers they are.              *)
IsOverdue(row) == Rank(row) = 2 /\ Remaining(row) < 0

GivesWay(row, other) ==
  /\ row.date # Null => other.date # Null /\ other.date <= row.date
  /\ IsOverdue(row) => other.date # Null \/ IsOverdue(other)

OverdueListed ==
  Answered =>
    LET list == got["upcoming"]  rows == got["reminders"] IN
    \A r \in DOMAIN rows \ {list[i] : i \in DOMAIN list} :
      /\ Len(list) = Limit
      /\ \A i \in DOMAIN list : GivesWay(rows[r], rows[list[i]])

(* The figures of one answer agree, unless something changed while it was  *)
(* made: what the vehicles cost this month is the month of the summary,    *)
(* with what the latter leaves out (purchases, sales, trips and what lies  *)
(* ahead), and a part of the year unless an event costs less than nothing; *)
(* the reminders that are counted are the ones that are listed; and a      *)
(* vehicle whose insurance has run out is not shown to need something      *)
(* later, provided each insurance has an expiry.                           *)
SumOver(f) == MapThenSumSet(LAMBDA v : f[v], DOMAIN f)
LeftOut ==
  {e \in EventsOf(Asked) :
     event[e].date >= Start(Month) /\ (event[e].type \in Excluded \/ event[e].date > now)}

FiguresAgree ==
  Answered /\ changes = 0 =>
    /\ SumOver(got["expenses"]) = got["month"] + Total(LeftOut)
    /\ (\A e \in EventsOf(Asked) : CostOf(e) >= 0) => got["month"] <= got["year"]
    /\ Len(got["upcoming"]) <= SumOver(got["count"])
    /\ Len(got["upcoming"]) < SumOver(got["count"]) => Len(got["upcoming"]) = Limit
    /\ \A v \in Asked :
         got["cards"].insurance[v] = "EXPIRED"
           => got["nearest"][v] # Null /\ got["nearest"][v].expire < now

=============================================================================
