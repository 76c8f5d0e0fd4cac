------------------------------- MODULE Stats -------------------------------
(***************************************************************************)
(* The statistics of one vehicle, getVehicleStats of src/modules/stats: a  *)
(* dozen of queries without a transaction, between any two of which the    *)
(* timeline may change, and the figures that are computed from them.  The  *)
(* queries that Promise.all sends together are taken in the order it sends *)
(* them: each depends on the tables alone.  Money and litres are integers  *)
(* (cents); a quotient is rounded to the nearest, as toFixed does.         *)
(***************************************************************************)
EXTENDS Calendar, Sequences, FiniteSets, FiniteSetsExt, SequencesExt

CONSTANTS
  EventIds,    \* ids of timeline_events rows
  Rows,        \* the rows they may be
  Stations,    \* ids of service_stations rows
  Dates,       \* what a query may ask about
  Odometers,   \* values of vehicles.currentMileage
  TopLimit,    \* STATS_TOP_CATEGORIES_LIMIT
  MaxChanges,  \* how often the tables change during a report: a bound
  Null         \* no value

(* What the module asks of its constants. *)
ConstantsAssumption ==
  /\ {TopLimit, MaxChanges} \subseteq Nat /\ Odometers \subseteq Nat
  /\ IsFiniteSet(EventIds) /\ Null \notin EventIds \cup Stations
  /\ \A row \in Rows : row.cost \in Int \cup {Null}
  /\ \A date \in Dates : /\ date \in Int \X (0..11) \X (1..31)
                         /\ date[3] <= DaysIn(date[1], date[2])

VARIABLES
  event,    \* table timeline_events, with refuel and document; Null: no row
  station,  \* the stations that are still there
  odo,      \* vehicles.currentMileage
  pc,       \* the query that comes next
  query,    \* period and date of the request
  got,      \* what the queries returned
  changes   \* changes during this report

vars == <<event, station, odo, pc, query, got, changes>>

Queries == <<"info", "byType", "byMonth", "previous", "refuels", "fuel",
             "byStation", "insurance", "tco", "mileage", "names">>
NothingGot == [q \in {Queries[i] : i \in DOMAIN Queries} |-> Null]

TypeOK ==
  /\ event \in [EventIds -> Rows \cup {Null}]
  /\ station \subseteq Stations /\ odo \in Odometers
  /\ pc \in 0..(Len(Queries) + 1) /\ changes \in 0..MaxChanges
  /\ query \in [period : Periods, date : Dates] \cup {Null}
  /\ DOMAIN got = DOMAIN NothingGot
  /\ \A i \in 1..Len(Queries) : pc \in 1..i => got[Queries[i]] = Null

Init ==
  /\ event = [e \in EventIds |-> Null] /\ station = Stations /\ odo \in Odometers
  /\ pc = 0 /\ query = Null /\ got = NothingGot /\ changes = 0

-----------------------------------------------------------------------------
(* The queries of stats.repository.ts *)

All == {e \in EventIds : event[e] # Null}
Between(range) == {e \in All : range = Null \/ Within(event[e].date, range)}
Costly(E) == {e \in E : event[e].cost # Null}

Sum(f(_), S) == MapThenSumSet(f, S)
CostOf(e) == IF event[e].cost = Null THEN 0 ELSE event[e].cost
Total(E) == Sum(CostOf, E)

(* Groups of rows that agree on a key, with the sum of each. *)
Grouped(E, key(_)) == {<<k, Total({e \in E : key(e) = k})>> : k \in {key(e) : e \in E}}
SecondOf(pair) == pair[2]
SumOf(groups) == Sum(SecondOf, groups)

TypeOf(e) == event[e].type
MonthOf(e) == <<event[e].date[1], event[e].date[2]>>
StationOf(e) == event[e].station
FuelOf(e) == event[e].fuel

Period == IF query.period = "all" THEN Null ELSE PeriodRange(query.period, query.date)

FindCostsByType(range) == Grouped(Costly(Between(range)), TypeOf)

FindCostsByMonthExclusive ==  \* mutant: leaves out what is dated on the first day
  Grouped({e \in Costly(Between(Period)) : Period # Null => event[e].date # Period.from}, MonthOf)

FindCostsByMonth == Grouped(Costly(Between(Period)), MonthOf)

PreviousTotal ==
  IF query.period = "all" THEN Null
  ELSE SumOf(FindCostsByType(PreviousPeriodRange(query.period, query.date)))

(* Full tanks up to the end of the period, by date. *)
FullTanks ==
  LET tanks == {e \in All : event[e].fuel # Null /\ event[e].full
                             /\ (Period # Null => NotAfter(event[e].date, Period.to))}
  IN {s \in SetToSeqs(tanks) :
        \A i \in 1..(Len(s) - 1) : NotAfter(event[s[i]].date, event[s[i + 1]].date)}

FuelRows == {e \in Between(Period) : event[e].fuel # Null}

FindCostsByStation == Grouped({e \in Costly(Between(Period)) : StationOf(e) # Null}, StationOf)

InsuranceOf(kind) ==
  Total({e \in Between(CalendarYearRange(query.date)) : event[e].document = kind})

(* findMileageAtOrBeforeDate *)
MileageAt(date) ==
  LET before == {e \in All : NotAfter(event[e].date, date)}
      latest == {e \in before : \A f \in before : NotAfter(event[f].date, event[e].date)}
  IN {event[e].mileage : e \in latest}

Rounded(a, b) == (2 * a + b) \div (2 * b)

(* calculateFuelConsumptionTrend: litres per 100 km, in hundredths, of the *)
(* tanks that lie in the period.                                           *)
Trend(tanks) ==
  LET Distance(i) == event[tanks[i]].mileage - event[tanks[i - 1]].mileage IN
  {<<tanks[i], Rounded(10000 * event[tanks[i]].liters, Distance(i))>> :
     i \in {i \in 2..Len(tanks) :
            /\ Distance(i) > 0
            /\ (Period # Null => NotAfter(Period.from, event[tanks[i]].date))}}

(* groupFuelCostsByType, which is only shown for more than one fuel. *)
FuelCosts == Grouped(FuelRows, FuelOf)

(* calculateAvgCostPerKm: the two mileages, unless nothing was spent. *)
Distances ==
  LET total == SumOf(got["byType"])
      at == IF Period = Null THEN {got["info"].odo} ELSE MileageAt(Period.to)
      from == IF Period = Null THEN {0} ELSE MileageAt(Period.from)
  IN IF total = 0 THEN {Null}
     ELSE {a - f : a \in IF at = {} THEN {got["info"].odo} ELSE at,
                   f \in IF from = {} THEN {0} ELSE from}

(* getTco: since the day of the purchase, when the vehicle knows it. *)
TcoOf(since) ==
  Total({e \in Costly(All) : since # Null => NotAfter(since, event[e].date)})

PurchaseDates == {event[e].date : e \in {f \in All : event[f].type = "PURCHASE"}}

(* What one query returns: a set, for those whose order is not determined. *)
(* Of purchaseInfo only the date counts, which follows the PURCHASE event. *)
Answers(q) ==
  CASE q = "info" -> {[odo |-> odo, since |-> since] :
                        since \in IF PurchaseDates = {} THEN {Null} ELSE PurchaseDates}
    [] q = "byType" -> {FindCostsByType(Period)}
    [] q = "byMonth" -> {FindCostsByMonth}
    [] q = "previous" -> {PreviousTotal}
    [] q = "refuels" -> {Trend(tanks) : tanks \in FullTanks}
    [] q = "fuel" -> {FuelCosts}
    [] q = "byStation" -> {FindCostsByStation}
    [] q = "insurance" -> {<<InsuranceOf("INSURANCE_OC"), InsuranceOf("INSURANCE_AC")>>}
    [] q = "tco" -> {TcoOf(got["info"].since)}
    [] q = "mileage" -> Distances
    [] q = "names" -> {{pair \in got["byStation"] : pair[1] \in station}}

-----------------------------------------------------------------------------
Open(period, date) ==
  /\ pc = 0
  /\ query' = [period |-> period, date |-> date]
  /\ pc' = 1
  /\ UNCHANGED <<event, station, odo, got, changes>>

Read ==
  /\ pc \in 1..Len(Queries)
  /\ \E answer \in Answers(Queries[pc]) : got' = [got EXCEPT ![Queries[pc]] = answer]
  /\ pc' = pc + 1
  /\ UNCHANGED <<event, station, odo, query, changes>>

Reply ==
  /\ pc = Len(Queries) + 1
  /\ pc' = 0 /\ query' = Null /\ got' = NothingGot /\ changes' = 0
  /\ UNCHANGED <<event, station, odo>>

(* Other requests *)
Changed ==
  /\ pc # 0 => changes < MaxChanges
  /\ changes' = IF pc = 0 THEN changes ELSE changes + 1
  /\ UNCHANGED <<pc, query, got>>

SetEvent(e, row) ==
  /\ event[e] # row /\ pc \in 0..Len(Queries)
  /\ event' = [event EXCEPT ![e] = row]
  /\ Changed
  /\ UNCHANGED <<station, odo>>

SetOdometer(km) ==
  /\ km # odo /\ pc \in 0..Len(Queries)
  /\ odo' = km
  /\ Changed
  /\ UNCHANGED <<event, station>>

(* A station goes, and the events forget it. *)
DeleteStation(s) ==
  /\ s \in station /\ pc \in 0..Len(Queries)
  /\ \A e \in All : StationOf(e) # s
  /\ station' = station \ {s}
  /\ Changed
  /\ UNCHANGED <<event, odo>>

Next ==
  \/ \E period \in Periods, date \in Dates : Open(period, date)
  \/ Read \/ Reply
  \/ \E e \in EventIds, row \in Rows \cup {Null} : SetEvent(e, row)
  \/ \E km \in Odometers : SetOdometer(km)
  \/ \E s \in Stations : DeleteStation(s)

Spec == Init /\ [][Next]_vars

-----------------------------------------------------------------------------
(* What the answer makes of the groups *)

(* The categories that cost most, and of equals the ones sorted first. *)
TopCategories ==
  {SubSeq(s, 1, IF Len(s) < TopLimit THEN Len(s) ELSE TopLimit) :
     s \in {t \in SetToSeqs(got["byType"]) :
              \A i \in 1..(Len(t) - 1) : t[i][2] >= t[i + 1][2]}}

(* findExtremeMonth: what its month costs *)
CheapestMonth == Min({pair[2] : pair \in got["byMonth"]})
MostExpensiveMonth == Max({pair[2] : pair \in got["byMonth"]})

-----------------------------------------------------------------------------
(* The figures of a report agree, unless the tables changed while it was   *)
(* made: the months, and what the categories hold, add up to the same      *)
(* total, whatever the boundaries of the period, and fuel and stations are *)
(* parts of it unless an event costs less than nothing, as IsDecimal lets  *)
(* it; the extreme months bound the total, and the top categories are all  *)
(* of it, or none of the others costs more.                                *)
ReportAddsUp ==
  pc = Len(Queries) + 1 /\ changes = 0
    => LET total == SumOf(got["byType"]) IN
       /\ SumOf(got["byMonth"]) = total
       /\ got["byMonth"] # {} =>
            LET months == Cardinality(got["byMonth"]) IN
            months * CheapestMonth <= total /\ total <= months * MostExpensiveMonth
       /\ \A top \in TopCategories :
            /\ Len(top) < TopLimit => SumOf(ToSet(top)) = total
            /\ \A pair \in got["byType"] \ ToSet(top), i \in DOMAIN top : pair[2] <= top[i][2]
       /\ (\A e \in All : CostOf(e) >= 0)
            => SumOf(got["fuel"]) <= total /\ SumOf(got["names"]) <= total
       /\ (query.period = "all" /\ got["info"].since = Null) => got["tco"] = total

(* The period that a report is compared with ends on the day before its    *)
(* own begins.  The exceptions are the dates at which setMonth carries     *)
(* over, where it is the very same period: a month that is asked for on a  *)
(* day the month before does not have, and a quarter on 31 December.       *)
CarriesOver(period, date) ==
  LET m == date[2] - (IF period = "quarter" THEN 3 ELSE 1)
      days == DaysIn(date[1] + m \div 12, m % 12)
  IN date[3] > days /\ (period = "month" \/ (period = "quarter" /\ date[2] = 11))

PreviousPeriodPrecedes ==
  query # Null /\ query.period # "all"
    => LET previous == PreviousPeriodRange(query.period, query.date) IN
       IF CarriesOver(query.period, query.date) THEN previous = Period
       ELSE NextDay(previous.to) = Period.from

=============================================================================
