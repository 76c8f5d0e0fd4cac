--------------------------- MODULE ReminderProgress ---------------------------
(***************************************************************************)
(* The progress that the list of reminders shows for one that mirrors a    *)
(* maintenance interval (RemindersService.attachMaintenanceProgress): the  *)
(* reminder, then the interval, then the odometer are read, without a      *)
(* transaction.  The reminder says when the service is due by the calendar *)
(* (calculateNext), the progress takes a month for thirty days.            *)
(***************************************************************************)
EXTENDS Calendar, FiniteSets, FiniteSetsExt

CONSTANTS
  Intervals,   \* rows the interval may be
  Dates,       \* days on which a list may be asked for
  Odometers,   \* values of vehicles.currentMileage
  MaxChanges,  \* how often the tables change during a request: a bound
  Null         \* no value

(* What the module asks of its constants. *)
ConstantsAssumption ==
  /\ Odometers \subseteq Nat /\ MaxChanges \in Nat
  /\ Dates \subseteq Days
  /\ Intervals \subseteq [km : (Nat \ {0}) \cup {Null}, lastKm : Nat \cup {Null},
                          months : (Nat \ {0}) \cup {Null}, lastDate : Days \cup {Null}]
  /\ Null \notin Int \cup (Int \X (0..11) \X (1..31)) \cup Intervals

VARIABLES
  interval,  \* the row of maintenance_intervals, or Null
  reminder,  \* the row of reminders that mirrors it, or Null
  odo,       \* vehicles.currentMileage
  today,     \* the clock
  pc,        \* the read that comes next
  got,       \* what was read
  changes    \* changes during this request

vars == <<interval, reminder, odo, today, pc, got, changes>>

NothingGot == [reminder |-> Null, interval |-> Null, odo |-> Null]

(* calculateNext of the maintenance service, which the reminder mirrors *)
DueOf(row) ==
  [mileage |-> IF Null \in {row.km, row.lastKm} THEN Null ELSE row.lastKm + row.km,
   date |-> IF Null \in {row.months, row.lastDate} THEN Null
            ELSE SetMonth(row.lastDate, row.lastDate[2] + row.months),
   patched |-> FALSE]

TypeOK ==
  /\ interval \in Intervals \cup {Null}
  /\ reminder = Null \/ DOMAIN reminder = {"mileage", "date", "patched"}
  /\ odo \in Odometers /\ changes \in 0..MaxChanges
  /\ pc \in {"idle", "interval", "mileage", "reply"}
  /\ DOMAIN got = DOMAIN NothingGot

Init ==
  /\ interval = Null /\ reminder = Null
  /\ odo \in Odometers /\ today \in Dates
  /\ pc = "idle" /\ got = NothingGot /\ changes = 0

-----------------------------------------------------------------------------
(* Other requests, and the clock *)

Changed ==
  /\ pc # "idle" => changes < MaxChanges
  /\ changes' = IF pc = "idle" THEN changes ELSE changes + 1
  /\ UNCHANGED <<pc, got>>

(* The interval is written, and the reminder with it, in a transaction. *)
SetInterval(row) ==
  /\ interval' = row
  /\ reminder' = IF row = Null THEN Null ELSE DueOf(row)
  /\ Changed
  /\ UNCHANGED <<odo, today>>

(* PATCH of the reminder itself *)
Patch(mileage) ==
  /\ reminder # Null
  /\ reminder' = [reminder EXCEPT !.mileage = mileage, !.patched = TRUE]
  /\ Changed
  /\ UNCHANGED <<interval, odo, today>>

SetOdometer(km) ==
  /\ odo' = km
  /\ Changed
  /\ UNCHANGED <<interval, reminder, today>>

Tick ==
  /\ today' = NextDay(today) /\ NextDay(today) \in Dates
  /\ Changed
  /\ UNCHANGED <<interval, reminder, odo>>

-----------------------------------------------------------------------------
(* GET .../reminders *)

Open ==
  /\ pc = "idle"
  /\ got' = [got EXCEPT !.reminder = reminder]
  /\ pc' = IF reminder = Null THEN "idle" ELSE "interval"
  /\ UNCHANGED <<interval, reminder, odo, today, changes>>

ReadInterval ==
  /\ pc = "interval"
  /\ got' = [got EXCEPT !.interval = interval]
  /\ pc' = "mileage"
  /\ UNCHANGED <<interval, reminder, odo, today, changes>>

ReadMileage ==
  /\ pc = "mileage"
  /\ got' = [got EXCEPT !.odo = odo]
  /\ pc' = "reply"
  /\ UNCHANGED <<interval, reminder, odo, today, changes>>

Reply ==
  /\ pc = "reply"
  /\ pc' = "idle" /\ got' = NothingGot /\ changes' = 0
  /\ UNCHANGED <<interval, reminder, odo, today>>

(* Days since the beginning of the calendar *)
DaysBefore == <<0, 31, 59, 90, 120, 151, 181, 212, 243, 273, 304, 334>>

DayNumber(date) ==
  LET y == date[1] - 1 IN
  365 * y + y \div 4 - y \div 100 + y \div 400
    + DaysBefore[date[2] + 1] + (IF date[2] > 1 THEN DaysIn(date[1], 1) - 28 ELSE 0) + date[3]

(* Math.round of the percentage that a is of b *)
Percent(a, b) == (200 * a + b) \div (2 * b)

Percentages(row, km) ==
  (IF Null \in {row.km, row.lastKm} THEN {} ELSE {Percent(km - row.lastKm, row.km)})
    \cup (IF Null \in {row.months, row.lastDate} THEN {}
          ELSE {Percent(DayNumber(today) - DayNumber(row.lastDate), 30 * row.months)})

ProgressOfLeast(row, km) ==  \* mutant: the measure that is furthest from due counts
  LET shares == Percentages(row, km) IN
  IF shares = {} THEN Null ELSE Min({Max({Min(shares), 0}), 100})

(* calculateMaintenanceProgress *)
Progress(row, km) ==
  LET shares == Percentages(row, km) IN
  IF shares = {} THEN Null ELSE Min({Max({Max(shares), 0}), 100})

Next ==
  \/ \E row \in Intervals \cup {Null} : SetInterval(row)
  \/ \E km \in Odometers : Patch(km) \/ SetOdometer(km)
  \/ Tick \/ Open \/ ReadInterval \/ ReadMileage \/ Reply

Spec == Init /\ [][Next]_vars

-----------------------------------------------------------------------------
(* What is due looks due.  Unless the tables changed during the request,   *)
(* or the reminder was patched: what is due by its mileage is shown with   *)
(* 100 %; what is due by its date, with 93 % at least, for the shortest    *)
(* month has 28 days and counts as 30; and progress is shown exactly where *)
(* something is ever due.                                                  *)
DueLooksDue ==
  pc = "reply" /\ changes = 0 /\ ~got.reminder.patched =>
    LET due == got.reminder
        progress == IF got.interval = Null THEN Null ELSE Progress(got.interval, got.odo)
    IN /\ progress = Null <=> (due.mileage = Null /\ due.date = Null)
       /\ due.mileage # Null /\ due.mileage <= got.odo => progress = 100
       /\ due.date # Null /\ NotAfter(due.date, today) => progress >= 93

=============================================================================
