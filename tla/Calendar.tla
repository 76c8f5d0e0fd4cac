------------------------------ MODULE Calendar ------------------------------
(***************************************************************************)
(* The periods of statistics, src/modules/stats/utils/stats-period.util.ts,*)
(* on days: a range starts at midnight of its first day and ends with its  *)
(* last.  The server's time zone is taken to be that of the stored dates.  *)
(* A day is <<year, month, day>>, with months from 0 as JavaScript has it. *)
(***************************************************************************)
EXTENDS Integers

Periods == {"month", "quarter", "year", "all"}

DaysIn(y, m) ==
  IF m = 1 THEN (IF y % 4 = 0 /\ (y % 100 # 0 \/ y % 400 = 0) THEN 29 ELSE 28)
  ELSE IF m \in {3, 5, 8, 10} THEN 30 ELSE 31

Days == {date \in Int \X (0..11) \X (1..31) : date[3] <= DaysIn(date[1], date[2])}

(* new Date(y, m, d), for any month, and a day that lies at most a month   *)
(* outside of it: JavaScript carries over.                                 *)
JsDate(year, month, day) ==
  LET y == year + month \div 12
      m == month % 12
  IN CASE day < 1 ->
            IF m = 0 THEN <<y - 1, 11, 31 + day>> ELSE <<y, m - 1, DaysIn(y, m - 1) + day>>
       [] day > DaysIn(y, m) ->
            IF m = 11 THEN <<y + 1, 0, day - 31>> ELSE <<y, m + 1, day - DaysIn(y, m)>>
       [] OTHER -> <<y, m, day>>

(* setMonth without a day keeps the day. *)
SetMonth(date, month) == JsDate(date[1], month, date[3])

NotAfter(a, b) ==
  \/ a[1] < b[1]
  \/ a[1] = b[1] /\ (a[2] < b[2] \/ (a[2] = b[2] /\ a[3] <= b[3]))

Within(date, range) == NotAfter(range.from, date) /\ NotAfter(date, range.to)

QuarterStart(m) == (m \div 3) * 3

(* getStatsPeriodRange, of a period other than "all" *)
PeriodRange(period, anchor) ==
  LET y == anchor[1]  m == anchor[2]  q == QuarterStart(m) IN
  CASE period = "month" -> [from |-> <<y, m, 1>>, to |-> JsDate(y, m + 1, 0)]
    [] period = "quarter" -> [from |-> <<y, q, 1>>, to |-> JsDate(y, q + 3, 0)]
    [] period = "year" -> [from |-> <<y, 0, 1>>, to |-> JsDate(y, 12, 0)]

PreviousAnchorByMonth(period, anchor) ==  \* mutant: a quarter goes back a month only
  CASE period = "year" -> JsDate(anchor[1] - 1, anchor[2], anchor[3])
    [] OTHER -> SetMonth(anchor, anchor[2] - 1)

(* getPreviousStatsPeriodRange: the anchor is moved, and may carry over. *)
PreviousAnchor(period, anchor) ==
  CASE period = "month" -> SetMonth(anchor, anchor[2] - 1)
    [] period = "quarter" -> SetMonth(anchor, anchor[2] - 3)
    [] period = "year" -> JsDate(anchor[1] - 1, anchor[2], anchor[3])

PreviousPeriodRange(period, anchor) == PeriodRange(period, PreviousAnchor(period, anchor))

(* getCalendarYearRange *)
CalendarYearRange(anchor) == PeriodRange("year", anchor)

NextDay(date) == JsDate(date[1], date[2], date[3] + 1)

=============================================================================
