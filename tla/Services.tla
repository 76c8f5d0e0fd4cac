------------------------------ MODULE Services -------------------------------
(***************************************************************************)
(* Services that share no tables with each other, explored one after the   *)
(* other: `part` is the one a behaviour is about.  The variables of the    *)
(* others are Null, or as Init has them where a property is about steps.   *)
(***************************************************************************)
EXTENDS RateLimit

CONSTANTS
  Users, Conversations, HistoryWindow, MaxTurns,       \* of Conversations
  Servers, Reminders, Thresholds, MaxInstant,          \* of Notifications
  Owners, StationIds, Places,                          \* of ServiceStations
  Requests,                                            \* of both that have some
  Plans, PlanDates, PlanOdometers,                     \* of ReminderProgress
  Ids, Dates, Limits, MaxStamp,                        \* of Pages
  StatsIds, StatsRows, StatsStations, StatsDates, StatsOdometers, TopLimit,  \* of Stats
  EventIds, EventRows, ReminderIds, ReminderRows, IntervalIds, IntervalRows,
  Vehicles, Odometers, Day, Month, Year, KmPerMonth, Expiring, UpcomingLimit,
  MaxRows, MaxDay,                                     \* of Dashboard
  MaxChanges,                                          \* of the three that report
  VehicleIds, TireIds, Caller,                         \* of Tires, and its one request
  Null

VARIABLES
  part,
  plan, due, odometer, today, listPc, got, changes,
  list, pageRow, stamp, pagePc, pageQuery, shown, found, disturbed,
  talk, lost, talkPc, talkArg,
  now, reminder, wanted, mailRow, server, mails, told, excused, met,
  station, toggles, stationMet, stationPc, stationArg,
  entries, reading, stationIds, statsPc, query, statsGot, statsChanges,
  odos, facts, reminders, intervals, dashNow, dashPc, dashGot, dashChanges,
  owner, mounted, alonePc, aloneArg

listVars == <<plan, due, odometer, today, listPc, got, changes>>
pageVars == <<list, pageRow, stamp, pagePc, pageQuery, shown, found, disturbed>>
talkVars == <<talk, lost, talkPc, talkArg>>
mailVars == <<now, reminder, wanted, mailRow, server, mails, told, excused, met>>
stationVars == <<station, toggles, stationMet, stationPc, stationArg>>
statsVars == <<entries, reading, stationIds, statsPc, query, statsGot, statsChanges>>
dashVars == <<odos, facts, reminders, intervals, dashNow, dashPc, dashGot, dashChanges>>
aloneVars == <<owner, mounted, alonePc, aloneArg>>

-----------------------------------------------------------------------------
(* The parts *)

Co == INSTANCE Conversations WITH Window <- HistoryWindow, pc <- talkPc, arg <- talkArg

No == INSTANCE Notifications WITH MaxNow <- MaxInstant, row <- mailRow

St == INSTANCE ServiceStations WITH
  Users <- Owners, met <- stationMet, pc <- stationPc, arg <- stationArg

Li == INSTANCE ReminderProgress WITH
  Intervals <- Plans, Odometers <- PlanOdometers, Dates <- PlanDates,
  interval <- plan, reminder <- due, odo <- odometer, pc <- listPc

Pg == INSTANCE Pages WITH
  MaxClock <- MaxStamp, row <- pageRow, clock <- stamp, pc <- pagePc, query <- pageQuery

Sta == INSTANCE Stats WITH
  EventIds <- StatsIds, Rows <- StatsRows, Stations <- StatsStations, Dates <- StatsDates,
  Odometers <- StatsOdometers, event <- entries, odo <- reading, station <- stationIds,
  pc <- statsPc, got <- statsGot, changes <- statsChanges

Da == INSTANCE Dashboard WITH
  Limit <- UpcomingLimit, MaxNow <- MaxDay, odo <- odos, event <- facts, reminder <- reminders,
  interval <- intervals, now <- dashNow, pc <- dashPc, got <- dashGot, changes <- dashChanges

(* One request at a time on the tires: the table is what MountedSet promises. *)
One == INSTANCE Tires WITH
  Requests <- {Caller}, Users <- Owners, Privileged <- Owners, OwnTires <- TRUE,
  vehicle <- owner, tire <- mounted, pc <- alonePc, arg <- aloneArg

ASSUME ServicesAssumption ==
  /\ Co!ConstantsAssumption /\ No!ConstantsAssumption /\ St!ConstantsAssumption
  /\ Li!ConstantsAssumption /\ Pg!ConstantsAssumption /\ Sta!ConstantsAssumption
  /\ Da!ConstantsAssumption /\ One!ConstantsAssumption

-----------------------------------------------------------------------------
Parts ==
  {"rateLimit", "conversations", "notifications", "stations", "reminders", "pages", "stats",
   "dashboard", "alone"}

ServicesInit ==
  /\ part \in Parts
  /\ Init /\ One!Init
  /\ IF part = "conversations" THEN Co!Init
     ELSE talk = Null /\ lost = Null /\ talkPc = Null /\ talkArg = Null
  /\ IF part = "notifications" THEN No!Init
     ELSE now = Null /\ reminder = Null /\ wanted = Null /\ mailRow = Null
          /\ server = Null /\ mails = Null /\ told = Null /\ excused = Null
          /\ met = Null
  /\ IF part = "pages" THEN Pg!Init
     ELSE list = Null /\ pageRow = Null /\ stamp = Null /\ pagePc = Null
          /\ pageQuery = Null /\ shown = Null /\ found = Null /\ disturbed = Null
  /\ IF part = "reminders" THEN Li!Init
     ELSE plan = Null /\ due = Null /\ odometer = Null /\ today = Null
          /\ listPc = Null /\ got = Null /\ changes = Null
  /\ IF part = "stats" THEN Sta!Init
     ELSE entries = Null /\ stationIds = Null /\ reading = Null /\ statsPc = Null
          /\ query = Null /\ statsGot = Null /\ statsChanges = Null
  /\ IF part = "dashboard" THEN Da!Init
     ELSE odos = Null /\ facts = Null /\ reminders = Null /\ intervals = Null
          /\ dashNow = Null /\ dashPc = Null /\ dashGot = Null /\ dashChanges = Null
  /\ IF part = "stations" THEN St!Init
     ELSE station = Null /\ toggles = Null /\ stationMet = Null /\ stationPc = Null
          /\ stationArg = Null

(* The other parts stand still. *)
Others(own) ==
  /\ UNCHANGED part
  /\ own # "rateLimit" => UNCHANGED vars
  /\ own # "conversations" => UNCHANGED talkVars
  /\ own # "notifications" => UNCHANGED mailVars
  /\ own # "stations" => UNCHANGED stationVars
  /\ own # "reminders" => UNCHANGED listVars
  /\ own # "pages" => UNCHANGED pageVars
  /\ own # "stats" => UNCHANGED statsVars
  /\ own # "dashboard" => UNCHANGED dashVars
  /\ own # "alone" => UNCHANGED aloneVars

ServicesNext ==
  \/ part = "rateLimit" /\ Next /\ Others(part)
  \/ part = "conversations" /\ Co!Next /\ Others(part)
  \/ part = "notifications" /\ No!Next /\ Others(part)
  \/ part = "stations" /\ St!Next /\ Others(part)
  \/ part = "reminders" /\ Li!Next /\ Others(part)
  \/ part = "pages" /\ Pg!Next /\ Others(part)
  \/ part = "stats" /\ Sta!Next /\ Others(part)
  \/ part = "dashboard" /\ Da!Next /\ Others(part)
  \/ part = "alone" /\ One!Next /\ Others(part)

servicesVars ==
  <<part, vars, talkVars, mailVars, stationVars, listVars, pageVars, statsVars, dashVars, aloneVars>>

ServicesSpec == ServicesInit /\ [][ServicesNext]_servicesVars

-----------------------------------------------------------------------------
(* The properties of the parts.  ImplementsWindow is in RateLimit.  The    *)
(* first of each part states with it that its tables and requests are well *)
(* typed.                                                                  *)

(* A stored question is answered exactly once, unless its request was cut short. *)
EveryTurnAnswered == part = "conversations" => Co!TypeOK /\ Co!EveryTurnAnswered

(* One process at a time mails nobody twice on a day about one reminder. *)
MailedOnceADay == part = "notifications" => No!TypeOK /\ No!MailedOnceADay
(* Who has a reminder for the whole day before it is due is told of it in time. *)
RemindedBeforeDue == part = "notifications" => No!RemindedBeforeDue

(* Where no two requests met, a station is a favourite after an odd number of toggles. *)
ToggledInStep == part = "stations" => St!TypeOK /\ St!ToggledInStep

(* A reminder that is due is shown with its progress, all or nearly all. *)
DueLooksDue == part = "reminders" => Li!TypeOK /\ Li!DueLooksDue

(* A list that is read to its last page shows all that was in it at the first. *)
NoneMissed == part = "pages" => Pg!TypeOK /\ Pg!NoneMissed

(* A report of tables that stand still adds up to what is in them. *)
ReportAddsUp == part = "stats" => Sta!TypeOK /\ Sta!ReportAddsUp
(* The period a report compares with ends before the one it is about,      *)
(* except for the dates that Stats names, which setMonth carries over.     *)
PreviousPeriodPrecedes == part = "stats" => Sta!PreviousPeriodPrecedes

(* The dashboard says what is due: a card shows an overdue interval if     *)
(* there is one; a document that was renewed beyond the day it is due is   *)
(* not the nearest; a reminder is left out only of a full list, one past   *)
(* its date for others past theirs, one overdue by its mileage for any     *)
(* that have a date and others overdue by theirs; and what the cards say   *)
(* was spent is the month of the summary with what the summary leaves out. *)
DashboardTells ==
  part = "dashboard" => /\ Da!TypeOK /\ Da!OverdueShown /\ Da!RenewedNotShown
                        /\ Da!OverdueListed /\ Da!FiguresAgree

(* One request at a time: the tires implement one mounted set at a time. *)
ImplementsMountedSet == One!ImplementsMountedSet

=============================================================================
