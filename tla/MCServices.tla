------------------------------ MODULE MCServices -----------------------------
(* An instance of Services.  The sets of model values a1, a2 and b1, b2    *)
(* are interchangeable in every part that uses them; what is not, in some  *)
(* part, is a string.                                                      *)
EXTENDS Services, TLC

MCSymmetry == Permutations(Servers) \cup Permutations(Reminders)

(* By kilometres, by months, by both or not at all: a leap year lies between. *)
MCPlans ==
  [km : {Null, 10}, lastKm : {Null, 5}, months : {Null, 1, 12},
   lastDate : {Null, <<2023, 1, 1>>, <<2024, 0, 31>>}]

MCPlanDates ==
  {<<2023, 1, 28>>, <<2023, 2, 1>>, <<2024, 0, 31>>, <<2024, 1, 1>>, <<2024, 2, 1>>, <<2024, 2, 2>>}

(* A purchase, a service at the station, a tank of each fuel, an insurance *)
Event(type, date, cost, mileage) ==
  [type |-> type, date |-> date, cost |-> cost, mileage |-> mileage,
   station |-> Null, document |-> Null, fuel |-> Null, liters |-> 0, full |-> FALSE]

Tank(date, cost, mileage, fuel) ==
  [Event("REFUEL", date, cost, mileage) EXCEPT !.fuel = fuel, !.liters = 4, !.full = TRUE]

MCStatsRows ==
  {Event("PURCHASE", <<2023, 11, 31>>, Null, 10),
   [Event("SERVICE", <<2024, 2, 1>>, 3, 20) EXCEPT !.station = "s1"],
   Tank(<<2024, 2, 31>>, 2, 30, "DIESEL"),
   Tank(<<2024, 1, 29>>, 1, 20, "PETROL"),
   [Event("DOCUMENT", <<2024, 1, 29>>, -1, 20) EXCEPT !.document = "INSURANCE_OC"]}

MCStatsDates ==
  {<<2023, 2, 1>>, <<2024, 0, 31>>, <<2024, 1, 29>>,
   <<2024, 2, 31>>, <<2024, 11, 31>>}

(* The dashboard's events, with two documents of a kind.  A request reads  *)
(* the odometers once, so one reading will do: what is due lies on either  *)
(* side of it.                                                             *)
Dated(v, type, date, cost) ==
  [vehicle |-> v, type |-> type, date |-> date, cost |-> cost, document |-> Null,
   expire |-> Null, mileage |-> 10, liters |-> Null, full |-> FALSE]

Document(kind, expire) ==
  [Dated("v1", "DOCUMENT", 0, 1) EXCEPT !.document = kind, !.expire = expire]

FullTank(date, mileage) ==
  [Dated("v1", "REFUEL", date, 2) EXCEPT !.liters = 4, !.full = TRUE, !.mileage = mileage]

MCEventRows ==
  {Dated("v1", "PURCHASE", 2, 5), Dated("v2", "SERVICE", 2, 3),
   Document("INSURANCE_OC", 0), Document("INSURANCE_OC", 4), Document("INSURANCE_OC", Null),
   Document("VIGNETTE", 2), FullTank(0, 10), FullTank(2, 30)}

Due(v, date, mileage) == [vehicle |-> v, date |-> date, mileage |-> mileage]

MCReminderRows ==
  {Due("v1", 4, Null), Due("v1", Null, 25), Due("v2", Null, 35)}

MCIntervalRows == {Due("v1", 0, 0), Due("v1", 4, 15), Due("v1", 4, 35)}

=============================================================================
