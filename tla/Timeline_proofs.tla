-------------------------- MODULE Timeline_proofs --------------------------
(***************************************************************************)
(* For any events, stations, mileages and requests in flight: the state is *)
(* well typed, the odometer of a settled vehicle is its largest log, a     *)
(* settled event agrees with what is stored beside it, and a settled       *)
(* station, and what the vehicle knows of its purchase and sale, with the  *)
(* events.                                                                 *)
(*                                                                         *)
(* None of these is inductive by itself.  What is: two requests that use   *)
(* one resource have torn it (Apart), and all else that either uses        *)
(* (Together); and a request that has not met another knows how far it has *)
(* come: with the odometer, what it has read of the logs and written       *)
(* (OdometerAt); with its event, which of the rows beside it are stored or *)
(* gone (EventAt); with its stations, which it has yet to count (VisitAt); *)
(* with its type of event, whether there is one (InfoAt).                  *)
(***************************************************************************)
EXTENDS Timeline, FiniteSetTheorems, TLAPS

HasEvent == {"log", "max", "odo", "info", "raw", "find", "remind", "renew", "update",
             "relog", "raw.delete", "forget", "unlog", "join"}

(* Steps on the way to the odometer *)
ToOdometer == {"insert", "log", "max", "odo", "relog", "raw.delete", "forget", "unlog",
               "join", "service.max", "service.commit", "patch"}

HasMileage == {"insert", "log", "relog", "service.max", "service.commit", "patch"}

(* What request r relies on where it stands *)
Knows(r) ==
  /\ pc[r] = "idle" => arg[r] = NoArgs
  /\ pc[r] \in HasEvent => /\ arg[r].event \in EventIds
                           /\ event[arg[r].event].st # "free"
  /\ pc[r] \in HasMileage => arg[r].mileage \in Nat
  /\ pc[r] = "max" /\ arg[r].op \notin {"update", "delete"} => arg[r].mileage \in Nat
  /\ pc[r] \in ToOdometer => "odometer" \in arg[r].uses
  /\ pc[r] = "update" /\ arg[r].relog
       => "odometer" \in arg[r].uses /\ arg[r].mileage \in Nat
  /\ pc[r] \in {"raw.delete", "forget", "unlog", "join"} => arg[r].op = "delete"
  /\ \A e \in EventIds \cap arg[r].uses : event[e].st # "free"

FreeRows == \A e \in EventIds : event[e].st = "free" => log[e] = Null

(* What two requests use together is torn. *)
Apart ==
  \A r, q \in Requests : r # q =>
    \A x \in arg[r].uses \cap arg[q].uses : crossed /\ x \in torn

Shape == TypeOK /\ (\A r \in Requests : Knows(r)) /\ FreeRows /\ Apart

-----------------------------------------------------------------------------
LEMMA NoArgsType == NoArgs \in Args /\ NoArgs.uses = {} /\ "idle" \in Steps
BY DEF NoArgs, Args, Ops, TimelineType, Steps, LogSteps

(* What an update carries *)
LEMMA UpdatingType ==
  ASSUME NEW e \in EventIds, NEW m \in Mileages \cup {Null}, NEW s \in Stations \cup {Null},
         NEW at, at \subseteq Stations, event[e].type \in TimelineType
  PROVE  /\ Updating(e, m, s, at) \in Args
         /\ Updating(e, m, s, at).event = e
         /\ Updating(e, m, s, at).relog => Updating(e, m, s, at).mileage \in Nat
         /\ Updating(e, m, s, at).uses =
              at \cup {e} \cup (IF Updating(e, m, s, at).relog THEN {"odometer"} ELSE {})
<1> DEFINE relog == m # Null /\ m # event[e].mileage
           uses == at \cup {e} \cup (IF relog THEN {"odometer"} ELSE {})
           a == [NoArgs EXCEPT !.op = "update", !.event = e, !.type = event[e].type,
                               !.mileage = m, !.at = s, !.relog = relog, !.todo = at,
                               !.uses = uses]
<1>1. Updating(e, m, s, at) = a
  BY Zenon DEF Updating
<1>2. relog \in BOOLEAN /\ m \in Nat \cup {Null} /\ (relog => m \in Nat)
  BY ConstantsAssumption
<1>3. uses \in SUBSET Resources
  BY DEF Resources
<1>4. uses = at \cup {e} \cup (IF relog THEN {"odometer"} ELSE {})
  OBVIOUS
<1> HIDE DEF relog, uses
<1>5. a \in Args /\ a.event = e /\ a.relog = relog /\ a.mileage = m /\ a.uses = uses
  BY <1>2, <1>3 DEF NoArgs, Args, Ops
<1> HIDE DEF a
<1> QED
  BY <1>1, <1>2, <1>4, <1>5

LEMMA InitShape == Init => Shape
<1> SUFFICES ASSUME Init PROVE Shape
  OBVIOUS
<1>1. TypeOK
  BY NoArgsType, ConstantsAssumption DEF Init, TypeOK
<1>2. \A r \in Requests : Knows(r)
  BY NoArgsType DEF Init, Knows, HasEvent, HasMileage, ToOdometer
<1> QED
  BY <1>1, <1>2, NoArgsType DEF Shape, FreeRows, Apart, Init

-----------------------------------------------------------------------------
(* Control *)

LEMMA KeptType ==
  ASSUME NEW step \in Steps, NEW a \in Args
  PROVE  /\ Kept(step, a) \in Args
         /\ Kept(step, a).uses = a.uses
         /\ step \notin {"count", "done"} => Kept(step, a) = a
BY NoArgsType DEF Kept, Args, NoArgs

LEMMA ThenType ==
  ASSUME NEW a \in Args
  PROVE  /\ ThenVisits(a) \in {"count", "done"}
         /\ ThenDocument(a) \in {"raw", "count", "done"}
         /\ ThenInfo(a) \in {"info", "raw", "count", "done"}
BY DEF ThenVisits, ThenDocument, ThenInfo

(* A request goes on. *)
LEMMA GotoType ==
  ASSUME TypeOK, NEW r \in Requests, NEW step \in Steps, NEW a \in Args, Goto(r, step, a)
  PROVE  /\ pc' \in [Requests -> Steps] /\ arg' \in [Requests -> Args]
         /\ pc'[r] = step /\ arg'[r] = Kept(step, a) /\ arg'[r].uses = a.uses
         /\ \A q \in Requests \ {r} : pc'[q] = pc[q] /\ arg'[q] = arg[q]
         /\ crossed' = crossed /\ torn' = torn
BY KeptType DEF Goto, TypeOK

(* A request ends. *)
LEMMA EndType ==
  ASSUME TypeOK, NEW r \in Requests, NEW left, End(r, left)
  PROVE  /\ pc' \in [Requests -> Steps] /\ arg' \in [Requests -> Args]
         /\ pc'[r] = "idle" /\ arg'[r] = NoArgs
         /\ \A q \in Requests \ {r} : pc'[q] = pc[q] /\ arg'[q] = arg[q]
         /\ crossed' \in BOOLEAN /\ torn' = left
BY NoArgsType DEF End, TypeOK

(* What happens to the rows of events: none becomes free again. *)
Grown == \A e \in EventIds : event[e].st # "free" => event'[e].st # "free"

LEMMA KnowledgeKept ==
  ASSUME Shape, NEW r \in Requests, Grown, Knows(r)',
         \A q \in Requests \ {r} : pc'[q] = pc[q] /\ arg'[q] = arg[q]
  PROVE  \A q \in Requests : Knows(q)'
<1> SUFFICES ASSUME NEW q \in Requests, q # r PROVE Knows(q)'
  OBVIOUS
<1>1. pc'[q] = pc[q] /\ arg'[q] = arg[q] /\ Knows(q)
  BY DEF Shape
<1> QED
  BY <1>1 DEF Knows, Grown

LEMMA ApartKept ==
  ASSUME Shape, NEW r \in Requests, crossed' = crossed, torn' = torn,
         \A q \in Requests \ {r} : pc'[q] = pc[q] /\ arg'[q] = arg[q],
         \A x \in arg'[r].uses \ arg[r].uses :
           \A q \in Requests \ {r} : x \notin arg[q].uses
  PROVE  Apart'
BY DEF Shape, Apart

(* A step that goes on, and changes the tables as `typed` says *)
LEMMA GoesOn ==
  ASSUME Shape, NEW r \in Requests, NEW step \in Steps, NEW a \in Args, Goto(r, step, a),
         \A x \in a.uses \ arg[r].uses : \A q \in Requests \ {r} : x \notin arg[q].uses,
         Grown, FreeRows', Knows(r)',
         event' \in [EventIds -> EventRow \cup {FreeEvent}],
         log' \in [EventIds -> Nat \cup {Null}], reminder' \in [EventIds -> Nat],
         visits' \in [Stations -> Nat], odo' \in Nat,
         info' \in [InfoTypes -> Nat \cup {Null}]
  PROVE  Shape'
<1>1. TypeOK
  BY DEF Shape
<1>2. /\ pc' \in [Requests -> Steps] /\ arg' \in [Requests -> Args]
      /\ arg'[r].uses = a.uses
      /\ \A q \in Requests \ {r} : pc'[q] = pc[q] /\ arg'[q] = arg[q]
      /\ crossed' = crossed /\ torn' = torn
  BY <1>1, GotoType
<1>3. TypeOK'
  BY <1>1, <1>2 DEF TypeOK
<1>4. \A q \in Requests : Knows(q)'
  BY <1>2, KnowledgeKept
<1>5. Apart'
  BY <1>2, ApartKept
<1> QED
  BY <1>3, <1>4, <1>5 DEF Shape

LEMMA ContinueShape ==
  ASSUME Shape, NEW r \in Requests, NEW step \in Steps, NEW a \in Args,
         Continue(r, step, a), a.uses = arg[r].uses, Knows(r)'
  PROVE  Shape'
<1>1. event' = event /\ log' = log /\ reminder' = reminder /\ visits' = visits
      /\ odo' = odo /\ info' = info /\ Goto(r, step, a)
  BY DEF Continue, tables, derived
<1>2. Grown /\ FreeRows'
  BY <1>1 DEF Shape, FreeRows, Grown
<1> QED
  BY <1>1, <1>2, GoesOn DEF Shape, TypeOK

(* The steps after the odometer need the event only. *)
LEMMA LaterKnows ==
  ASSUME Shape, NEW r \in Requests, NEW a \in Args, Grown,
         NEW step \in {"info", "raw", "find", "remind", "renew", "count", "visit", "done"},
         Goto(r, step, a), a.uses = arg[r].uses, a.event = arg[r].event,
         pc[r] \in HasEvent \/ step \in {"count", "visit", "done"}
  PROVE  Knows(r)'
<1>1. step \in Steps /\ TypeOK /\ Knows(r)
  BY DEF Steps, Shape
<1>2. /\ pc'[r] = step /\ arg'[r].uses = arg[r].uses
      /\ step \notin {"count", "done"} => arg'[r] = a
  BY <1>1, GotoType, KeptType
<1>3. \A e \in EventIds \cap arg'[r].uses : event'[e].st # "free"
  BY <1>1, <1>2 DEF Knows, Grown
<1>4. pc'[r] \in HasEvent => /\ arg'[r].event \in EventIds
                             /\ event'[arg'[r].event].st # "free"
  BY <1>1, <1>2 DEF Knows, Grown, HasEvent
<1> QED
  BY <1>2, <1>3, <1>4 DEF Knows, HasMileage, ToOdometer

-----------------------------------------------------------------------------
(* One lemma per step of a request: the state keeps its shape. *)

LEMMA OpenedShape ==
  ASSUME Shape, NEW r \in Requests, NEW step \in Steps, NEW a \in Args,
         Opened(r, step, a), Knows(r)'
  PROVE  Shape'
<1>1. /\ event' = event /\ log' = log /\ reminder' = reminder /\ visits' = visits
      /\ odo' = odo /\ info' = info
  BY DEF Opened, tables, derived
<1>2. TypeOK
  BY DEF Shape
<1>3. /\ pc' \in [Requests -> Steps] /\ arg' \in [Requests -> Args] /\ arg'[r] = a
      /\ \A q \in Requests \ {r} : pc'[q] = pc[q] /\ arg'[q] = arg[q]
  BY <1>2 DEF Opened, TypeOK
<1>4. crossed' \in BOOLEAN /\ torn' \subseteq Resources
  <2>1. \A q \in Requests : arg[q].uses \subseteq Resources
    BY <1>2 DEF TypeOK, Args
  <2>2. UNION {arg[q].uses : q \in Rivals(a)} \subseteq Resources
    BY <2>1 DEF Rivals
  <2>3. a.uses \subseteq Resources
    BY DEF Args
  <2> HIDE DEF Rivals
  <2> QED
    BY <1>2, <2>2, <2>3 DEF Opened, TypeOK
<1>5. TypeOK'
  BY <1>1, <1>2, <1>3, <1>4 DEF TypeOK
<1>6. Grown /\ FreeRows'
  BY <1>1 DEF Shape, FreeRows, Grown
<1>7. \A q \in Requests : Knows(q)'
  BY <1>3, <1>6, KnowledgeKept
<1>8. Apart'
  <2> SUFFICES ASSUME NEW p \in Requests, NEW q \in Requests, p # q,
                      NEW x \in arg'[p].uses \cap arg'[q].uses
               PROVE  crossed' /\ x \in torn'
    BY DEF Apart
  <2>1. CASE p # r /\ q # r
    BY <1>3, <2>1 DEF Shape, Apart, Opened
  <2>2. ASSUME NEW o \in Requests \ {r}, x \in arg[o].uses \cap a.uses
        PROVE  crossed' /\ x \in torn'
    <3>1. pc[o] # "idle"
      BY <2>2, NoArgsType DEF Shape, Knows
    <3>2. o \in Rivals(a)
      BY <2>2, <3>1 DEF Rivals
    <3> QED
      BY <2>2, <3>2 DEF Opened
  <2> QED
    BY <1>3, <2>1, <2>2
<1> QED
  BY <1>5, <1>6, <1>7, <1>8 DEF Shape

LEMMA EndShape ==
  ASSUME Shape, NEW r \in Requests, NEW left \in SUBSET Resources, End(r, left),
         crossed => torn \subseteq left,
         event' = event, log' = log, reminder' = reminder, visits' = visits,
         odo' \in Nat, info' = info
  PROVE  Shape'
<1>1. TypeOK
  BY DEF Shape
<1>2. /\ pc' \in [Requests -> Steps] /\ arg' \in [Requests -> Args]
      /\ pc'[r] = "idle" /\ arg'[r] = NoArgs
      /\ \A q \in Requests \ {r} : pc'[q] = pc[q] /\ arg'[q] = arg[q]
      /\ crossed' \in BOOLEAN /\ torn' = left
  BY <1>1, EndType
<1>3. TypeOK'
  BY <1>1, <1>2 DEF TypeOK
<1>4. Grown /\ FreeRows'
  BY DEF Shape, FreeRows, Grown
<1>5. Knows(r)'
  BY <1>2, NoArgsType DEF Knows, HasEvent, HasMileage, ToOdometer
<1>6. \A q \in Requests : Knows(q)'
  BY <1>2, <1>4, <1>5, KnowledgeKept
<1>7. Apart'
  <2> SUFFICES ASSUME NEW p \in Requests, NEW q \in Requests, p # q,
                      NEW x \in arg'[p].uses \cap arg'[q].uses
               PROVE  crossed' /\ x \in torn'
    BY DEF Apart
  <2>1. p # r /\ q # r
    BY <1>2, NoArgsType
  <2>2. x \in arg[p].uses \cap arg[q].uses
    BY <1>2, <2>1
  <2>3. crossed /\ x \in torn
    BY <2>2 DEF Shape, Apart
  <2>4. pc[p] # "idle"
    BY <2>2, NoArgsType DEF Shape, Knows
  <2> QED
    BY <1>2, <2>1, <2>3, <2>4 DEF End
<1> QED
  BY <1>3, <1>4, <1>6, <1>7 DEF Shape

LEMMA InsertShape == ASSUME Shape, NEW r \in Requests, Insert(r) PROVE Shape'
<1>1. PICK e \in EventIds :
        /\ event[e].st = "free"
        /\ event' = [event EXCEPT ![e] = NewRow(arg[r])]
        /\ Goto(r, "log", [arg[r] EXCEPT !.event = e, !.uses = @ \cup {e}])
  BY DEF Insert
<1> DEFINE a == [arg[r] EXCEPT !.event = e, !.uses = @ \cup {e}]
<1>2. /\ TypeOK /\ Knows(r) /\ arg[r] \in Args
      /\ pc[r] = "insert" /\ arg[r].mileage \in Nat /\ "odometer" \in arg[r].uses
  BY DEF Shape, TypeOK, Insert, Knows, HasMileage, ToOdometer
<1>3. /\ a \in Args /\ a.event = e /\ a.mileage = arg[r].mileage
      /\ a.uses = arg[r].uses \cup {e}
  BY <1>2 DEF Args, Resources
<1>4. NewRow(arg[r]) \in EventRow
  BY <1>2 DEF NewRow, EventRow, Args
<1>5. /\ event' \in [EventIds -> EventRow \cup {FreeEvent}]
      /\ event'[e].st = "live" /\ \A f \in EventIds \ {e} : event'[f] = event[f]
      /\ Grown
  BY <1>1, <1>2, <1>4 DEF TypeOK, Grown, NewRow
<1>6. log' = log /\ reminder' = reminder /\ visits' = visits /\ odo' = odo /\ info' = info
  BY DEF Insert, derived
<1>7. FreeRows'
  BY <1>5, <1>6 DEF FreeRows, Shape
<1>8. \A q \in Requests : e \notin arg[q].uses
  BY <1>1 DEF Shape, Knows
<1>9. "log" \in Steps
  BY DEF Steps
<1>10. pc'[r] = "log" /\ arg'[r] = a
  BY <1>1, <1>2, <1>3, <1>9, GotoType, KeptType
<1>11. \A f \in EventIds \cap a.uses : event'[f].st # "free"
  BY <1>2, <1>3, <1>5 DEF Knows
<1>12. Knows(r)'
  BY <1>2, <1>3, <1>5, <1>10, <1>11 DEF Knows, HasEvent, HasMileage, ToOdometer
<1>13. \A x \in a.uses \ arg[r].uses : \A q \in Requests \ {r} : x \notin arg[q].uses
  BY <1>3, <1>8
<1>14. Goto(r, "log", a)
  BY <1>1
<1>15. /\ log' \in [EventIds -> Nat \cup {Null}] /\ reminder' \in [EventIds -> Nat]
       /\ visits' \in [Stations -> Nat] /\ odo' \in Nat
       /\ info' \in [InfoTypes -> Nat \cup {Null}]
  BY <1>2, <1>6 DEF TypeOK
<1> HIDE DEF a
<1> QED
  BY <1>3, <1>5, <1>7, <1>9, <1>12, <1>13, <1>14, <1>15, GoesOn

LEMMA InsertLogShape == ASSUME Shape, NEW r \in Requests, InsertLog(r) PROVE Shape'
<1>1. /\ TypeOK /\ Knows(r) /\ arg[r] \in Args /\ "max" \in Steps
      /\ pc[r] = "log" /\ arg[r].mileage \in Nat /\ "odometer" \in arg[r].uses
      /\ arg[r].event \in EventIds /\ event[arg[r].event].st # "free"
  BY DEF Shape, TypeOK, InsertLog, Knows, HasMileage, HasEvent, ToOdometer, Steps, LogSteps
<1>2. /\ event' = event /\ reminder' = reminder /\ visits' = visits /\ odo' = odo
      /\ info' = info /\ Goto(r, "max", arg[r])
      /\ log' = [log EXCEPT ![arg[r].event] = arg[r].mileage]
  BY DEF InsertLog
<1>3. log' \in [EventIds -> Nat \cup {Null}] /\ Grown /\ FreeRows'
  BY <1>1, <1>2 DEF TypeOK, Shape, FreeRows, Grown
<1>4. pc'[r] = "max" /\ arg'[r] = arg[r]
  BY <1>1, <1>2, GotoType, KeptType
<1>5. Knows(r)'
  BY <1>1, <1>2, <1>4 DEF Knows, HasEvent, HasMileage, ToOdometer
<1> QED
  BY <1>1, <1>2, <1>3, <1>5, GoesOn DEF TypeOK

LEMMA ReadMaxShape == ASSUME Shape, NEW r \in Requests, ReadMax(r) PROVE Shape'
<1>1. /\ TypeOK /\ Knows(r) /\ arg[r] \in Args /\ "odo" \in Steps
      /\ pc[r] = "max" /\ "odometer" \in arg[r].uses
  BY DEF Shape, TypeOK, ReadMax, Knows, ToOdometer, Steps, LogSteps
<1>2. ASSUME NEW m \in Nat, Continue(r, "odo", [arg[r] EXCEPT !.max = m]) PROVE Shape'
  <2> DEFINE a == [arg[r] EXCEPT !.max = m]
  <2>1. /\ a \in Args /\ a.uses = arg[r].uses /\ a.event = arg[r].event
        /\ a.op = arg[r].op /\ a.mileage = arg[r].mileage
    BY <1>1 DEF Args
  <2>2. pc'[r] = "odo" /\ arg'[r] = a /\ event' = event
    BY <1>1, <1>2, <2>1, GotoType, KeptType DEF Continue, tables
  <2>3. Knows(r)'
    BY <1>1, <2>1, <2>2 DEF Knows, HasEvent, HasMileage, ToOdometer
  <2> QED
    BY <1>1, <1>2, <2>1, <2>3, ContinueShape
<1>3. ASSUME Continue(r, ThenDocument(arg[r]), arg[r]) PROVE Shape'
  <2>1. ThenDocument(arg[r]) \in {"raw", "count", "done"}
    BY <1>1, ThenType
  <2>2. ThenDocument(arg[r]) \in Steps
    BY <2>1 DEF Steps
  <2>3. Grown
    BY <1>3 DEF Continue, tables, Grown
  <2>4. Knows(r)'
    BY <1>1, <1>3, <2>1, <2>3, LaterKnows DEF Continue, HasEvent
  <2> QED
    BY <1>1, <1>3, <2>2, <2>4, ContinueShape
<1>4. Logs \subseteq Nat
  BY <1>1 DEF Logs, TypeOK
<1>5. arg[r].op # "update" => IfNoLog(arg[r]) \in Nat
  BY <1>1 DEF IfNoLog, Knows
<1> QED
  BY <1>2, <1>3, <1>4, <1>5 DEF ReadMax

LEMMA WriteOdoShape == ASSUME Shape, NEW r \in Requests, WriteOdo(r) PROVE Shape'
<1> DEFINE step == IF arg[r].op = "delete" THEN "join" ELSE ThenInfo(arg[r])
<1>1. /\ TypeOK /\ Knows(r) /\ arg[r] \in Args /\ pc[r] = "odo" /\ pc[r] \in HasEvent
      /\ "odometer" \in arg[r].uses
  BY DEF Shape, TypeOK, WriteOdo, Knows, ToOdometer, HasEvent
<1>2. /\ event' = event /\ log' = log /\ reminder' = reminder /\ visits' = visits
      /\ info' = info /\ odo' = arg[r].max /\ Goto(r, step, arg[r])
  BY DEF WriteOdo
<1>3. step \in {"join", "info", "raw", "count", "done"} /\ step \in Steps
  BY <1>1, ThenType DEF Steps, LogSteps
<1>4. Grown /\ FreeRows' /\ odo' \in Nat
  BY <1>1, <1>2 DEF Shape, FreeRows, Grown, Args
<1>5. CASE step = "join"
  <2>1. pc'[r] = "join" /\ arg'[r] = arg[r]
    BY <1>1, <1>2, <1>3, <1>5, GotoType, KeptType
  <2>2. arg[r].op = "delete"
    BY <1>1, <1>5, ThenType
  <2>3. Knows(r)'
    BY <1>1, <1>2, <2>1, <2>2 DEF Knows, HasEvent, HasMileage, ToOdometer
  <2> QED
    BY <1>1, <1>2, <1>3, <1>4, <2>3, GoesOn DEF TypeOK
<1>6. CASE step # "join"
  <2>1. Knows(r)'
    BY <1>1, <1>2, <1>3, <1>4, <1>6, LaterKnows
  <2> QED
    BY <1>1, <1>2, <1>3, <1>4, <2>1, GoesOn DEF TypeOK
<1> QED
  BY <1>5, <1>6

(* The steps after the odometer, when the rows of events stay as they are *)
LEMMA LaterShape ==
  ASSUME Shape, NEW r \in Requests, NEW a \in Args,
         NEW step \in {"info", "raw", "find", "remind", "renew", "count", "visit", "done"},
         Goto(r, step, a), a.uses = arg[r].uses, a.event = arg[r].event,
         pc[r] \in HasEvent \/ step \in {"count", "visit", "done"},
         event' = event, log' = log, odo' = odo,
         reminder' \in [EventIds -> Nat], visits' \in [Stations -> Nat],
         info' \in [InfoTypes -> Nat \cup {Null}]
  PROVE  Shape'
<1>1. Grown /\ FreeRows' /\ TypeOK
  BY DEF Shape, FreeRows, Grown
<1>2. step \in Steps
  BY DEF Steps
<1>3. Knows(r)'
  BY <1>1, LaterKnows
<1> QED
  BY <1>1, <1>2, <1>3, GoesOn DEF TypeOK

LEMMA SyncInfoShape == ASSUME Shape, NEW r \in Requests, SyncInfo(r) PROVE Shape'
<1>1. TypeOK /\ arg[r] \in Args /\ pc[r] \in HasEvent
  BY DEF Shape, TypeOK, SyncInfo, HasEvent
<1>2. ThenDocument(arg[r]) \in {"raw", "count", "done"}
  BY <1>1, ThenType
<1>3. (IF arg[r].op = "delete" THEN Null ELSE arg[r].mileage) \in Nat \cup {Null}
  BY <1>1 DEF Args
<1>4. info' \in [InfoTypes -> Nat \cup {Null}]
  BY <1>1, <1>3 DEF SyncInfo, TypeOK
<1> QED
  BY <1>1, <1>2, <1>4, LaterShape DEF SyncInfo, TypeOK

LEMMA DocumentShape ==
  ASSUME Shape, NEW r \in Requests,
         ReadDocument(r) \/ FindReminder(r) \/ CreateReminder(r) \/ UpdateReminder(r)
  PROVE  Shape'
<1>1. TypeOK /\ arg[r] \in Args /\ pc[r] \in HasEvent
  BY DEF Shape, TypeOK, ReadDocument, FindReminder, CreateReminder, UpdateReminder, HasEvent
<1>2. ThenVisits(arg[r]) \in {"count", "done"}
  BY <1>1, ThenType
<1>3. CASE ReadDocument(r)
  <2>1. (IF Live(arg[r].event) THEN "find" ELSE ThenVisits(arg[r])) \in {"find", "count",
                                                                         "done"}
    BY <1>2
  <2> QED
    BY <1>1, <1>3, <2>1, LaterShape DEF ReadDocument, Continue, tables, derived, TypeOK
<1>4. CASE FindReminder(r)
  <2>1. (IF reminder[arg[r].event] = 0 THEN "remind" ELSE "renew") \in {"remind", "renew"}
    OBVIOUS
  <2> QED
    BY <1>1, <1>4, <2>1, LaterShape DEF FindReminder, Continue, tables, derived, TypeOK
<1>5. CASE CreateReminder(r)
  <2>1. arg[r].event \in EventIds
    BY <1>1 DEF Shape, Knows
  <2>2. reminder[arg[r].event] + 1 \in Nat
    BY <1>1, <2>1 DEF TypeOK
  <2>3. reminder' = [reminder EXCEPT ![arg[r].event] = reminder[arg[r].event] + 1]
    BY <1>5 DEF CreateReminder
  <2>4. reminder' \in [EventIds -> Nat]
    BY <1>1, <2>2, <2>3 DEF TypeOK
  <2> QED
    BY <1>1, <1>2, <1>5, <2>4, LaterShape DEF CreateReminder, TypeOK
<1>6. CASE UpdateReminder(r)
  <2>1. CASE Continue(r, ThenVisits(arg[r]), arg[r])
    BY <1>1, <1>2, <2>1, LaterShape DEF Continue, tables, derived, TypeOK
  <2>2. CASE Break(r)
    <3>1. torn \cup arg[r].uses \in SUBSET Resources
      BY <1>1 DEF TypeOK, Args
    <3> QED
      BY <1>1, <2>2, <3>1, EndShape DEF Break, tables, derived, TypeOK
  <2> QED
    BY <1>6, <2>1, <2>2 DEF UpdateReminder
<1> QED
  BY <1>3, <1>4, <1>5, <1>6

LEMMA VisitsShape ==
  ASSUME Shape, NEW r \in Requests, CountVisits(r) \/ WriteVisits(r)
  PROVE  Shape'
<1>1. TypeOK /\ arg[r] \in Args
  BY DEF Shape, TypeOK
<1>2. ThenVisits(arg[r]) \in {"count", "done"}
  BY <1>1, ThenType
<1>3. CASE CountVisits(r)
  <2>1. PICK s \in arg[r].todo :
          Continue(r, "visit", [arg[r] EXCEPT !.station = s, !.todo = @ \ {s},
                                              !.count = Cardinality(EventsAt(s))])
    BY <1>3 DEF CountVisits
  <2> DEFINE a == [arg[r] EXCEPT !.station = s, !.todo = @ \ {s},
                                 !.count = Cardinality(EventsAt(s))]
  <2>2. IsFiniteSet(EventsAt(s))
    BY ConstantsAssumption, FS_Subset DEF EventsAt
  <2>3. Cardinality(EventsAt(s)) \in Nat
    BY <2>2, FS_CardinalityType
  <2>4. a \in Args /\ a.uses = arg[r].uses /\ a.event = arg[r].event
    BY <1>1, <2>3 DEF Args
  <2>5. Continue(r, "visit", a)
    BY <2>1
  <2> HIDE DEF a
  <2> QED
    BY <1>1, <2>4, <2>5, LaterShape DEF Continue, tables, derived, TypeOK
<1>4. CASE WriteVisits(r)
  <2>1. visits' \in [Stations -> Nat]
    BY <1>1, <1>4 DEF WriteVisits, TypeOK, Args
  <2> QED
    BY <1>1, <1>2, <1>4, <2>1, LaterShape DEF WriteVisits, TypeOK
<1> QED
  BY <1>3, <1>4

LEMMA UpdateShape == ASSUME Shape, NEW r \in Requests, Update(r) PROVE Shape'
<1> DEFINE e == arg[r].event
           row == Patched(event[e], arg[r])
           step == IF arg[r].relog THEN "relog" ELSE ThenDocument(arg[r])
<1>1. /\ TypeOK /\ Knows(r) /\ arg[r] \in Args /\ pc[r] = "update" /\ pc[r] \in HasEvent
      /\ e \in EventIds /\ event[e].st # "free"
  BY DEF Shape, TypeOK, Update, Knows, HasEvent
<1>2. /\ event' = [event EXCEPT ![e] = row] /\ Goto(r, step, arg[r])
      /\ log' = log /\ reminder' = reminder /\ visits' = visits /\ odo' = odo /\ info' = info
  BY DEF Update, derived
<1>3. event[e] \in EventRow
  BY <1>1 DEF TypeOK, FreeEvent
<1>4. row \in EventRow /\ row.st # "free"
  BY <1>1, <1>3 DEF EventRow, Args, Patched
<1>5. /\ event' \in [EventIds -> EventRow \cup {FreeEvent}]
      /\ event'[e] = row /\ \A f \in EventIds \ {e} : event'[f] = event[f]
  BY <1>1, <1>2, <1>4 DEF TypeOK
<1>6. Grown /\ FreeRows'
  BY <1>1, <1>2, <1>4, <1>5 DEF Grown, FreeRows, Shape
<1>7. step \in {"relog", "raw", "count", "done"} /\ step \in Steps
  BY <1>1, ThenType DEF Steps
<1>8. Knows(r)'
  <2>1. CASE arg[r].relog
    <3>1. pc'[r] = "relog" /\ arg'[r] = arg[r]
      BY <1>1, <1>2, <1>7, <2>1, GotoType, KeptType
    <3> QED
      BY <1>1, <1>6, <2>1, <3>1 DEF Knows, Grown, HasEvent, HasMileage, ToOdometer
  <2>2. CASE ~arg[r].relog
    <3>1. step \in {"raw", "count", "done"}
      BY <1>1, <2>2, ThenType
    <3> HIDE DEF step
    <3> QED
      BY <1>1, <1>2, <1>6, <3>1, LaterKnows
  <2> QED
    BY <2>1, <2>2
<1> HIDE DEF step
<1> QED
  BY <1>1, <1>2, <1>5, <1>6, <1>7, <1>8, GoesOn DEF TypeOK

LEMMA RelogShape == ASSUME Shape, NEW r \in Requests, Relog(r) PROVE Shape'
<1>1. /\ TypeOK /\ Knows(r) /\ arg[r] \in Args /\ "max" \in Steps
      /\ pc[r] = "relog" /\ arg[r].mileage \in Nat /\ "odometer" \in arg[r].uses
      /\ arg[r].event \in EventIds /\ event[arg[r].event].st # "free"
  BY DEF Shape, TypeOK, Relog, Knows, HasMileage, HasEvent, ToOdometer, Steps, LogSteps
<1>2. /\ event' = event /\ reminder' = reminder /\ visits' = visits /\ odo' = odo
      /\ info' = info /\ Goto(r, "max", arg[r])
      /\ log' = [log EXCEPT ![arg[r].event] = IF @ = Null THEN Null ELSE arg[r].mileage]
  BY DEF Relog
<1>3. log' \in [EventIds -> Nat \cup {Null}] /\ Grown /\ FreeRows'
  BY <1>1, <1>2 DEF TypeOK, Shape, FreeRows, Grown
<1>4. pc'[r] = "max" /\ arg'[r] = arg[r]
  BY <1>1, <1>2, GotoType, KeptType
<1>5. Knows(r)'
  BY <1>1, <1>2, <1>4 DEF Knows, HasEvent, HasMileage, ToOdometer
<1> QED
  BY <1>1, <1>2, <1>3, <1>5, GoesOn DEF TypeOK

(* deleteEvent, as far as the rows of events stay as they are: a step of   *)
(* it before Join, or a failed one                                         *)
LEMMA DeletingShape ==
  ASSUME Shape, NEW r \in Requests, NEW a \in Args,
         NEW step \in LogSteps \cup {"forget"}, Goto(r, step, a),
         a.uses = arg[r].uses, a.event = arg[r].event, a.op = arg[r].op,
         a.mileage = arg[r].mileage,
         pc[r] \in LogSteps \cup {"raw.delete", "forget"},
         step \in {"forget", "unlog", "join"} => a.op = "delete",
         step = "max" => pc[r] = "max" \/ a.op = "delete",
         Grown, FreeRows', event' \in [EventIds -> EventRow \cup {FreeEvent}],
         log' \in [EventIds -> Nat \cup {Null}], reminder' \in [EventIds -> Nat],
         visits' = visits, odo' = odo, info' = info
  PROVE  Shape'
<1>1. /\ TypeOK /\ Knows(r) /\ step \in Steps /\ pc[r] \in HasEvent
      /\ "odometer" \in arg[r].uses
  BY DEF Shape, Steps, LogSteps, HasEvent, Knows, ToOdometer
<1>2. pc'[r] = step /\ arg'[r] = a
  BY <1>1, GotoType, KeptType DEF LogSteps
<1>3. Knows(r)'
  BY <1>1, <1>2 DEF Knows, Grown, HasEvent, HasMileage, LogSteps
<1> QED
  BY <1>1, <1>3, GoesOn DEF TypeOK

LEMMA BreakShape == ASSUME Shape, NEW r \in Requests, Break(r) PROVE Shape'
<1>1. torn \cup arg[r].uses \in SUBSET Resources
  BY DEF Shape, TypeOK, Args
<1> QED
  BY <1>1, EndShape DEF Break, tables, derived, Shape, TypeOK

LEMMA DeleteShape ==
  ASSUME Shape, NEW r \in Requests,
         ReadDeletedDocument(r) \/ Forget(r) \/ SoftDelete(r) \/ Unlog(r)
           \/ FailSoftDelete(r) \/ FailUnlog(r) \/ Join(r)
  PROVE  Shape'
<1> USE DEF LogSteps
<1>1. TypeOK /\ arg[r] \in Args /\ Knows(r) /\ FreeRows
  BY DEF Shape, TypeOK
<1>2. CASE ReadDeletedDocument(r)
  <2>1. (IF Live(arg[r].event) THEN "forget" ELSE "unlog") \in LogSteps \cup {"forget"}
    OBVIOUS
  <2>2. Grown /\ FreeRows'
    BY <1>1, <1>2 DEF ReadDeletedDocument, Continue, tables, derived, Grown, FreeRows
  <2>3. arg[r].op = "delete"
    BY <1>1, <1>2 DEF Knows, ReadDeletedDocument
  <2> QED
    BY <1>1, <1>2, <2>1, <2>2, <2>3, DeletingShape
    DEF ReadDeletedDocument, Continue, tables, derived, TypeOK
<1>3. CASE Forget(r)
  <2>1. reminder' \in [EventIds -> Nat] /\ Grown /\ FreeRows'
    BY <1>1, <1>3 DEF Forget, TypeOK, Grown, FreeRows
  <2>2. arg[r].op = "delete"
    BY <1>1, <1>3 DEF Knows, Forget
  <2> QED
    BY <1>1, <1>3, <2>1, <2>2, DeletingShape DEF Forget, TypeOK
<1>4. CASE SoftDelete(r)
  <2> DEFINE e == arg[r].event
             a == [arg[r] EXCEPT !.soft = FALSE]
             row == [event[e] EXCEPT !.st = "gone"]
  <2>1. /\ pc[r] \in LogSteps /\ event' = [event EXCEPT ![e] = row] /\ Goto(r, pc[r], a)
        /\ log' = log /\ reminder' = reminder /\ visits' = visits /\ odo' = odo /\ info' = info
    BY <1>4 DEF SoftDelete, derived
  <2>2. e \in EventIds /\ event[e].st # "free"
    BY <1>1, <2>1 DEF Knows, HasEvent
  <2>3. row \in EventRow /\ row.st = "gone"
    BY <1>1, <2>2 DEF TypeOK, EventRow, FreeEvent
  <2>4. event' \in [EventIds -> EventRow \cup {FreeEvent}] /\ Grown /\ FreeRows'
    BY <1>1, <2>1, <2>2, <2>3 DEF TypeOK, Grown, FreeRows
  <2>5. /\ a \in Args /\ a.uses = arg[r].uses /\ a.event = arg[r].event
        /\ a.op = arg[r].op /\ a.mileage = arg[r].mileage
    BY <1>1 DEF Args
  <2>6. pc[r] \in {"forget", "unlog", "join"} => a.op = "delete"
    BY <1>1, <2>5 DEF Knows
  <2> HIDE DEF a, row
  <2> QED
    BY <1>1, <2>1, <2>4, <2>5, <2>6, DeletingShape DEF TypeOK
<1>5. CASE Unlog(r)
  <2>1. /\ arg[r].op = "delete" /\ arg[r].event \in EventIds
        /\ event[arg[r].event].st # "free"
    BY <1>1, <1>5 DEF Knows, Unlog, HasEvent
  <2>2. log' \in [EventIds -> Nat \cup {Null}] /\ Grown /\ FreeRows'
    BY <1>1, <1>5, <2>1 DEF Unlog, TypeOK, Grown, FreeRows
  <2> QED
    BY <1>1, <1>5, <2>1, <2>2, DeletingShape DEF Unlog, TypeOK
<1>6. ASSUME NEW step \in LogSteps, NEW a \in Args, Continue(r, step, a), pc[r] \in LogSteps,
             a.uses = arg[r].uses, a.event = arg[r].event, a.op = arg[r].op,
             a.mileage = arg[r].mileage,
             step = pc[r] \/ (step = "join" /\ arg[r].op = "delete")
      PROVE  Shape'
  <2>1. /\ event' = event /\ log' = log /\ reminder' = reminder /\ visits' = visits
        /\ odo' = odo /\ info' = info /\ Goto(r, step, a)
    BY <1>6 DEF Continue, tables, derived
  <2>2. Grown /\ FreeRows'
    BY <1>1, <2>1 DEF Grown, FreeRows
  <2>3. /\ step \in {"forget", "unlog", "join"} => a.op = "delete"
        /\ step = "max" => pc[r] = "max"
    BY <1>1, <1>6 DEF Knows
  <2> QED
    BY <1>1, <1>6, <2>1, <2>2, <2>3, DeletingShape DEF TypeOK
<1>7. CASE FailSoftDelete(r)
  <2> DEFINE a == [arg[r] EXCEPT !.soft = FALSE, !.failed = TRUE]
  <2>1. /\ a \in Args /\ a.uses = arg[r].uses /\ a.event = arg[r].event
        /\ a.op = arg[r].op /\ a.mileage = arg[r].mileage
    BY <1>1 DEF Args
  <2>2. Continue(r, pc[r], a) /\ pc[r] \in LogSteps
    BY <1>7 DEF FailSoftDelete
  <2> HIDE DEF a
  <2> QED
    BY <1>6, <2>1, <2>2
<1>8. CASE FailUnlog(r)
  <2> DEFINE a == [arg[r] EXCEPT !.failed = TRUE]
  <2>1. /\ a \in Args /\ a.uses = arg[r].uses /\ a.event = arg[r].event
        /\ a.op = arg[r].op /\ a.mileage = arg[r].mileage
    BY <1>1 DEF Args
  <2>2. Continue(r, "join", a) /\ pc[r] \in LogSteps /\ arg[r].op = "delete"
    BY <1>8 DEF FailUnlog
  <2> HIDE DEF a
  <2> QED
    BY <1>6, <2>1, <2>2
<1>9. CASE Join(r)
  <2>1. CASE Break(r)
    BY <2>1, BreakShape
  <2>2. CASE Continue(r, ThenInfo(arg[r]), arg[r])
    <3>1. ThenInfo(arg[r]) \in {"info", "raw", "count", "done"}
      BY <1>1, ThenType
    <3>2. pc[r] \in HasEvent
      BY <1>9 DEF Join, HasEvent
    <3> QED
      BY <1>1, <2>2, <3>1, <3>2, LaterShape DEF Continue, tables, derived, TypeOK
  <2> QED
    BY <1>9, <2>1, <2>2 DEF Join
<1> QED
  BY <1>2, <1>3, <1>4, <1>5, <1>7, <1>8, <1>9

LEMMA ServiceShape ==
  ASSUME Shape, NEW r \in Requests, ServiceMax(r) \/ ServiceCommit(r)
  PROVE  Shape'
<1>1. /\ TypeOK /\ arg[r] \in Args /\ Knows(r) /\ FreeRows
      /\ arg[r].mileage \in Nat /\ "odometer" \in arg[r].uses
  BY DEF Shape, TypeOK, Knows, ServiceMax, ServiceCommit, HasMileage, ToOdometer
<1>2. CASE ServiceMax(r)
  <2>1. PICK m \in Logs \cup {arg[r].mileage} :
          Continue(r, "service.commit", [arg[r] EXCEPT !.max = m])
    BY <1>2 DEF ServiceMax
  <2>2. m \in Nat
    BY <1>1 DEF Logs, TypeOK
  <2> DEFINE a == [arg[r] EXCEPT !.max = m]
  <2>3. a \in Args /\ a.uses = arg[r].uses /\ a.mileage = arg[r].mileage
    BY <1>1, <2>2 DEF Args
  <2>4. "service.commit" \in Steps
    BY DEF Steps
  <2>5. pc'[r] = "service.commit" /\ arg'[r] = a /\ event' = event
    BY <1>1, <2>1, <2>3, <2>4, GotoType, KeptType DEF Continue, tables
  <2>6. Knows(r)'
    BY <1>1, <2>3, <2>5 DEF Knows, HasEvent, HasMileage, ToOdometer
  <2> QED
    BY <2>1, <2>3, <2>4, <2>6, ContinueShape
<1>3. CASE ServiceCommit(r)
  <2>1. PICK e \in EventIds :
          /\ event[e].st = "free"
          /\ event' = [event EXCEPT ![e] = NewRow(arg[r])]
          /\ log' = [log EXCEPT ![e] = arg[r].mileage]
    BY <1>3 DEF ServiceCommit
  <2>2. NewRow(arg[r]) \in EventRow /\ NewRow(arg[r]).st = "live"
    BY <1>1 DEF NewRow, EventRow, Args
  <2>3. /\ event' \in [EventIds -> EventRow \cup {FreeEvent}]
        /\ log' \in [EventIds -> Nat \cup {Null}] /\ Grown /\ FreeRows'
    BY <1>1, <2>1, <2>2 DEF TypeOK, Grown, FreeRows
  <2>4. /\ Goto(r, "done", arg[r]) /\ reminder' = reminder /\ visits' = visits
        /\ info' = info /\ odo' = arg[r].max
    BY <1>3 DEF ServiceCommit
  <2>5. odo' \in Nat /\ "done" \in Steps
    BY <1>1, <2>4 DEF Args, Steps
  <2>6. Knows(r)'
    BY <1>1, <2>3, <2>4, LaterKnows
  <2> QED
    BY <1>1, <2>3, <2>4, <2>5, <2>6, GoesOn DEF TypeOK
<1> QED
  BY <1>2, <1>3

LEMMA ReplyShape ==
  ASSUME Shape, NEW r \in Requests, PatchVehicle(r) \/ Reply(r) \/ Fail(r)
  PROVE  Shape'
<1>1. TypeOK /\ arg[r] \in Args /\ Knows(r)
  BY DEF Shape, TypeOK
<1>2. CASE PatchVehicle(r)
  <2>1. torn \cup {"odometer"} \in SUBSET Resources /\ odo' \in Nat
    BY <1>1, <1>2 DEF TypeOK, Resources, PatchVehicle, Knows, HasMileage
  <2> QED
    BY <1>2, <2>1, EndShape DEF PatchVehicle
<1>3. CASE Reply(r)
  <2>1. (IF crossed THEN torn ELSE torn \ Recomputed(r)) \in SUBSET Resources
    BY <1>1 DEF TypeOK
  <2> QED
    BY <1>1, <1>3, <2>1, EndShape DEF Reply, tables, derived, TypeOK
<1>4. CASE Fail(r)
  <2>1. CASE End(r, torn) /\ UNCHANGED tables
    <3>1. torn \in SUBSET Resources
      BY <1>1 DEF TypeOK
    <3> QED
      BY <1>1, <2>1, <3>1, EndShape DEF tables, derived, TypeOK
  <2> QED
    BY <1>4, <2>1, BreakShape DEF Fail
<1> QED
  BY <1>2, <1>3, <1>4

LEMMA DeleteReminderShape ==
  ASSUME Shape, NEW e \in EventIds, DeleteReminder(e) PROVE Shape'
<1>1. /\ event' = event /\ log' = log /\ visits' = visits /\ odo' = odo /\ info' = info
      /\ pc' = pc /\ arg' = arg /\ crossed' = crossed /\ torn' = torn \cup {e}
      /\ reminder' = [reminder EXCEPT ![e] = @ - 1] /\ reminder[e] > 0
  BY DEF DeleteReminder
<1>2. TypeOK'
  BY <1>1 DEF Shape, TypeOK, Resources
<1>3. (\A r \in Requests : Knows(r)') /\ FreeRows' /\ Apart'
  BY <1>1 DEF Shape, Knows, FreeRows, Apart
<1> QED
  BY <1>2, <1>3 DEF Shape

LEMMA ArriveShape == ASSUME Shape, NEW r \in Requests, Arrive(r) PROVE Shape'
<1>1. ASSUME NEW step \in Steps, NEW a \in Args, Opened(r, step, a),
             step \in HasEvent => a.event \in EventIds /\ event[a.event].st # "free",
             step \in HasMileage \/ (step = "update" /\ a.relog) => a.mileage \in Nat,
             step \in ToOdometer \/ (step = "update" /\ a.relog) => "odometer" \in a.uses,
             step \notin {"idle", "max", "forget", "join"},
             step \in {"raw.delete", "unlog"} => a.op = "delete",
             \A e \in EventIds \cap a.uses : event[e].st # "free"
      PROVE  Shape'
  <2>1. pc'[r] = step /\ arg'[r] = a /\ event' = event
    BY <1>1 DEF Opened, Shape, TypeOK, tables
  <2>2. /\ pc'[r] \in HasEvent => /\ arg'[r].event \in EventIds
                                  /\ event'[arg'[r].event].st # "free"
        /\ \A e \in EventIds \cap arg'[r].uses : event'[e].st # "free"
    BY <1>1, <2>1
  <2>3. /\ pc'[r] \in HasMileage => arg'[r].mileage \in Nat
        /\ pc'[r] \in ToOdometer => "odometer" \in arg'[r].uses
        /\ pc'[r] = "update" /\ arg'[r].relog
             => "odometer" \in arg'[r].uses /\ arg'[r].mileage \in Nat
        /\ pc'[r] \notin {"idle", "max", "forget", "join"}
        /\ pc'[r] \in {"raw.delete", "unlog"} => arg'[r].op = "delete"
    BY <1>1, <2>1
  <2>4. Knows(r)'
    BY <2>2, <2>3 DEF Knows
  <2> QED
    BY <1>1, <2>4, OpenedShape
<1>2. NoArgs \in Args /\ NoArgs.uses = {}
  BY NoArgsType
<1>3. TypeOK /\ Mileages \subseteq Nat /\ Types \subseteq TimelineType
  BY ConstantsAssumption DEF Shape
<1>4. ASSUME NEW t \in Types, NEW m \in Mileages, NEW s \in Stations \cup {Null},
             OpenCreate(r, t, m, s)
      PROVE  Shape'
  <2> DEFINE a == [NoArgs EXCEPT
                     !.op = "create", !.type = t, !.at = s, !.mileage = m,
                     !.todo = {s} \ {Null},
                     !.uses = ({s} \ {Null}) \cup {"odometer"} \cup (InfoTypes \cap {t})]
  <2>1. Opened(r, "insert", a)
    BY <1>4 DEF OpenCreate
  <2>2. /\ a \in Args /\ a.mileage \in Nat
        /\ a.uses = ({s} \ {Null}) \cup {"odometer"} \cup (InfoTypes \cap {t})
    BY <1>2, <1>3 DEF Args, Ops, Resources, NoArgs
  <2>3. EventIds \cap a.uses = {}
    BY <2>2, ConstantsAssumption
  <2>4. "insert" \in Steps
    BY DEF Steps
  <2> HIDE DEF a
  <2> QED
    BY <1>1, <2>1, <2>2, <2>3, <2>4 DEF HasEvent
<1>5. ASSUME NEW e \in EventIds, NEW m \in Mileages \cup {Null}, NEW s \in Stations \cup {Null},
             OpenUpdate(r, e, m, s)
      PROVE  Shape'
  <2> DEFINE at == {event[e].at, s} \ {Null}
             a == Updating(e, m, s, at)
  <2>1. Opened(r, "update", a) /\ event[e].st = "live"
    BY <1>5 DEF OpenUpdate, Live
  <2>2. at \subseteq Stations /\ event[e].type \in TimelineType
    BY <1>3, <2>1 DEF TypeOK, EventRow, FreeEvent
  <2> HIDE DEF at
  <2>3. /\ a \in Args /\ a.event = e /\ (a.relog => a.mileage \in Nat)
        /\ a.uses = at \cup {e} \cup (IF a.relog THEN {"odometer"} ELSE {})
    BY <2>2, UpdatingType
  <2>4. \A f \in EventIds \cap a.uses : f = e
    BY <2>2, <2>3, ConstantsAssumption
  <2>5. "update" \in Steps
    BY DEF Steps
  <2> HIDE DEF a, at
  <2> QED
    BY <1>1, <2>1, <2>3, <2>4, <2>5 DEF HasMileage, ToOdometer
<1>6. ASSUME NEW e \in EventIds, OpenDelete(r, e)
      PROVE  Shape'
  <2> DEFINE at == {event[e].at} \ {Null}
             type == event[e].type
             step == IF type = "DOCUMENT" THEN "raw.delete" ELSE "unlog"
             a == [NoArgs EXCEPT !.op = "delete", !.event = e, !.type = type, !.todo = at,
                     !.soft = TRUE, !.uses = at \cup {e, "odometer"}
                       \cup (InfoTypes \cap {type})]
  <2>1. Opened(r, step, a) /\ event[e].st = "live"
    BY <1>6 DEF OpenDelete, Live
  <2>2. at \subseteq Stations /\ type \in TimelineType
    BY <1>3, <2>1 DEF TypeOK, EventRow, FreeEvent
  <2>3. /\ a \in Args /\ a.event = e /\ a.op = "delete" /\ ~a.relog
        /\ a.uses = at \cup {e, "odometer"} \cup (InfoTypes \cap {type})
    BY <1>2, <2>2 DEF Args, Ops, Resources, NoArgs
  <2>4. \A f \in EventIds \cap a.uses : f = e
    BY <2>2, <2>3, ConstantsAssumption
  <2>5. step \in Steps /\ step \in {"raw.delete", "unlog"}
    BY DEF Steps, LogSteps
  <2> HIDE DEF a, at, type, step
  <2> QED
    BY <1>1, <2>1, <2>3, <2>4, <2>5 DEF HasMileage, ToOdometer
<1>7. ASSUME NEW m \in Mileages, OpenService(r, m) \/ OpenPatch(r, m)
      PROVE  Shape'
  <2> DEFINE service == [NoArgs EXCEPT !.op = "service", !.mileage = m, !.uses = {"odometer"}]
             patch == [NoArgs EXCEPT !.op = "patch", !.mileage = m, !.uses = {"odometer"}]
  <2>1. Opened(r, "service.max", service) \/ Opened(r, "patch", patch)
    BY <1>7 DEF OpenService, OpenPatch
  <2>2. /\ service \in Args /\ service.mileage \in Nat /\ service.uses = {"odometer"}
        /\ patch \in Args /\ patch.mileage \in Nat /\ patch.uses = {"odometer"}
    BY <1>2, <1>3 DEF Args, Ops, Resources, NoArgs
  <2>3. "odometer" \notin EventIds
    BY ConstantsAssumption
  <2>4. "service.max" \in Steps /\ "patch" \in Steps
    BY DEF Steps
  <2> HIDE DEF service, patch
  <2> QED
    BY <1>1, <2>1, <2>2, <2>3, <2>4 DEF HasEvent
<1> QED
  BY <1>4, <1>5, <1>6, <1>7 DEF Arrive

-----------------------------------------------------------------------------
LEMMA StepShape == ASSUME Shape, [Next]_vars PROVE Shape'
<1>1. ASSUME NEW r \in Requests, Step(r) PROVE Shape'
  BY <1>1, InsertShape, InsertLogShape, ReadMaxShape, WriteOdoShape, SyncInfoShape,
     DocumentShape, VisitsShape, UpdateShape, RelogShape, DeleteShape, ServiceShape,
     ReplyShape DEF Step
<1>2. CASE Next
  BY <1>1, <1>2, ArriveShape, DeleteShape, ReplyShape, DeleteReminderShape DEF Next
<1>3. CASE UNCHANGED vars
  BY <1>3 DEF vars, Shape, TypeOK, Knows, FreeRows, Apart
<1> QED
  BY <1>2, <1>3

(* Every reachable state of the timeline is well typed: a mileage that is  *)
(* not there is never written, and a deleted event never becomes a new one. *)
THEOREM TypeCorrect == Spec => []TypeOK
<1>1. Shape => TypeOK
  BY DEF Shape
<1> QED
  BY <1>1, InitShape, StepShape, PTL DEF Spec

-----------------------------------------------------------------------------
(* The odometer *)

InStep == Logs # {} => Largest(odo, Logs)

(* r uses x, and has not met another request there. *)
Owns(r, x) == x \in arg[r].uses /\ (~crossed \/ x \notin torn)

(* Steps after the odometer was written *)
Late == {"info", "raw", "find", "remind", "renew", "count", "visit", "done", "join"}

OdometerAt(r) ==
  Owns(r, "odometer") =>
    /\ pc[r] = "odo" => (Logs # {} => Largest(arg[r].max, Logs))
    /\ pc[r] = "service.commit" => Largest(arg[r].max, Logs \cup {arg[r].mileage})
    /\ pc[r] \in {"service.max", "service.commit"} /\ "odometer" \notin torn => InStep
    /\ pc[r] = "update" => arg[r].relog
    /\ pc[r] \in Late => (pc[r] = "join" /\ arg[r].failed) \/ InStep

OInv == Shape /\ OdometerInStep /\ \A r \in Requests : OdometerAt(r)

LEMMA InitOInv == Init => OInv
<1> SUFFICES ASSUME Init PROVE OInv
  OBVIOUS
<1>1. Shape
  BY InitShape
<1>2. Logs = {}
  BY DEF Init, Logs
<1> QED
  BY <1>1, <1>2, NoArgsType DEF OInv, OdometerInStep, OdometerAt, Owns, Init

(* What the other requests know of the odometer stays true. *)
LEMMA OthersOdometer ==
  ASSUME OInv, Shape', NEW r \in Requests,
         \A q \in Requests \ {r} : pc'[q] = pc[q] /\ arg'[q] = arg[q],
         crossed => crossed' \/ \A q \in Requests \ {r} : pc[q] = "idle",
         "odometer" \in torn \ torn' => "odometer" \in arg[r].uses /\ ~crossed,
         "odometer" \notin arg[r].uses => Logs' = Logs /\ odo' = odo,
         OdometerAt(r)', OdometerInStep'
  PROVE  OInv'
<1> SUFFICES ASSUME NEW q \in Requests, q # r PROVE OdometerAt(q)'
  BY DEF OInv
<1> SUFFICES ASSUME Owns(q, "odometer")' PROVE OdometerAt(q)'
  BY DEF OdometerAt
<1>1. pc'[q] = pc[q] /\ arg'[q] = arg[q] /\ "odometer" \in arg[q].uses
  BY DEF Owns
<1>2. pc[q] # "idle"
  BY <1>1, NoArgsType DEF OInv, Shape, Knows
<1>3. "odometer" \in arg[r].uses => crossed /\ "odometer" \in torn
  BY <1>1 DEF OInv, Shape, Apart
<1>4. Owns(q, "odometer") /\ "odometer" \notin arg[r].uses
  BY <1>1, <1>2, <1>3 DEF Owns
<1>5. Logs' = Logs /\ odo' = odo /\ ("odometer" \notin torn' => "odometer" \notin torn)
  BY <1>4
<1>6. OdometerAt(q)
  BY DEF OInv
<1>7. InStep' <=> InStep
  BY <1>5 DEF InStep, Largest
<1> QED
  BY <1>1, <1>4, <1>5, <1>6, <1>7 DEF OdometerAt, Largest

LEMMA GoesOnOdometer ==
  ASSUME OInv, Shape', NEW r \in Requests, NEW step \in Steps, NEW a \in Args,
         Goto(r, step, a), "odometer" \in a.uses <=> "odometer" \in arg[r].uses,
         "odometer" \notin arg[r].uses => Logs' = Logs /\ odo' = odo,
         Owns(r, "odometer") => OdometerAt(r)'
  PROVE  OInv'
<1>1. TypeOK
  BY DEF OInv, Shape
<1>2. /\ \A q \in Requests \ {r} : pc'[q] = pc[q] /\ arg'[q] = arg[q]
      /\ crossed' = crossed /\ torn' = torn /\ arg'[r].uses = a.uses
  BY <1>1, GotoType
<1>3. OdometerAt(r)'
  BY <1>2 DEF OdometerAt, Owns
<1>4. OdometerInStep'
  <2> SUFFICES ASSUME Settled("odometer")', Logs' # {} PROVE Largest(odo, Logs)'
    BY DEF OdometerInStep
  <2>1. "odometer" \notin arg[r].uses /\ Settled("odometer")
    BY <1>2 DEF Settled
  <2>2. Logs' = Logs /\ odo' = odo
    BY <2>1
  <2> QED
    BY <2>1, <2>2 DEF OInv, OdometerInStep, Largest
<1> QED
  BY <1>2, <1>3, <1>4, OthersOdometer

LEMMA EndOdometer ==
  ASSUME OInv, Shape', NEW r \in Requests, NEW left, End(r, left),
         "odometer" \in torn \ left => "odometer" \in arg[r].uses /\ ~crossed,
         "odometer" \notin arg[r].uses => log' = log /\ odo' = odo,
         "odometer" \in arg[r].uses /\ "odometer" \notin left
            => InStep /\ log' = log /\ odo' = odo
  PROVE  OInv'
<1>1. TypeOK
  BY DEF OInv, Shape
<1>2. /\ pc'[r] = "idle" /\ arg'[r] = NoArgs /\ torn' = left
      /\ \A q \in Requests \ {r} : pc'[q] = pc[q] /\ arg'[q] = arg[q]
  BY <1>1, EndType
<1>3. crossed => crossed' \/ \A q \in Requests \ {r} : pc[q] = "idle"
  BY DEF End
<1>4. OdometerAt(r)'
  BY <1>2, NoArgsType DEF OdometerAt, Owns
<1>5. OdometerInStep'
  <2> SUFFICES ASSUME Settled("odometer")', Logs' # {} PROVE Largest(odo, Logs)'
    BY DEF OdometerInStep
  <2>1. "odometer" \notin left /\ \A q \in Requests \ {r} : "odometer" \notin arg[q].uses
    BY <1>2 DEF Settled
  <2>2. log' = log /\ odo' = odo
    BY <2>1
  <2>3. Logs' = Logs
    BY <2>2 DEF Logs
  <2>4. CASE "odometer" \in arg[r].uses
    BY <2>1, <2>2, <2>3, <2>4 DEF InStep, Largest
  <2>5. CASE "odometer" \notin arg[r].uses
    <3>1. Settled("odometer")
      BY <2>1, <2>5 DEF Settled
    <3> QED
      BY <2>2, <2>3, <3>1 DEF OInv, OdometerInStep, Largest
  <2> QED
    BY <2>4, <2>5
<1>6. "odometer" \notin arg[r].uses => Logs' = Logs /\ odo' = odo
  BY DEF Logs
<1> QED
  BY <1>2, <1>3, <1>4, <1>5, <1>6, OthersOdometer

LEMMA OpenedOdometer ==
  ASSUME OInv, Shape', NEW r \in Requests, NEW step \in Steps, NEW a \in Args,
         Opened(r, step, a), step \notin Late \cup {"odo", "service.commit"},
         step = "update" /\ "odometer" \in a.uses => a.relog
  PROVE  OInv'
<1>1. /\ TypeOK /\ pc[r] = "idle" /\ arg[r] = NoArgs
      /\ log' = log /\ odo' = odo /\ Logs' = Logs
  BY DEF OInv, Shape, Knows, Opened, tables, derived, Logs
<1>2. /\ pc'[r] = step /\ arg'[r] = a /\ torn \subseteq torn' /\ (crossed => crossed')
      /\ \A q \in Requests \ {r} : pc'[q] = pc[q] /\ arg'[q] = arg[q]
  BY <1>1 DEF Opened, TypeOK
<1>3. InStep' <=> InStep
  BY <1>1 DEF InStep, Largest
<1>4. ASSUME "odometer" \notin torn', "odometer" \in a.uses PROVE Settled("odometer")
  <2> SUFFICES ASSUME NEW q \in Requests, "odometer" \in arg[q].uses PROVE FALSE
    BY <1>2, <1>4 DEF Settled
  <2>1. pc[q] # "idle"
    BY NoArgsType DEF OInv, Shape, Knows
  <2>2. q \in Rivals(a)
    BY <1>4, <2>1 DEF Rivals
  <2> QED
    BY <1>4, <2>2 DEF Opened
<1>5. Settled("odometer") => InStep
  BY DEF OInv, OdometerInStep, InStep
<1>6. OdometerAt(r)'
  BY <1>2, <1>3, <1>4, <1>5 DEF OdometerAt, Owns
<1>7. OdometerInStep'
  <2> SUFFICES ASSUME Settled("odometer")' PROVE InStep'
    BY DEF OdometerInStep, InStep
  <2>1. Settled("odometer")
    BY <1>1, <1>2, NoArgsType DEF Settled
  <2> QED
    BY <1>3, <1>5, <2>1
<1> QED
  BY <1>1, <1>2, <1>6, <1>7, OthersOdometer

(* A step to where nothing is claimed, by a request that uses the odometer *)
LEMMA ToOdometerStep ==
  ASSUME OInv, Shape', NEW r \in Requests, NEW a \in Args,
         NEW step \in {"log", "max", "relog", "forget", "unlog"}, Goto(r, step, a),
         "odometer" \in arg[r].uses, "odometer" \in a.uses
  PROVE  OInv'
<1>1. step \in Steps /\ TypeOK
  BY DEF Steps, LogSteps, OInv, Shape
<1>2. pc'[r] = step
  BY <1>1, GotoType
<1>3. OdometerAt(r)'
  BY <1>2 DEF OdometerAt, Late
<1> QED
  BY <1>1, <1>3, GoesOnOdometer

(* A step after which the odometer is in step, if no other request was met *)
LEMMA LateStep ==
  ASSUME OInv, Shape', NEW r \in Requests, NEW a \in Args,
         NEW step \in Late, Goto(r, step, a), a.uses = arg[r].uses,
         "odometer" \notin arg[r].uses => Logs' = Logs /\ odo' = odo,
         Owns(r, "odometer") => InStep' \/ (step = "join" /\ a.failed)
  PROVE  OInv'
<1>1. step \in Steps /\ TypeOK
  BY DEF Late, Steps, LogSteps, OInv, Shape
<1>2. pc'[r] = step /\ (step = "join" => arg'[r] = a)
  BY <1>1, GotoType, KeptType
<1>3. Owns(r, "odometer") => OdometerAt(r)'
  BY <1>2 DEF OdometerAt, Late
<1> QED
  BY <1>1, <1>3, GoesOnOdometer

(* Among those, a step that leaves logs and odometer alone *)
LEMMA LateQuiet ==
  ASSUME OInv, Shape', NEW r \in Requests, NEW a \in Args,
         NEW step \in Late \ {"join"}, Goto(r, step, a), a.uses = arg[r].uses,
         pc[r] \in Late, pc[r] = "join" => ~arg[r].failed, log' = log, odo' = odo
  PROVE  OInv'
<1>1. Logs' = Logs
  BY DEF Logs
<1>2. Owns(r, "odometer") => InStep
  BY DEF OInv, OdometerAt
<1>3. Owns(r, "odometer") => InStep'
  BY <1>1, <1>2 DEF InStep, Largest
<1> QED
  BY <1>1, <1>3, LateStep

LEMMA BreakOdometer == ASSUME OInv, NEW r \in Requests, Break(r), Shape' PROVE OInv'
BY EndOdometer DEF Break, tables, derived

LEMMA LogOdometer ==
  ASSUME OInv, Shape', NEW r \in Requests, Insert(r) \/ InsertLog(r) \/ Relog(r) \/ Unlog(r)
  PROVE  OInv'
<1>1. /\ TypeOK /\ arg[r] \in Args /\ "odometer" \in arg[r].uses
  BY DEF OInv, Shape, TypeOK, Knows, ToOdometer, Insert, InsertLog, Relog, Unlog
<1>2. CASE Insert(r)
  <2>1. PICK e \in EventIds : Goto(r, "log", [arg[r] EXCEPT !.event = e, !.uses = @ \cup {e}])
    BY <1>2 DEF Insert
  <2> DEFINE a == [arg[r] EXCEPT !.event = e, !.uses = @ \cup {e}]
  <2>2. a \in Args /\ "odometer" \in a.uses
    BY <1>1 DEF Args, Resources
  <2> QED
    BY <1>1, <2>1, <2>2, ToOdometerStep
<1>3. CASE InsertLog(r)
  BY <1>1, <1>3, ToOdometerStep DEF InsertLog
<1>4. CASE Relog(r)
  BY <1>1, <1>4, ToOdometerStep DEF Relog
<1>5. CASE Unlog(r)
  BY <1>1, <1>5, ToOdometerStep DEF Unlog
<1> QED
  BY <1>2, <1>3, <1>4, <1>5

LEMMA ReadMaxOdometer ==
  ASSUME OInv, Shape', NEW r \in Requests, ReadMax(r) PROVE OInv'
<1>1. TypeOK /\ arg[r] \in Args /\ "odometer" \in arg[r].uses /\ "odo" \in Steps
  BY DEF OInv, Shape, TypeOK, Knows, ToOdometer, ReadMax, Steps, LogSteps
<1>2. log' = log /\ odo' = odo /\ Logs' = Logs
  BY DEF ReadMax, Continue, tables, derived, Logs
<1>3. ASSUME NEW m \in Nat, Logs # {} => Largest(m, Logs),
             Goto(r, "odo", [arg[r] EXCEPT !.max = m])
      PROVE  OInv'
  <2> DEFINE a == [arg[r] EXCEPT !.max = m]
  <2>1. a \in Args /\ a.uses = arg[r].uses /\ a.max = m
    BY <1>1 DEF Args
  <2>2. pc'[r] = "odo" /\ arg'[r] = a
    BY <1>1, <1>3, <2>1, GotoType, KeptType
  <2>3. OdometerAt(r)'
    BY <1>2, <1>3, <2>1, <2>2 DEF OdometerAt, Late, Largest
  <2> QED
    BY <1>1, <1>2, <1>3, <2>1, <2>3, GoesOnOdometer
<1>4. ASSUME Logs = {}, Goto(r, ThenDocument(arg[r]), arg[r]) PROVE OInv'
  <2>1. ThenDocument(arg[r]) \in Late
    BY <1>1, ThenType DEF Late
  <2> QED
    BY <1>1, <1>2, <1>4, <2>1, LateStep DEF InStep
<1>5. Logs \subseteq Nat
  BY <1>1 DEF Logs, TypeOK
<1>6. pc[r] = "max" /\ (arg[r].op # "update" => IfNoLog(arg[r]) \in Nat)
  BY DEF OInv, Shape, Knows, IfNoLog, ReadMax
<1>7. CASE \E m \in Logs : Largest(m, Logs) /\ Continue(r, "odo", [arg[r] EXCEPT !.max = m])
  BY <1>3, <1>5, <1>7 DEF Continue
<1>8. CASE Logs = {} /\ arg[r].op = "update" /\ Continue(r, ThenDocument(arg[r]), arg[r])
  BY <1>4, <1>8 DEF Continue
<1>9. CASE /\ Logs = {} /\ arg[r].op # "update"
           /\ Continue(r, "odo", [arg[r] EXCEPT !.max = IfNoLog(arg[r])])
  BY <1>3, <1>6, <1>9 DEF Continue
<1> QED
  BY <1>7, <1>8, <1>9 DEF ReadMax

LEMMA WriteOdoOdometer ==
  ASSUME OInv, Shape', NEW r \in Requests, WriteOdo(r) PROVE OInv'
<1> DEFINE step == IF arg[r].op = "delete" THEN "join" ELSE ThenInfo(arg[r])
<1>1. TypeOK /\ arg[r] \in Args /\ "odometer" \in arg[r].uses /\ pc[r] = "odo"
  BY DEF OInv, Shape, TypeOK, Knows, ToOdometer, WriteOdo
<1>2. Logs' = Logs /\ odo' = arg[r].max /\ Goto(r, step, arg[r])
  BY DEF WriteOdo, Logs
<1>3. step \in Late
  BY <1>1, ThenType DEF Late
<1>4. Owns(r, "odometer") => InStep'
  BY <1>1, <1>2 DEF OInv, OdometerAt, InStep, Largest
<1> HIDE DEF step
<1> QED
  BY <1>1, <1>2, <1>3, <1>4, LateStep

LEMMA LateOdometer ==
  ASSUME OInv, Shape', NEW r \in Requests,
         SyncInfo(r) \/ ReadDocument(r) \/ FindReminder(r) \/ CreateReminder(r)
           \/ UpdateReminder(r) \/ CountVisits(r) \/ WriteVisits(r) \/ Join(r)
  PROVE  OInv'
<1>1. TypeOK /\ arg[r] \in Args
  BY DEF OInv, Shape, TypeOK
<1>2. /\ ThenVisits(arg[r]) \in Late \ {"join"}
      /\ ThenDocument(arg[r]) \in Late \ {"join"}
      /\ ThenInfo(arg[r]) \in Late \ {"join"}
      /\ {"find", "remind", "renew", "visit"} \subseteq Late \ {"join"}
  BY <1>1, ThenType DEF Late
<1>3. pc[r] \in Late
  BY DEF Late, SyncInfo, ReadDocument, FindReminder, CreateReminder, UpdateReminder,
         CountVisits, WriteVisits, Join
<1>4. ASSUME NEW step \in Late \ {"join"}, NEW a \in Args, Goto(r, step, a),
             a.uses = arg[r].uses, pc[r] = "join" => ~arg[r].failed, log' = log, odo' = odo
      PROVE  OInv'
  BY <1>3, <1>4, LateQuiet
<1>5. CASE SyncInfo(r)
  BY <1>1, <1>2, <1>4, <1>5 DEF SyncInfo
<1>6. CASE ReadDocument(r)
  <2>1. (IF Live(arg[r].event) THEN "find" ELSE ThenVisits(arg[r])) \in Late \ {"join"}
    BY <1>2
  <2> QED
    BY <1>1, <1>4, <1>6, <2>1 DEF ReadDocument, Continue, tables, derived
<1>7. CASE FindReminder(r)
  <2>1. (IF reminder[arg[r].event] = 0 THEN "remind" ELSE "renew") \in Late \ {"join"}
    BY <1>2
  <2> QED
    BY <1>1, <1>4, <1>7, <2>1 DEF FindReminder, Continue, tables, derived
<1>8. CASE CreateReminder(r)
  BY <1>1, <1>2, <1>4, <1>8 DEF CreateReminder
<1>9. CASE UpdateReminder(r)
  BY <1>1, <1>2, <1>4, <1>9, BreakOdometer DEF UpdateReminder, Continue, tables, derived
<1>10. CASE CountVisits(r)
  <2>1. PICK s \in arg[r].todo :
          Continue(r, "visit", [arg[r] EXCEPT !.station = s, !.todo = @ \ {s},
                                              !.count = Cardinality(EventsAt(s))])
    BY <1>10 DEF CountVisits
  <2> DEFINE a == [arg[r] EXCEPT !.station = s, !.todo = @ \ {s},
                                 !.count = Cardinality(EventsAt(s))]
  <2>2. IsFiniteSet(EventsAt(s))
    BY ConstantsAssumption, FS_Subset DEF EventsAt
  <2>3. Cardinality(EventsAt(s)) \in Nat
    BY <2>2, FS_CardinalityType
  <2>4. a \in Args /\ a.uses = arg[r].uses
    BY <1>1, <2>3 DEF Args
  <2>5. Continue(r, "visit", a) /\ pc[r] = "count"
    BY <1>10, <2>1 DEF CountVisits
  <2> HIDE DEF a
  <2> QED
    BY <1>2, <1>4, <2>4, <2>5 DEF Continue, tables, derived
<1>11. CASE WriteVisits(r)
  BY <1>1, <1>2, <1>4, <1>11 DEF WriteVisits
<1>12. CASE Join(r)
  BY <1>1, <1>2, <1>4, <1>12, BreakOdometer DEF Join, Continue, tables, derived
<1> QED
  BY <1>5, <1>6, <1>7, <1>8, <1>9, <1>10, <1>11, <1>12

LEMMA UpdateOdometer ==
  ASSUME OInv, Shape', NEW r \in Requests, Update(r) PROVE OInv'
<1>1. TypeOK /\ arg[r] \in Args /\ pc[r] = "update" /\ Knows(r) /\ OdometerAt(r)
  BY DEF OInv, Shape, TypeOK, Update
<1>2. log' = log /\ odo' = odo /\ Logs' = Logs
  BY DEF Update, derived, Logs
<1>3. CASE arg[r].relog
  <2>1. "odometer" \in arg[r].uses /\ Goto(r, "relog", arg[r])
    BY <1>1, <1>3 DEF Knows, Update
  <2> QED
    BY <1>1, <2>1, ToOdometerStep
<1>4. CASE ~arg[r].relog
  <2>1. ~Owns(r, "odometer")
    BY <1>1, <1>4 DEF OdometerAt
  <2>2. ThenDocument(arg[r]) \in Late /\ Goto(r, ThenDocument(arg[r]), arg[r])
    BY <1>1, <1>4, ThenType DEF Late, Update
  <2> QED
    BY <1>1, <1>2, <2>1, <2>2, LateStep
<1> QED
  BY <1>3, <1>4

LEMMA DeleteOdometer ==
  ASSUME OInv, Shape', NEW r \in Requests,
         ReadDeletedDocument(r) \/ Forget(r) \/ SoftDelete(r) \/ FailSoftDelete(r)
           \/ FailUnlog(r)
  PROVE  OInv'
<1>1. TypeOK /\ arg[r] \in Args /\ pc[r] \in Steps /\ Knows(r) /\ OdometerAt(r)
  BY DEF OInv, Shape, TypeOK
<1>2. log' = log /\ odo' = odo /\ Logs' = Logs
  BY DEF ReadDeletedDocument, Forget, SoftDelete, FailSoftDelete, FailUnlog, Continue,
         tables, derived, Logs
<1>3. CASE ReadDeletedDocument(r)
  <2>1. "odometer" \in arg[r].uses
    BY <1>1, <1>3 DEF Knows, ToOdometer, ReadDeletedDocument
  <2>2. Goto(r, "forget", arg[r]) \/ Goto(r, "unlog", arg[r])
    BY <1>3 DEF ReadDeletedDocument, Continue
  <2> QED
    BY <1>1, <2>1, <2>2, ToOdometerStep
<1>4. CASE Forget(r)
  <2>1. "odometer" \in arg[r].uses /\ Goto(r, "unlog", arg[r])
    BY <1>1, <1>4 DEF Knows, ToOdometer, Forget
  <2> QED
    BY <1>1, <2>1, ToOdometerStep
<1>5. ASSUME NEW a \in Args, Goto(r, pc[r], a), pc[r] \in LogSteps, a.uses = arg[r].uses,
             a.max = arg[r].max, arg[r].failed => a.failed
      PROVE  OInv'
  <2>1. pc'[r] = pc[r] /\ arg'[r] = a /\ torn' = torn /\ crossed' = crossed
    BY <1>1, <1>5, GotoType, KeptType DEF LogSteps
  <2>2. InStep' <=> InStep
    BY <1>2 DEF InStep, Largest
  <2>3. OdometerAt(r)'
    BY <1>1, <1>2, <1>5, <2>1, <2>2 DEF OdometerAt, Owns, LogSteps, Late, Largest
  <2> QED
    BY <1>1, <1>2, <1>5, <2>3, GoesOnOdometer
<1>6. CASE SoftDelete(r)
  <2> DEFINE a == [arg[r] EXCEPT !.soft = FALSE]
  <2>1. a \in Args /\ a.uses = arg[r].uses /\ a.max = arg[r].max /\ a.failed = arg[r].failed
    BY <1>1 DEF Args
  <2>2. Goto(r, pc[r], a) /\ pc[r] \in LogSteps
    BY <1>6 DEF SoftDelete
  <2> HIDE DEF a
  <2> QED
    BY <1>5, <2>1, <2>2
<1>7. CASE FailSoftDelete(r)
  <2> DEFINE a == [arg[r] EXCEPT !.soft = FALSE, !.failed = TRUE]
  <2>1. a \in Args /\ a.uses = arg[r].uses /\ a.max = arg[r].max /\ a.failed
    BY <1>1 DEF Args
  <2>2. Goto(r, pc[r], a) /\ pc[r] \in LogSteps
    BY <1>7 DEF FailSoftDelete, Continue
  <2> HIDE DEF a
  <2> QED
    BY <1>5, <2>1, <2>2
<1>8. CASE FailUnlog(r)
  <2> DEFINE a == [arg[r] EXCEPT !.failed = TRUE]
  <2>1. a \in Args /\ a.uses = arg[r].uses /\ a.failed
    BY <1>1 DEF Args
  <2>2. Goto(r, "join", a) /\ "join" \in Late
    BY <1>8 DEF FailUnlog, Continue, Late
  <2> HIDE DEF a
  <2> QED
    BY <1>2, <2>1, <2>2, LateStep
<1> QED
  BY <1>3, <1>4, <1>6, <1>7, <1>8

LEMMA ServiceOdometer ==
  ASSUME OInv, Shape', NEW r \in Requests, ServiceMax(r) \/ ServiceCommit(r) PROVE OInv'
<1>1. /\ TypeOK /\ arg[r] \in Args /\ "odometer" \in arg[r].uses /\ arg[r].mileage \in Nat
      /\ OdometerAt(r)
  BY DEF OInv, Shape, TypeOK, Knows, ToOdometer, HasMileage, ServiceMax, ServiceCommit
<1>2. Logs \subseteq Nat
  BY <1>1 DEF Logs, TypeOK
<1>3. CASE ServiceMax(r)
  <2>1. PICK m \in Logs \cup {arg[r].mileage} :
          /\ Largest(m, Logs \cup {arg[r].mileage})
          /\ Continue(r, "service.commit", [arg[r] EXCEPT !.max = m])
    BY <1>3 DEF ServiceMax
  <2> DEFINE a == [arg[r] EXCEPT !.max = m]
  <2>2. a \in Args /\ a.uses = arg[r].uses /\ a.max = m /\ a.mileage = arg[r].mileage
    BY <1>1, <1>2 DEF Args
  <2>3. /\ Goto(r, "service.commit", a) /\ "service.commit" \in Steps
        /\ log' = log /\ odo' = odo /\ Logs' = Logs
    BY <2>1 DEF Continue, tables, derived, Logs, Steps
  <2>4. pc'[r] = "service.commit" /\ arg'[r] = a /\ torn' = torn /\ crossed' = crossed
    BY <1>1, <2>2, <2>3, GotoType, KeptType
  <2>5. InStep' <=> InStep
    BY <2>3 DEF InStep, Largest
  <2>6. pc[r] = "service.max"
    BY <1>3 DEF ServiceMax
  <2>7. Largest(m, Logs \cup {arg[r].mileage})'
    BY <2>1, <2>2, <2>3, <2>4 DEF Largest
  <2>8. OdometerAt(r)'
    BY <1>1, <2>1, <2>2, <2>3, <2>4, <2>5, <2>6 DEF OdometerAt, Owns, Late, Largest
  <2> HIDE DEF a
  <2> QED
    BY <1>1, <2>2, <2>3, <2>8, GoesOnOdometer
<1>4. CASE ServiceCommit(r)
  <2>1. PICK e \in EventIds :
          event[e].st = "free" /\ log' = [log EXCEPT ![e] = arg[r].mileage]
    BY <1>4 DEF ServiceCommit
  <2>2. log[e] = Null
    BY <2>1 DEF OInv, Shape, FreeRows
  <2>3. Logs' = Logs \cup {arg[r].mileage}
    BY <1>1, <2>1, <2>2, ConstantsAssumption DEF Logs, TypeOK
  <2>4. pc[r] = "service.commit" /\ odo' = arg[r].max /\ Goto(r, "done", arg[r])
    BY <1>4 DEF ServiceCommit
  <2>5. Owns(r, "odometer") => InStep'
    BY <1>1, <2>3, <2>4 DEF OdometerAt, InStep, Largest
  <2> QED
    BY <1>1, <2>4, <2>5, LateStep DEF Late
<1> QED
  BY <1>3, <1>4

LEMMA EndsOdometer ==
  ASSUME OInv, Shape', NEW r \in Requests, PatchVehicle(r) \/ Reply(r) \/ Fail(r)
  PROVE  OInv'
<1>1. Knows(r) /\ OdometerAt(r)
  BY DEF OInv, Shape
<1>2. CASE PatchVehicle(r)
  <2>1. "odometer" \in arg[r].uses
    BY <1>1, <1>2 DEF Knows, ToOdometer, PatchVehicle
  <2> QED
    BY <1>2, <2>1, EndOdometer DEF PatchVehicle
<1>3. CASE Reply(r)
  <2> DEFINE left == IF crossed THEN torn ELSE torn \ Recomputed(r)
  <2>1. /\ End(r, left) /\ log' = log /\ odo' = odo /\ pc[r] = "done"
    BY <1>3 DEF Reply, tables, derived
  <2>2. "odometer" \in torn \ left => "odometer" \in arg[r].uses /\ ~crossed
    BY DEF Recomputed
  <2>3. "odometer" \in arg[r].uses /\ "odometer" \notin left => Owns(r, "odometer")
    BY DEF Owns
  <2>4. "odometer" \in arg[r].uses /\ "odometer" \notin left => InStep
    BY <1>1, <2>1, <2>3 DEF OdometerAt, Late
  <2> HIDE DEF left
  <2> QED
    BY <2>1, <2>2, <2>4, EndOdometer
<1>4. CASE Fail(r)
  <2>1. CASE pc[r] \in {"service.max", "service.commit"} /\ End(r, torn) /\ UNCHANGED tables
    <3>1. "odometer" \in arg[r].uses
      BY <1>1, <2>1 DEF Knows, ToOdometer
    <3>2. "odometer" \notin torn => InStep
      BY <1>1, <2>1, <3>1 DEF OdometerAt, Owns
    <3> QED
      BY <2>1, <3>1, <3>2, EndOdometer DEF tables, derived
  <2> QED
    BY <1>4, <2>1, BreakOdometer DEF Fail
<1> QED
  BY <1>2, <1>3, <1>4

LEMMA ArriveOdometer ==
  ASSUME OInv, Shape', NEW r \in Requests, Arrive(r) PROVE OInv'
<1>1. /\ NoArgs \in Args
      /\ {"insert", "update", "unlog", "raw.delete", "service.max", "patch"} \subseteq Steps
      /\ \A e \in EventIds : event[e] \in EventRow \cup {FreeEvent}
  BY NoArgsType DEF OInv, Shape, TypeOK, Steps, LogSteps
<1>2. ASSUME NEW a \in Args,
        NEW step \in {"insert", "unlog", "raw.delete", "service.max", "patch"},
             Opened(r, step, a)
      PROVE  OInv'
  BY <1>1, <1>2, OpenedOdometer DEF Late
<1>3. ASSUME NEW t \in Types, NEW m \in Mileages, NEW s \in Stations \cup {Null},
             OpenCreate(r, t, m, s)
      PROVE  OInv'
  <2> DEFINE at == {s} \ {Null}
             a == [NoArgs EXCEPT
                     !.op = "create", !.type = t, !.at = s, !.mileage = m, !.todo = at,
                     !.uses = at \cup {"odometer"} \cup (InfoTypes \cap {t})]
  <2>1. a \in Args
    BY <1>1, ConstantsAssumption DEF Args, Resources, Ops, NoArgs
  <2>2. Opened(r, "insert", a)
    BY <1>3 DEF OpenCreate
  <2> HIDE DEF a
  <2> QED
    BY <1>2, <2>1, <2>2
<1>4. ASSUME NEW e \in EventIds, NEW m \in Mileages \cup {Null}, NEW s \in Stations \cup {Null},
             OpenUpdate(r, e, m, s)
      PROVE  OInv'
  <2> DEFINE at == {event[e].at, s} \ {Null}
             a == Updating(e, m, s, at)
  <2>1. Opened(r, "update", a) /\ event[e] \in EventRow
    BY <1>1, <1>4 DEF OpenUpdate, Live, FreeEvent
  <2>2. at \subseteq Stations /\ event[e].type \in TimelineType
    BY <2>1 DEF EventRow
  <2> HIDE DEF at
  <2>3. /\ a \in Args /\ a.event = e /\ (a.relog => a.mileage \in Nat)
        /\ a.uses = at \cup {e} \cup (IF a.relog THEN {"odometer"} ELSE {})
    BY <2>2, UpdatingType
  <2>4. "odometer" \in a.uses => a.relog
    BY <2>2, <2>3, ConstantsAssumption
  <2> HIDE DEF a, at
  <2> QED
    BY <1>1, <2>1, <2>3, <2>4, OpenedOdometer DEF Late
<1>5. ASSUME NEW e \in EventIds, OpenDelete(r, e) PROVE OInv'
  <2> DEFINE at == {event[e].at} \ {Null}
             t == event[e].type
             step == IF t = "DOCUMENT" THEN "raw.delete" ELSE "unlog"
             a == [NoArgs EXCEPT
                     !.op = "delete", !.event = e, !.type = t, !.todo = at, !.soft = TRUE,
                     !.uses = at \cup {e, "odometer"} \cup (InfoTypes \cap {t})]
  <2>1. event[e] \in EventRow /\ Opened(r, step, a)
    BY <1>1, <1>5 DEF OpenDelete, Live, FreeEvent
  <2>2. at \subseteq Stations /\ t \in TimelineType
    BY <2>1 DEF EventRow
  <2>3. a \in Args
    BY <1>1, <2>2 DEF Args, Resources, Ops, NoArgs
  <2>4. step \in {"raw.delete", "unlog"}
    OBVIOUS
  <2> HIDE DEF a, step
  <2> QED
    BY <1>2, <2>1, <2>3, <2>4
<1>6. ASSUME NEW m \in Mileages, OpenService(r, m) \/ OpenPatch(r, m) PROVE OInv'
  <2>1. /\ [NoArgs EXCEPT !.op = "service", !.mileage = m, !.uses = {"odometer"}] \in Args
        /\ [NoArgs EXCEPT !.op = "patch", !.mileage = m, !.uses = {"odometer"}] \in Args
    BY <1>1, ConstantsAssumption DEF Args, Resources, Ops, NoArgs
  <2> QED
    BY <1>2, <1>6, <2>1 DEF OpenService, OpenPatch
<1> QED
  BY <1>3, <1>4, <1>5, <1>6 DEF Arrive

LEMMA DeleteReminderOdometer ==
  ASSUME OInv, Shape', NEW e \in EventIds, DeleteReminder(e) PROVE OInv'
<1>1. /\ log' = log /\ odo' = odo /\ pc' = pc /\ arg' = arg /\ crossed' = crossed
      /\ "odometer" \in torn' <=> "odometer" \in torn
  BY ConstantsAssumption DEF DeleteReminder
<1>2. Logs' = Logs
  BY <1>1 DEF Logs
<1>3. InStep' <=> InStep
  BY <1>1, <1>2 DEF InStep, Largest
<1>4. OdometerInStep'
  BY <1>1, <1>2 DEF OInv, OdometerInStep, Settled, Largest
<1>5. ASSUME NEW r \in Requests PROVE OdometerAt(r)'
  <2>1. OdometerAt(r)
    BY DEF OInv
  <2> QED
    BY <1>1, <1>2, <1>3, <2>1 DEF OdometerAt, Owns, Largest
<1> QED
  BY <1>4, <1>5 DEF OInv

LEMMA StepOInv == ASSUME OInv, [Next]_vars PROVE OInv'
<1>1. Shape'
  BY StepShape DEF OInv
<1>2. ASSUME NEW r \in Requests, Step(r) PROVE OInv'
  BY <1>1, <1>2, LogOdometer, ReadMaxOdometer, WriteOdoOdometer, LateOdometer,
     UpdateOdometer, DeleteOdometer, ServiceOdometer, EndsOdometer DEF Step
<1>3. CASE Next
  BY <1>1, <1>2, <1>3, ArriveOdometer, DeleteOdometer, EndsOdometer, DeleteReminderOdometer
  DEF Next
<1>4. CASE UNCHANGED vars
  <2>1. Logs' = Logs /\ odo' = odo /\ pc' = pc /\ arg' = arg /\ crossed' = crossed
          /\ torn' = torn
    BY <1>4 DEF vars, Logs
  <2>2. InStep' <=> InStep
    BY <2>1 DEF InStep, Largest
  <2>3. OdometerInStep'
    BY <2>1 DEF OInv, OdometerInStep, Settled, Largest
  <2>4. ASSUME NEW r \in Requests PROVE OdometerAt(r)'
    <3>1. OdometerAt(r)
      BY DEF OInv
    <3> QED
      BY <2>1, <2>2, <3>1 DEF OdometerAt, Owns, Largest
  <2> QED
    BY <1>1, <2>3, <2>4 DEF OInv
<1> QED
  BY <1>3, <1>4

(* Whatever events are created, changed and deleted, and in whatever order *)
(* their requests take their steps: once nothing in flight uses the        *)
(* odometer, and no two requests that used it met, and none failed, since  *)
(* it was last put right, currentMileage is the largest mileage logged.    *)
THEOREM OdometerFollows == Spec => []OdometerInStep
<1>1. OInv => OdometerInStep
  BY DEF OInv
<1> QED
  BY <1>1, InitOInv, StepOInv, PTL DEF Spec

-----------------------------------------------------------------------------
(* Events, visits, and what the vehicle knows: what requests carry *)

(* The last steps, which need no more than stations *)
Tail == {"count", "visit", "done"}

(* What a request that stands at p has in its arguments *)
Carries(p, a) ==
  /\ p \in HasEvent => a.uses \cap EventIds = {a.event}
  /\ p \notin HasEvent \cup Tail => a.uses \cap EventIds = {}
  /\ p \notin Tail => a.uses \cap Stations = a.todo
  /\ p \in Tail => a.todo \subseteq a.uses
  /\ p = "done" => a.todo = {}
  /\ p = "visit" => a.station \in a.uses \cap Stations
  /\ p \in {"insert", "update"} => a.at \in a.uses \cup {Null}
  /\ p \in {"service.max", "service.commit"}
       => a.op = "service" /\ a.at = Null /\ a.type = "SERVICE" /\ a.todo = {}
  /\ p = "patch" => a.op = "patch" /\ a.todo = {}
  /\ p \notin Tail => InfoTypes \cap a.uses =
                        IF a.op \in {"create", "delete"} THEN InfoTypes \cap {a.type} ELSE {}
  /\ a.soft => a.op = "delete"
  /\ p \in {"insert", "log"} => a.op = "create"
  /\ p \in {"update", "relog"} => a.op = "update"
  /\ p \in {"raw.delete", "forget", "unlog", "join"} => a.op = "delete"
  /\ p \in {"raw.delete", "forget"} => a.soft
  /\ p \in {"max", "odo"} => a.op \in {"create", "update", "delete"}
  /\ p = "info" => a.op \in {"create", "delete"} /\ a.type \in InfoTypes
  /\ p \in {"odo", "info"} /\ a.op = "create" => a.mileage \in Nat
  /\ p = "info" /\ a.op = "delete" => ~a.soft /\ ~a.failed
  /\ p \in {"raw", "find", "remind", "renew"}
       => a.op \in {"create", "update"} /\ a.type = "DOCUMENT"

(* The type of an event never changes. *)
TypeHeld(r) == pc[r] \in HasEvent => event[arg[r].event].type = arg[r].type

(* Requests that share anything have torn all they use, but for an event   *)
(* that one of them has inserted since.                                    *)
Together ==
  \A r, q \in Requests : r # q /\ arg[r].uses \cap arg[q].uses # {} =>
    crossed /\ (arg[r].uses \cup arg[q].uses) \ EventIds \subseteq torn

Base ==
  /\ Shape /\ Together
  /\ \A r \in Requests : Carries(pc[r], arg[r]) /\ TypeHeld(r)

LEMMA InitBase == Init => Base
<1> SUFFICES ASSUME Init PROVE Base
  OBVIOUS
<1>1. Shape
  BY InitShape
<1>2. ASSUME NEW r \in Requests PROVE Carries(pc[r], arg[r]) /\ TypeHeld(r)
  <2>1. pc[r] = "idle" /\ arg[r] = NoArgs
    BY DEF Init
  <2>2. Carries("idle", NoArgs)
    BY DEF Carries, NoArgs, HasEvent, Tail, InfoTypes
  <2> QED
    BY <2>1, <2>2 DEF TypeHeld, HasEvent
<1>3. Together
  BY NoArgsType DEF Init, Together
<1> QED
  BY <1>1, <1>2, <1>3 DEF Base

LEMMA TypesStayHeld ==
  ASSUME Base, NEW r \in Requests, TypeHeld(r)',
         \A q \in Requests \ {r} : pc'[q] = pc[q] /\ arg'[q] = arg[q],
         \A e \in EventIds : event[e].st # "free" => event'[e].type = event[e].type
  PROVE  \A q \in Requests : TypeHeld(q)'
<1> SUFFICES ASSUME NEW q \in Requests, q # r PROVE TypeHeld(q)'
  OBVIOUS
<1>1. pc'[q] = pc[q] /\ arg'[q] = arg[q] /\ TypeHeld(q) /\ Knows(q)
  BY DEF Base, Shape
<1> QED
  BY <1>1 DEF TypeHeld, Knows

(* A step that goes on *)
LEMMA BaseGoesOn ==
  ASSUME Base, Shape', NEW r \in Requests, NEW step \in Steps, NEW a \in Args,
         Goto(r, step, a), arg[r].uses \subseteq a.uses,
         \A x \in a.uses \ arg[r].uses :
           x \in EventIds /\ \A q \in Requests \ {r} : x \notin arg[q].uses,
         \A e \in EventIds : event[e].st # "free" => event'[e].type = event[e].type,
         step \in HasEvent => event'[a.event].type = a.type,
         Carries(step, Kept(step, a))
  PROVE  Base'
<1>1. TypeOK
  BY DEF Base, Shape
<1>2. /\ pc'[r] = step /\ arg'[r] = Kept(step, a) /\ arg'[r].uses = a.uses
      /\ \A q \in Requests \ {r} : pc'[q] = pc[q] /\ arg'[q] = arg[q]
      /\ crossed' = crossed /\ torn' = torn
  BY <1>1, GotoType
<1>3. step \in HasEvent => arg'[r] = a
  BY <1>2, KeptType DEF HasEvent
<1>4. TypeHeld(r)'
  BY <1>2, <1>3 DEF TypeHeld
<1>5. \A q \in Requests : TypeHeld(q)'
  BY <1>2, <1>4, TypesStayHeld
<1>6. \A q \in Requests : Carries(pc[q], arg[q])'
  BY <1>2 DEF Base, Carries
<1>7. Together'
  <2> SUFFICES ASSUME NEW p \in Requests, NEW q \in Requests, p # q,
                      arg'[p].uses \cap arg'[q].uses # {}
               PROVE  crossed /\ (arg'[p].uses \cup arg'[q].uses) \ EventIds \subseteq torn
    BY <1>2 DEF Together
  <2>1. arg[p].uses \cap arg[q].uses # {}
    BY <1>2
  <2>2. crossed /\ (arg[p].uses \cup arg[q].uses) \ EventIds \subseteq torn
    BY <2>1 DEF Base, Together
  <2> QED
    BY <1>2, <2>2
<1> QED
  BY <1>5, <1>6, <1>7 DEF Base

(* A request ends. *)
LEMMA BaseEnd ==
  ASSUME Base, Shape', NEW r \in Requests, NEW left, End(r, left),
         crossed => torn \subseteq left, event' = event
  PROVE  Base'
<1>1. TypeOK
  BY DEF Base, Shape
<1>2. /\ pc'[r] = "idle" /\ arg'[r] = NoArgs /\ torn' = left
      /\ \A q \in Requests \ {r} : pc'[q] = pc[q] /\ arg'[q] = arg[q]
  BY <1>1, EndType
<1>3. TypeHeld(r)'
  BY <1>2 DEF TypeHeld, HasEvent
<1>4. \A q \in Requests : TypeHeld(q)'
  BY <1>2, <1>3, TypesStayHeld
<1>5. Carries("idle", NoArgs)
  BY DEF Carries, NoArgs, HasEvent, Tail, InfoTypes
<1>6. \A q \in Requests : Carries(pc[q], arg[q])'
  BY <1>2, <1>5 DEF Base, Carries
<1>7. Together'
  <2> SUFFICES ASSUME NEW p \in Requests, NEW q \in Requests, p # q,
                      arg'[p].uses \cap arg'[q].uses # {}
               PROVE  crossed' /\ (arg'[p].uses \cup arg'[q].uses) \ EventIds \subseteq torn'
    BY DEF Together
  <2>1. p # r /\ q # r
    BY <1>2, NoArgsType
  <2>2. arg'[p] = arg[p] /\ arg'[q] = arg[q]
    BY <1>2, <2>1
  <2>3. crossed /\ (arg[p].uses \cup arg[q].uses) \ EventIds \subseteq torn
    BY <2>2 DEF Base, Together
  <2>4. pc[p] # "idle"
    BY <2>2, NoArgsType DEF Base, Shape, Knows
  <2> QED
    BY <1>2, <2>1, <2>2, <2>3, <2>4 DEF End
<1> QED
  BY <1>4, <1>6, <1>7 DEF Base

LEMMA BaseOpened ==
  ASSUME Base, Shape', NEW r \in Requests, NEW step \in Steps, NEW a \in Args,
         Opened(r, step, a), Carries(step, a),
         step \in HasEvent => event[a.event].type = a.type
  PROVE  Base'
<1>1. event' = event /\ TypeOK
  BY DEF Opened, tables, Base, Shape
<1>2. /\ pc'[r] = step /\ arg'[r] = a /\ torn \subseteq torn' /\ (crossed => crossed')
      /\ \A q \in Requests \ {r} : pc'[q] = pc[q] /\ arg'[q] = arg[q]
  BY <1>1 DEF Opened, TypeOK
<1>3. TypeHeld(r)'
  BY <1>1, <1>2 DEF TypeHeld
<1>4. \A q \in Requests : TypeHeld(q)'
  BY <1>1, <1>2, <1>3, TypesStayHeld
<1>5. \A q \in Requests : Carries(pc[q], arg[q])'
  BY <1>2 DEF Base, Carries
<1>6. ASSUME NEW q \in Requests \ {r}, a.uses \cap arg[q].uses # {}
      PROVE  crossed' /\ (a.uses \cup arg[q].uses) \subseteq torn'
  <2>1. pc[q] # "idle"
    BY <1>6, NoArgsType DEF Base, Shape, Knows
  <2>2. q \in Rivals(a)
    BY <1>6, <2>1 DEF Rivals
  <2> QED
    BY <2>2 DEF Opened
<1>7. Together'
  <2> SUFFICES ASSUME NEW p \in Requests, NEW q \in Requests, p # q,
                      arg'[p].uses \cap arg'[q].uses # {}
               PROVE  crossed' /\ (arg'[p].uses \cup arg'[q].uses) \ EventIds \subseteq torn'
    BY DEF Together
  <2>1. CASE p # r /\ q # r
    BY <1>2, <2>1 DEF Base, Together
  <2>2. CASE p = r
    BY <1>2, <1>6, <2>2
  <2>3. CASE q = r
    BY <1>2, <1>6, <2>3
  <2> QED
    BY <2>1, <2>2, <2>3
<1> QED
  BY <1>4, <1>5, <1>7 DEF Base

(* Where a handler goes next *)
LEMMA CarryTail ==
  ASSUME NEW p, NEW a \in Args, Carries(p, a)
  PROVE  Carries(ThenVisits(a), Kept(ThenVisits(a), a))
<1> DEFINE step == ThenVisits(a)
           k == Kept(step, a)
<1>1. step \in {"count", "done"} /\ (step = "done" <=> a.todo = {})
  BY DEF ThenVisits
<1> HIDE DEF step
<1>2. k.todo = a.todo /\ k.uses = a.uses /\ ~k.soft
  BY <1>1 DEF Kept, NoArgs
<1> HIDE DEF k
<1>3. a.todo \subseteq a.uses
  BY DEF Carries
<1>4. Carries(step, k)
  BY <1>1, <1>2, <1>3 DEF Carries, Tail, HasEvent
<1> QED
  BY <1>4 DEF step, k

LEMMA CarryDocument ==
  ASSUME NEW p \in HasEvent, NEW a \in Args, Carries(p, a),
         a.op \in {"create", "update", "delete"}
  PROVE  Carries(ThenDocument(a), Kept(ThenDocument(a), a))
<1>1. CASE a.op # "delete" /\ a.type = "DOCUMENT"
  <2>1. ThenDocument(a) = "raw" /\ Kept("raw", a) = a
    BY <1>1 DEF ThenDocument, Kept
  <2>2. Carries("raw", a)
    BY <1>1 DEF Carries, HasEvent, Tail
  <2> QED
    BY <2>1, <2>2
<1>2. CASE ~(a.op # "delete" /\ a.type = "DOCUMENT")
  <2>1. ThenDocument(a) = ThenVisits(a)
    BY <1>2 DEF ThenDocument
  <2> QED
    BY <2>1, CarryTail
<1> QED
  BY <1>1, <1>2

LEMMA CarryInfo ==
  ASSUME NEW p \in HasEvent, NEW a \in Args, Carries(p, a),
         a.op \in {"create", "update", "delete"}, a.op = "create" => a.mileage \in Nat,
         a.op = "delete" => ~a.soft /\ ~a.failed
  PROVE  Carries(ThenInfo(a), Kept(ThenInfo(a), a))
<1>1. CASE a.op # "update" /\ a.type \in InfoTypes
  <2>1. ThenInfo(a) = "info" /\ Kept("info", a) = a
    BY <1>1 DEF ThenInfo, Kept
  <2>2. Carries("info", a)
    BY <1>1 DEF Carries, HasEvent, Tail
  <2> QED
    BY <2>1, <2>2
<1>2. CASE ~(a.op # "update" /\ a.type \in InfoTypes)
  <2>1. ThenInfo(a) = ThenDocument(a)
    BY <1>2 DEF ThenInfo
  <2> QED
    BY <2>1, CarryDocument
<1> QED
  BY <1>1, <1>2

-----------------------------------------------------------------------------
(* One lemma per step of a request: what it carries stays true. *)

(* A step that changes no event and no argument *)
LEMMA BasePlain ==
  ASSUME Base, Shape', NEW r \in Requests, NEW step \in Steps, Goto(r, step, arg[r]),
         event' = event, step \in HasEvent => pc[r] \in HasEvent,
         Carries(step, Kept(step, arg[r]))
  PROVE  Base'
<1>1. arg[r] \in Args /\ TypeHeld(r)
  BY DEF Base, Shape, TypeOK
<1>2. step \in HasEvent => event'[arg[r].event].type = arg[r].type
  BY <1>1 DEF TypeHeld
<1> QED
  BY <1>1, <1>2, BaseGoesOn

(* A step that changes arguments other than the event and what is used *)
LEMMA BaseChanged ==
  ASSUME Base, Shape', NEW r \in Requests, NEW step \in Steps, NEW a \in Args,
         Goto(r, step, a), a.uses = arg[r].uses, a.event = arg[r].event, a.type = arg[r].type,
         \A e \in EventIds : event[e].st # "free" => event'[e].type = event[e].type,
         step \in HasEvent => pc[r] \in HasEvent,
         Carries(step, Kept(step, a))
  PROVE  Base'
<1>1. TypeHeld(r) /\ Knows(r)
  BY DEF Base, Shape
<1>2. step \in HasEvent => event'[a.event].type = a.type
  BY <1>1 DEF TypeHeld, Knows
<1> QED
  BY <1>2, BaseGoesOn

LEMMA BreakBase == ASSUME Base, NEW r \in Requests, Break(r), Shape' PROVE Base'
BY BaseEnd DEF Break, tables

LEMMA InsertBase == ASSUME Base, Shape', NEW r \in Requests, Insert(r) PROVE Base'
<1>1. PICK e \in EventIds :
        /\ event[e].st = "free"
        /\ event' = [event EXCEPT ![e] = NewRow(arg[r])]
        /\ Goto(r, "log", [arg[r] EXCEPT !.event = e, !.uses = @ \cup {e}])
  BY DEF Insert
<1> DEFINE a == [arg[r] EXCEPT !.event = e, !.uses = @ \cup {e}]
<1>2. TypeOK /\ arg[r] \in Args /\ Carries("insert", arg[r]) /\ "log" \in Steps
  BY DEF Base, Shape, TypeOK, Insert, Steps
<1>3. /\ a \in Args /\ a.event = e /\ a.uses = arg[r].uses \cup {e}
      /\ a.type = arg[r].type /\ a.op = arg[r].op /\ a.todo = arg[r].todo
      /\ a.soft = arg[r].soft
  BY <1>2 DEF Args, Resources
<1>4. Goto(r, "log", a)
  BY <1>1
<1> HIDE DEF a
<1>5. \A q \in Requests : e \notin arg[q].uses
  BY <1>1 DEF Base, Shape, Knows
<1>6. /\ event'[e].type = a.type
      /\ \A f \in EventIds : event[f].st # "free" => event'[f].type = event[f].type
  BY <1>1, <1>2, <1>3 DEF TypeOK, NewRow
<1>7. Carries("log", a)
  BY <1>2, <1>3, ConstantsAssumption DEF Carries, HasEvent, Tail
<1>8. Kept("log", a) = a
  BY DEF Kept
<1> QED
  BY <1>2, <1>3, <1>4, <1>5, <1>6, <1>7, <1>8, BaseGoesOn

LEMMA LogBase ==
  ASSUME Base, Shape', NEW r \in Requests, InsertLog(r) \/ Relog(r) \/ Unlog(r)
  PROVE  Base'
<1>1. /\ arg[r] \in Args /\ Carries(pc[r], arg[r]) /\ "max" \in Steps
      /\ pc[r] \in {"log", "relog", "unlog"}
  BY DEF Base, Shape, TypeOK, InsertLog, Relog, Unlog, Steps, LogSteps
<1>2. event' = event /\ Goto(r, "max", arg[r])
  BY DEF InsertLog, Relog, Unlog
<1>3. Carries("max", arg[r]) /\ Kept("max", arg[r]) = arg[r]
  BY <1>1 DEF Carries, Kept, HasEvent, Tail
<1> QED
  BY <1>1, <1>2, <1>3, BasePlain DEF HasEvent

LEMMA ReadMaxBase == ASSUME Base, Shape', NEW r \in Requests, ReadMax(r) PROVE Base'
<1>1. /\ TypeOK /\ arg[r] \in Args /\ Carries("max", arg[r]) /\ pc[r] = "max" /\ "odo" \in Steps
      /\ arg[r].op \notin {"update", "delete"} => arg[r].mileage \in Nat
  BY DEF Base, Shape, TypeOK, ReadMax, Knows, Steps, LogSteps
<1>2. event' = event
  BY DEF ReadMax, Continue, tables
<1>3. ASSUME NEW m \in Nat, Goto(r, "odo", [arg[r] EXCEPT !.max = m]) PROVE Base'
  <2> DEFINE a == [arg[r] EXCEPT !.max = m]
  <2>1. /\ a \in Args /\ a.uses = arg[r].uses /\ a.event = arg[r].event /\ a.type = arg[r].type
        /\ a.op = arg[r].op /\ a.mileage = arg[r].mileage /\ a.todo = arg[r].todo
        /\ a.soft = arg[r].soft
    BY <1>1 DEF Args
  <2>2. Goto(r, "odo", a)
    BY <1>3
  <2> HIDE DEF a
  <2>3. Carries("odo", a) /\ Kept("odo", a) = a
    BY <1>1, <2>1 DEF Carries, Kept, HasEvent, Tail
  <2> QED
    BY <1>1, <1>2, <2>1, <2>2, <2>3, BaseChanged DEF HasEvent
<1>4. ASSUME Goto(r, ThenDocument(arg[r]), arg[r]), arg[r].op = "update" PROVE Base'
  <2>1. Carries(ThenDocument(arg[r]), Kept(ThenDocument(arg[r]), arg[r]))
    BY <1>1, <1>4, CarryDocument DEF HasEvent
  <2>2. ThenDocument(arg[r]) \in Steps
    BY <1>1, ThenType DEF Steps
  <2> QED
    BY <1>1, <1>2, <1>4, <2>1, <2>2, BasePlain DEF HasEvent
<1>5. Logs \subseteq Nat
  BY <1>1 DEF Logs, TypeOK
<1>6. arg[r].op # "update" => IfNoLog(arg[r]) \in Nat
  BY <1>1 DEF IfNoLog
<1> QED
  BY <1>3, <1>4, <1>5, <1>6 DEF ReadMax, Continue

LEMMA WriteOdoBase == ASSUME Base, Shape', NEW r \in Requests, WriteOdo(r) PROVE Base'
<1>1. /\ arg[r] \in Args /\ Carries("odo", arg[r]) /\ pc[r] = "odo" /\ "join" \in Steps
  BY DEF Base, Shape, TypeOK, WriteOdo, Steps, LogSteps
<1>2. arg[r].op \in {"create", "update", "delete"}
        /\ (arg[r].op = "create" => arg[r].mileage \in Nat)
  BY <1>1 DEF Carries
<1>3. CASE arg[r].op = "delete"
  <2>1. event' = event /\ Goto(r, "join", arg[r])
    BY <1>3 DEF WriteOdo
  <2>2. Carries("join", arg[r]) /\ Kept("join", arg[r]) = arg[r]
    BY <1>1, <1>3 DEF Carries, Kept, HasEvent, Tail
  <2> QED
    BY <1>1, <2>1, <2>2, BasePlain DEF HasEvent
<1>4. CASE arg[r].op # "delete"
  <2>1. event' = event /\ Goto(r, ThenInfo(arg[r]), arg[r])
    BY <1>4 DEF WriteOdo
  <2>2. Carries(ThenInfo(arg[r]), Kept(ThenInfo(arg[r]), arg[r]))
    BY <1>1, <1>2, <1>4, CarryInfo DEF HasEvent
  <2>3. ThenInfo(arg[r]) \in Steps
    BY <1>1, ThenType DEF Steps
  <2> QED
    BY <1>1, <2>1, <2>2, <2>3, BasePlain DEF HasEvent
<1> QED
  BY <1>3, <1>4

LEMMA DocumentBase ==
  ASSUME Base, Shape', NEW r \in Requests,
         SyncInfo(r) \/ ReadDocument(r) \/ FindReminder(r) \/ CreateReminder(r)
           \/ UpdateReminder(r)
  PROVE  Base'
<1>1. /\ arg[r] \in Args /\ Carries(pc[r], arg[r]) /\ pc[r] \in HasEvent
      /\ arg[r].op \in {"create", "update", "delete"}
  BY DEF Base, Shape, TypeOK, SyncInfo, ReadDocument, FindReminder, CreateReminder,
         UpdateReminder, HasEvent, Carries
<1>2. ThenVisits(arg[r]) \in Steps /\ ThenDocument(arg[r]) \in Steps
        /\ {"find", "remind", "renew"} \subseteq Steps
  BY <1>1, ThenType DEF Steps
<1>3. CASE SyncInfo(r)
  <2>1. Carries(ThenDocument(arg[r]), Kept(ThenDocument(arg[r]), arg[r]))
    BY <1>1, CarryDocument
  <2> QED
    BY <1>1, <1>2, <1>3, <2>1, BasePlain DEF SyncInfo
<1>4. ASSUME Goto(r, ThenVisits(arg[r]), arg[r]), event' = event PROVE Base'
  BY <1>1, <1>2, <1>4, CarryTail, BasePlain
<1>5. ASSUME NEW step \in {"find", "remind", "renew"}, Goto(r, step, arg[r]), event' = event,
             pc[r] \in {"raw", "find"}
      PROVE  Base'
  <2>1. Carries(step, arg[r]) /\ Kept(step, arg[r]) = arg[r]
    BY <1>1, <1>5 DEF Carries, Kept, HasEvent, Tail
  <2> QED
    BY <1>1, <1>2, <1>5, <2>1, BasePlain
<1>6. CASE ReadDocument(r)
  BY <1>4, <1>5, <1>6 DEF ReadDocument, Continue, tables
<1>7. CASE FindReminder(r)
  BY <1>5, <1>7 DEF FindReminder, Continue, tables
<1>8. CASE CreateReminder(r)
  BY <1>4, <1>8 DEF CreateReminder
<1>9. CASE UpdateReminder(r)
  BY <1>4, <1>9, BreakBase DEF UpdateReminder, Continue, tables
<1> QED
  BY <1>3, <1>6, <1>7, <1>8, <1>9

LEMMA VisitsCount == ASSUME NEW s PROVE Cardinality(EventsAt(s)) \in Nat
<1>1. IsFiniteSet(EventsAt(s))
  BY ConstantsAssumption, FS_Subset DEF EventsAt
<1> QED
  BY <1>1, FS_CardinalityType

(* What the count of a station changes of the arguments *)
LEMMA Counting ==
  ASSUME Base, NEW r \in Requests, CountVisits(r)
  PROVE  \E s \in arg[r].todo, a \in Args :
           /\ Goto(r, "visit", a) /\ s \in Stations
           /\ a.uses = arg[r].uses /\ a.event = arg[r].event /\ a.type = arg[r].type
           /\ a.op = arg[r].op /\ a.soft = arg[r].soft /\ a.todo = arg[r].todo \ {s}
           /\ a.station = s /\ a.count = Cardinality(EventsAt(s))
<1>1. arg[r] \in Args
  BY DEF Base, Shape, TypeOK
<1>2. PICK s \in arg[r].todo :
        Continue(r, "visit", [arg[r] EXCEPT !.station = s, !.todo = @ \ {s},
                                            !.count = Cardinality(EventsAt(s))])
  BY DEF CountVisits
<1>3. s \in Stations /\ arg[r].todo \ {s} \in SUBSET Stations
  BY <1>1 DEF Args
<1> DEFINE n == Cardinality(EventsAt(s))
           a == [arg[r] EXCEPT !.station = s, !.todo = @ \ {s}, !.count = n]
<1>4. Goto(r, "visit", a)
  BY <1>2 DEF Continue
<1>5. n \in Nat
  BY VisitsCount
<1>6. n = Cardinality(EventsAt(s))
  OBVIOUS
<1> HIDE DEF n
<1>7. /\ a \in Args /\ a.uses = arg[r].uses /\ a.event = arg[r].event
      /\ a.type = arg[r].type /\ a.op = arg[r].op /\ a.soft = arg[r].soft
      /\ a.todo = arg[r].todo \ {s} /\ a.station = s /\ a.count = n
  BY <1>1, <1>3, <1>5 DEF Args
<1> HIDE DEF a
<1> QED
  BY <1>3, <1>4, <1>6, <1>7

LEMMA VisitsBase ==
  ASSUME Base, Shape', NEW r \in Requests, CountVisits(r) \/ WriteVisits(r) PROVE Base'
<1>1. TypeOK /\ arg[r] \in Args /\ Carries(pc[r], arg[r]) /\ "visit" \in Steps
  BY DEF Base, Shape, TypeOK, Steps
<1>2. CASE CountVisits(r)
  <2>1. PICK s \in arg[r].todo, a \in Args :
          /\ Goto(r, "visit", a) /\ s \in Stations
          /\ a.uses = arg[r].uses /\ a.event = arg[r].event /\ a.type = arg[r].type
          /\ a.op = arg[r].op /\ a.soft = arg[r].soft /\ a.todo = arg[r].todo \ {s}
          /\ a.station = s
    BY <1>2, Counting
  <2>2. event' = event /\ pc[r] = "count"
    BY <1>2 DEF Continue, tables, CountVisits
  <2>3. Carries("visit", a) /\ Kept("visit", a) = a
    BY <1>1, <2>1, <2>2 DEF Carries, Kept, HasEvent, Tail
  <2> QED
    BY <1>1, <2>1, <2>2, <2>3, BaseChanged DEF HasEvent
<1>3. CASE WriteVisits(r)
  <2>1. Carries(ThenVisits(arg[r]), Kept(ThenVisits(arg[r]), arg[r]))
    BY <1>1, CarryTail
  <2>2. ThenVisits(arg[r]) \in {"count", "done"} /\ ThenVisits(arg[r]) \in Steps
    BY <1>1, ThenType DEF Steps
  <2> QED
    BY <1>3, <2>1, <2>2, BasePlain DEF WriteVisits, HasEvent
<1> QED
  BY <1>2, <1>3

(* What an update changes of the rows of events *)
LEMMA PatchedRow ==
  ASSUME Base, NEW r \in Requests, Update(r)
  PROVE  /\ \A e \in EventIds \ {arg[r].event} : event'[e] = event[e]
         /\ \A e \in EventIds :
              /\ event'[e].type = event[e].type /\ event'[e].st = event[e].st
              /\ event'[e].at = IF e = arg[r].event /\ arg[r].at # Null THEN arg[r].at
                                ELSE event[e].at
              /\ event'[e].mileage = IF e = arg[r].event /\ arg[r].mileage # Null
                                     THEN arg[r].mileage ELSE event[e].mileage
<1> DEFINE f == arg[r].event
<1>1. TypeOK /\ f \in EventIds
  BY DEF Base, Shape, Knows, Update, HasEvent
<1>2. event' = [event EXCEPT ![f] = Patched(event[f], arg[r])]
  BY DEF Update
<1>3. event[f] \in EventRow \cup {FreeEvent}
  BY <1>1 DEF TypeOK
<1>4. /\ Patched(event[f], arg[r]).type = event[f].type
      /\ Patched(event[f], arg[r]).st = event[f].st
      /\ Patched(event[f], arg[r]).at = IF arg[r].at # Null THEN arg[r].at ELSE event[f].at
      /\ Patched(event[f], arg[r]).mileage =
           IF arg[r].mileage # Null THEN arg[r].mileage ELSE event[f].mileage
  BY <1>3 DEF Patched, EventRow, FreeEvent
<1>5. /\ event'[f] = Patched(event[f], arg[r])
      /\ \A e \in EventIds \ {f} : event'[e] = event[e]
  BY <1>1, <1>2 DEF TypeOK
<1> QED
  BY <1>1, <1>4, <1>5

LEMMA UpdateBase == ASSUME Base, Shape', NEW r \in Requests, Update(r) PROVE Base'
<1>1. arg[r] \in Args /\ Carries("update", arg[r]) /\ pc[r] = "update" /\ "relog" \in Steps
  BY DEF Base, Shape, TypeOK, Update, Steps
<1>2. \A e \in EventIds : event[e].st # "free" => event'[e].type = event[e].type
  BY PatchedRow
<1>3. CASE arg[r].relog
  <2>1. Goto(r, "relog", arg[r])
    BY <1>3 DEF Update
  <2>2. Carries("relog", arg[r]) /\ Kept("relog", arg[r]) = arg[r]
    BY <1>1 DEF Carries, Kept, HasEvent, Tail
  <2> QED
    BY <1>1, <1>2, <2>1, <2>2, BaseChanged DEF HasEvent
<1>4. CASE ~arg[r].relog
  <2>1. Goto(r, ThenDocument(arg[r]), arg[r])
    BY <1>4 DEF Update
  <2>2. Carries(ThenDocument(arg[r]), Kept(ThenDocument(arg[r]), arg[r]))
    BY <1>1, CarryDocument DEF HasEvent, Carries
  <2>3. ThenDocument(arg[r]) \in Steps
    BY <1>1, ThenType DEF Steps
  <2> QED
    BY <1>1, <1>2, <2>1, <2>2, <2>3, BaseChanged DEF HasEvent
<1> QED
  BY <1>3, <1>4

(* What a deletion changes of the rows of events *)
LEMMA DeletedRow ==
  ASSUME Base, NEW r \in Requests, SoftDelete(r)
  PROVE  /\ arg[r].event \in EventIds /\ event'[arg[r].event].st = "gone"
         /\ \A e \in EventIds \ {arg[r].event} : event'[e] = event[e]
         /\ \A e \in EventIds :
              /\ event'[e].type = event[e].type /\ event'[e].at = event[e].at
              /\ event'[e].mileage = event[e].mileage
<1> DEFINE f == arg[r].event
<1>1. TypeOK
  BY DEF Base, Shape
<1>2. Carries(pc[r], arg[r]) /\ pc[r] \in LogSteps /\ arg[r].soft /\ Knows(r)
  BY DEF Base, Shape, SoftDelete
<1>3. pc[r] \in HasEvent
  BY <1>2 DEF LogSteps, HasEvent
<1>4. f \in EventIds
  BY <1>2, <1>3 DEF Knows
<1>5. event' = [event EXCEPT ![f].st = "gone"]
  BY DEF SoftDelete
<1>6. event[f] \in EventRow \cup {FreeEvent}
  BY <1>1, <1>4 DEF TypeOK
<1>7. event'[f] = [event[f] EXCEPT !.st = "gone"] /\ \A e \in EventIds \ {f} :
        event'[e] = event[e]
  BY <1>1, <1>4, <1>5 DEF TypeOK
<1> QED
  BY <1>4, <1>6, <1>7 DEF EventRow, FreeEvent

(* The halves of a deletion, ended or failed *)
LEMMA Halves ==
  ASSUME TypeOK, NEW r \in Requests, NEW a,
         \/ a = [arg[r] EXCEPT !.soft = FALSE]
         \/ a = [arg[r] EXCEPT !.soft = FALSE, !.failed = TRUE]
         \/ a = [arg[r] EXCEPT !.failed = TRUE]
  PROVE  /\ a \in Args /\ a.uses = arg[r].uses /\ a.event = arg[r].event
         /\ a.type = arg[r].type /\ a.op = arg[r].op /\ a.mileage = arg[r].mileage
         /\ a.todo = arg[r].todo /\ (a.soft => arg[r].soft) /\ (arg[r].failed => a.failed)
         /\ a.soft \/ a.failed \/ a = [arg[r] EXCEPT !.soft = FALSE]
<1>1. arg[r] \in Args
  BY DEF TypeOK
<1> QED
  BY <1>1 DEF Args

LEMMA DeleteBase ==
  ASSUME Base, Shape', NEW r \in Requests,
         ReadDeletedDocument(r) \/ Forget(r) \/ SoftDelete(r) \/ FailSoftDelete(r)
           \/ FailUnlog(r) \/ Join(r)
  PROVE  Base'
<1>1. /\ TypeOK /\ arg[r] \in Args /\ Carries(pc[r], arg[r]) /\ pc[r] \in HasEvent
      /\ pc[r] \in Steps /\ {"forget", "unlog", "join"} \subseteq Steps
  BY DEF Base, Shape, TypeOK, ReadDeletedDocument, Forget, SoftDelete, FailSoftDelete,
         FailUnlog, Join, HasEvent, Steps, LogSteps
<1>2. ASSUME NEW step \in {"forget", "unlog"}, Goto(r, step, arg[r]), event' = event,
             pc[r] \in {"raw.delete", "forget"}
      PROVE  Base'
  <2>1. Carries(step, arg[r]) /\ Kept(step, arg[r]) = arg[r]
    BY <1>1, <1>2 DEF Carries, Kept, HasEvent, Tail
  <2> QED
    BY <1>1, <1>2, <2>1, BasePlain
<1>3. CASE ReadDeletedDocument(r)
  BY <1>2, <1>3 DEF ReadDeletedDocument, Continue, tables
<1>4. CASE Forget(r)
  BY <1>2, <1>4 DEF Forget
<1>5. ASSUME NEW step \in LogSteps, NEW a \in Args, Goto(r, step, a),
             step = pc[r] \/ (step = "join" /\ arg[r].op = "delete"),
             pc[r] \in LogSteps,
             a.uses = arg[r].uses, a.event = arg[r].event, a.type = arg[r].type,
             a.op = arg[r].op, a.mileage = arg[r].mileage, a.todo = arg[r].todo,
             a.soft => arg[r].soft,
             \A e \in EventIds : event[e].st # "free" => event'[e].type = event[e].type
      PROVE  Base'
  <2>1. Kept(step, a) = a /\ step \in Steps /\ step \in HasEvent
    BY <1>5 DEF Kept, LogSteps, Steps, HasEvent
  <2>2. Carries(step, a)
    BY <1>1, <1>5 DEF Carries, HasEvent, Tail, LogSteps
  <2> QED
    BY <1>1, <1>5, <2>1, <2>2, BaseChanged
<1>6. CASE SoftDelete(r)
  <2> DEFINE a == [arg[r] EXCEPT !.soft = FALSE]
  <2>a. a = [arg[r] EXCEPT !.soft = FALSE]
    OBVIOUS
  <2>2. Goto(r, pc[r], a) /\ pc[r] \in LogSteps
    BY <1>6 DEF SoftDelete
  <2>3. \A e \in EventIds : event'[e].type = event[e].type
    BY <1>6, DeletedRow
  <2> HIDE DEF a
  <2>1. /\ a \in Args /\ a.uses = arg[r].uses /\ a.event = arg[r].event
        /\ a.type = arg[r].type /\ a.op = arg[r].op /\ a.mileage = arg[r].mileage
        /\ a.todo = arg[r].todo /\ (a.soft => arg[r].soft)
    BY <1>1, <2>a, Halves
  <2> QED
    BY <1>5, <2>1, <2>2, <2>3
<1>7. CASE FailSoftDelete(r)
  <2> DEFINE a == [arg[r] EXCEPT !.soft = FALSE, !.failed = TRUE]
  <2>a. a = [arg[r] EXCEPT !.soft = FALSE, !.failed = TRUE]
    OBVIOUS
  <2>2. Goto(r, pc[r], a) /\ pc[r] \in LogSteps /\ event' = event
    BY <1>7 DEF FailSoftDelete, Continue, tables
  <2> HIDE DEF a
  <2>1. /\ a \in Args /\ a.uses = arg[r].uses /\ a.event = arg[r].event
        /\ a.type = arg[r].type /\ a.op = arg[r].op /\ a.mileage = arg[r].mileage
        /\ a.todo = arg[r].todo /\ (a.soft => arg[r].soft)
    BY <1>1, <2>a, Halves
  <2> QED
    BY <1>5, <2>1, <2>2
<1>8. CASE FailUnlog(r)
  <2> DEFINE a == [arg[r] EXCEPT !.failed = TRUE]
  <2>a. a = [arg[r] EXCEPT !.failed = TRUE]
    OBVIOUS
  <2>2. /\ Goto(r, "join", a) /\ pc[r] \in LogSteps /\ event' = event
        /\ arg[r].op = "delete" /\ "join" \in LogSteps
    BY <1>8 DEF FailUnlog, Continue, tables, LogSteps
  <2> HIDE DEF a
  <2>1. /\ a \in Args /\ a.uses = arg[r].uses /\ a.event = arg[r].event
        /\ a.type = arg[r].type /\ a.op = arg[r].op /\ a.mileage = arg[r].mileage
        /\ a.todo = arg[r].todo /\ (a.soft => arg[r].soft)
    BY <1>1, <2>a, Halves
  <2> QED
    BY <1>5, <2>1, <2>2
<1>9. CASE Join(r)
  <2>1. CASE arg[r].failed
    BY <1>9, <2>1, BreakBase DEF Join
  <2>2. CASE ~arg[r].failed
    <3>1. /\ Goto(r, ThenInfo(arg[r]), arg[r]) /\ event' = event
          /\ ~arg[r].soft /\ arg[r].op = "delete"
      BY <1>1, <1>9, <2>2 DEF Join, Continue, tables, Carries
    <3>2. Carries(ThenInfo(arg[r]), Kept(ThenInfo(arg[r]), arg[r]))
      BY <1>1, <2>2, <3>1, CarryInfo
    <3>3. ThenInfo(arg[r]) \in Steps
      BY <1>1, ThenType DEF Steps
    <3> QED
      BY <1>1, <3>1, <3>2, <3>3, BasePlain
  <2> QED
    BY <2>1, <2>2
<1> QED
  BY <1>3, <1>4, <1>6, <1>7, <1>8, <1>9

(* The row that an insert fills was free, and no request used it. *)
LEMMA ServiceRow ==
  ASSUME Base, NEW r \in Requests, ServiceCommit(r)
  PROVE  \E e \in EventIds :
           /\ event[e].st = "free" /\ event'[e] = NewRow(arg[r])
           /\ log' = [log EXCEPT ![e] = arg[r].mileage]
           /\ \A f \in EventIds \ {e} : event'[f] = event[f]
           /\ \A q \in Requests : e \notin arg[q].uses
<1>1. TypeOK
  BY DEF Base, Shape
<1>2. PICK e \in EventIds : /\ event[e].st = "free"
                            /\ event' = [event EXCEPT ![e] = NewRow(arg[r])]
                            /\ log' = [log EXCEPT ![e] = arg[r].mileage]
  BY DEF ServiceCommit
<1>3. \A q \in Requests : e \notin arg[q].uses
  BY <1>2 DEF Base, Shape, Knows
<1> QED
  BY <1>1, <1>2, <1>3 DEF TypeOK

LEMMA ServiceBase ==
  ASSUME Base, Shape', NEW r \in Requests, ServiceMax(r) \/ ServiceCommit(r) PROVE Base'
<1>1. /\ TypeOK /\ arg[r] \in Args /\ Carries(pc[r], arg[r]) /\ arg[r].mileage \in Nat
      /\ {"service.commit", "done"} \subseteq Steps
  BY DEF Base, Shape, TypeOK, Knows, HasMileage, ServiceMax, ServiceCommit, Steps
<1>2. CASE ServiceMax(r)
  <2>1. PICK m \in Logs \cup {arg[r].mileage} :
          Continue(r, "service.commit", [arg[r] EXCEPT !.max = m])
    BY <1>2 DEF ServiceMax
  <2> DEFINE a == [arg[r] EXCEPT !.max = m]
  <2>2. m \in Nat
    BY <1>1 DEF Logs, TypeOK
  <2>3. /\ a \in Args /\ a.uses = arg[r].uses /\ a.event = arg[r].event /\ a.type = arg[r].type
        /\ a.op = arg[r].op /\ a.todo = arg[r].todo /\ a.soft = arg[r].soft /\ a.at = arg[r].at
    BY <1>1, <2>2 DEF Args
  <2>4. Goto(r, "service.commit", a) /\ event' = event /\ pc[r] = "service.max"
    BY <1>2, <2>1 DEF Continue, tables, ServiceMax
  <2> HIDE DEF a
  <2>5. Carries("service.commit", a) /\ Kept("service.commit", a) = a
    BY <1>1, <2>3, <2>4 DEF Carries, Kept, HasEvent, Tail
  <2> QED
    BY <1>1, <2>3, <2>4, <2>5, BaseChanged DEF HasEvent
<1>3. CASE ServiceCommit(r)
  <2>1. \A e \in EventIds : event[e].st # "free" => event'[e].type = event[e].type
    BY <1>3, ServiceRow
  <2>2. Goto(r, "done", arg[r]) /\ pc[r] = "service.commit"
    BY <1>3 DEF ServiceCommit
  <2>3. ThenVisits(arg[r]) = "done"
    BY <1>1, <2>2 DEF Carries, ThenVisits
  <2>4. Carries("done", Kept("done", arg[r]))
    BY <1>1, <2>3, CarryTail
  <2> QED
    BY <1>1, <2>1, <2>2, <2>4, BaseChanged DEF HasEvent
<1> QED
  BY <1>2, <1>3

LEMMA EndsBase ==
  ASSUME Base, Shape', NEW r \in Requests, PatchVehicle(r) \/ Reply(r) \/ Fail(r)
  PROVE  Base'
<1>1. CASE PatchVehicle(r)
  BY <1>1, BaseEnd DEF PatchVehicle
<1>2. CASE Reply(r)
  <2> DEFINE left == IF crossed THEN torn ELSE torn \ Recomputed(r)
  <2>1. End(r, left) /\ event' = event /\ (crossed => torn \subseteq left)
    BY <1>2 DEF Reply, tables
  <2> HIDE DEF left
  <2> QED
    BY <2>1, BaseEnd
<1>3. CASE Fail(r)
  BY <1>3, BaseEnd, BreakBase DEF Fail, tables
<1> QED
  BY <1>1, <1>2, <1>3

(* What the requests that arrive carry *)
LEMMA Created ==
  ASSUME NEW r \in Requests, NEW t \in Types, NEW m \in Mileages,
         NEW s \in Stations \cup {Null}, OpenCreate(r, t, m, s)
  PROVE  \E a \in Args :
           /\ Opened(r, "insert", a) /\ Carries("insert", a) /\ a.op = "create"
           /\ a.type = t /\ a.uses \cap Stations = a.todo
           /\ a.uses \cap InfoTypes = InfoTypes \cap {t}
<1> DEFINE at == {s} \ {Null}
           uses == at \cup {"odometer"} \cup (InfoTypes \cap {t})
           a == [NoArgs EXCEPT
                   !.op = "create", !.type = t, !.at = s, !.mileage = m, !.todo = at,
                   !.uses = uses]
<1>1. Opened(r, "insert", a)
  BY DEF OpenCreate
<1>2. uses \in SUBSET Resources /\ at \in SUBSET Stations /\ m \in Nat /\ t \in TimelineType
  BY ConstantsAssumption DEF Resources
<1>3. /\ uses \cap EventIds = {} /\ uses \cap Stations = at /\ at \subseteq uses
      /\ uses \cap InfoTypes = InfoTypes \cap {t} /\ s \in uses \cup {Null}
  BY ConstantsAssumption DEF InfoTypes
<1> HIDE DEF at, uses
<1>4. /\ a \in Args /\ a.op = "create" /\ a.type = t /\ a.at = s /\ a.mileage = m
      /\ a.todo = at /\ a.uses = uses /\ a.soft = FALSE
  BY <1>2, NoArgsType DEF Args, NoArgs, Ops
<1> HIDE DEF a
<1>5. Carries("insert", a)
  BY <1>3, <1>4 DEF Carries, HasEvent, Tail
<1> QED
  BY <1>1, <1>3, <1>4, <1>5

LEMMA Updated ==
  ASSUME TypeOK, NEW r \in Requests, NEW e \in EventIds, NEW m \in Mileages \cup {Null},
         NEW s \in Stations \cup {Null}, OpenUpdate(r, e, m, s)
  PROVE  \E a \in Args :
           /\ Opened(r, "update", a) /\ Carries("update", a) /\ Live(e)
           /\ a.op = "update" /\ a.event = e /\ a.type = event[e].type /\ a.mileage = m
           /\ (a.relog <=> m # Null /\ m # event[e].mileage)
           /\ a.uses \cap Stations = a.todo /\ event[e].at \in a.todo \cup {Null}
           /\ a.uses \cap EventIds = {e} /\ a.uses \cap InfoTypes = {}
<1> DEFINE at == {event[e].at, s} \ {Null}
           relog == m # Null /\ m # event[e].mileage
           uses == at \cup {e} \cup (IF relog THEN {"odometer"} ELSE {})
           a == [NoArgs EXCEPT !.op = "update", !.event = e, !.type = event[e].type,
                               !.mileage = m, !.at = s, !.relog = relog, !.todo = at,
                               !.uses = uses]
<1>1. Updating(e, m, s, at) = a
  BY Zenon DEF Updating
<1>2. Opened(r, "update", Updating(e, m, s, at)) /\ Live(e)
  BY DEF OpenUpdate
<1>3. event[e] \in EventRow
  BY <1>2 DEF TypeOK, Live, FreeEvent
<1>4. /\ event[e].type \in TimelineType /\ at \in SUBSET Stations /\ s \in at \cup {Null}
      /\ m \in Nat \cup {Null} /\ {event[e].at} \ {Null} \subseteq at
  BY <1>3, ConstantsAssumption DEF EventRow
<1>5. relog \in BOOLEAN /\ (relog <=> m # Null /\ m # event[e].mileage)
  OBVIOUS
<1> HIDE DEF relog, at
<1>6. uses \in SUBSET Resources
  BY <1>4 DEF Resources
<1>7. /\ uses \cap EventIds = {e} /\ uses \cap Stations = at /\ uses \cap InfoTypes = {}
      /\ s \in uses \cup {Null} /\ at \subseteq uses
  BY <1>4, ConstantsAssumption DEF InfoTypes
<1> HIDE DEF uses
<1>8. /\ a \in Args /\ a.op = "update" /\ a.event = e /\ a.type = event[e].type
      /\ a.mileage = m /\ a.at = s /\ a.todo = at /\ a.uses = uses /\ a.soft = FALSE
      /\ a.relog = relog
  BY <1>4, <1>5, <1>6 DEF Args, NoArgs, Ops
<1> HIDE DEF a
<1>9. Carries("update", a)
  BY <1>7, <1>8 DEF Carries, HasEvent, Tail
<1> QED
  BY <1>1, <1>2, <1>4, <1>5, <1>7, <1>8, <1>9

LEMMA Deleted ==
  ASSUME TypeOK, NEW r \in Requests, NEW e \in EventIds, OpenDelete(r, e)
  PROVE  \E a \in Args, step \in {"raw.delete", "unlog"} :
           /\ Opened(r, step, a) /\ Carries(step, a) /\ Live(e)
           /\ (step = "raw.delete" <=> event[e].type = "DOCUMENT")
           /\ a.op = "delete" /\ a.event = e /\ a.type = event[e].type /\ a.soft
           /\ a.uses \cap Stations = a.todo /\ a.todo = {event[e].at} \ {Null}
           /\ a.uses \cap EventIds = {e}
           /\ a.uses \cap InfoTypes = InfoTypes \cap {event[e].type}
<1> DEFINE at == {event[e].at} \ {Null}
           t == event[e].type
           step == IF t = "DOCUMENT" THEN "raw.delete" ELSE "unlog"
           uses == at \cup {e, "odometer"} \cup (InfoTypes \cap {t})
           a == [NoArgs EXCEPT !.op = "delete", !.event = e, !.type = t, !.todo = at,
                               !.soft = TRUE, !.uses = uses]
<1>1. Live(e) /\ Opened(r, step, a)
  BY DEF OpenDelete
<1>2. event[e] \in EventRow
  BY <1>1 DEF TypeOK, Live, FreeEvent
<1>3. t \in TimelineType /\ at \in SUBSET Stations
  BY <1>2, ConstantsAssumption DEF EventRow
<1>4. uses \in SUBSET Resources
  BY <1>3 DEF Resources
<1>5. /\ uses \cap EventIds = {e} /\ uses \cap Stations = at
      /\ uses \cap InfoTypes = InfoTypes \cap {t} /\ at \subseteq uses
  BY <1>3, ConstantsAssumption DEF InfoTypes
<1>6. /\ at = {event[e].at} \ {Null} /\ t = event[e].type
      /\ step \in {"raw.delete", "unlog"} /\ (step = "raw.delete" <=> t = "DOCUMENT")
  OBVIOUS
<1> HIDE DEF at, t, step, uses
<1>7. /\ a \in Args /\ a.op = "delete" /\ a.event = e /\ a.type = t
      /\ a.todo = at /\ a.uses = uses /\ a.soft
  BY <1>3, <1>4 DEF Args, NoArgs, Ops
<1> HIDE DEF a
<1>8. Carries(step, a)
  BY <1>5, <1>6, <1>7 DEF Carries, HasEvent, Tail
<1> QED
  BY <1>1, <1>5, <1>6, <1>7, <1>8

(* A service, and a mileage of the vehicle *)
LEMMA OtherOpened ==
  ASSUME NEW r \in Requests, NEW m \in Mileages, OpenService(r, m) \/ OpenPatch(r, m)
  PROVE  \E a \in Args, step \in {"service.max", "patch"} :
           Opened(r, step, a) /\ Carries(step, a) /\ a.uses = {"odometer"}
<1> DEFINE a == [NoArgs EXCEPT !.op = "service", !.mileage = m, !.uses = {"odometer"}]
           b == [NoArgs EXCEPT !.op = "patch", !.mileage = m, !.uses = {"odometer"}]
<1>1. /\ a \in Args /\ a.op = "service" /\ a.uses = {"odometer"} /\ a.todo = {}
      /\ a.at = Null /\ a.type = "SERVICE" /\ ~a.soft
  BY NoArgsType, ConstantsAssumption DEF Args, Resources, Ops, NoArgs
<1>2. /\ b \in Args /\ b.op = "patch" /\ b.uses = {"odometer"} /\ b.todo = {} /\ ~b.soft
  BY NoArgsType, ConstantsAssumption DEF Args, Resources, Ops, NoArgs
<1>3. Opened(r, "service.max", a) \/ Opened(r, "patch", b)
  BY DEF OpenService, OpenPatch
<1> HIDE DEF a, b
<1>4. Carries("service.max", a)
  BY <1>1, ConstantsAssumption DEF Carries, HasEvent, Tail, InfoTypes
<1>5. Carries("patch", b)
  BY <1>2, ConstantsAssumption DEF Carries, HasEvent, Tail, InfoTypes
<1> QED
  BY <1>1, <1>2, <1>3, <1>4, <1>5

LEMMA ArriveBase == ASSUME Base, Shape', NEW r \in Requests, Arrive(r) PROVE Base'
<1>1. /\ TypeOK
      /\ {"insert", "update", "unlog", "raw.delete", "service.max", "patch"} \subseteq Steps
  BY DEF Base, Shape, Steps, LogSteps
<1>2. ASSUME NEW t \in Types, NEW m \in Mileages, NEW s \in Stations \cup {Null},
             OpenCreate(r, t, m, s)
      PROVE  Base'
  BY <1>1, <1>2, Created, BaseOpened DEF HasEvent
<1>3. ASSUME NEW e \in EventIds, NEW m \in Mileages \cup {Null}, NEW s \in Stations \cup {Null},
             OpenUpdate(r, e, m, s)
      PROVE  Base'
  BY <1>1, <1>3, Updated, BaseOpened
<1>4. ASSUME NEW e \in EventIds, OpenDelete(r, e) PROVE Base'
  BY <1>1, <1>4, Deleted, BaseOpened
<1>5. ASSUME NEW m \in Mileages, OpenService(r, m) \/ OpenPatch(r, m) PROVE Base'
  BY <1>1, <1>5, OtherOpened, BaseOpened DEF HasEvent
<1> QED
  BY <1>2, <1>3, <1>4, <1>5 DEF Arrive

LEMMA StepBase == ASSUME Base, [Next]_vars PROVE Base'
<1>1. Shape'
  BY StepShape DEF Base
<1>2. ASSUME NEW r \in Requests, Step(r) PROVE Base'
  BY <1>1, <1>2, InsertBase, LogBase, ReadMaxBase, WriteOdoBase, DocumentBase, VisitsBase,
     UpdateBase, DeleteBase, ServiceBase, EndsBase DEF Step
<1>3. ASSUME NEW e \in EventIds, DeleteReminder(e) PROVE Base'
  <2>1. /\ event' = event /\ pc' = pc /\ arg' = arg /\ crossed' = crossed
        /\ torn \subseteq torn'
    BY <1>3 DEF DeleteReminder
  <2> QED
    BY <1>1, <2>1 DEF Base, Together, TypeHeld, Carries
<1>4. CASE UNCHANGED vars
  BY <1>1, <1>4 DEF vars, Base, Together, TypeHeld, Carries
<1> QED
  BY <1>1, <1>2, <1>3, <1>4, ArriveBase, DeleteBase, EndsBase DEF Next

-----------------------------------------------------------------------------
(* An event and what is stored beside it *)

(* The row of an event, its mileage in the log, and how many reminders *)
Agrees(row, m, n) ==
  IF row.st = "live"
  THEN m = row.mileage /\ n = (IF row.type = "DOCUMENT" THEN 1 ELSE 0)
  ELSE m = Null /\ n = 0

FreeReminders == \A e \in EventIds : event[e].st = "free" => reminder[e] = 0

(* How far a request that creates or updates an event has come with it *)
Storing(p, a, row, m, n) ==
  /\ row.st = "live" /\ n \in {0, 1} /\ (a.type # "DOCUMENT" => n = 0)
  /\ p \in {"log", "relog"} => row.mileage = a.mileage
  /\ p = "update" => /\ Agrees(row, m, n)
                     /\ a.relog <=> a.mileage # Null /\ a.mileage # row.mileage
  /\ p = "relog" => m # Null
  /\ p \in {"max", "odo", "info", "raw", "find", "remind", "renew"} => m = row.mileage
  /\ p = "remind" => n = 0
  /\ p = "renew" => n = 1

(* How far one that deletes it has come *)
Deleting(p, a, row, m, n) ==
  /\ p = "raw.delete" => row.st = "live"
  /\ p \in LogSteps \cup {"info"} => n = 0 /\ (a.soft \/ a.failed \/ row.st = "gone")
  /\ p \in {"max", "odo", "info"} \/ (p = "join" /\ ~a.failed) => m = Null

Handled(p, a, row, m, n) ==
  IF a.op = "delete" THEN Deleting(p, a, row, m, n) ELSE Storing(p, a, row, m, n)

EventAt(r) ==
  pc[r] \in HasEvent /\ arg[r].event \notin torn
    => Handled(pc[r], arg[r], event[arg[r].event], log[arg[r].event],
               reminder[arg[r].event])

EventsAgree ==
  \A e \in EventIds \ torn :
    (\A r \in Requests : e \in arg[r].uses => pc[r] \in Tail)
      => Agrees(event[e], log[e], reminder[e])

EInv == FreeReminders /\ EventsAgree /\ \A r \in Requests : EventAt(r)

Same(e) == event'[e] = event[e] /\ log'[e] = log[e] /\ reminder'[e] = reminder[e]

LEMMA InitEInv == Init => EInv
<1> SUFFICES ASSUME Init PROVE EInv
  OBVIOUS
<1>1. \A e \in EventIds : event[e].st = "free" /\ log[e] = Null /\ reminder[e] = 0
  BY DEF Init, FreeEvent
<1>2. FreeReminders /\ EventsAgree
  BY <1>1 DEF FreeReminders, EventsAgree, Agrees, Live
<1>3. \A r \in Requests : EventAt(r)
  BY DEF Init, EventAt, HasEvent
<1> QED
  BY <1>2, <1>3 DEF EInv

(* What the other requests know of their events stays true. *)
LEMMA OthersEvents ==
  ASSUME Base, Base', EInv, NEW r \in Requests,
         \A q \in Requests \ {r} : pc'[q] = pc[q] /\ arg'[q] = arg[q],
         \A e \in EventIds : e \in arg[r].uses \/ event[e].st = "free" \/ Same(e),
         \A e \in EventIds : e \in torn => e \in torn',
         EventAt(r)'
  PROVE  \A q \in Requests : EventAt(q)'
<1> SUFFICES ASSUME NEW q \in Requests, q # r, pc[q] \in HasEvent, arg[q].event \notin torn'
             PROVE  Handled(pc[q], arg[q], event'[arg[q].event], log'[arg[q].event],
                            reminder'[arg[q].event])
  BY DEF EventAt
<1> DEFINE e == arg[q].event
<1>1. pc'[q] = pc[q] /\ arg'[q] = arg[q] /\ Knows(q) /\ Carries(pc[q], arg[q])
  BY DEF Base, Shape
<1>2. e \in EventIds /\ event[e].st # "free" /\ e \in arg[q].uses
  BY <1>1 DEF Knows, Carries
<1>3. e \notin torn
  BY <1>2
<1>4. e \notin arg[r].uses
  BY <1>2, <1>3 DEF Base, Shape, Apart
<1>5. Same(e)
  BY <1>2, <1>4
<1>6. Handled(pc[q], arg[q], event[e], log[e], reminder[e])
  BY <1>3 DEF EInv, EventAt
<1> QED
  BY <1>1, <1>5, <1>6 DEF Handled, Storing, Deleting, Agrees, Live, Same

(* An event that a step writes agrees after it, or is still at work. *)
LEMMA EventsGoOn ==
  ASSUME Base, Base', EInv, NEW r \in Requests,
         \A q \in Requests \ {r} : pc'[q] = pc[q] /\ arg'[q] = arg[q],
         \A e \in EventIds : e \in arg[r].uses \/ event[e].st = "free" \/ Same(e),
         \A e \in EventIds : e \in torn => e \in torn',
         EventAt(r)', FreeReminders',
         \A e \in EventIds \ torn' :
           \/ Same(e) /\ (e \in arg[r].uses /\ pc[r] \notin Tail
                            => e \in arg'[r].uses /\ pc'[r] \notin Tail)
           \/ e \in arg'[r].uses /\ pc'[r] \notin Tail
           \/ Agrees(event'[e], log'[e], reminder'[e])
  PROVE  EInv'
<1>1. ASSUME NEW e \in EventIds \ torn',
             \A q \in Requests : e \in arg'[q].uses => pc'[q] \in Tail
      PROVE  Agrees(event'[e], log'[e], reminder'[e])
  <2>1. CASE Same(e) /\ (e \in arg[r].uses => pc[r] \in Tail)
    <3>1. e \in EventIds \ torn
      OBVIOUS
    <3>2. \A q \in Requests : e \in arg[q].uses => pc[q] \in Tail
      BY <1>1, <2>1
    <3>3. Agrees(event[e], log[e], reminder[e])
      BY <3>1, <3>2 DEF EInv, EventsAgree
    <3> QED
      BY <2>1, <3>3 DEF Agrees, Live, Same
  <2> QED
    BY <1>1, <2>1
<1>2. EventsAgree'
  BY <1>1 DEF EventsAgree
<1> QED
  BY <1>2, OthersEvents DEF EInv

(* A step that writes its own event only *)
LEMMA EventWrites ==
  ASSUME Base, Base', EInv, NEW r \in Requests, NEW step \in Steps, NEW a \in Args,
         Goto(r, step, a), pc[r] \in HasEvent, a.uses = arg[r].uses,
         \A e \in EventIds \ {arg[r].event} : Same(e),
         step \in HasEvent => a.event = arg[r].event,
         step \in HasEvent /\ arg[r].event \notin torn
           => Handled(step, a, event'[arg[r].event], log'[arg[r].event],
                      reminder'[arg[r].event]),
         step \notin HasEvent =>
           step \in Tail /\ (arg[r].event \notin torn
                             => Agrees(event'[arg[r].event], log'[arg[r].event],
                                       reminder'[arg[r].event]))
  PROVE  EInv'
<1> DEFINE e == arg[r].event
<1>1. TypeOK /\ Carries(pc[r], arg[r])
  BY DEF Base, Shape
<1>2. /\ pc'[r] = step /\ arg'[r].uses = arg[r].uses /\ torn' = torn
      /\ step \in HasEvent => arg'[r] = a
      /\ \A q \in Requests \ {r} : pc'[q] = pc[q] /\ arg'[q] = arg[q]
  BY <1>1, GotoType, KeptType DEF HasEvent
<1>3. e \in arg[r].uses /\ e \in EventIds /\ arg[r].uses \cap EventIds = {e}
  BY <1>1 DEF Carries
<1>4. event'[e].st # "free"
  BY <1>2, <1>3 DEF Base, Shape, Knows
<1>5. FreeReminders'
  BY <1>3, <1>4 DEF EInv, FreeReminders, Same
<1>6. EventAt(r)'
  <2> SUFFICES ASSUME step \in HasEvent, e \notin torn
               PROVE Handled(step, a, event'[e], log'[e], reminder'[e])
    BY <1>2 DEF EventAt, Handled, Storing, Deleting, Agrees, Live
  <2> QED
    OBVIOUS
<1>7. step \in HasEvent => step \notin Tail
  BY DEF HasEvent, Tail
<1>8. \A f \in EventIds : f \in arg[r].uses \/ Same(f)
  BY <1>3
<1> QED
  BY <1>2, <1>3, <1>5, <1>6, <1>7, <1>8, EventsGoOn

(* One that writes none *)
LEMMA EventPlain ==
  ASSUME Base, Base', EInv, NEW r \in Requests, NEW step \in Steps, Goto(r, step, arg[r]),
         pc[r] \in HasEvent, event' = event, log' = log, reminder' = reminder,
         step \in HasEvent /\ arg[r].event \notin torn
           => Handled(step, arg[r], event[arg[r].event], log[arg[r].event],
                      reminder[arg[r].event]),
         step \notin HasEvent =>
           step \in Tail /\ (arg[r].event \notin torn
                             => Agrees(event[arg[r].event], log[arg[r].event],
                                       reminder[arg[r].event]))
  PROVE  EInv'
<1>1. arg[r] \in Args
  BY DEF Base, Shape, TypeOK
<1>2. \A e \in EventIds \ {arg[r].event} : Same(e)
  BY DEF Same
<1>3. \A e : (Agrees(event'[e], log'[e], reminder'[e])
              <=> Agrees(event[e], log[e], reminder[e]))
  BY DEF Agrees, Live
<1>4. step \in HasEvent /\ arg[r].event \notin torn
        => Handled(step, arg[r], event'[arg[r].event], log'[arg[r].event],
                   reminder'[arg[r].event])
  BY DEF Handled, Storing, Deleting, Agrees, Live
<1> QED
  BY <1>1, <1>2, <1>3, <1>4, EventWrites

(* One of a request that has no event at work *)
LEMMA EventQuiet ==
  ASSUME Base, Base', EInv, NEW r \in Requests, NEW step \in Steps, NEW a \in Args,
         Goto(r, step, a), a.uses = arg[r].uses, pc[r] \notin HasEvent, step \notin HasEvent,
         event' = event, log' = log, reminder' = reminder
  PROVE  EInv'
<1>1. TypeOK /\ Carries(pc[r], arg[r])
  BY DEF Base, Shape
<1>2. /\ pc'[r] = step /\ arg'[r].uses = arg[r].uses /\ torn' = torn
      /\ \A q \in Requests \ {r} : pc'[q] = pc[q] /\ arg'[q] = arg[q]
  BY <1>1, GotoType
<1>3. \A e \in EventIds : Same(e)
  BY DEF Same
<1>4. FreeReminders' /\ EventAt(r)'
  BY <1>2 DEF EInv, FreeReminders, EventAt
<1>5. \A e \in EventIds : e \in arg[r].uses => pc[r] \in Tail
  BY <1>1 DEF Carries
<1> QED
  BY <1>2, <1>3, <1>4, <1>5, EventsGoOn

LEMMA EventsEnd ==
  ASSUME Base, Base', EInv, NEW r \in Requests, NEW left, End(r, left),
         event' = event, log' = log, reminder' = reminder,
         \A e \in EventIds : e \in torn => e \in left,
         \A e \in EventIds \cap arg[r].uses : e \in left \/ pc[r] \in Tail
  PROVE  EInv'
<1>1. TypeOK
  BY DEF Base, Shape
<1>2. /\ pc'[r] = "idle" /\ arg'[r] = NoArgs /\ torn' = left
      /\ \A q \in Requests \ {r} : pc'[q] = pc[q] /\ arg'[q] = arg[q]
  BY <1>1, EndType
<1>3. \A e \in EventIds : Same(e)
  BY DEF Same
<1>4. FreeReminders' /\ EventAt(r)'
  BY <1>2 DEF EInv, FreeReminders, EventAt, HasEvent
<1> QED
  BY <1>2, <1>3, <1>4, EventsGoOn

LEMMA EventsOpened ==
  ASSUME Base, Base', EInv, NEW r \in Requests, NEW step \in Steps, NEW a \in Args,
         Opened(r, step, a),
         step \in HasEvent /\ Agrees(event[a.event], log[a.event], reminder[a.event])
           => Handled(step, a, event[a.event], log[a.event], reminder[a.event]),
         step \in HasEvent => a.event \in EventIds /\ a.event \in a.uses
  PROVE  EInv'
<1>1. /\ TypeOK /\ pc[r] = "idle" /\ arg[r] = NoArgs
      /\ event' = event /\ log' = log /\ reminder' = reminder
  BY DEF Base, Shape, Knows, Opened, tables, derived
<1>2. /\ pc'[r] = step /\ arg'[r] = a /\ torn \subseteq torn'
      /\ \A q \in Requests \ {r} : pc'[q] = pc[q] /\ arg'[q] = arg[q]
  BY <1>1 DEF Opened, TypeOK
<1>3. ASSUME NEW e \in EventIds, e \notin torn', e \in a.uses
      PROVE Agrees(event[e], log[e], reminder[e])
  <2>1. ASSUME NEW q \in Requests, e \in arg[q].uses PROVE FALSE
    <3>1. pc[q] # "idle"
      BY <2>1, NoArgsType DEF Base, Shape, Knows
    <3>2. q \in Rivals(a)
      BY <1>3, <2>1, <3>1 DEF Rivals
    <3> QED
      BY <1>3, <3>2 DEF Opened
  <2> QED
    BY <1>2, <1>3, <2>1 DEF EInv, EventsAgree
<1>4. EventAt(r)'
  <2> SUFFICES ASSUME step \in HasEvent, a.event \notin torn'
               PROVE Handled(step, a, event'[a.event], log'[a.event], reminder'[a.event])
    BY <1>2 DEF EventAt, Handled, Storing, Deleting, Agrees, Live
  <2>1. Handled(step, a, event[a.event], log[a.event], reminder[a.event])
    BY <1>3
  <2> QED
    BY <1>1, <2>1 DEF Handled, Storing, Deleting, Agrees, Live
<1>5. \A e \in EventIds : Same(e)
  BY <1>1 DEF Same
<1>6. FreeReminders'
  BY <1>1 DEF EInv, FreeReminders
<1>7. arg[r].uses = {}
  BY <1>1, NoArgsType
<1> QED
  BY <1>2, <1>4, <1>5, <1>6, <1>7, EventsGoOn

-----------------------------------------------------------------------------
(* One lemma per step of a request: events stay as far as they have come. *)

LEMMA BreakEvents == ASSUME Base, Base', EInv, NEW r \in Requests, Break(r) PROVE EInv'
BY EventsEnd DEF Break, tables, derived

LEMMA InsertEvents == ASSUME Base, Base', EInv, NEW r \in Requests, Insert(r) PROVE EInv'
<1>1. PICK e \in EventIds :
        /\ event[e].st = "free"
        /\ event' = [event EXCEPT ![e] = NewRow(arg[r])]
        /\ Goto(r, "log", [arg[r] EXCEPT !.event = e, !.uses = @ \cup {e}])
  BY DEF Insert
<1> DEFINE a == [arg[r] EXCEPT !.event = e, !.uses = @ \cup {e}]
<1>2. TypeOK /\ arg[r] \in Args /\ Carries("insert", arg[r]) /\ "log" \in Steps
        /\ pc[r] = "insert"
  BY DEF Base, Shape, TypeOK, Insert, Steps
<1>3. /\ a \in Args /\ a.event = e /\ a.uses = arg[r].uses \cup {e}
      /\ a.type = arg[r].type /\ a.op = arg[r].op /\ a.mileage = arg[r].mileage
  BY <1>2 DEF Args, Resources
<1>4. Goto(r, "log", a)
  BY <1>1
<1> HIDE DEF a
<1>5. /\ pc'[r] = "log" /\ arg'[r] = a /\ torn' = torn
      /\ \A q \in Requests \ {r} : pc'[q] = pc[q] /\ arg'[q] = arg[q]
  BY <1>2, <1>3, <1>4, GotoType, KeptType
<1>6. log' = log /\ reminder' = reminder
  BY DEF Insert, derived
<1>7. /\ event'[e].st = "live" /\ event'[e].mileage = arg[r].mileage
      /\ event'[e].type = arg[r].type /\ \A f \in EventIds \ {e} : event'[f] = event[f]
  BY <1>1, <1>2 DEF TypeOK, NewRow
<1>8. reminder[e] = 0
  BY <1>1 DEF EInv, FreeReminders
<1>9. a.op = "create"
  BY <1>2, <1>3 DEF Carries
<1>10. EventAt(r)'
  <2>1. Storing("log", a, event'[e], log'[e], reminder'[e])
    BY <1>3, <1>5, <1>6, <1>7, <1>8 DEF Storing, Live
  <2> QED
    BY <1>3, <1>5, <1>9, <2>1 DEF EventAt, Handled, Storing, Live, Agrees
<1>11. FreeReminders'
  BY <1>6, <1>7 DEF EInv, FreeReminders
<1>12. \A f \in EventIds : event[f].st = "free" \/ Same(f)
  BY <1>1, <1>6, <1>7 DEF Same
<1>13. \A f \in EventIds : (f = e /\ e \in arg'[r].uses) \/ (f \notin arg[r].uses /\ Same(f))
  BY <1>2, <1>3, <1>5, <1>6, <1>7 DEF Same, Carries, HasEvent, Tail
<1>14. pc'[r] \notin Tail
  BY <1>5 DEF Tail
<1> QED
  BY <1>5, <1>10, <1>11, <1>12, <1>13, <1>14, EventsGoOn

LEMMA ServiceEvents ==
  ASSUME Base, Base', EInv, NEW r \in Requests, ServiceMax(r) \/ ServiceCommit(r) PROVE EInv'
<1>1. /\ TypeOK /\ arg[r] \in Args /\ Carries(pc[r], arg[r])
      /\ {"service.commit", "done"} \subseteq Steps
      /\ pc[r] \in {"service.max", "service.commit"}
  BY DEF Base, Shape, TypeOK, ServiceMax, ServiceCommit, Steps
<1>2. CASE ServiceMax(r)
  <2>1. PICK m \in Logs \cup {arg[r].mileage} :
          Continue(r, "service.commit", [arg[r] EXCEPT !.max = m])
    BY <1>2 DEF ServiceMax
  <2> DEFINE a == [arg[r] EXCEPT !.max = m]
  <2>2. m \in Nat
    BY <1>1, <1>2 DEF Logs, TypeOK, ServiceMax, Base, Shape, Knows, HasMileage
  <2>3. a \in Args /\ a.uses = arg[r].uses
    BY <1>1, <2>2 DEF Args
  <2>4. Goto(r, "service.commit", a) /\ event' = event /\ log' = log /\ reminder' = reminder
    BY <2>1 DEF Continue, tables, derived
  <2> HIDE DEF a
  <2> QED
    BY <1>1, <2>3, <2>4, EventQuiet DEF HasEvent
<1>3. CASE ServiceCommit(r)
  <2>1. PICK e \in EventIds :
           /\ event[e].st = "free" /\ event'[e] = NewRow(arg[r])
           /\ log' = [log EXCEPT ![e] = arg[r].mileage]
           /\ \A f \in EventIds \ {e} : event'[f] = event[f]
           /\ \A q \in Requests : e \notin arg[q].uses
    BY <1>3, ServiceRow
  <2>2. Goto(r, "done", arg[r]) /\ reminder' = reminder /\ pc[r] = "service.commit"
    BY <1>3 DEF ServiceCommit
  <2>3. /\ pc'[r] = "done" /\ torn' = torn
        /\ \A q \in Requests \ {r} : pc'[q] = pc[q] /\ arg'[q] = arg[q]
    BY <1>1, <2>2, GotoType
  <2>4. /\ event'[e].st = "live" /\ event'[e].mileage = arg[r].mileage
        /\ event'[e].type = "SERVICE"
    BY <1>1, <2>1, <2>2 DEF NewRow, Carries
  <2>5. /\ log'[e] = arg[r].mileage /\ reminder'[e] = 0
        /\ \A f \in EventIds \ {e} : log'[f] = log[f]
    BY <1>1, <2>1, <2>2 DEF TypeOK, EInv, FreeReminders
  <2>6. Agrees(event'[e], log'[e], reminder'[e]) /\ \A f \in EventIds \ {e} : Same(f)
    BY <2>1, <2>2, <2>4, <2>5 DEF Agrees, Live, Same
  <2>7. FreeReminders' /\ EventAt(r)'
    BY <2>1, <2>2, <2>3, <2>4 DEF EInv, FreeReminders, EventAt, HasEvent
  <2>8. \A f \in EventIds : f \notin arg[r].uses
    BY <1>1, <2>2 DEF Carries, HasEvent, Tail
  <2> QED
    BY <2>1, <2>3, <2>6, <2>7, <2>8, EventsGoOn
<1> QED
  BY <1>2, <1>3

LEMMA LogEvents ==
  ASSUME Base, Base', EInv, NEW r \in Requests, InsertLog(r) \/ Relog(r) \/ Unlog(r)
  PROVE  EInv'
<1> DEFINE e == arg[r].event
<1>1. /\ TypeOK /\ arg[r] \in Args /\ Carries(pc[r], arg[r]) /\ "max" \in Steps
      /\ pc[r] \in {"log", "relog", "unlog"} /\ e \in EventIds
  BY DEF Base, Shape, TypeOK, InsertLog, Relog, Unlog, Steps, LogSteps, Knows, HasEvent
<1>2. /\ event' = event /\ reminder' = reminder /\ Goto(r, "max", arg[r])
      /\ \A f \in EventIds \ {e} : log'[f] = log[f]
  BY <1>1 DEF InsertLog, Relog, Unlog, TypeOK
<1>3. log'[e] = IF pc[r] = "unlog" \/ (pc[r] = "relog" /\ log[e] = Null) THEN Null
                ELSE arg[r].mileage
  BY <1>1 DEF InsertLog, Relog, Unlog, TypeOK
<1>4. pc[r] \in HasEvent
  BY <1>1 DEF HasEvent
<1>5. \A f \in EventIds \ {e} : Same(f)
  BY <1>2 DEF Same
<1>6. ASSUME e \notin torn PROVE Handled("max", arg[r], event'[e], log'[e], reminder'[e])
  <2>1. Handled(pc[r], arg[r], event[e], log[e], reminder[e])
    BY <1>4, <1>6 DEF EInv, EventAt
  <2>2. CASE pc[r] = "unlog"
    <3>1. arg[r].op = "delete" /\ Deleting("unlog", arg[r], event[e], log[e], reminder[e])
      BY <1>1, <2>1, <2>2 DEF Carries, Handled
    <3>2. Deleting("max", arg[r], event'[e], log'[e], reminder'[e])
      BY <1>2, <1>3, <2>2, <3>1 DEF Deleting, LogSteps
    <3> QED
      BY <3>1, <3>2 DEF Handled, Storing, Deleting, Live, Agrees
  <2>3. CASE pc[r] \in {"log", "relog"}
    <3>1. arg[r].op # "delete" /\ Storing(pc[r], arg[r], event[e], log[e], reminder[e])
      BY <1>1, <2>1, <2>3 DEF Carries, Handled
    <3>2. Storing("max", arg[r], event'[e], log'[e], reminder'[e])
      BY <1>2, <1>3, <2>3, <3>1 DEF Storing, Live
    <3> QED
      BY <3>1, <3>2 DEF Handled, Storing, Deleting, Live, Agrees
  <2> QED
    BY <1>1, <2>2, <2>3
<1>7. "max" \in HasEvent
  BY DEF HasEvent
<1> HIDE DEF e
<1> QED
  BY <1>1, <1>2, <1>4, <1>5, <1>6, <1>7, EventWrites DEF e

(* Where nothing but a document is left to do *)
LEMMA ThenEvents ==
  ASSUME Base, Base', EInv, NEW r \in Requests, event' = event, log' = log,
         reminder' = reminder,
         \/ pc[r] \in {"max", "odo", "info"} /\ arg[r].op \in {"create", "update"}
         \/ pc[r] = "info"
         \/ pc[r] = "join" /\ ~arg[r].soft /\ ~arg[r].failed,
         \/ Goto(r, ThenDocument(arg[r]), arg[r])
         \/ Goto(r, ThenInfo(arg[r]), arg[r]) /\ pc[r] # "info"
  PROVE  EInv'
<1> DEFINE e == arg[r].event
           a == arg[r]
<1>1. /\ TypeOK /\ a \in Args /\ Carries(pc[r], a) /\ pc[r] \in HasEvent /\ TypeHeld(r)
      /\ pc[r] \in {"max", "odo", "info", "join"} /\ e \in EventIds
  BY DEF Base, Shape, TypeOK, HasEvent, Knows
<1>2. a.op \in {"create", "update", "delete"}
  BY <1>1 DEF Carries
<1>3. a.op = "delete" => ~a.soft /\ ~a.failed
  BY <1>1 DEF Carries
<1>4. event[e].type = a.type
  BY <1>1 DEF TypeHeld
<1>5. ASSUME e \notin torn
      PROVE  IF a.op = "delete"
             THEN event[e].st = "gone" /\ log[e] = Null /\ reminder[e] = 0
             ELSE /\ Live(e) /\ log[e] = event[e].mileage /\ reminder[e] \in {0, 1}
                  /\ a.type # "DOCUMENT" => reminder[e] = 0
  <2>1. Handled(pc[r], a, event[e], log[e], reminder[e])
    BY <1>1, <1>5 DEF EInv, EventAt
  <2>2. CASE a.op = "delete"
    BY <1>1, <1>3, <2>1, <2>2 DEF Handled, Deleting, LogSteps
  <2>3. CASE a.op # "delete"
    BY <1>1, <2>1, <2>3 DEF Handled, Storing, Carries, Live
  <2> QED
    BY <2>2, <2>3
<1>6. ASSUME e \notin torn
      PROVE Handled("info", a, event[e], log[e], reminder[e])
        /\ (a.op # "delete" => Handled("raw", a, event[e], log[e], reminder[e]))
  BY <1>3, <1>5, <1>6 DEF Handled, Storing, Deleting, LogSteps, Live
<1>7. ASSUME e \notin torn, a.op = "delete" \/ a.type # "DOCUMENT"
      PROVE Agrees(event[e], log[e], reminder[e])
  BY <1>4, <1>5, <1>7 DEF Agrees, Live
<1> HIDE DEF e, a
<1>8. ASSUME NEW step \in Steps, Goto(r, step, a), step \in {"info", "raw"} \/ step \in Tail,
             step = "raw" => a.op # "delete",
             step \in Tail => a.op = "delete" \/ a.type # "DOCUMENT"
      PROVE  EInv'
  <2>1. Tail \cap HasEvent = {} /\ {"info", "raw"} \subseteq HasEvent
    BY DEF Tail, HasEvent
  <2> QED
    BY <1>1, <1>6, <1>7, <1>8, <2>1, EventPlain DEF e, a
<1>9. ThenVisits(a) \in Tail /\ ThenVisits(a) \in Steps /\ {"info", "raw"} \subseteq Steps
  BY <1>1, ThenType DEF Tail, Steps
<1>10. /\ ThenDocument(a) \in Steps /\ ThenInfo(a) \in Steps
       /\ ThenDocument(a) \in {"raw"} \cup Tail /\ ThenInfo(a) \in {"info", "raw"} \cup Tail
       /\ "raw" \in {ThenDocument(a), ThenInfo(a)} => a.op # "delete"
       /\ ThenDocument(a) \in Tail \/ ThenInfo(a) \in Tail
            => a.op = "delete" \/ a.type # "DOCUMENT"
  BY <1>9 DEF ThenInfo, ThenDocument, ThenVisits, Tail
<1>11. Goto(r, ThenDocument(a), a) => EInv'
  BY <1>8, <1>10
<1>12. Goto(r, ThenInfo(a), a) => EInv'
  BY <1>8, <1>10
<1> QED
  BY <1>11, <1>12 DEF a

LEMMA ReadMaxEvents == ASSUME Base, Base', EInv, NEW r \in Requests, ReadMax(r) PROVE EInv'
<1>1. /\ TypeOK /\ arg[r] \in Args /\ Carries("max", arg[r]) /\ pc[r] = "max" /\ "odo" \in Steps
      /\ arg[r].op \notin {"update", "delete"} => arg[r].mileage \in Nat
  BY DEF Base, Shape, TypeOK, ReadMax, Knows, Steps, LogSteps
<1>2. event' = event /\ log' = log /\ reminder' = reminder
  BY DEF ReadMax, Continue, tables, derived
<1>3. ASSUME NEW m \in Nat, Goto(r, "odo", [arg[r] EXCEPT !.max = m]) PROVE EInv'
  <2> DEFINE a == [arg[r] EXCEPT !.max = m]
  <2>1. /\ a \in Args /\ a.uses = arg[r].uses /\ a.event = arg[r].event /\ a.type = arg[r].type
        /\ a.op = arg[r].op /\ a.mileage = arg[r].mileage
        /\ a.soft = arg[r].soft /\ a.failed = arg[r].failed
    BY <1>1 DEF Args
  <2>2. Goto(r, "odo", a)
    BY <1>3
  <2> HIDE DEF a
  <2>3. ASSUME arg[r].event \notin torn
        PROVE Handled("odo", a, event'[arg[r].event], log'[arg[r].event],
                      reminder'[arg[r].event])
    <3>1. Handled("max", arg[r], event[arg[r].event], log[arg[r].event], reminder[arg[r].event])
      BY <1>1, <2>3 DEF EInv, EventAt, HasEvent
    <3> QED
      BY <1>2, <2>1, <3>1 DEF Handled, Storing, Deleting, LogSteps, Live
  <2>4. \A f \in EventIds : Same(f)
    BY <1>2 DEF Same
  <2>5. "odo" \in HasEvent /\ pc[r] \in HasEvent
    BY <1>1 DEF HasEvent
  <2> QED
    BY <1>1, <2>1, <2>2, <2>3, <2>4, <2>5, EventWrites
<1>4. ASSUME Goto(r, ThenDocument(arg[r]), arg[r]), arg[r].op = "update" PROVE EInv'
  BY <1>1, <1>2, <1>4, ThenEvents
<1>5. Logs \subseteq Nat
  BY <1>1 DEF Logs, TypeOK
<1>6. arg[r].op # "update" => IfNoLog(arg[r]) \in Nat
  BY <1>1 DEF IfNoLog
<1> QED
  BY <1>3, <1>4, <1>5, <1>6 DEF ReadMax, Continue

LEMMA WriteOdoEvents == ASSUME Base, Base', EInv, NEW r \in Requests, WriteOdo(r) PROVE EInv'
<1>1. /\ arg[r] \in Args /\ Carries("odo", arg[r]) /\ pc[r] = "odo" /\ "join" \in Steps
      /\ {"odo", "join"} \subseteq HasEvent
      /\ event' = event /\ log' = log /\ reminder' = reminder
  BY DEF Base, Shape, TypeOK, WriteOdo, Steps, LogSteps, HasEvent
<1>2. arg[r].op \in {"create", "update", "delete"}
  BY <1>1 DEF Carries
<1>3. CASE arg[r].op = "delete"
  <2>1. Goto(r, "join", arg[r])
    BY <1>3 DEF WriteOdo
  <2>2. ASSUME arg[r].event \notin torn
        PROVE Handled("join", arg[r], event[arg[r].event], log[arg[r].event],
                      reminder[arg[r].event])
    <3>1. Handled("odo", arg[r], event[arg[r].event], log[arg[r].event], reminder[arg[r].event])
      BY <1>1, <2>2 DEF EInv, EventAt
    <3> QED
      BY <1>3, <3>1 DEF Handled, Deleting, LogSteps
  <2> QED
    BY <1>1, <2>1, <2>2, EventPlain
<1>4. CASE arg[r].op # "delete"
  <2>1. Goto(r, ThenInfo(arg[r]), arg[r])
    BY <1>4 DEF WriteOdo
  <2> QED
    BY <1>1, <1>2, <1>4, <2>1, ThenEvents
<1> QED
  BY <1>3, <1>4

LEMMA DocumentEvents ==
  ASSUME Base, Base', EInv, NEW r \in Requests,
         SyncInfo(r) \/ ReadDocument(r) \/ FindReminder(r) \/ CreateReminder(r)
           \/ UpdateReminder(r)
  PROVE  EInv'
<1> DEFINE e == arg[r].event
<1>1. /\ TypeOK /\ arg[r] \in Args /\ Carries(pc[r], arg[r]) /\ pc[r] \in HasEvent
      /\ e \in EventIds /\ TypeHeld(r)
  BY DEF Base, Shape, TypeOK, SyncInfo, ReadDocument, FindReminder, CreateReminder,
         UpdateReminder, HasEvent, Knows
<1>2. ThenVisits(arg[r]) \in Steps /\ ThenVisits(arg[r]) \in Tail
        /\ {"find", "remind", "renew"} \subseteq Steps
  BY <1>1, ThenType DEF Steps, Tail
<1>3. Tail \cap HasEvent = {} /\ {"find", "remind", "renew"} \subseteq HasEvent
  BY DEF Tail, HasEvent
<1>4. ASSUME pc[r] \in {"raw", "find", "remind", "renew"}, e \notin torn
      PROVE  /\ Storing(pc[r], arg[r], event[e], log[e], reminder[e]) /\ arg[r].op # "delete"
             /\ event[e].type = "DOCUMENT"
  <2>1. Handled(pc[r], arg[r], event[e], log[e], reminder[e])
    BY <1>1, <1>4 DEF EInv, EventAt
  <2> QED
    BY <1>1, <1>4, <2>1 DEF Handled, Carries, TypeHeld
<1>5. CASE SyncInfo(r)
  BY <1>5, ThenEvents DEF SyncInfo
<1>6. CASE ReadDocument(r)
  <2>1. /\ pc[r] = "raw" /\ event' = event /\ log' = log /\ reminder' = reminder
        /\ Goto(r, IF Live(e) THEN "find" ELSE ThenVisits(arg[r]), arg[r])
    BY <1>6 DEF ReadDocument, Continue, tables, derived
  <2>2. e \notin torn => Handled("find", arg[r], event[e], log[e], reminder[e]) /\ Live(e)
    BY <1>4, <2>1 DEF Handled, Storing, Live
  <2> QED
    BY <1>1, <1>2, <1>3, <2>1, <2>2, EventPlain
<1>7. CASE FindReminder(r)
  <2>1. /\ pc[r] = "find" /\ event' = event /\ log' = log /\ reminder' = reminder
        /\ Goto(r, IF reminder[e] = 0 THEN "remind" ELSE "renew", arg[r])
    BY <1>7 DEF FindReminder, Continue, tables, derived
  <2>2. e \notin torn => IF reminder[e] = 0
          THEN Handled("remind", arg[r], event[e], log[e], reminder[e])
                         ELSE Handled("renew", arg[r], event[e], log[e], reminder[e])
    BY <1>4, <2>1 DEF Handled, Storing
  <2> QED
    BY <1>1, <1>2, <1>3, <2>1, <2>2, EventPlain
<1>8. CASE CreateReminder(r)
  <2>1. /\ pc[r] = "remind" /\ event' = event /\ log' = log
        /\ Goto(r, ThenVisits(arg[r]), arg[r])
        /\ reminder'[e] = reminder[e] + 1
        /\ \A f \in EventIds \ {e} : reminder'[f] = reminder[f]
    BY <1>1, <1>8 DEF CreateReminder, TypeOK
  <2>2. e \notin torn => Agrees(event'[e], log'[e], reminder'[e])
    BY <1>4, <2>1 DEF Storing, Agrees, Live
  <2>3. \A f \in EventIds \ {e} : Same(f)
    BY <2>1 DEF Same
  <2> QED
    BY <1>1, <1>2, <1>3, <2>1, <2>2, <2>3, EventWrites
<1>9. CASE UpdateReminder(r)
  <2>1. CASE Continue(r, ThenVisits(arg[r]), arg[r])
    <3>1. /\ pc[r] = "renew" /\ event' = event /\ log' = log /\ reminder' = reminder
          /\ Goto(r, ThenVisits(arg[r]), arg[r])
      BY <1>9, <2>1 DEF UpdateReminder, Continue, tables, derived
    <3>2. e \notin torn => Agrees(event[e], log[e], reminder[e])
      BY <1>4, <3>1 DEF Storing, Agrees, Live
    <3> QED
      BY <1>1, <1>2, <1>3, <3>1, <3>2, EventPlain
  <2> QED
    BY <1>9, <2>1, BreakEvents DEF UpdateReminder
<1> QED
  BY <1>5, <1>6, <1>7, <1>8, <1>9

LEMMA VisitsEvents ==
  ASSUME Base, Base', EInv, NEW r \in Requests, CountVisits(r) \/ WriteVisits(r) PROVE EInv'
<1>1. TypeOK /\ arg[r] \in Args /\ "visit" \in Steps
  BY DEF Base, Shape, TypeOK, Steps
<1>2. CASE CountVisits(r)
  <2>1. PICK a \in Args : Goto(r, "visit", a) /\ a.uses = arg[r].uses
    BY <1>2, Counting
  <2>2. event' = event /\ log' = log /\ reminder' = reminder /\ pc[r] = "count"
    BY <1>2 DEF Continue, tables, derived, CountVisits
  <2> QED
    BY <1>1, <2>1, <2>2, EventQuiet DEF HasEvent
<1>3. CASE WriteVisits(r)
  <2>1. ThenVisits(arg[r]) \in {"count", "done"} /\ ThenVisits(arg[r]) \in Steps
    BY <1>1, ThenType DEF Steps
  <2>2. /\ Goto(r, ThenVisits(arg[r]), arg[r]) /\ event' = event /\ log' = log
        /\ reminder' = reminder /\ pc[r] = "visit"
    BY <1>3 DEF WriteVisits
  <2> QED
    BY <1>1, <2>1, <2>2, EventQuiet DEF HasEvent
<1> QED
  BY <1>2, <1>3

LEMMA UpdateEvents == ASSUME Base, Base', EInv, NEW r \in Requests, Update(r) PROVE EInv'
<1> DEFINE e == arg[r].event
           a == arg[r]
           step == IF arg[r].relog THEN "relog" ELSE ThenDocument(arg[r])
<1>1. /\ TypeOK /\ a \in Args /\ Carries("update", a) /\ pc[r] = "update" /\ TypeHeld(r)
      /\ e \in EventIds /\ "update" \in HasEvent
  BY DEF Base, Shape, TypeOK, Update, Knows, HasEvent
<1>2. log' = log /\ reminder' = reminder /\ Goto(r, step, a)
  BY DEF Update, derived
<1>3. /\ \A f \in EventIds \ {e} : Same(f)
      /\ event'[e].st = event[e].st /\ event'[e].type = event[e].type
      /\ event'[e].mileage = IF a.mileage # Null THEN a.mileage ELSE event[e].mileage
  BY <1>1, <1>2, PatchedRow DEF Same
<1>4. /\ a.relog => step = "relog"
      /\ ~a.relog /\ a.type = "DOCUMENT" => step = "raw"
      /\ ~a.relog /\ a.type # "DOCUMENT" => step \in Tail
  BY <1>1 DEF ThenDocument, ThenVisits, Tail, Carries
<1>5. step \in Steps /\ Tail \cap HasEvent = {} /\ {"relog", "raw"} \subseteq HasEvent
  BY <1>1, ThenType DEF Steps, Tail, HasEvent
<1>6. a.op = "update" /\ event[e].type = a.type
  BY <1>1 DEF Carries, TypeHeld
<1>7. ASSUME e \notin torn
      PROVE  /\ Live(e) /\ log[e] = event[e].mileage /\ event[e].mileage \in Nat
             /\ reminder[e] = IF a.type = "DOCUMENT" THEN 1 ELSE 0
             /\ a.relog <=> a.mileage # Null /\ a.mileage # event[e].mileage
  <2>1. Storing("update", a, event[e], log[e], reminder[e])
    BY <1>1, <1>6, <1>7 DEF EInv, EventAt, Handled
  <2>2. event[e] \in EventRow
    BY <1>1, <2>1 DEF TypeOK, Storing, Live, FreeEvent
  <2> QED
    BY <1>6, <2>1, <2>2 DEF Storing, Agrees, EventRow, Live
<1> HIDE DEF e, a, step
<1>8. ASSUME e \notin torn
      PROVE  /\ step \in {"relog", "raw"} => Handled(step, a, event'[e], log'[e], reminder'[e])
             /\ step \in Tail => Agrees(event'[e], log'[e], reminder'[e])
  <2>1. CASE a.relog
    <3>1. Storing("relog", a, event'[e], log'[e], reminder'[e])
      BY <1>2, <1>3, <1>7, <1>8, <2>1, ConstantsAssumption DEF Storing, Live
    <3> QED
      BY <1>4, <1>6, <2>1, <3>1 DEF Handled, Storing, Deleting, Live, Agrees, Tail
  <2>2. CASE ~a.relog
    <3>1. event'[e].st = "live" /\ log'[e] = event'[e].mileage /\ reminder'[e] = reminder[e]
      BY <1>2, <1>3, <1>7, <1>8, <2>2 DEF Live
    <3>2. Agrees(event'[e], log'[e], reminder'[e])
      BY <1>3, <1>6, <1>7, <1>8, <3>1 DEF Agrees
    <3>3. a.type = "DOCUMENT" => Storing("raw", a, event'[e], log'[e], reminder'[e])
      BY <1>7, <1>8, <3>1 DEF Storing
    <3>4. step = "raw" => a.type = "DOCUMENT"
      BY <1>4, <2>2 DEF Tail
    <3>5. step # "relog"
      BY <1>4, <2>2 DEF Tail
    <3> QED
      BY <1>6, <3>2, <3>3, <3>4, <3>5 DEF Handled, Storing, Deleting, Live, Agrees
  <2> QED
    BY <2>1, <2>2
<1>9. step \in {"relog", "raw"} \/ step \in Tail
  BY <1>4
<1> QED
  BY <1>1, <1>2, <1>3, <1>5, <1>8, <1>9, EventWrites DEF e, a

LEMMA DeleteEvents ==
  ASSUME Base, Base', EInv, NEW r \in Requests,
         ReadDeletedDocument(r) \/ Forget(r) \/ SoftDelete(r) \/ FailSoftDelete(r)
           \/ FailUnlog(r) \/ Join(r)
  PROVE  EInv'
<1> DEFINE e == arg[r].event
<1>1. /\ TypeOK /\ arg[r] \in Args /\ Carries(pc[r], arg[r]) /\ pc[r] \in HasEvent
      /\ pc[r] \in Steps /\ {"forget", "unlog", "join"} \subseteq Steps
      /\ e \in EventIds /\ {"forget", "unlog", "join"} \subseteq HasEvent
  BY DEF Base, Shape, TypeOK, ReadDeletedDocument, Forget, SoftDelete, FailSoftDelete,
         FailUnlog, Join, HasEvent, Steps, LogSteps, Knows
<1>2. arg[r].op = "delete"
  BY <1>1 DEF ReadDeletedDocument, Forget, SoftDelete, FailSoftDelete,
         FailUnlog, Join, Carries
<1>3. e \notin torn => Deleting(pc[r], arg[r], event[e], log[e], reminder[e])
  BY <1>1, <1>2 DEF EInv, EventAt, Handled
<1>4. CASE ReadDeletedDocument(r)
  <2>1. /\ pc[r] = "raw.delete" /\ event' = event /\ log' = log /\ reminder' = reminder
        /\ Goto(r, IF Live(e) THEN "forget" ELSE "unlog", arg[r])
    BY <1>4 DEF ReadDeletedDocument, Continue, tables, derived
  <2>2. e \notin torn => Live(e) /\ Handled("forget", arg[r], event[e], log[e], reminder[e])
    BY <1>2, <1>3, <2>1 DEF Handled, Deleting, LogSteps, Live
  <2> QED
    BY <1>1, <2>1, <2>2, EventPlain
<1>5. CASE Forget(r)
  <2>1. /\ pc[r] = "forget" /\ event' = event /\ log' = log /\ reminder'[e] = 0
        /\ Goto(r, "unlog", arg[r]) /\ \A f \in EventIds \ {e} : reminder'[f] = reminder[f]
    BY <1>1, <1>5 DEF Forget, TypeOK
  <2>2. arg[r].soft
    BY <1>1, <2>1 DEF Carries
  <2>3. Handled("unlog", arg[r], event'[e], log'[e], reminder'[e])
    <3>1. Deleting("unlog", arg[r], event'[e], log'[e], reminder'[e])
      BY <2>1, <2>2 DEF Deleting, LogSteps
    <3> QED
      BY <1>2, <3>1 DEF Handled, Storing, Deleting, Live, Agrees
  <2>4. \A f \in EventIds \ {e} : Same(f)
    BY <2>1 DEF Same
  <2> QED
    BY <1>1, <2>1, <2>3, <2>4, EventWrites
<1>6. ASSUME NEW a \in Args, NEW step \in LogSteps, Goto(r, step, a), pc[r] \in LogSteps,
             a.uses = arg[r].uses, a.event = arg[r].event, a.op = arg[r].op,
             arg[r].failed => a.failed,
             step # pc[r] => step = "join" /\ a.failed,
             a.soft \/ a.failed \/ event'[e].st = "gone",
             \A f \in EventIds \ {e} : event'[f] = event[f], log' = log, reminder' = reminder
      PROVE  EInv'
  <2>1. step \in HasEvent /\ step \in Steps
    BY <1>6 DEF LogSteps, HasEvent, Steps
  <2>2. ASSUME e \notin torn PROVE Handled(step, a, event'[e], log'[e], reminder'[e])
    <3>1. Deleting(step, a, event'[e], log'[e], reminder'[e])
      BY <1>3, <1>6, <2>2 DEF Deleting, LogSteps
    <3> QED
      BY <1>2, <1>6, <3>1 DEF Handled, Storing, Deleting, Live, Agrees
  <2>3. \A f \in EventIds \ {e} : Same(f)
    BY <1>6 DEF Same
  <2> QED
    BY <1>1, <1>6, <2>1, <2>2, <2>3, EventWrites
<1>7. CASE SoftDelete(r)
  <2> DEFINE a == [arg[r] EXCEPT !.soft = FALSE]
  <2>a. a = [arg[r] EXCEPT !.soft = FALSE]
    OBVIOUS
  <2>2. Goto(r, pc[r], a) /\ pc[r] \in LogSteps /\ log' = log /\ reminder' = reminder
    BY <1>7 DEF SoftDelete, derived
  <2> HIDE DEF a
  <2>1. /\ a \in Args /\ a.uses = arg[r].uses /\ a.event = arg[r].event
        /\ a.op = arg[r].op /\ (arg[r].failed => a.failed)
    BY <1>1, <2>a, Halves
  <2>3. event'[e].st = "gone" /\ \A f \in EventIds \ {e} : event'[f] = event[f]
    BY <1>7, DeletedRow
  <2> HIDE DEF e
  <2> QED
    BY <1>6, <2>1, <2>2, <2>3
<1>8. CASE FailSoftDelete(r)
  <2> DEFINE a == [arg[r] EXCEPT !.soft = FALSE, !.failed = TRUE]
  <2>a. a = [arg[r] EXCEPT !.soft = FALSE, !.failed = TRUE]
    OBVIOUS
  <2>2. /\ Goto(r, pc[r], a) /\ pc[r] \in LogSteps /\ event' = event /\ log' = log
        /\ reminder' = reminder
    BY <1>8 DEF FailSoftDelete, Continue, tables, derived
  <2>f. a.failed
    BY <1>1 DEF Args
  <2> HIDE DEF a
  <2>1. /\ a \in Args /\ a.uses = arg[r].uses /\ a.event = arg[r].event /\ a.op = arg[r].op
    BY <1>1, <2>a, Halves
  <2> QED
    BY <1>6, <2>1, <2>2, <2>f
<1>9. CASE FailUnlog(r)
  <2> DEFINE a == [arg[r] EXCEPT !.failed = TRUE]
  <2>a. a = [arg[r] EXCEPT !.failed = TRUE]
    OBVIOUS
  <2>2. /\ Goto(r, "join", a) /\ pc[r] \in LogSteps /\ event' = event /\ log' = log
        /\ reminder' = reminder /\ "join" \in LogSteps
    BY <1>9 DEF FailUnlog, Continue, tables, derived, LogSteps
  <2>f. a.failed
    BY <1>1 DEF Args
  <2> HIDE DEF a
  <2>1. /\ a \in Args /\ a.uses = arg[r].uses /\ a.event = arg[r].event /\ a.op = arg[r].op
    BY <1>1, <2>a, Halves
  <2> QED
    BY <1>6, <2>1, <2>2, <2>f
<1>10. CASE Join(r)
  <2>1. CASE arg[r].failed
    BY <1>10, <2>1, BreakEvents DEF Join
  <2>2. CASE ~arg[r].failed
    <3>1. /\ Goto(r, ThenInfo(arg[r]), arg[r]) /\ event' = event /\ log' = log
          /\ reminder' = reminder /\ ~arg[r].soft /\ pc[r] = "join"
      BY <1>10, <2>2 DEF Join, Continue, tables, derived
    <3> QED
      BY <2>2, <3>1, ThenEvents
  <2> QED
    BY <2>1, <2>2
<1> QED
  BY <1>4, <1>5, <1>7, <1>8, <1>9, <1>10

LEMMA EndsEvents ==
  ASSUME Base, Base', EInv, NEW r \in Requests, PatchVehicle(r) \/ Reply(r) \/ Fail(r)
  PROVE  EInv'
<1>1. Carries(pc[r], arg[r])
  BY DEF Base
<1>2. pc[r] \in {"patch", "service.max", "service.commit"} => arg[r].uses \cap EventIds = {}
  BY <1>1 DEF Carries, HasEvent, Tail
<1>3. CASE PatchVehicle(r)
  BY <1>2, <1>3, EventsEnd DEF PatchVehicle
<1>4. CASE Reply(r)
  <2> DEFINE left == IF crossed THEN torn ELSE torn \ Recomputed(r)
  <2>1. /\ End(r, left) /\ event' = event /\ log' = log /\ reminder' = reminder
        /\ pc[r] \in Tail
    BY <1>4 DEF Reply, tables, derived, Tail
  <2>2. \A e \in EventIds : e \in torn => e \in left
    BY ConstantsAssumption DEF Recomputed
  <2> HIDE DEF left
  <2> QED
    BY <2>1, <2>2, EventsEnd
<1>5. CASE Fail(r)
  <2>1. CASE pc[r] \in {"service.max", "service.commit"} /\ End(r, torn) /\ UNCHANGED tables
    BY <1>2, <2>1, EventsEnd DEF tables, derived
  <2> QED
    BY <1>5, <2>1, BreakEvents DEF Fail
<1> QED
  BY <1>3, <1>4, <1>5

LEMMA ArriveEvents == ASSUME Base, Base', EInv, NEW r \in Requests, Arrive(r) PROVE EInv'
<1>1. /\ TypeOK /\ "idle" \notin HasEvent
      /\ {"insert", "update", "unlog", "raw.delete", "service.max", "patch"} \subseteq Steps
      /\ {"insert", "service.max", "patch"} \cap HasEvent = {}
  BY DEF Base, Shape, Steps, LogSteps, HasEvent
<1>2. ASSUME NEW t \in Types, NEW m \in Mileages, NEW s \in Stations \cup {Null},
             OpenCreate(r, t, m, s)
      PROVE  EInv'
  BY <1>1, <1>2, Created, EventsOpened
<1>3. ASSUME NEW e \in EventIds, NEW m \in Mileages \cup {Null}, NEW s \in Stations \cup {Null},
             OpenUpdate(r, e, m, s)
      PROVE  EInv'
  <2>1. PICK a \in Args :
          /\ Opened(r, "update", a) /\ Live(e)
          /\ a.op = "update" /\ a.event = e /\ a.type = event[e].type /\ a.mileage = m
          /\ (a.relog <=> m # Null /\ m # event[e].mileage)
          /\ a.uses \cap EventIds = {e}
    BY <1>1, <1>3, Updated
  <2>2. Agrees(event[e], log[e], reminder[e])
          => Storing("update", a, event[e], log[e], reminder[e])
    BY <2>1 DEF Storing, Agrees, Live
  <2>3. Agrees(event[e], log[e], reminder[e])
          => Handled("update", a, event[e], log[e], reminder[e])
    BY <2>1, <2>2 DEF Handled
  <2>4. e \in a.uses
    BY <2>1
  <2> QED
    BY <1>1, <2>1, <2>3, <2>4, EventsOpened
<1>4. ASSUME NEW e \in EventIds, OpenDelete(r, e) PROVE EInv'
  <2>1. PICK a \in Args, step \in {"raw.delete", "unlog"} :
          /\ Opened(r, step, a) /\ Live(e)
          /\ (step = "raw.delete" <=> event[e].type = "DOCUMENT")
          /\ a.op = "delete" /\ a.event = e /\ a.soft
          /\ a.uses \cap EventIds = {e}
    BY <1>1, <1>4, Deleted
  <2>2. Agrees(event[e], log[e], reminder[e])
          => Deleting(step, a, event[e], log[e], reminder[e])
    BY <2>1 DEF Deleting, Agrees, LogSteps, Live
  <2>3. Agrees(event[e], log[e], reminder[e]) => Handled(step, a, event[e], log[e], reminder[e])
    BY <2>1, <2>2 DEF Handled
  <2>4. e \in a.uses
    BY <2>1
  <2> QED
    BY <1>1, <2>1, <2>3, <2>4, EventsOpened
<1>5. ASSUME NEW m \in Mileages, OpenService(r, m) \/ OpenPatch(r, m) PROVE EInv'
  BY <1>1, <1>5, OtherOpened, EventsOpened
<1> QED
  BY <1>2, <1>3, <1>4, <1>5 DEF Arrive

LEMMA DeleteReminderEvents ==
  ASSUME Base, Base', EInv, NEW f \in EventIds, DeleteReminder(f)
  PROVE  EInv'
<1>1. TypeOK
  BY DEF Base, Shape
<1>2. /\ event' = event /\ log' = log /\ pc' = pc /\ arg' = arg /\ torn' = torn \cup {f}
      /\ reminder[f] > 0 /\ \A e \in EventIds \ {f} : reminder'[e] = reminder[e]
  BY <1>1 DEF DeleteReminder, TypeOK
<1>3. \A e \in EventIds \ torn' : Same(e) /\ (Agrees(event[e], log[e], reminder[e])
                                              => Agrees(event'[e], log'[e], reminder'[e]))
  BY <1>2 DEF Same, Agrees, Live
<1>4. FreeReminders'
  BY <1>1, <1>2 DEF EInv, FreeReminders, TypeOK
<1>5. EventsAgree'
  BY <1>2, <1>3 DEF EInv, EventsAgree
<1>6. ASSUME NEW q \in Requests, pc[q] \in HasEvent, arg[q].event \notin torn'
      PROVE  Handled(pc[q], arg[q], event'[arg[q].event], log'[arg[q].event],
                     reminder'[arg[q].event])
  <2>1. Knows(q) /\ Handled(pc[q], arg[q], event[arg[q].event], log[arg[q].event],
                            reminder[arg[q].event])
    BY <1>2, <1>6 DEF Base, Shape, EInv, EventAt
  <2>2. Same(arg[q].event)
    BY <1>3, <1>6, <2>1 DEF Knows
  <2> QED
    BY <1>2, <2>1, <2>2 DEF Handled, Storing, Deleting, Agrees, Live, Same
<1>7. \A q \in Requests : EventAt(q)'
  BY <1>2, <1>6 DEF EventAt
<1> QED
  BY <1>4, <1>5, <1>7 DEF EInv

LEMMA StepEInv == ASSUME Base, EInv, [Next]_vars PROVE EInv'
<1>1. Base'
  BY StepBase
<1>2. ASSUME NEW r \in Requests, Step(r) PROVE EInv'
  BY <1>1, <1>2, InsertEvents, LogEvents, ReadMaxEvents, WriteOdoEvents, DocumentEvents,
     VisitsEvents, UpdateEvents, DeleteEvents, ServiceEvents, EndsEvents DEF Step
<1>3. CASE UNCHANGED vars
  BY <1>3 DEF vars, EInv, FreeReminders, EventsAgree, EventAt, Handled, Storing, Deleting,
              Agrees, Live
<1> QED
  BY <1>1, <1>2, <1>3, ArriveEvents, DeleteEvents, EndsEvents, DeleteReminderEvents DEF Next

(* Whatever happens to other events meanwhile, an event that nothing uses  *)
(* and that no two requests have used together has its own mileage in the  *)
(* log and, if it is a document, one reminder; a deleted one has left      *)
(* nothing behind (createEvent, updateEvent, deleteEvent).                 *)
THEOREM EventsFollow == Spec => []EventInStep
<1>1. Init => Base /\ EInv
  BY InitBase, InitEInv
<1>2. Base /\ EInv /\ [Next]_vars => Base' /\ EInv'
  BY StepBase, StepEInv
<1>3. EInv => EventInStep
  BY DEF EInv, EventsAgree, EventInStep, Settled, Agrees, Live
<1> QED
  BY <1>1, <1>2, <1>3, PTL DEF Spec

-----------------------------------------------------------------------------
(* The steps that change neither the rows of events, nor visits, nor what  *)
(* the vehicle knows                                                       *)

Plain(r, step, a) ==
  /\ Goto(r, step, a) /\ pc[r] \notin Tail /\ step \notin {"insert", "update"}
  /\ a.uses = arg[r].uses /\ a.todo = arg[r].todo
  /\ a.event = arg[r].event /\ a.op = arg[r].op
  /\ a.soft => arg[r].soft
  /\ arg[r].soft \/ arg[r].failed => a.soft \/ a.failed
  /\ step \in HasEvent => pc[r] \in HasEvent
  /\ step \in Tail => arg[r].uses \cap InfoTypes = {}
  /\ event' = event /\ visits' = visits /\ info' = info

LEMMA PlainGoesOn ==
  ASSUME Base, NEW r \in Requests, NEW step, Goto(r, step, arg[r]), pc[r] \notin Tail,
         step \notin {"insert", "update"}, step \in HasEvent => pc[r] \in HasEvent,
         step \in Tail => arg[r].uses \cap InfoTypes = {},
         event' = event, visits' = visits, info' = info
  PROVE  \E a \in Args : Plain(r, step, a)
<1>1. arg[r] \in Args
  BY DEF Base, Shape, TypeOK
<1> QED
  BY <1>1 DEF Plain

(* The handlers go on to the visits with nothing left to tell the vehicle. *)
LEMMA PlainThen ==
  ASSUME Base, NEW r \in Requests, pc[r] \in HasEvent
  PROVE  /\ ThenVisits(arg[r]) \in Tail /\ ThenVisits(arg[r]) \notin HasEvent
         /\ ThenDocument(arg[r]) \in {"raw"} \cup Tail
         /\ ThenInfo(arg[r]) \in {"info", "raw"} \cup Tail
         /\ pc[r] \in {"raw", "find", "remind", "renew"} => arg[r].uses \cap InfoTypes = {}
         /\ pc[r] = "max" /\ arg[r].op = "update" => arg[r].uses \cap InfoTypes = {}
         /\ pc[r] = "update" => arg[r].uses \cap InfoTypes = {}
         /\ ThenInfo(arg[r]) \in Tail => arg[r].uses \cap InfoTypes = {}
<1>1. Carries(pc[r], arg[r])
  BY DEF Base
<1>2. pc[r] \notin Tail
  BY DEF HasEvent, Tail
<1>3. InfoTypes \cap arg[r].uses = IF arg[r].op \in {"create", "delete"}
                                  THEN InfoTypes \cap {arg[r].type} ELSE {}
  BY <1>1, <1>2 DEF Carries
<1>4. ThenVisits(arg[r]) \in Tail /\ Tail \cap (HasEvent \cup {"info", "raw"}) = {}
  BY DEF ThenVisits, Tail, HasEvent
<1>5. pc[r] \in {"raw", "find", "remind", "renew"} => arg[r].uses \cap InfoTypes = {}
  BY <1>1, <1>3 DEF Carries, InfoTypes
<1>6. pc[r] = "update" => arg[r].op = "update"
  BY <1>1 DEF Carries
<1>7. ThenInfo(arg[r]) \in Tail => arg[r].uses \cap InfoTypes = {}
  BY <1>3, <1>4 DEF ThenInfo
<1>8. ThenDocument(arg[r]) \in {"raw"} \cup Tail
        /\ ThenInfo(arg[r]) \in {"info", "raw"} \cup Tail
  BY <1>4 DEF ThenDocument, ThenInfo
<1> QED
  BY <1>3, <1>4, <1>5, <1>6, <1>7, <1>8

LEMMA PlainLog ==
  ASSUME Base, NEW r \in Requests,
         InsertLog(r) \/ Relog(r) \/ Unlog(r) \/ ReadDocument(r) \/ FindReminder(r)
           \/ CreateReminder(r) \/ ReadDeletedDocument(r) \/ Forget(r)
  PROVE  \E step \in Steps, a \in Args : Plain(r, step, a)
<1>1. /\ arg[r] \in Args /\ pc[r] \in HasEvent /\ pc[r] \notin Tail
      /\ event' = event /\ visits' = visits /\ info' = info
  BY DEF Base, Shape, TypeOK, InsertLog, Relog, Unlog, ReadDocument, FindReminder,
         CreateReminder, ReadDeletedDocument, Forget, HasEvent, Tail, Continue, tables, derived
<1>2. /\ ThenVisits(arg[r]) \in Tail
      /\ pc[r] \in {"raw", "find", "remind", "renew"} => arg[r].uses \cap InfoTypes = {}
  BY <1>1, PlainThen
<1>3. /\ {"max", "find", "remind", "renew", "forget", "unlog"} \subseteq HasEvent \cap Steps
      /\ {"max", "find", "remind", "renew", "forget", "unlog"} \cap
           ({"insert", "update"} \cup Tail) = {}
      /\ Tail \subseteq Steps /\ Tail \cap (HasEvent \cup {"insert", "update"}) = {}
  BY DEF HasEvent, Steps, LogSteps, Tail
<1>4. ASSUME NEW step \in {"max", "find", "remind", "renew", "forget", "unlog"},
             Goto(r, step, arg[r])
      PROVE  \E a \in Args : Plain(r, step, a)
  BY <1>1, <1>3, <1>4, PlainGoesOn
<1>5. ASSUME Goto(r, ThenVisits(arg[r]), arg[r]), pc[r] \in {"raw", "find", "remind", "renew"}
      PROVE  \E a \in Args : Plain(r, ThenVisits(arg[r]), a)
  BY <1>1, <1>2, <1>3, <1>5, PlainGoesOn
<1>6. CASE InsertLog(r) \/ Relog(r) \/ Unlog(r)
  BY <1>3, <1>4, <1>6 DEF InsertLog, Relog, Unlog
<1>7. CASE ReadDocument(r)
  BY <1>2, <1>3, <1>4, <1>5, <1>7 DEF ReadDocument, Continue
<1>8. CASE FindReminder(r)
  BY <1>3, <1>4, <1>8 DEF FindReminder, Continue
<1>9. CASE CreateReminder(r)
  BY <1>2, <1>3, <1>5, <1>9 DEF CreateReminder
<1>10. CASE ReadDeletedDocument(r)
  BY <1>3, <1>4, <1>10 DEF ReadDeletedDocument, Continue
<1>11. CASE Forget(r)
  BY <1>3, <1>4, <1>11 DEF Forget
<1> QED
  BY <1>6, <1>7, <1>8, <1>9, <1>10, <1>11

LEMMA PlainOdometer ==
  ASSUME Base, NEW r \in Requests, ReadMax(r) \/ WriteOdo(r) \/ ServiceMax(r)
  PROVE  \E step \in Steps, a \in Args : Plain(r, step, a)
<1>1. /\ TypeOK /\ arg[r] \in Args /\ Carries(pc[r], arg[r]) /\ pc[r] \notin Tail
      /\ event' = event /\ visits' = visits /\ info' = info
      /\ pc[r] \in {"max", "odo", "service.max"}
  BY DEF Base, Shape, TypeOK, ReadMax, WriteOdo, ServiceMax, Tail, Continue, tables, derived
<1>2. /\ {"odo", "join", "service.commit", "info", "raw"} \cup Tail \subseteq Steps
      /\ {"odo", "join", "info", "raw", "max"} \subseteq HasEvent
      /\ {"odo", "join", "service.commit", "info",
          "raw"} \cap ({"insert", "update"} \cup Tail) = {}
      /\ Tail \cap (HasEvent \cup {"insert", "update"}) = {} /\ "service.commit" \notin HasEvent
  BY DEF HasEvent, Steps, LogSteps, Tail
<1>3. ASSUME NEW m \in Nat, NEW step \in {"odo", "service.commit"},
             Goto(r, step, [arg[r] EXCEPT !.max = m]), step = "odo" => pc[r] = "max"
      PROVE  \E a \in Args : Plain(r, step, a)
  <2> DEFINE a == [arg[r] EXCEPT !.max = m]
  <2>1. /\ a \in Args /\ a.uses = arg[r].uses /\ a.event = arg[r].event /\ a.op = arg[r].op
        /\ a.todo = arg[r].todo /\ a.soft = arg[r].soft /\ a.failed = arg[r].failed
    BY <1>1 DEF Args
  <2>2. Goto(r, step, a)
    BY <1>3
  <2> HIDE DEF a
  <2>3. Plain(r, step, a)
    BY <1>1, <1>2, <1>3, <2>1, <2>2 DEF Plain
  <2> QED
    BY <2>1, <2>3
<1>4. CASE ReadMax(r)
  <2>1. Logs \subseteq Nat /\ pc[r] = "max" /\ pc[r] \in HasEvent
    BY <1>1, <1>2, <1>4 DEF Logs, TypeOK, ReadMax
  <2>2. arg[r].op # "update" => IfNoLog(arg[r]) \in Nat
    BY <2>1 DEF IfNoLog, Base, Shape, Knows
  <2>3. ASSUME Goto(r, ThenDocument(arg[r]), arg[r]), arg[r].op = "update"
        PROVE  \E step \in Steps, a \in Args : Plain(r, step, a)
    <3>1. /\ ThenDocument(arg[r]) \in {"raw"} \cup Tail
          /\ arg[r].uses \cap InfoTypes = {}
      BY <2>1, <2>3, PlainThen
    <3> QED
      BY <1>1, <1>2, <2>1, <2>3, <3>1, PlainGoesOn
  <2> QED
    BY <1>2, <1>3, <1>4, <2>1, <2>2, <2>3 DEF ReadMax, Continue
<1>5. CASE WriteOdo(r)
  <2>1. pc[r] = "odo" /\ pc[r] \in HasEvent
    BY <1>2, <1>5 DEF WriteOdo
  <2>2. CASE arg[r].op = "delete"
    <3>1. Goto(r, "join", arg[r])
      BY <1>5, <2>2 DEF WriteOdo
    <3> QED
      BY <1>1, <1>2, <2>1, <3>1, PlainGoesOn
  <2>3. CASE arg[r].op # "delete"
    <3>1. Goto(r, ThenInfo(arg[r]), arg[r])
      BY <1>5, <2>3 DEF WriteOdo
    <3>2. /\ ThenInfo(arg[r]) \in {"info", "raw"} \cup Tail
          /\ ThenInfo(arg[r]) \in Tail => arg[r].uses \cap InfoTypes = {}
      BY <2>1, PlainThen
    <3> QED
      BY <1>1, <1>2, <2>1, <3>1, <3>2, PlainGoesOn
  <2> QED
    BY <2>2, <2>3
<1>6. CASE ServiceMax(r)
  <2>1. PICK m \in Logs \cup {arg[r].mileage} :
          Goto(r, "service.commit", [arg[r] EXCEPT !.max = m])
    BY <1>6 DEF ServiceMax, Continue
  <2>2. m \in Nat
    BY <1>1, <1>6 DEF Logs, TypeOK, ServiceMax, Base, Shape, Knows, HasMileage
  <2> QED
    BY <1>2, <1>3, <2>1, <2>2
<1> QED
  BY <1>4, <1>5, <1>6

(* A deletion that goes on, whichever half has failed *)
LEMMA PlainDelete ==
  ASSUME Base, NEW r \in Requests,
         FailSoftDelete(r) \/ FailUnlog(r) \/ Join(r) \/ UpdateReminder(r)
  PROVE  Break(r) \/ \E step \in Steps, a \in Args : Plain(r, step, a)
<1>1. /\ TypeOK /\ arg[r] \in Args /\ Carries(pc[r], arg[r]) /\ pc[r] \in HasEvent
      /\ pc[r] \notin Tail
      /\ pc[r] \in LogSteps \cup {"renew"}
  BY DEF Base, Shape, TypeOK, FailSoftDelete, FailUnlog, Join, UpdateReminder, HasEvent, Tail,
         LogSteps
<1>2. /\ LogSteps \cup {"info", "raw"} \cup Tail \subseteq Steps
      /\ LogSteps \cup {"info", "raw"} \subseteq HasEvent
      /\ (LogSteps \cup {"info", "raw"}) \cap ({"insert", "update"} \cup Tail) = {}
      /\ Tail \cap (HasEvent \cup {"insert", "update"}) = {} /\ "join" \in LogSteps
  BY DEF HasEvent, Steps, LogSteps, Tail
<1>3. ASSUME NEW a \in Args, NEW step \in LogSteps, Goto(r, step, a), a.uses = arg[r].uses,
             a.event = arg[r].event, a.op = arg[r].op, a.todo = arg[r].todo,
             a.soft => arg[r].soft, a.failed, event' = event, visits' = visits, info' = info
      PROVE  Plain(r, step, a)
  BY <1>1, <1>2, <1>3 DEF Plain
<1>4. CASE FailSoftDelete(r)
  <2> DEFINE a == [arg[r] EXCEPT !.soft = FALSE, !.failed = TRUE]
  <2>1. /\ a \in Args /\ a.uses = arg[r].uses /\ a.event = arg[r].event /\ a.op = arg[r].op
        /\ a.todo = arg[r].todo /\ ~a.soft /\ a.failed
    BY <1>1 DEF Args
  <2>2. /\ Goto(r, pc[r], a) /\ pc[r] \in LogSteps /\ event' = event /\ visits' = visits
        /\ info' = info
    BY <1>4 DEF FailSoftDelete, Continue, tables, derived
  <2> HIDE DEF a
  <2> QED
    BY <1>2, <1>3, <2>1, <2>2
<1>5. CASE FailUnlog(r)
  <2> DEFINE a == [arg[r] EXCEPT !.failed = TRUE]
  <2>1. /\ a \in Args /\ a.uses = arg[r].uses /\ a.event = arg[r].event /\ a.op = arg[r].op
        /\ a.todo = arg[r].todo /\ (a.soft => arg[r].soft) /\ a.failed
    BY <1>1 DEF Args
  <2>2. Goto(r, "join", a) /\ event' = event /\ visits' = visits /\ info' = info
    BY <1>5 DEF FailUnlog, Continue, tables, derived
  <2> HIDE DEF a
  <2> QED
    BY <1>2, <1>3, <2>1, <2>2
<1>6. CASE Join(r)
  <2>1. ASSUME Continue(r, ThenInfo(arg[r]), arg[r])
        PROVE  \E step \in Steps, a \in Args : Plain(r, step, a)
    <3>1. /\ ThenInfo(arg[r]) \in {"info", "raw"} \cup Tail
          /\ ThenInfo(arg[r]) \in Tail => arg[r].uses \cap InfoTypes = {}
      BY <1>1, PlainThen
    <3>2. Goto(r, ThenInfo(arg[r]), arg[r]) /\ event' = event /\ visits' = visits
            /\ info' = info
      BY <2>1 DEF Continue, tables, derived
    <3> QED
      BY <1>1, <1>2, <3>1, <3>2, PlainGoesOn
  <2> QED
    BY <1>6, <2>1 DEF Join
<1>7. CASE UpdateReminder(r)
  <2>1. ASSUME Continue(r, ThenVisits(arg[r]), arg[r])
        PROVE  \E step \in Steps, a \in Args : Plain(r, step, a)
    <3>1. ThenVisits(arg[r]) \in Tail /\ arg[r].uses \cap InfoTypes = {}
      BY <1>1, <1>7, PlainThen DEF UpdateReminder
    <3>2. /\ Goto(r, ThenVisits(arg[r]), arg[r])
          /\ event' = event /\ visits' = visits /\ info' = info
      BY <2>1 DEF Continue, tables, derived
    <3> QED
      BY <1>1, <1>2, <3>1, <3>2, PlainGoesOn
  <2> QED
    BY <1>7, <2>1 DEF UpdateReminder
<1> QED
  BY <1>4, <1>5, <1>6, <1>7

(* The request has changed no row: its step is a plain one. *)
LEMMA PlainStep ==
  ASSUME Base, NEW r \in Requests,
         \/ InsertLog(r) \/ Relog(r) \/ Unlog(r) \/ ReadDocument(r) \/ FindReminder(r)
         \/ CreateReminder(r) \/ ReadDeletedDocument(r) \/ Forget(r)
         \/ ReadMax(r) \/ WriteOdo(r) \/ ServiceMax(r)
         \/ FailSoftDelete(r) \/ FailUnlog(r) \/ Join(r) \/ UpdateReminder(r)
  PROVE  Break(r) \/ \E step \in Steps, a \in Args : Plain(r, step, a)
BY PlainLog, PlainOdometer, PlainDelete

-----------------------------------------------------------------------------
(* A station and the events at it *)

(* A request that is about to write its event uses the station it is at,   *)
(* unless another has moved it there.                                      *)
AtKnown(r) ==
  pc[r] = "update" \/ (pc[r] \in HasEvent /\ arg[r].soft) =>
    \/ event[arg[r].event].at \in arg[r].uses \cup {Null}
    \/ crossed /\ event[arg[r].event].at \in torn

(* Of the stations it uses alone, r has yet to count one, has counted one, *)
(* and has put the others right.                                           *)
VisitAt(r) ==
  \A s \in Stations : Owns(r, s) =>
    \/ s \in arg[r].todo
    \/ pc[r] = "visit" /\ s = arg[r].station /\ arg[r].count = Cardinality(EventsAt(s))
    \/ visits[s] = Cardinality(EventsAt(s)) /\ ~(pc[r] = "visit" /\ s = arg[r].station)

SInv == VisitsInStep /\ \A r \in Requests : AtKnown(r) /\ VisitAt(r)

SameAt(s) == EventsAt(s)' = EventsAt(s) /\ visits'[s] = visits[s]

LEMMA InitSInv == Init => SInv
<1> SUFFICES ASSUME Init PROVE SInv
  OBVIOUS
<1>1. ASSUME NEW s \in Stations PROVE visits[s] = Cardinality(EventsAt(s))
  <2>1. EventsAt(s) = {}
    BY DEF Init, EventsAt, Live, FreeEvent
  <2> QED
    BY <2>1, FS_EmptySet DEF Init
<1>2. VisitsInStep
  BY <1>1 DEF VisitsInStep
<1>3. ASSUME NEW r \in Requests PROVE AtKnown(r) /\ VisitAt(r)
  BY <1>1, NoArgsType DEF Init, AtKnown, VisitAt, HasEvent, Owns
<1> QED
  BY <1>2, <1>3 DEF SInv

(* What changes the row of one event changes no other station than its own *)
LEMMA VisitsSame ==
  ASSUME NEW s, NEW f \in EventIds, \A e \in EventIds \ {f} : event'[e] = event[e],
         event[f].st = "live" /\ event[f].at = s <=> event'[f].st = "live" /\ event'[f].at = s
  PROVE  EventsAt(s)' = EventsAt(s)
<1>1. \A e \in EventIds :
        event[e].st = "live" /\ event[e].at = s <=> event'[e].st = "live" /\ event'[e].at = s
  OBVIOUS
<1> QED
  BY <1>1 DEF EventsAt, Live

(* What the other requests know of their stations stays true. *)
LEMMA OthersStations ==
  ASSUME Base, Base', SInv, NEW r \in Requests,
         \A q \in Requests \ {r} :
           /\ pc'[q] = pc[q] /\ arg'[q] = arg[q]
           /\ pc[q] # "idle" /\ crossed => crossed',
         \A s \in Stations : crossed /\ s \in torn => s \in torn',
         \A s \in Stations : s \in arg[r].uses \/ (crossed /\ s \in torn) \/ SameAt(s),
         \A e \in EventIds : event[e].st # "free" =>
           \/ event'[e].at = event[e].at
           \/ e \in arg[r].uses /\ event'[e].at \in arg[r].uses \cup {Null},
         AtKnown(r)', VisitAt(r)'
  PROVE  \A q \in Requests : AtKnown(q)' /\ VisitAt(q)'
<1> SUFFICES ASSUME NEW q \in Requests, q # r PROVE AtKnown(q)' /\ VisitAt(q)'
  OBVIOUS
<1>1. /\ pc'[q] = pc[q] /\ arg'[q] = arg[q] /\ Knows(q) /\ Carries(pc[q], arg[q])
      /\ AtKnown(q) /\ VisitAt(q) /\ TypeOK
  BY DEF Base, Shape, SInv
<1>2. pc[q] = "idle" => arg[q].uses = {}
  BY <1>1, NoArgsType DEF Knows
<1>3. AtKnown(q)'
  <2> DEFINE e == arg[q].event
  <2> SUFFICES ASSUME pc[q] = "update" \/ (pc[q] \in HasEvent /\ arg[q].soft)
               PROVE  \/ event'[e].at \in arg[q].uses \cup {Null}
                      \/ crossed' /\ event'[e].at \in torn'
    BY <1>1 DEF AtKnown
  <2>1. pc[q] \in HasEvent /\ pc[q] # "idle"
    BY DEF HasEvent
  <2>2. e \in EventIds /\ event[e].st # "free" /\ e \in arg[q].uses
    BY <1>1, <2>1 DEF Knows, Carries
  <2>3. \/ event[e].at \in arg[q].uses \cup {Null}
        \/ crossed /\ event[e].at \in torn
    BY <1>1 DEF AtKnown
  <2>4. event[e].at \in Stations \cup {Null}
    BY <1>1, <2>2 DEF TypeOK, EventRow, FreeEvent
  <2>5. CASE event'[e].at = event[e].at
    BY <2>1, <2>3, <2>4, <2>5
  <2>6. CASE e \in arg[r].uses /\ event'[e].at \in arg[r].uses \cup {Null}
    <3>1. crossed /\ arg[r].uses \ EventIds \subseteq torn
      BY <2>2, <2>6 DEF Base, Together
    <3>2. event'[e].at \in Stations \cup {Null}
      BY <2>2 DEF Base, Shape, TypeOK, EventRow, FreeEvent
    <3>3. event'[e].at \in Stations => event'[e].at \in torn
      BY <2>6, <3>1, ConstantsAssumption DEF Resources
    <3> QED
      BY <2>1, <3>1, <3>2, <3>3
  <2> QED
    BY <2>2, <2>5, <2>6
<1>4. VisitAt(q)'
  <2> SUFFICES ASSUME NEW s \in Stations, Owns(q, s)'
               PROVE  \/ s \in arg[q].todo
                      \/ /\ pc[q] = "visit" /\ s = arg[q].station
                         /\ arg[q].count = Cardinality(EventsAt(s)')
                      \/ /\ visits'[s] = Cardinality(EventsAt(s)')
                         /\ ~(pc[q] = "visit" /\ s = arg[q].station)
    BY <1>1 DEF VisitAt
  <2>1. s \in arg[q].uses /\ pc[q] # "idle" /\ (~crossed' \/ s \notin torn')
    BY <1>1, <1>2 DEF Owns
  <2>2. ~(crossed /\ s \in torn)
    BY <2>1
  <2>3. Owns(q, s)
    BY <2>1, <2>2 DEF Owns
  <2>4. s \notin arg[r].uses
    BY <2>1, <2>2 DEF Base, Shape, Apart
  <2>5. SameAt(s)
    BY <2>2, <2>4
  <2> QED
    BY <1>1, <2>3, <2>5 DEF VisitAt, SameAt
<1> QED
  BY <1>3, <1>4

(* A request has all its stations to count before the last steps. *)
LEMMA AllToCount ==
  ASSUME NEW r \in Requests, arg[r].uses \cap Stations = arg[r].todo
  PROVE  VisitAt(r)
BY DEF VisitAt, Owns

LEMMA KeptTodo ==
  ASSUME NEW step \in Steps, NEW a \in Args PROVE Kept(step, a).todo = a.todo
BY DEF Kept, NoArgs

(* A step that goes on, before visits are counted *)
LEMMA StationsGoOn ==
  ASSUME Base, Base', SInv, NEW r \in Requests, NEW step \in Steps, NEW a \in Args,
         Goto(r, step, a), pc[r] \notin Tail, arg[r].uses \subseteq a.uses,
         a.uses \cap Stations = arg[r].uses \cap Stations, a.todo = arg[r].todo,
         \A s \in Stations : s \in arg[r].uses \/ (crossed /\ s \in torn) \/ SameAt(s),
         \A e \in EventIds : event[e].st # "free" =>
           \/ event'[e].at = event[e].at
           \/ e \in arg[r].uses /\ event'[e].at \in arg[r].uses \cup {Null},
         step # "update",
         step \in HasEvent /\ a.soft =>
           /\ pc[r] \in HasEvent /\ arg[r].soft /\ a.event = arg[r].event
           /\ event'[a.event].at = event[a.event].at
  PROVE  SInv'
<1>1. TypeOK /\ Carries(pc[r], arg[r]) /\ AtKnown(r)
  BY DEF Base, Shape, SInv
<1>2. /\ pc'[r] = step /\ arg'[r] = Kept(step, a) /\ arg'[r].uses = a.uses
      /\ arg'[r].todo = a.todo /\ (step \in HasEvent => arg'[r] = a)
      /\ crossed' = crossed /\ torn' = torn
      /\ \A q \in Requests \ {r} : pc'[q] = pc[q] /\ arg'[q] = arg[q]
  BY <1>1, GotoType, KeptType, KeptTodo DEF HasEvent
<1>3. arg'[r].uses \cap Stations = arg'[r].todo
  BY <1>1, <1>2 DEF Carries
<1>4. VisitAt(r)'
  BY <1>3 DEF VisitAt, Owns
<1>5. AtKnown(r)'
  <2> SUFFICES ASSUME step \in HasEvent, a.soft
               PROVE  \/ event'[a.event].at \in a.uses \cup {Null}
                      \/ crossed /\ event'[a.event].at \in torn
    BY <1>2 DEF AtKnown
  <2> QED
    BY <1>1 DEF AtKnown
<1>6. \A q \in Requests : AtKnown(q)' /\ VisitAt(q)'
  BY <1>2, <1>4, <1>5, OthersStations
<1>7. ASSUME NEW s \in Stations, Settled(s)' PROVE visits'[s] = Cardinality(EventsAt(s)')
  <2>1. s \notin torn /\ \A q \in Requests : s \notin arg[q].uses
    BY <1>2, <1>7 DEF Settled
  <2>2. Settled(s) /\ SameAt(s)
    BY <2>1 DEF Settled
  <2> QED
    BY <2>2 DEF SInv, VisitsInStep, SameAt
<1>8. VisitsInStep'
  BY <1>7 DEF VisitsInStep
<1> QED
  BY <1>6, <1>8 DEF SInv

LEMMA StationsPlain ==
  ASSUME Base, Base', SInv, NEW r \in Requests, NEW step \in Steps, NEW a \in Args,
         Plain(r, step, a)
  PROVE  SInv'
<1>1. \A s \in Stations : SameAt(s)
  BY DEF Plain, SameAt, EventsAt, Live
<1>2. step \in HasEvent /\ a.soft => pc[r] \in HasEvent /\ arg[r].soft
  BY DEF Plain
<1>3. event' = event /\ Goto(r, step, a) /\ pc[r] \notin Tail /\ step # "update"
      /\ a.uses = arg[r].uses /\ a.todo = arg[r].todo /\ a.event = arg[r].event
  BY DEF Plain
<1> QED
  BY <1>1, <1>2, <1>3, StationsGoOn

(* A request ends: it has put its stations right, or has torn them. *)
LEMMA StationsEnd ==
  ASSUME Base, Base', SInv, NEW r \in Requests, NEW left, End(r, left),
         event' = event, visits' = visits, crossed => torn \subseteq left,
         \A s \in Stations \ arg[r].uses : s \in torn => s \in left,
         \A s \in Stations \cap arg[r].uses : s \in left \/ pc[r] = "done"
  PROVE  SInv'
<1>1. TypeOK /\ Carries(pc[r], arg[r]) /\ VisitAt(r)
  BY DEF Base, Shape, SInv
<1>2. /\ pc'[r] = "idle" /\ arg'[r] = NoArgs /\ torn' = left
      /\ \A q \in Requests \ {r} : pc'[q] = pc[q] /\ arg'[q] = arg[q]
      /\ \A q \in Requests \ {r} : pc[q] # "idle" /\ crossed => crossed'
  BY <1>1, EndType DEF End
<1>3. \A s \in Stations : SameAt(s)
  BY DEF SameAt, EventsAt, Live
<1>4. AtKnown(r)' /\ VisitAt(r)'
  BY <1>2, NoArgsType DEF AtKnown, VisitAt, Owns, HasEvent
<1>5. \A q \in Requests : AtKnown(q)' /\ VisitAt(q)'
  BY <1>2, <1>3, <1>4, OthersStations
<1>6. ASSUME NEW s \in Stations, Settled(s)' PROVE visits[s] = Cardinality(EventsAt(s))
  <2>1. s \notin left /\ \A q \in Requests \ {r} : s \notin arg[q].uses
    BY <1>2, <1>6 DEF Settled
  <2>2. CASE s \in arg[r].uses
    <3>1. pc[r] = "done" /\ (~crossed \/ s \notin torn)
      BY <2>1, <2>2
    <3>2. Owns(r, s) /\ s \notin arg[r].todo
      BY <1>1, <2>2, <3>1 DEF Owns, Carries
    <3> QED
      BY <1>1, <3>1, <3>2 DEF VisitAt
  <2>3. CASE s \notin arg[r].uses
    BY <2>1, <2>3 DEF SInv, VisitsInStep, Settled
  <2> QED
    BY <2>2, <2>3
<1>7. VisitsInStep'
  BY <1>3, <1>6 DEF VisitsInStep, SameAt
<1> QED
  BY <1>5, <1>7 DEF SInv

LEMMA StationsOpened ==
  ASSUME Base, Base', SInv, NEW r \in Requests, NEW step \in Steps, NEW a \in Args,
         Opened(r, step, a), a.uses \cap Stations = a.todo,
         step \in HasEvent => event[a.event].at \in a.uses \cup {Null}
  PROVE  SInv'
<1>1. /\ TypeOK /\ arg[r] = NoArgs /\ event' = event /\ visits' = visits
  BY DEF Base, Shape, Knows, Opened, tables, derived
<1>2. /\ pc'[r] = step /\ arg'[r] = a /\ torn \subseteq torn' /\ (crossed => crossed')
      /\ \A q \in Requests \ {r} : pc'[q] = pc[q] /\ arg'[q] = arg[q]
  BY <1>1 DEF Opened, TypeOK
<1>3. \A s \in Stations : SameAt(s)
  BY <1>1 DEF SameAt, EventsAt, Live
<1>4. VisitAt(r)'
  BY <1>2 DEF VisitAt, Owns
<1>5. AtKnown(r)'
  BY <1>1, <1>2 DEF AtKnown, HasEvent
<1>6. \A q \in Requests : AtKnown(q)' /\ VisitAt(q)'
  BY <1>1, <1>2, <1>3, <1>4, <1>5, OthersStations
<1>7. ASSUME NEW s \in Stations, Settled(s)' PROVE Settled(s)
  BY <1>1, <1>2, <1>7, NoArgsType DEF Settled
<1>8. VisitsInStep'
  BY <1>3, <1>7 DEF SInv, VisitsInStep, SameAt
<1> QED
  BY <1>6, <1>8 DEF SInv

(* One lemma per step that changes an event or a visit *)
LEMMA InsertStations == ASSUME Base, Base', SInv, NEW r \in Requests, Insert(r) PROVE SInv'
<1>1. PICK e \in EventIds :
        /\ event[e].st = "free"
        /\ event' = [event EXCEPT ![e] = NewRow(arg[r])]
        /\ Goto(r, "log", [arg[r] EXCEPT !.event = e, !.uses = @ \cup {e}])
  BY DEF Insert
<1> DEFINE a == [arg[r] EXCEPT !.event = e, !.uses = @ \cup {e}]
<1>2. /\ TypeOK /\ arg[r] \in Args /\ Carries("insert", arg[r]) /\ "log" \in Steps
      /\ pc[r] = "insert" /\ pc[r] \notin Tail
  BY DEF Base, Shape, TypeOK, Insert, Steps, Tail
<1>3. /\ a \in Args /\ a.uses = arg[r].uses \cup {e} /\ a.todo = arg[r].todo
      /\ a.soft = arg[r].soft
  BY <1>2 DEF Args, Resources
<1>4. Goto(r, "log", a)
  BY <1>1
<1> HIDE DEF a
<1>5. /\ event'[e].at = arg[r].at /\ \A f \in EventIds \ {e} : event'[f] = event[f]
      /\ visits' = visits
  BY <1>1, <1>2 DEF TypeOK, NewRow, Insert, derived
<1>6. ASSUME NEW s \in Stations, s \notin arg[r].uses PROVE SameAt(s)
  <2>1. arg[r].at # s
    BY <1>2, <1>6, ConstantsAssumption DEF Carries, Resources
  <2> QED
    BY <1>1, <1>5, <2>1, VisitsSame DEF SameAt
<1>7. ~a.soft
  BY <1>2, <1>3 DEF Carries
<1>8. a.uses \cap Stations = arg[r].uses \cap Stations
  BY <1>3, ConstantsAssumption
<1> QED
  BY <1>1, <1>2, <1>3, <1>4, <1>5, <1>6, <1>7, <1>8, StationsGoOn

LEMMA ServiceStations ==
  ASSUME Base, Base', SInv, NEW r \in Requests, ServiceCommit(r) PROVE SInv'
<1>1. /\ TypeOK /\ arg[r] \in Args /\ Carries("service.commit", arg[r]) /\ "done" \in Steps
      /\ pc[r] = "service.commit" /\ pc[r] \notin Tail /\ "done" \notin HasEvent
      /\ Goto(r, "done", arg[r]) /\ visits' = visits
  BY DEF Base, Shape, TypeOK, ServiceCommit, Steps, Tail, HasEvent
<1>2. PICK e \in EventIds :
           /\ event[e].st = "free" /\ event'[e] = NewRow(arg[r])
           /\ \A f \in EventIds \ {e} : event'[f] = event[f]
  BY ServiceRow
<1>3. event'[e].at = Null
  BY <1>1, <1>2 DEF NewRow, Carries
<1>4. ASSUME NEW s \in Stations PROVE SameAt(s)
  <2>1. s # Null
    BY ConstantsAssumption DEF Resources
  <2> QED
    BY <1>1, <1>2, <1>3, <2>1, VisitsSame DEF SameAt
<1> QED
  BY <1>1, <1>2, <1>4, StationsGoOn

LEMMA UpdateStations == ASSUME Base, Base', SInv, NEW r \in Requests, Update(r) PROVE SInv'
<1> DEFINE e == arg[r].event
           step == IF arg[r].relog THEN "relog" ELSE ThenDocument(arg[r])
<1>1. /\ TypeOK /\ arg[r] \in Args /\ Carries("update", arg[r]) /\ pc[r] = "update"
      /\ pc[r] \in HasEvent /\ pc[r] \notin Tail /\ e \in EventIds /\ e \in arg[r].uses
      /\ AtKnown(r)
  BY DEF Base, Shape, TypeOK, Update, HasEvent, Tail, Knows, Carries, SInv
<1>2. /\ \A f \in EventIds \ {e} : event'[f] = event[f]
      /\ event'[e].st = event[e].st
      /\ event'[e].at = IF arg[r].at # Null THEN arg[r].at ELSE event[e].at
  BY <1>1, PatchedRow
<1>3. visits' = visits /\ Goto(r, step, arg[r])
  BY DEF Update, derived
<1>4. step \in Steps /\ step # "update" /\ ~arg[r].soft
  BY <1>1, ThenType DEF Steps, Carries
<1>5. arg[r].at \in arg[r].uses \cup {Null}
  BY <1>1 DEF Carries
<1>6. \/ event[e].at \in arg[r].uses \cup {Null}
      \/ crossed /\ event[e].at \in torn
  BY <1>1 DEF AtKnown
<1>7. ASSUME NEW s \in Stations, s \notin arg[r].uses, ~(crossed /\ s \in torn) PROVE SameAt(s)
  <2>1. s # Null
    BY ConstantsAssumption DEF Resources
  <2>2. event[e].at # s /\ event'[e].at # s
    BY <1>2, <1>5, <1>6, <1>7, <2>1
  <2> QED
    BY <1>1, <1>2, <1>3, <2>2, VisitsSame DEF SameAt
<1>8. \A f \in EventIds :
        \/ event'[f].at = event[f].at
        \/ f \in arg[r].uses /\ event'[f].at \in arg[r].uses \cup {Null}
  BY <1>1, <1>2, <1>5
<1> HIDE DEF e, step
<1> QED
  BY <1>1, <1>3, <1>4, <1>7, <1>8, StationsGoOn

LEMMA SoftDeleteStations ==
  ASSUME Base, Base', SInv, NEW r \in Requests, SoftDelete(r) PROVE SInv'
<1> DEFINE e == arg[r].event
           a == [arg[r] EXCEPT !.soft = FALSE]
<1>1. /\ TypeOK /\ arg[r] \in Args /\ pc[r] \in HasEvent /\ pc[r] \notin Tail
      /\ pc[r] \in Steps /\ pc[r] # "update" /\ arg[r].soft /\ AtKnown(r)
  BY DEF Base, Shape, TypeOK, SoftDelete, HasEvent, Tail, LogSteps, SInv
<1>2. /\ e \in EventIds /\ \A f \in EventIds \ {e} : event'[f] = event[f]
      /\ \A f \in EventIds : event'[f].at = event[f].at
  BY DeletedRow
<1>3. visits' = visits /\ Goto(r, pc[r], a)
  BY DEF SoftDelete, derived
<1>4. a \in Args /\ a.uses = arg[r].uses /\ a.todo = arg[r].todo /\ a.soft = FALSE
  BY <1>1 DEF Args
<1> HIDE DEF a
<1>5. \/ event[e].at \in arg[r].uses \cup {Null}
      \/ crossed /\ event[e].at \in torn
  BY <1>1 DEF AtKnown
<1>6. ASSUME NEW s \in Stations, s \notin arg[r].uses, ~(crossed /\ s \in torn) PROVE SameAt(s)
  <2>1. s # Null
    BY ConstantsAssumption DEF Resources
  <2>2. event[e].at # s /\ event'[e].at # s
    BY <1>2, <1>5, <1>6, <2>1
  <2> QED
    BY <1>2, <1>3, <2>2, VisitsSame DEF SameAt
<1> HIDE DEF e
<1> QED
  BY <1>1, <1>2, <1>3, <1>4, <1>6, StationsGoOn

LEMMA VisitsStations ==
  ASSUME Base, Base', SInv, NEW r \in Requests, CountVisits(r) \/ WriteVisits(r) PROVE SInv'
<1>1. TypeOK /\ arg[r] \in Args /\ Carries(pc[r], arg[r]) /\ "visit" \in Steps /\ VisitAt(r)
  BY DEF Base, Shape, TypeOK, Steps, SInv
<1>2. ASSUME NEW step \in Steps, NEW a \in Args, Goto(r, step, a), step \notin HasEvent,
             step # "update", a.uses = arg[r].uses, event' = event, VisitAt(r)',
             \A s \in Stations \ arg[r].uses : visits'[s] = visits[s]
      PROVE  SInv'
  <2>1. /\ pc'[r] = step /\ arg'[r].uses = arg[r].uses /\ crossed' = crossed /\ torn' = torn
        /\ \A q \in Requests \ {r} : pc'[q] = pc[q] /\ arg'[q] = arg[q]
    BY <1>1, <1>2, GotoType
  <2>2. AtKnown(r)'
    BY <1>2, <2>1 DEF AtKnown
  <2>3. \A s \in Stations : s \in arg[r].uses \/ SameAt(s)
    BY <1>2 DEF SameAt, EventsAt, Live
  <2>4. \A q \in Requests : AtKnown(q)' /\ VisitAt(q)'
    BY <1>2, <2>1, <2>2, <2>3, OthersStations
  <2>5. ASSUME NEW s \in Stations, Settled(s)' PROVE Settled(s) /\ SameAt(s)
    <3>1. s \notin torn /\ \A q \in Requests : s \notin arg[q].uses
      BY <2>1, <2>5 DEF Settled
    <3> QED
      BY <2>3, <3>1 DEF Settled
  <2>6. VisitsInStep'
    BY <2>5 DEF SInv, VisitsInStep, SameAt
  <2> QED
    BY <2>4, <2>6 DEF SInv
<1>3. CASE CountVisits(r)
  <2>1. PICK s \in arg[r].todo, a \in Args :
          /\ Goto(r, "visit", a) /\ a.uses = arg[r].uses /\ a.todo = arg[r].todo \ {s}
          /\ a.station = s /\ a.count = Cardinality(EventsAt(s))
    BY <1>3, Counting
  <2>2. event' = event /\ visits' = visits /\ pc[r] = "count"
    BY <1>3 DEF Continue, tables, derived, CountVisits
  <2>3. /\ pc'[r] = "visit" /\ arg'[r] = a /\ crossed' = crossed /\ torn' = torn
    BY <1>1, <2>1, GotoType, KeptType
  <2>4. \A u : EventsAt(u)' = EventsAt(u)
    BY <2>2 DEF EventsAt, Live
  <2>5. ASSUME NEW u \in Stations, Owns(r, u)'
        PROVE  \/ u \in a.todo
               \/ u = a.station /\ a.count = Cardinality(EventsAt(u))
               \/ visits[u] = Cardinality(EventsAt(u)) /\ u # a.station
    <3>1. Owns(r, u)
      BY <2>1, <2>3, <2>5 DEF Owns
    <3>2. u \in arg[r].todo \/ visits[u] = Cardinality(EventsAt(u))
      BY <1>1, <2>2, <3>1 DEF VisitAt
    <3> QED
      BY <2>1, <3>2
  <2>6. VisitAt(r)'
    BY <2>2, <2>3, <2>4, <2>5 DEF VisitAt
  <2> QED
    BY <1>1, <1>2, <2>1, <2>2, <2>6 DEF HasEvent
<1>4. CASE WriteVisits(r)
  <2> DEFINE step == ThenVisits(arg[r])
  <2>1. step \in {"count", "done"} /\ step \in Steps
    BY <1>1, ThenType DEF Steps
  <2>2. Goto(r, step, arg[r]) /\ event' = event /\ pc[r] = "visit"
    BY <1>4 DEF WriteVisits
  <2>3. visits' = [visits EXCEPT ![arg[r].station] = arg[r].count]
    BY <1>4 DEF WriteVisits
  <2>4. arg[r].station \in arg[r].uses \cap Stations
    BY <1>1, <2>2 DEF Carries
  <2>5. /\ visits'[arg[r].station] = arg[r].count
        /\ \A s \in Stations \ {arg[r].station} : visits'[s] = visits[s]
    BY <1>1, <2>3, <2>4 DEF TypeOK
  <2> HIDE DEF step
  <2>6. /\ pc'[r] = step /\ arg'[r].uses = arg[r].uses /\ arg'[r].todo = arg[r].todo
        /\ crossed' = crossed /\ torn' = torn
    BY <1>1, <2>1, <2>2, GotoType, KeptTodo
  <2>7. \A u : EventsAt(u)' = EventsAt(u)
    BY <2>2 DEF EventsAt, Live
  <2>8. ASSUME NEW u \in Stations, Owns(r, u)'
        PROVE  u \in arg[r].todo \/ visits'[u] = Cardinality(EventsAt(u))
    <3>1. Owns(r, u)
      BY <2>6, <2>8 DEF Owns
    <3>2. \/ u \in arg[r].todo
          \/ u = arg[r].station /\ arg[r].count = Cardinality(EventsAt(u))
          \/ visits[u] = Cardinality(EventsAt(u)) /\ u # arg[r].station
      BY <1>1, <2>2, <3>1 DEF VisitAt
    <3> QED
      BY <2>5, <3>2
  <2>9. VisitAt(r)'
    BY <2>1, <2>6, <2>7, <2>8 DEF VisitAt
  <2>10. step \notin HasEvent /\ step # "update"
    BY <2>1 DEF HasEvent
  <2> QED
    BY <1>1, <1>2, <2>1, <2>2, <2>4, <2>5, <2>9, <2>10
<1> QED
  BY <1>3, <1>4

LEMMA BreakStations == ASSUME Base, Base', SInv, NEW r \in Requests, Break(r) PROVE SInv'
BY StationsEnd DEF Break, tables, derived

LEMMA EndsStations ==
  ASSUME Base, Base', SInv, NEW r \in Requests, PatchVehicle(r) \/ Reply(r) \/ Fail(r)
  PROVE  SInv'
<1>1. Carries(pc[r], arg[r])
  BY DEF Base
<1>2. pc[r] \in {"patch", "service.max", "service.commit"} => arg[r].uses \cap Stations = {}
  BY <1>1 DEF Carries, Tail
<1>3. CASE PatchVehicle(r)
  BY <1>2, <1>3, StationsEnd DEF PatchVehicle
<1>4. CASE Reply(r)
  <2> DEFINE left == IF crossed THEN torn ELSE torn \ Recomputed(r)
  <2>1. /\ End(r, left) /\ event' = event /\ visits' = visits /\ pc[r] = "done"
    BY <1>4 DEF Reply, tables, derived
  <2>2. /\ crossed => torn \subseteq left
        /\ \A s \in Stations \ arg[r].uses : s \in torn => s \in left
    BY DEF Recomputed
  <2> HIDE DEF left
  <2> QED
    BY <2>1, <2>2, StationsEnd
<1>5. CASE Fail(r)
  <2>1. CASE pc[r] \in {"service.max", "service.commit"} /\ End(r, torn) /\ UNCHANGED tables
    BY <1>2, <2>1, StationsEnd DEF tables, derived
  <2> QED
    BY <1>5, <2>1, BreakStations DEF Fail
<1> QED
  BY <1>3, <1>4, <1>5

LEMMA ArriveStations == ASSUME Base, Base', SInv, NEW r \in Requests, Arrive(r) PROVE SInv'
<1>1. /\ TypeOK
      /\ {"insert", "update", "unlog", "raw.delete", "service.max", "patch"} \subseteq Steps
      /\ {"insert", "service.max", "patch"} \cap HasEvent = {}
  BY DEF Base, Shape, Steps, LogSteps, HasEvent
<1>2. ASSUME NEW t \in Types, NEW m \in Mileages, NEW s \in Stations \cup {Null},
             OpenCreate(r, t, m, s)
      PROVE  SInv'
  BY <1>1, <1>2, Created, StationsOpened
<1>3. ASSUME NEW e \in EventIds, NEW m \in Mileages \cup {Null}, NEW s \in Stations \cup {Null},
             OpenUpdate(r, e, m, s)
      PROVE  SInv'
  <2>1. PICK a \in Args :
          /\ Opened(r, "update", a) /\ a.event = e
          /\ a.uses \cap Stations = a.todo /\ event[e].at \in a.todo \cup {Null}
    BY <1>1, <1>3, Updated
  <2> QED
    BY <1>1, <2>1, StationsOpened
<1>4. ASSUME NEW e \in EventIds, OpenDelete(r, e) PROVE SInv'
  <2>1. PICK a \in Args, step \in {"raw.delete", "unlog"} :
          /\ Opened(r, step, a) /\ a.event = e
          /\ a.uses \cap Stations = a.todo /\ a.todo = {event[e].at} \ {Null}
    BY <1>1, <1>4, Deleted
  <2> QED
    BY <1>1, <2>1, StationsOpened
<1>5. ASSUME NEW m \in Mileages, OpenService(r, m) \/ OpenPatch(r, m) PROVE SInv'
  <2>1. PICK a \in Args, step \in {"service.max", "patch"} :
           Opened(r, step, a) /\ Carries(step, a) /\ a.uses = {"odometer"}
    BY <1>5, OtherOpened
  <2>2. a.uses \cap Stations = a.todo
    BY <2>1 DEF Carries, Tail
  <2> QED
    BY <1>1, <2>1, <2>2, StationsOpened
<1> QED
  BY <1>2, <1>3, <1>4, <1>5 DEF Arrive

LEMMA DeleteReminderStations ==
  ASSUME Base, SInv, NEW e \in EventIds, DeleteReminder(e) PROVE SInv'
<1>1. /\ event' = event /\ visits' = visits /\ pc' = pc /\ arg' = arg /\ crossed' = crossed
      /\ torn' = torn \cup {e}
  BY DEF DeleteReminder
<1>2. \A s \in Stations : s \in torn' <=> s \in torn
  BY <1>1, ConstantsAssumption
<1>3. \A s : EventsAt(s)' = EventsAt(s)
  BY <1>1 DEF EventsAt, Live
<1>4. VisitsInStep'
  BY <1>1, <1>2, <1>3 DEF SInv, VisitsInStep, Settled
<1>5. ASSUME NEW q \in Requests PROVE AtKnown(q)' /\ VisitAt(q)'
  <2>1. AtKnown(q) /\ VisitAt(q)
    BY DEF SInv
  <2>2. AtKnown(q)'
    BY <1>1, <2>1 DEF AtKnown
  <2>3. VisitAt(q)'
    BY <1>1, <1>2, <1>3, <2>1 DEF VisitAt, Owns
  <2> QED
    BY <2>2, <2>3
<1> QED
  BY <1>4, <1>5 DEF SInv

LEMMA SyncInfoStations ==
  ASSUME Base, Base', SInv, NEW r \in Requests, SyncInfo(r) PROVE SInv'
<1>1. /\ arg[r] \in Args /\ pc[r] \in HasEvent /\ pc[r] \notin Tail /\ Carries("info", arg[r])
      /\ pc[r] = "info"
  BY DEF Base, Shape, TypeOK, SyncInfo, HasEvent, Tail
<1>2. /\ Goto(r, ThenDocument(arg[r]), arg[r]) /\ event' = event /\ visits' = visits
  BY DEF SyncInfo
<1>3. ThenDocument(arg[r]) \in Steps /\ ThenDocument(arg[r]) # "update"
  BY <1>1, ThenType DEF Steps
<1>4. \A s \in Stations : SameAt(s)
  BY <1>2 DEF SameAt, EventsAt, Live
<1> QED
  BY <1>1, <1>2, <1>3, <1>4, StationsGoOn

LEMMA StepSInv == ASSUME Base, SInv, [Next]_vars PROVE SInv'
<1>1. Base'
  BY StepBase
<1>2. ASSUME NEW r \in Requests, Step(r) \/ FailSoftDelete(r) \/ FailUnlog(r) PROVE SInv'
  BY <1>1, <1>2, PlainStep, StationsPlain, BreakStations, InsertStations, SyncInfoStations,
     VisitsStations, UpdateStations, SoftDeleteStations, ServiceStations, EndsStations DEF Step
<1>3. CASE UNCHANGED vars
  <2>1. /\ event' = event /\ visits' = visits /\ pc' = pc /\ arg' = arg /\ crossed' = crossed
        /\ torn' = torn
    BY <1>3 DEF vars
  <2>2. \A s : EventsAt(s)' = EventsAt(s)
    BY <2>1 DEF EventsAt, Live
  <2> QED
    BY <2>1, <2>2 DEF SInv, VisitsInStep, Settled, AtKnown, VisitAt, Owns
<1> QED
  BY <1>1, <1>2, <1>3, ArriveStations, EndsStations, DeleteReminderStations DEF Next

-----------------------------------------------------------------------------
(* What the vehicle knows of its purchase and its sale *)

InfoOk(t) == Cardinality(OfType(t)) =< 1 /\ (info[t] # Null <=> OfType(t) # {})

(* How far r has come with the type it changes *)
InfoAt(r) ==
  \A t \in (InfoTypes \cap arg[r].uses) \ torn :
    /\ pc[r] \in Tail => InfoOk(t)
    /\ pc[r] = "insert" => OfType(t) = {}
    /\ pc[r] \in HasEvent =>
         /\ OfType(t) \subseteq {arg[r].event}
         /\ arg[r].op = "create" => arg[r].event \in OfType(t)
         /\ arg[r].op = "delete" /\ ~arg[r].soft /\ ~arg[r].failed => OfType(t) = {}

IInv == InfoInStep /\ \A r \in Requests : InfoAt(r)

SameOf(t) == OfType(t)' = OfType(t) /\ info'[t] = info[t]

LEMMA InitIInv == Init => IInv
<1> SUFFICES ASSUME Init PROVE IInv
  OBVIOUS
<1>1. ASSUME NEW t \in InfoTypes PROVE InfoOk(t)
  <2>1. OfType(t) = {}
    BY DEF Init, OfType, Live, FreeEvent
  <2>2. Cardinality(OfType(t)) = 0 /\ info[t] = Null
    BY <2>1, FS_EmptySet DEF Init
  <2> QED
    BY <2>1, <2>2 DEF InfoOk
<1>2. InfoInStep
  BY <1>1 DEF InfoInStep, InfoOk
<1>3. ASSUME NEW r \in Requests PROVE InfoAt(r)
  BY NoArgsType DEF Init, InfoAt
<1> QED
  BY <1>2, <1>3 DEF IInv

(* The events of a type, when there is one, or none, of it *)
LEMMA OneOf ==
  ASSUME NEW t
  PROVE  /\ OfType(t) = {} => Cardinality(OfType(t)) = 0
         /\ \A e : OfType(t) = {e} => Cardinality(OfType(t)) = 1
         /\ \A e \in OfType(t) : Cardinality(OfType(t)) =< 1 => OfType(t) = {e}
<1>1. IsFiniteSet(OfType(t))
  BY ConstantsAssumption, FS_Subset DEF OfType
<1>2. Cardinality(OfType(t)) \in Nat
  BY <1>1, FS_CardinalityType
<1>3. OfType(t) = {} <=> Cardinality(OfType(t)) = 0
  BY <1>1, FS_EmptySet
<1>4. Cardinality(OfType(t)) = 1 <=> \E x : OfType(t) = {x}
  BY <1>1, FS_Singleton
<1>5. ASSUME NEW e \in OfType(t), Cardinality(OfType(t)) =< 1 PROVE OfType(t) = {e}
  <2>1. Cardinality(OfType(t)) = 1
    BY <1>2, <1>3, <1>5
  <2> QED
    BY <1>4, <1>5, <2>1
<1> QED
  BY <1>3, <1>4, <1>5

(* What the other requests know of the types they change stays true. *)
LEMMA OthersInfo ==
  ASSUME Base, IInv, NEW r \in Requests,
         \A q \in Requests \ {r} : pc'[q] = pc[q] /\ arg'[q] = arg[q],
         \A t \in InfoTypes : t \in torn => t \in torn',
         \A t \in InfoTypes : t \in arg[r].uses \/ SameOf(t),
         InfoAt(r)'
  PROVE  \A q \in Requests : InfoAt(q)'
<1> SUFFICES ASSUME NEW q \in Requests, q # r PROVE InfoAt(q)'
  OBVIOUS
<1>1. pc'[q] = pc[q] /\ arg'[q] = arg[q] /\ InfoAt(q)
  BY DEF IInv
<1>2. ASSUME NEW t \in InfoTypes \cap arg[q].uses, t \notin torn'
      PROVE t \notin torn /\ SameOf(t)
  BY <1>2 DEF Base, Shape, Apart
<1> QED
  BY <1>1, <1>2 DEF InfoAt, InfoOk, SameOf

(* A step that goes on *)
LEMMA InfoGoesOn ==
  ASSUME Base, IInv, NEW r \in Requests, NEW step \in Steps, NEW a \in Args, Goto(r, step, a),
         arg[r].uses \subseteq a.uses,
         \A t \in InfoTypes : t \in arg[r].uses \/ SameOf(t),
         InfoAt(r)'
  PROVE  IInv'
<1>1. TypeOK
  BY DEF Base, Shape
<1>2. /\ arg'[r].uses = a.uses /\ torn' = torn
      /\ \A q \in Requests \ {r} : pc'[q] = pc[q] /\ arg'[q] = arg[q]
  BY <1>1, GotoType
<1>3. \A q \in Requests : InfoAt(q)'
  BY <1>2, OthersInfo
<1>4. ASSUME NEW t \in InfoTypes, Settled(t)' PROVE Settled(t) /\ SameOf(t)
  <2>1. t \notin torn /\ \A q \in Requests : t \notin arg[q].uses
    BY <1>2, <1>4 DEF Settled
  <2> QED
    BY <2>1 DEF Settled
<1>5. InfoInStep'
  BY <1>4 DEF IInv, InfoInStep, SameOf
<1> QED
  BY <1>3, <1>5 DEF IInv

LEMMA InfoPlain ==
  ASSUME Base, IInv, NEW r \in Requests, NEW step \in Steps, NEW a \in Args,
         Plain(r, step, a)
  PROVE  IInv'
<1>1. TypeOK /\ Goto(r, step, a) /\ InfoAt(r)
  BY DEF Base, Shape, Plain, IInv
<1>2. /\ pc'[r] = step /\ arg'[r] = Kept(step, a) /\ arg'[r].uses = a.uses /\ torn' = torn
  BY <1>1, GotoType
<1>3. step \in HasEvent => arg'[r] = a
  BY <1>2, KeptType DEF HasEvent
<1>4. \A t \in InfoTypes : SameOf(t)
  BY DEF Plain, SameOf, OfType, Live
<1>5. InfoAt(r)'
  <2> SUFFICES ASSUME NEW t \in InfoTypes \cap arg[r].uses, t \notin torn
               PROVE  /\ step \notin Tail /\ step # "insert"
                      /\ step \in HasEvent =>
                           /\ OfType(t) \subseteq {a.event}
                           /\ a.op = "create" => a.event \in OfType(t)
                           /\ a.op = "delete" /\ ~a.soft /\ ~a.failed => OfType(t) = {}
    BY <1>2, <1>3, <1>4 DEF InfoAt, SameOf, Plain
  <2> QED
    BY <1>1 DEF InfoAt, Plain
<1> QED
  BY <1>1, <1>4, <1>5, InfoGoesOn DEF Plain

LEMMA InfoEnd ==
  ASSUME Base, IInv, NEW r \in Requests, NEW left, End(r, left), event' = event, info' = info,
         \A t \in InfoTypes : t \in torn => t \in left,
         \A t \in InfoTypes \cap arg[r].uses : t \in left \/ pc[r] \in Tail
  PROVE  IInv'
<1>1. TypeOK /\ InfoAt(r)
  BY DEF Base, Shape, IInv
<1>2. /\ pc'[r] = "idle" /\ arg'[r] = NoArgs /\ torn' = left
      /\ \A q \in Requests \ {r} : pc'[q] = pc[q] /\ arg'[q] = arg[q]
  BY <1>1, EndType
<1>3. \A t \in InfoTypes : SameOf(t)
  BY DEF SameOf, OfType, Live
<1>4. InfoAt(r)'
  BY <1>2, NoArgsType DEF InfoAt
<1>5. \A q \in Requests : InfoAt(q)'
  BY <1>2, <1>3, <1>4, OthersInfo
<1>6. ASSUME NEW t \in InfoTypes, Settled(t)' PROVE InfoOk(t)
  <2>1. t \notin left /\ t \notin torn /\ \A q \in Requests \ {r} : t \notin arg[q].uses
    BY <1>2, <1>6 DEF Settled
  <2>2. CASE t \in arg[r].uses
    BY <1>1, <2>1, <2>2 DEF InfoAt
  <2>3. CASE t \notin arg[r].uses
    BY <2>1, <2>3 DEF IInv, InfoInStep, Settled, InfoOk
  <2> QED
    BY <2>2, <2>3
<1>7. InfoInStep'
  BY <1>3, <1>6 DEF InfoInStep, InfoOk, SameOf
<1> QED
  BY <1>5, <1>7 DEF IInv

(* A request arrives: what it knows of its type, where nothing else does   *)
LEMMA InfoOpened ==
  ASSUME Base, IInv, NEW r \in Requests, NEW step \in Steps, NEW a \in Args,
         Opened(r, step, a), step \notin Tail,
         \A t \in InfoTypes \cap a.uses : InfoOk(t) =>
           /\ step = "insert" => OfType(t) = {}
           /\ step \in HasEvent => /\ OfType(t) \subseteq {a.event}
                                   /\ a.op = "delete" /\ a.soft
  PROVE  IInv'
<1>1. /\ TypeOK /\ arg[r] = NoArgs /\ event' = event /\ info' = info
  BY DEF Base, Shape, Knows, Opened, tables, derived
<1>2. /\ pc'[r] = step /\ arg'[r] = a /\ torn \subseteq torn'
      /\ \A q \in Requests \ {r} : pc'[q] = pc[q] /\ arg'[q] = arg[q]
  BY <1>1 DEF Opened, TypeOK
<1>3. \A t \in InfoTypes : SameOf(t)
  BY <1>1 DEF SameOf, OfType, Live
<1>4. ASSUME NEW t \in InfoTypes \cap a.uses, t \notin torn' PROVE InfoOk(t)
  <2>1. ASSUME NEW q \in Requests, t \in arg[q].uses PROVE FALSE
    <3>1. pc[q] # "idle"
      BY <2>1, NoArgsType DEF Base, Shape, Knows
    <3>2. q \in Rivals(a)
      BY <1>4, <2>1, <3>1 DEF Rivals
    <3> QED
      BY <1>4, <3>2 DEF Opened
  <2>2. Settled(t)
    BY <1>2, <1>4, <2>1 DEF Settled
  <2> QED
    BY <2>2 DEF IInv, InfoInStep, InfoOk
<1>5. InfoAt(r)'
  <2> SUFFICES ASSUME NEW t \in InfoTypes \cap a.uses, t \notin torn'
               PROVE  /\ step = "insert" => OfType(t) = {}
                      /\ step \in HasEvent => /\ OfType(t) \subseteq {a.event}
                                              /\ a.op = "delete" /\ a.soft
    BY <1>2, <1>3 DEF InfoAt, SameOf
  <2> QED
    BY <1>4
<1>6. \A q \in Requests : InfoAt(q)'
  BY <1>1, <1>2, <1>3, <1>5, OthersInfo
<1>7. ASSUME NEW t \in InfoTypes, Settled(t)' PROVE Settled(t)
  BY <1>1, <1>2, <1>7, NoArgsType DEF Settled
<1>8. InfoInStep'
  BY <1>3, <1>7 DEF IInv, InfoInStep, SameOf
<1> QED
  BY <1>6, <1>8 DEF IInv

(* What changes the row of one event changes no type but its own *)
LEMMA TypesSame ==
  ASSUME NEW t, NEW f \in EventIds, \A e \in EventIds \ {f} : event'[e] = event[e],
         event[f].st = "live" /\ event[f].type = t
           <=> event'[f].st = "live" /\ event'[f].type = t
  PROVE  OfType(t)' = OfType(t)
<1>1. \A e \in EventIds :
        event[e].st = "live" /\ event[e].type = t
          <=> event'[e].st = "live" /\ event'[e].type = t
  OBVIOUS
<1> QED
  BY <1>1 DEF OfType, Live

LEMMA InsertInfo == ASSUME Base, IInv, NEW r \in Requests, Insert(r) PROVE IInv'
<1>1. PICK e \in EventIds :
        /\ event[e].st = "free"
        /\ event' = [event EXCEPT ![e] = NewRow(arg[r])]
        /\ Goto(r, "log", [arg[r] EXCEPT !.event = e, !.uses = @ \cup {e}])
  BY DEF Insert
<1> DEFINE a == [arg[r] EXCEPT !.event = e, !.uses = @ \cup {e}]
<1>2. /\ TypeOK /\ arg[r] \in Args /\ Carries("insert", arg[r]) /\ "log" \in Steps
      /\ pc[r] = "insert" /\ InfoAt(r) /\ info' = info
  BY DEF Base, Shape, TypeOK, Insert, Steps, IInv, derived
<1>3. /\ a \in Args /\ a.uses = arg[r].uses \cup {e} /\ a.event = e /\ a.op = arg[r].op
  BY <1>2 DEF Args, Resources
<1>4. Goto(r, "log", a)
  BY <1>1
<1> HIDE DEF a
<1>5. pc'[r] = "log" /\ arg'[r] = a /\ torn' = torn
  BY <1>2, <1>3, <1>4, GotoType, KeptType
<1>6. /\ event'[e].type = arg[r].type /\ event'[e].st = "live"
      /\ \A f \in EventIds \ {e} : event'[f] = event[f]
  BY <1>1, <1>2 DEF TypeOK, NewRow
<1>7. a.op = "create" /\ InfoTypes \cap arg[r].uses = InfoTypes \cap {arg[r].type}
  BY <1>2, <1>3 DEF Carries, Tail
<1>8. ASSUME NEW t \in InfoTypes, t \notin arg[r].uses PROVE SameOf(t)
  <2>1. arg[r].type # t
    BY <1>7, <1>8
  <2> QED
    BY <1>1, <1>2, <1>6, <2>1, TypesSame DEF SameOf
<1>9. InfoAt(r)'
  <2> SUFFICES ASSUME NEW t \in InfoTypes \cap arg[r].uses, t \notin torn
               PROVE  OfType(t)' = {e}
    <3>1. InfoTypes \cap a.uses = InfoTypes \cap arg[r].uses
      BY <1>3, ConstantsAssumption
    <3> QED
      BY <1>3, <1>5, <1>7, <3>1 DEF InfoAt, Tail
  <2>1. OfType(t) = {} /\ t = arg[r].type
    BY <1>2, <1>7 DEF InfoAt
  <2>2. \A f \in EventIds : ~(event[f].st = "live" /\ event[f].type = t)
    BY <2>1 DEF OfType, Live
  <2>3. \A f \in EventIds : event'[f].st = "live" /\ event'[f].type = t <=> f = e
    BY <1>6, <2>1, <2>2
  <2> QED
    BY <2>3 DEF OfType, Live
<1> QED
  BY <1>2, <1>3, <1>4, <1>8, <1>9, InfoGoesOn

LEMMA SoftDeleteInfo == ASSUME Base, IInv, NEW r \in Requests, SoftDelete(r) PROVE IInv'
<1> DEFINE e == arg[r].event
           a == [arg[r] EXCEPT !.soft = FALSE]
<1>1. /\ TypeOK /\ arg[r] \in Args /\ pc[r] \in HasEvent /\ pc[r] \notin Tail
      /\ pc[r] \in Steps /\ pc[r] # "insert" /\ arg[r].soft /\ InfoAt(r) /\ TypeHeld(r)
      /\ Carries(pc[r], arg[r])
  BY DEF Base, Shape, TypeOK, SoftDelete, HasEvent, Tail, LogSteps, IInv
<1>2. /\ e \in EventIds /\ event'[e].st = "gone"
      /\ \A f \in EventIds \ {e} : event'[f] = event[f]
  BY DeletedRow
<1>3. info' = info /\ Goto(r, pc[r], a)
  BY DEF SoftDelete, derived
<1>4. a \in Args /\ a.uses = arg[r].uses /\ a.event = e /\ a.op = arg[r].op
  BY <1>1 DEF Args
<1> HIDE DEF a
<1>5. pc'[r] = pc[r] /\ arg'[r] = a /\ torn' = torn
  BY <1>1, <1>3, <1>4, GotoType, KeptType DEF HasEvent
<1>6. arg[r].op = "delete" /\ InfoTypes \cap arg[r].uses = InfoTypes \cap {arg[r].type}
  BY <1>1 DEF Carries
<1>7. event[e].type = arg[r].type
  BY <1>1 DEF TypeHeld
<1>8. ASSUME NEW t \in InfoTypes, t \notin arg[r].uses PROVE SameOf(t)
  <2>1. event[e].type # t
    BY <1>6, <1>7, <1>8
  <2> QED
    BY <1>2, <1>3, <2>1, TypesSame DEF SameOf
<1>9. InfoAt(r)'
  <2> SUFFICES ASSUME NEW t \in InfoTypes \cap arg[r].uses, t \notin torn
               PROVE  OfType(t)' = {}
    BY <1>1, <1>4, <1>5, <1>6 DEF InfoAt
  <2>1. OfType(t) \subseteq {e}
    BY <1>1 DEF InfoAt
  <2>2. \A f \in EventIds : f # e => ~(event[f].st = "live" /\ event[f].type = t)
    BY <2>1 DEF OfType, Live
  <2>3. \A f \in EventIds : ~(event'[f].st = "live" /\ event'[f].type = t)
    BY <1>2, <2>2
  <2> QED
    BY <2>3 DEF OfType, Live
<1> HIDE DEF e
<1> QED
  BY <1>1, <1>3, <1>4, <1>8, <1>9, InfoGoesOn

(* syncVehicleInfoFromEvent tells the vehicle what there is of the type. *)
LEMMA SyncedInfo == ASSUME Base, IInv, NEW r \in Requests, SyncInfo(r) PROVE IInv'
<1> DEFINE e == arg[r].event
           u == arg[r].type
           step == ThenDocument(arg[r])
<1>1. /\ TypeOK /\ arg[r] \in Args /\ pc[r] = "info" /\ pc[r] \in HasEvent /\ InfoAt(r)
      /\ Carries("info", arg[r])
  BY DEF Base, Shape, TypeOK, SyncInfo, HasEvent, IInv
<1>2. /\ event' = event /\ Goto(r, step, arg[r])
      /\ info' = [info EXCEPT ![u] = IF arg[r].op = "delete" THEN Null ELSE arg[r].mileage]
  BY DEF SyncInfo
<1>3. /\ arg[r].op \in {"create", "delete"} /\ u \in InfoTypes
      /\ arg[r].op = "create" => arg[r].mileage \in Nat
      /\ arg[r].op = "delete" => ~arg[r].soft /\ ~arg[r].failed
  BY <1>1 DEF Carries
<1>4. InfoTypes \cap arg[r].uses = {u}
  BY <1>1, <1>3 DEF Carries, Tail
<1>5. step \in Steps /\ step \in Tail /\ step # "insert" /\ step \notin HasEvent
  BY <1>1, <1>3, ThenType DEF Steps, ThenDocument, ThenVisits, Tail, HasEvent, InfoTypes
<1>6. /\ info'[u] = IF arg[r].op = "delete" THEN Null ELSE arg[r].mileage
      /\ \A t \in InfoTypes \ {u} : info'[t] = info[t]
  BY <1>1, <1>2, <1>3 DEF TypeOK
<1>7. \A t : OfType(t)' = OfType(t)
  BY <1>2 DEF OfType, Live
<1>8. \A t \in InfoTypes : t \in arg[r].uses \/ SameOf(t)
  BY <1>4, <1>6, <1>7 DEF SameOf
<1> HIDE DEF step
<1>9. pc'[r] = step /\ arg'[r].uses = arg[r].uses /\ torn' = torn
  BY <1>1, <1>2, <1>5, GotoType
<1>10. ASSUME u \notin torn
       PROVE  Cardinality(OfType(u)) =< 1 /\ (info'[u] # Null <=> OfType(u) # {})
  <2>1. /\ OfType(u) \subseteq {e}
        /\ arg[r].op = "create" => e \in OfType(u)
        /\ arg[r].op = "delete" => OfType(u) = {}
    BY <1>1, <1>3, <1>4, <1>10 DEF InfoAt
  <2>2. CASE arg[r].op = "create"
    <3>1. OfType(u) = {e} /\ info'[u] \in Nat
      BY <1>3, <1>6, <2>1, <2>2
    <3>2. Cardinality(OfType(u)) = 1
      BY <3>1, OneOf
    <3> QED
      BY <3>1, <3>2, ConstantsAssumption
  <2>3. CASE arg[r].op = "delete"
    <3>1. OfType(u) = {} /\ info'[u] = Null
      BY <1>6, <2>1, <2>3
    <3>2. Cardinality(OfType(u)) = 0
      BY <3>1, OneOf
    <3> QED
      BY <3>1, <3>2
  <2> QED
    BY <1>3, <2>2, <2>3
<1>11. InfoAt(r)'
  <2> SUFFICES ASSUME NEW t \in InfoTypes \cap arg[r].uses, t \notin torn
               PROVE  Cardinality(OfType(t)) =< 1 /\ (info'[t] # Null <=> OfType(t) # {})
    BY <1>5, <1>7, <1>9 DEF InfoAt, InfoOk
  <2> QED
    BY <1>4, <1>10
<1> QED
  BY <1>1, <1>2, <1>5, <1>8, <1>11, InfoGoesOn

(* A request that changes no type, or is past telling the vehicle *)
LEMMA InfoQuiet ==
  ASSUME Base, IInv, NEW r \in Requests, NEW step \in Steps, NEW a \in Args, Goto(r, step, a),
         a.uses = arg[r].uses, \A t \in InfoTypes : SameOf(t),
         arg[r].uses \cap InfoTypes = {} \/ (pc[r] \in Tail /\ step \in Tail)
  PROVE  IInv'
<1>1. TypeOK /\ InfoAt(r)
  BY DEF Base, Shape, IInv
<1>2. pc'[r] = step /\ arg'[r].uses = arg[r].uses /\ torn' = torn
  BY <1>1, GotoType
<1>3. step \in Tail => step \notin HasEvent /\ step # "insert"
  BY DEF Tail, HasEvent
<1>4. InfoAt(r)'
  BY <1>1, <1>2, <1>3 DEF InfoAt, InfoOk, SameOf
<1> QED
  BY <1>4, InfoGoesOn

LEMMA UpdateInfo == ASSUME Base, IInv, NEW r \in Requests, Update(r) PROVE IInv'
<1> DEFINE step == IF arg[r].relog THEN "relog" ELSE ThenDocument(arg[r])
<1>1. /\ TypeOK /\ arg[r] \in Args /\ Carries("update", arg[r]) /\ pc[r] = "update"
      /\ pc[r] \in HasEvent
  BY DEF Base, Shape, TypeOK, Update, HasEvent
<1>2. \A e \in EventIds : event'[e].st = event[e].st /\ event'[e].type = event[e].type
  BY PatchedRow
<1>3. info' = info /\ Goto(r, step, arg[r])
  BY DEF Update, derived
<1>4. step \in Steps
  BY <1>1, ThenType DEF Steps
<1>5. arg[r].uses \cap InfoTypes = {}
  BY <1>1, PlainThen
<1>6. \A t \in InfoTypes : SameOf(t)
  BY <1>2, <1>3 DEF SameOf, OfType, Live
<1> HIDE DEF step
<1> QED
  BY <1>1, <1>3, <1>4, <1>5, <1>6, InfoQuiet

LEMMA VisitsInfo ==
  ASSUME Base, IInv, NEW r \in Requests, CountVisits(r) \/ WriteVisits(r) PROVE IInv'
<1>1. arg[r] \in Args /\ {"count", "visit", "done"} \subseteq Steps \cap Tail
  BY DEF Base, Shape, TypeOK, Steps, Tail
<1>2. event' = event /\ info' = info /\ pc[r] \in Tail
  BY DEF CountVisits, WriteVisits, Continue, tables, derived, Tail
<1>3. \A t \in InfoTypes : SameOf(t)
  BY <1>2 DEF SameOf, OfType, Live
<1>4. CASE CountVisits(r)
  <2>1. PICK a \in Args : Goto(r, "visit", a) /\ a.uses = arg[r].uses
    BY <1>4, Counting
  <2> QED
    BY <1>1, <1>2, <1>3, <2>1, InfoQuiet
<1>5. CASE WriteVisits(r)
  <2>1. Goto(r, ThenVisits(arg[r]), arg[r]) /\ ThenVisits(arg[r]) \in {"count", "done"}
    BY <1>1, <1>5, ThenType DEF WriteVisits
  <2> QED
    BY <1>1, <1>2, <1>3, <2>1, InfoQuiet
<1> QED
  BY <1>4, <1>5

LEMMA ServiceInfo == ASSUME Base, IInv, NEW r \in Requests, ServiceCommit(r) PROVE IInv'
<1>1. /\ arg[r] \in Args /\ Carries("service.commit", arg[r]) /\ "done" \in Steps
      /\ Goto(r, "done", arg[r]) /\ info' = info
  BY DEF Base, Shape, TypeOK, ServiceCommit, Steps
<1>2. PICK e \in EventIds :
           /\ event[e].st = "free" /\ event'[e] = NewRow(arg[r])
           /\ \A f \in EventIds \ {e} : event'[f] = event[f]
  BY ServiceRow
<1>3. event'[e].type = "SERVICE" /\ arg[r].uses \cap InfoTypes = {}
  BY <1>1, <1>2 DEF NewRow, Carries, Tail
<1>4. ASSUME NEW t \in InfoTypes PROVE SameOf(t)
  <2>1. t # "SERVICE"
    BY DEF InfoTypes
  <2> QED
    BY <1>1, <1>2, <1>3, <2>1, TypesSame DEF SameOf
<1> QED
  BY <1>1, <1>3, <1>4, InfoQuiet

LEMMA BreakInfo == ASSUME Base, IInv, NEW r \in Requests, Break(r) PROVE IInv'
BY InfoEnd DEF Break, tables, derived

LEMMA EndsInfo ==
  ASSUME Base, IInv, NEW r \in Requests, PatchVehicle(r) \/ Reply(r) \/ Fail(r) PROVE IInv'
<1>1. Carries(pc[r], arg[r])
  BY DEF Base
<1>2. pc[r] \in {"patch", "service.max", "service.commit"} => arg[r].uses \cap InfoTypes = {}
  BY <1>1 DEF Carries, Tail
<1>3. CASE PatchVehicle(r)
  BY <1>2, <1>3, InfoEnd DEF PatchVehicle
<1>4. CASE Reply(r)
  <2> DEFINE left == IF crossed THEN torn ELSE torn \ Recomputed(r)
  <2>1. /\ End(r, left) /\ event' = event /\ info' = info /\ pc[r] \in Tail
    BY <1>4 DEF Reply, tables, derived, Tail
  <2>2. \A t \in InfoTypes : t \in torn => t \in left
    BY ConstantsAssumption DEF Recomputed, InfoTypes
  <2> HIDE DEF left
  <2> QED
    BY <2>1, <2>2, InfoEnd
<1>5. CASE Fail(r)
  <2>1. CASE pc[r] \in {"service.max", "service.commit"} /\ End(r, torn) /\ UNCHANGED tables
    BY <1>2, <2>1, InfoEnd DEF tables, derived
  <2> QED
    BY <1>5, <2>1, BreakInfo DEF Fail
<1> QED
  BY <1>3, <1>4, <1>5

LEMMA ArriveInfo == ASSUME Base, IInv, NEW r \in Requests, Arrive(r) PROVE IInv'
<1>1. /\ TypeOK
      /\ {"insert", "update", "unlog", "raw.delete", "service.max", "patch"} \subseteq Steps
      /\ {"insert", "update", "unlog", "raw.delete", "service.max", "patch"} \cap Tail = {}
      /\ {"insert", "service.max", "patch"} \cap HasEvent = {}
      /\ "insert" \notin {"update", "unlog", "raw.delete", "service.max", "patch"}
  BY DEF Base, Shape, Steps, LogSteps, HasEvent, Tail
<1>2. ASSUME NEW u \in Types, NEW m \in Mileages, NEW s \in Stations \cup {Null},
             OpenCreate(r, u, m, s)
      PROVE  IInv'
  <2>1. PICK a \in Args : /\ Opened(r, "insert", a)
                          /\ a.uses \cap InfoTypes = InfoTypes \cap {u}
    BY <1>2, Created
  <2>2. u \in InfoTypes => OfType(u) = {}
    BY <1>2 DEF OpenCreate
  <2>3. \A t \in InfoTypes \cap a.uses : OfType(t) = {}
    BY <2>1, <2>2
  <2> QED
    BY <1>1, <2>1, <2>3, InfoOpened
<1>3. ASSUME NEW e \in EventIds, NEW m \in Mileages \cup {Null}, NEW s \in Stations \cup {Null},
             OpenUpdate(r, e, m, s)
      PROVE  IInv'
  <2>1. PICK a \in Args : Opened(r, "update", a) /\ a.uses \cap InfoTypes = {}
    BY <1>1, <1>3, Updated
  <2>2. \A t \in InfoTypes : t \notin a.uses
    BY <2>1
  <2> QED
    BY <1>1, <2>1, <2>2, InfoOpened
<1>4. ASSUME NEW e \in EventIds, OpenDelete(r, e) PROVE IInv'
  <2>1. PICK a \in Args, step \in {"raw.delete", "unlog"} :
          /\ Opened(r, step, a) /\ Live(e) /\ a.op = "delete" /\ a.event = e /\ a.soft
          /\ a.uses \cap InfoTypes = InfoTypes \cap {event[e].type}
    BY <1>1, <1>4, Deleted
  <2>2. ASSUME NEW t \in InfoTypes \cap a.uses, InfoOk(t) PROVE OfType(t) \subseteq {e}
    <3>1. t = event[e].type
      BY <2>1
    <3>2. e \in OfType(t)
      BY <2>1, <3>1 DEF OfType
    <3> QED
      BY <2>2, <3>2, OneOf DEF InfoOk
  <2> QED
    BY <1>1, <2>1, <2>2, InfoOpened
<1>5. ASSUME NEW m \in Mileages, OpenService(r, m) \/ OpenPatch(r, m) PROVE IInv'
  <2>1. PICK a \in Args, step \in {"service.max", "patch"} :
           Opened(r, step, a) /\ a.uses = {"odometer"}
    BY <1>5, OtherOpened
  <2>2. \A t \in InfoTypes : t \notin a.uses
    BY <2>1 DEF InfoTypes
  <2> QED
    BY <1>1, <2>1, <2>2, InfoOpened
<1> QED
  BY <1>2, <1>3, <1>4, <1>5 DEF Arrive

LEMMA DeleteReminderInfo ==
  ASSUME Base, IInv, NEW e \in EventIds, DeleteReminder(e) PROVE IInv'
<1>1. /\ event' = event /\ info' = info /\ pc' = pc /\ arg' = arg /\ torn' = torn \cup {e}
  BY DEF DeleteReminder
<1>2. \A t \in InfoTypes : t \in torn' <=> t \in torn
  BY <1>1, ConstantsAssumption
<1>3. \A t : OfType(t)' = OfType(t)
  BY <1>1 DEF OfType, Live
<1>4. InfoInStep'
  BY <1>1, <1>2, <1>3 DEF IInv, InfoInStep, Settled
<1>5. ASSUME NEW q \in Requests PROVE InfoAt(q)'
  <2>1. InfoAt(q)
    BY DEF IInv
  <2> QED
    BY <1>1, <1>2, <1>3, <2>1 DEF InfoAt, InfoOk
<1> QED
  BY <1>4, <1>5 DEF IInv

LEMMA StepIInv == ASSUME Base, IInv, [Next]_vars PROVE IInv'
<1>1. ASSUME NEW r \in Requests, Step(r) \/ FailSoftDelete(r) \/ FailUnlog(r) PROVE IInv'
  BY <1>1, PlainStep, InfoPlain, BreakInfo, InsertInfo, SyncedInfo, VisitsInfo, UpdateInfo,
     SoftDeleteInfo, ServiceInfo, EndsInfo DEF Step
<1>2. CASE UNCHANGED vars
  <2>1. event' = event /\ info' = info /\ pc' = pc /\ arg' = arg /\ torn' = torn
    BY <1>2 DEF vars
  <2>2. \A t : OfType(t)' = OfType(t)
    BY <2>1 DEF OfType, Live
  <2> QED
    BY <2>1, <2>2 DEF IInv, InfoInStep, Settled, InfoAt, InfoOk
<1> QED
  BY <1>1, <1>2, ArriveInfo, EndsInfo, DeleteReminderInfo DEF Next

(* A station that nothing uses, and that no two requests have used         *)
(* together or failed over, counts the live events at it                   *)
(* (recalculateVisitStats); and of the types a vehicle has but once there  *)
(* is at most one live event, and the vehicle knows of it                  *)
(* (syncVehicleInfoFromEvent).                                             *)
THEOREM DerivedFollows == Spec => []DerivedInStep
<1>1. Init => Base /\ SInv /\ IInv
  BY InitBase, InitSInv, InitIInv
<1>2. Base /\ SInv /\ IInv /\ [Next]_vars => Base' /\ SInv' /\ IInv'
  BY StepBase, StepSInv, StepIInv
<1>3. SInv /\ IInv => DerivedInStep
  BY DEF SInv, IInv, DerivedInStep
<1> QED
  BY <1>1, <1>2, <1>3, PTL DEF Spec

=============================================================================
