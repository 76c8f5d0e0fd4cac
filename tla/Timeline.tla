------------------------------ MODULE Timeline ------------------------------
(***************************************************************************)
(* The timeline of one vehicle, as src/modules/timeline changes it: its    *)
(* events, and what is derived from them and stored beside them.  That is  *)
(* the mileage log, the odometer of the vehicle (currentMileage), what the *)
(* vehicle keeps of its purchase and sale, the reminder of a document, and *)
(* the visits of a service station.                                        *)
(*                                                                         *)
(* A request stands at its next await, as in Maintenance; except for the   *)
(* event that markAsDone adds, nothing here is in a transaction: every     *)
(* write is seen at once, and a request that ends early leaves what it has *)
(* written.  Tires and milestones, which createEvent calls too, write      *)
(* tables of their own; a document is one that expires, and of a type that *)
(* gets a reminder.                                                        *)
(***************************************************************************)
EXTENDS Integers, FiniteSets, FiniteSetsExt

CONSTANTS
  EventIds,  \* ids of timeline_events rows: bounds how many are created
  Stations,  \* ids of service_stations rows
  Requests,  \* HTTP requests that can be in flight together
  Types,     \* the TimelineTypes in use
  Mileages,  \* the mileages a body can name
  First,     \* the currentMileage that the vehicle was created with
  Null       \* no value

(* A vehicle is sold, and purchased, once: these events are unique. *)
InfoTypes == {"PURCHASE", "SALE"}
TimelineType == InfoTypes \cup {"SERVICE", "DOCUMENT"}

(* What requests share: events, visits, the odometer, info of a type *)
Resources == EventIds \cup Stations \cup InfoTypes \cup {"odometer"}

(* Rows of different tables have different ids. *)
ASSUME ConstantsAssumption ==
  /\ Null \notin Resources \cup Nat
  /\ EventIds \cap Stations = {}
  /\ (EventIds \cup Stations) \cap (InfoTypes \cup {"odometer"}) = {}
  /\ Types \subseteq TimelineType
  /\ Mileages \subseteq Nat /\ First \in Nat
  /\ IsFiniteSet(EventIds)

VARIABLES
  event,     \* table timeline_events
  log,       \* table mileage_logs, by event: its mileage, Null if it has none
  reminder,  \* table reminders, by the event of the document: how many
  visits,    \* service_stations.visitCount
  odo,       \* vehicles.currentMileage
  info,      \* vehicles.purchaseInfo, saleInfo: the mileage in it
  pc,        \* where each request stands
  arg,       \* what each request carries
  crossed,   \* history: since nothing was in flight, two requests met
  torn       \* history: what requests that met, or failed, have used

derived == <<log, reminder, visits, odo, info>>
tables == <<event, derived>>
vars == <<event, log, reminder, visits, odo, info, pc, arg, crossed, torn>>

-----------------------------------------------------------------------------
(* Tables.  An event is deleted softly: "gone" is a row with a deletedAt.  *)
(* A SALE also archives the vehicle: info["SALE"] stands for both.         *)

FreeEvent == [st |-> "free", type |-> "SERVICE", mileage |-> 0, at |-> Null]

EventRow == [st : {"live", "gone"}, type : TimelineType, mileage : Nat,
             at : Stations \cup {Null}]

Ops == {"none", "create", "update", "delete", "service", "patch"}

LogSteps == {"unlog", "max", "odo", "join"}  \* the Promise.all of deleteEvent

Steps == LogSteps \cup
  {"idle", "insert", "log", "info", "raw", "find", "remind", "renew", "count", "visit",
   "update", "relog", "raw.delete", "forget", "service.max", "service.commit",
   "patch", "done"}

NoArgs == [op |-> "none", event |-> Null, type |-> "SERVICE", mileage |-> Null,
           at |-> Null, relog |-> FALSE, soft |-> FALSE, failed |-> FALSE,
           max |-> 0, station |-> Null, count |-> 0, todo |-> {}, uses |-> {}]
Args == [op : Ops, event : EventIds \cup {Null}, type : TimelineType,
         mileage : Nat \cup {Null}, at : Stations \cup {Null}, relog : BOOLEAN,
         soft : BOOLEAN, failed : BOOLEAN, max : Nat, station : Stations \cup {Null},
         count : Nat, todo : SUBSET Stations, uses : SUBSET Resources]

TypeOK ==
  /\ event \in [EventIds -> EventRow \cup {FreeEvent}]
  /\ log \in [EventIds -> Nat \cup {Null}]
  /\ reminder \in [EventIds -> Nat]
  /\ visits \in [Stations -> Nat]
  /\ odo \in Nat
  /\ info \in [InfoTypes -> Nat \cup {Null}]
  /\ pc \in [Requests -> Steps]
  /\ arg \in [Requests -> Args]
  /\ crossed \in BOOLEAN /\ torn \subseteq Resources

-----------------------------------------------------------------------------
Live(e) == event[e].st = "live"

(* countByType *)
OfType(type) == {e \in EventIds : Live(e) /\ event[e].type = type}

EventsAt(s) == {e \in EventIds : Live(e) /\ event[e].at = s}

(* The mileages of mileage_logs, those of deleted events included *)
Logs == {log[e] : e \in EventIds} \ {Null}

(* findFirst in descending order *)
Largest(m, S) == m \in S /\ \A n \in S : n =< m

-----------------------------------------------------------------------------
(* Control of a request *)

(* The rest of a handler needs no more than the stations. *)
Kept(step, a) ==
  IF step \in {"count", "done"} THEN [NoArgs EXCEPT !.todo = a.todo, !.uses = a.uses] ELSE a

Goto(r, step, a) ==
  /\ pc' = [pc EXCEPT ![r] = step]
  /\ arg' = [arg EXCEPT ![r] = Kept(step, a)]
  /\ UNCHANGED <<crossed, torn>>

Continue(r, step, a) == Goto(r, step, a) /\ UNCHANGED tables

(* It is over; `left` is what is torn from now on. *)
End(r, left) ==
  /\ pc' = [pc EXCEPT ![r] = "idle"]
  /\ arg' = [arg EXCEPT ![r] = NoArgs]
  /\ crossed' = (crossed /\ \E q \in Requests \ {r} : pc[q] # "idle")
  /\ torn' = left

(* It ends early.  What it has written stays. *)
Break(r) == End(r, torn \cup arg[r].uses) /\ UNCHANGED tables

(* The requests in flight that use what a new one uses *)
Rivals(a) == {q \in Requests : pc[q] # "idle" /\ arg[q].uses \cap a.uses # {}}

(* A request arrives, and its first read does not refuse it. *)
Opened(r, step, a) ==
  /\ pc[r] = "idle"
  /\ pc' = [pc EXCEPT ![r] = step]
  /\ arg' = [arg EXCEPT ![r] = a]
  /\ \/ Rivals(a) = {} /\ UNCHANGED <<crossed, torn>>
     \/ /\ Rivals(a) # {}
        /\ crossed' = TRUE
        /\ torn' = torn \cup a.uses \cup UNION {arg[q].uses : q \in Rivals(a)}
  /\ UNCHANGED tables

Init ==
  /\ event = [e \in EventIds |-> FreeEvent]
  /\ log = [e \in EventIds |-> Null]
  /\ reminder = [e \in EventIds |-> 0]
  /\ visits = [s \in Stations |-> 0]
  /\ odo = First
  /\ info = [t \in InfoTypes |-> Null]
  /\ pc = [r \in Requests |-> "idle"]
  /\ arg = [r \in Requests |-> NoArgs]
  /\ crossed = FALSE /\ torn = {}

(* What follows in the handlers, in the order of the code *)
ThenVisits(a) == IF a.todo = {} THEN "done" ELSE "count"

ThenDocument(a) ==
  IF a.op # "delete" /\ a.type = "DOCUMENT" THEN "raw" ELSE ThenVisits(a)

ThenInfo(a) ==
  IF a.op # "update" /\ a.type \in InfoTypes THEN "info" ELSE ThenDocument(a)

-----------------------------------------------------------------------------
(* POST .../timeline: createEvent *)

OpenCreate(r, type, mileage, s) ==
  /\ type \in InfoTypes => OfType(type) = {}
  /\ LET at == {s} \ {Null} IN
       Opened(r, "insert", [NoArgs EXCEPT
         !.op = "create", !.type = type, !.at = s, !.mileage = mileage, !.todo = at,
         !.uses = at \cup {"odometer"} \cup (InfoTypes \cap {type})])

NewRow(a) == [st |-> "live", type |-> a.type, mileage |-> a.mileage, at |-> a.at]

Insert(r) ==
  /\ pc[r] = "insert"
  /\ \E e \in EventIds :
       /\ event[e].st = "free"
       /\ event' = [event EXCEPT ![e] = NewRow(arg[r])]
       /\ Goto(r, "log", [arg[r] EXCEPT !.event = e, !.uses = @ \cup {e}])
  /\ UNCHANGED derived

(* createMileageLog *)
InsertLog(r) ==
  /\ pc[r] = "log"
  /\ log' = [log EXCEPT ![arg[r].event] = arg[r].mileage]
  /\ Goto(r, "max", arg[r])
  /\ UNCHANGED <<event, reminder, visits, odo, info>>

-----------------------------------------------------------------------------
(* The second and third await of createMileageLog, updateMileageLog and    *)
(* deleteMileageLog: the largest log, and the vehicle.                     *)

IfNoLog(a) == IF a.op = "delete" THEN 0 ELSE a.mileage

ReadMaxOwn(r) ==  \* mutant: the newest reading, not the largest
  /\ pc[r] = "max"
  /\ Continue(r, "odo", [arg[r] EXCEPT !.max = IfNoLog(arg[r])])

ReadMaxUnchecked(r) ==  \* mutant: the log is taken to be there
  /\ pc[r] = "max"
  /\ Continue(r, "odo", [arg[r] EXCEPT !.max = IF Logs = {} THEN Null ELSE Max(Logs)])

ReadMax(r) ==
  /\ pc[r] = "max"
  /\ \/ \E m \in Logs : /\ Largest(m, Logs)
                       /\ Continue(r, "odo", [arg[r] EXCEPT !.max = m])
     \/ Logs = {} /\ arg[r].op = "update" /\ Continue(r, ThenDocument(arg[r]), arg[r])
     \/ /\ Logs = {} /\ arg[r].op # "update"
        /\ Continue(r, "odo", [arg[r] EXCEPT !.max = IfNoLog(arg[r])])

WriteOdo(r) ==
  /\ pc[r] = "odo"
  /\ odo' = arg[r].max
  /\ Goto(r, IF arg[r].op = "delete" THEN "join" ELSE ThenInfo(arg[r]), arg[r])
  /\ UNCHANGED <<event, log, reminder, visits, info>>

(* syncVehicleInfoFromEvent *)
SyncInfo(r) ==
  /\ pc[r] = "info"
  /\ info' = [info EXCEPT ![arg[r].type] = IF arg[r].op = "delete" THEN Null
                                           ELSE arg[r].mileage]
  /\ Goto(r, ThenDocument(arg[r]), arg[r])
  /\ UNCHANGED <<event, log, reminder, visits, odo>>

-----------------------------------------------------------------------------
(* The reminder of a document: findRawById and syncFromDocument *)

ReadDocument(r) ==
  /\ pc[r] = "raw"
  /\ Continue(r, IF Live(arg[r].event) THEN "find" ELSE ThenVisits(arg[r]), arg[r])

FindReminder(r) ==
  /\ pc[r] = "find"
  /\ Continue(r, IF reminder[arg[r].event] = 0 THEN "remind" ELSE "renew", arg[r])

CreateReminder(r) ==
  /\ pc[r] = "remind"
  /\ reminder' = [reminder EXCEPT ![arg[r].event] = @ + 1]
  /\ Goto(r, ThenVisits(arg[r]), arg[r])
  /\ UNCHANGED <<event, log, visits, odo, info>>

(* The update of a row that is gone throws. *)
UpdateReminder(r) ==
  /\ pc[r] = "renew"
  /\ \/ reminder[arg[r].event] > 0 /\ Continue(r, ThenVisits(arg[r]), arg[r])
     \/ reminder[arg[r].event] = 0 /\ Break(r)

(* recalculateVisitStats, for one station after the other *)

CountVisits(r) ==
  /\ pc[r] = "count"
  /\ \E s \in arg[r].todo :
       Continue(r, "visit", [arg[r] EXCEPT !.station = s, !.todo = @ \ {s},
                                           !.count = Cardinality(EventsAt(s))])

WriteVisits(r) ==
  /\ pc[r] = "visit"
  /\ visits' = [visits EXCEPT ![arg[r].station] = arg[r].count]
  /\ Goto(r, ThenVisits(arg[r]), arg[r])
  /\ UNCHANGED <<event, log, reminder, odo, info>>

-----------------------------------------------------------------------------
(* PATCH .../timeline/:eventId: updateEvent *)

Updating(e, m, s, at) ==
  LET relog == m # Null /\ m # event[e].mileage IN
    [NoArgs EXCEPT !.op = "update", !.event = e, !.type = event[e].type, !.mileage = m,
                   !.at = s, !.relog = relog, !.todo = at,
                   !.uses = at \cup {e} \cup (IF relog THEN {"odometer"} ELSE {})]

OpenUpdateNew(r, e, m, s) ==  \* mutant: only the new station is counted again
  /\ Live(e)
  /\ Opened(r, "update", Updating(e, m, s, {s} \ {Null}))

OpenUpdate(r, e, m, s) ==
  /\ Live(e)
  /\ Opened(r, "update", Updating(e, m, s, {event[e].at, s} \ {Null}))

Patched(row, a) ==
  [row EXCEPT !.mileage = IF a.mileage = Null THEN @ ELSE a.mileage,
              !.at = IF a.at = Null THEN @ ELSE a.at]

(* The row is found by its id alone, deleted or not. *)
Update(r) ==
  /\ pc[r] = "update"
  /\ event' = [event EXCEPT ![arg[r].event] = Patched(@, arg[r])]
  /\ Goto(r, IF arg[r].relog THEN "relog" ELSE ThenDocument(arg[r]), arg[r])
  /\ UNCHANGED derived

(* updateMileageLog *)
Relog(r) ==
  /\ pc[r] = "relog"
  /\ log' = [log EXCEPT ![arg[r].event] = IF @ = Null THEN Null ELSE arg[r].mileage]
  /\ Goto(r, "max", arg[r])
  /\ UNCHANGED <<event, reminder, visits, odo, info>>

-----------------------------------------------------------------------------
(* DELETE .../timeline/:eventId: deleteEvent.  Who may is decided at once. *)

OpenDelete(r, e) ==
  /\ Live(e)
  /\ LET at == {event[e].at} \ {Null}
         type == event[e].type
     IN Opened(r, IF type = "DOCUMENT" THEN "raw.delete" ELSE "unlog",
          [NoArgs EXCEPT !.op = "delete", !.event = e, !.type = type, !.todo = at,
                         !.soft = TRUE,
                         !.uses = at \cup {e, "odometer"} \cup (InfoTypes \cap {type})])

ReadDeletedDocument(r) ==
  /\ pc[r] = "raw.delete"
  /\ Continue(r, IF Live(arg[r].event) THEN "forget" ELSE "unlog", arg[r])

(* deleteByDocumentId *)
Forget(r) ==
  /\ pc[r] = "forget"
  /\ reminder' = [reminder EXCEPT ![arg[r].event] = 0]
  /\ Goto(r, "unlog", arg[r])
  /\ UNCHANGED <<event, log, visits, odo, info>>

(* Promise.all: softDelete comes anywhere among the steps of deleteMileageLog. *)
SoftDelete(r) ==
  /\ pc[r] \in LogSteps /\ arg[r].soft
  /\ event' = [event EXCEPT ![arg[r].event].st = "gone"]
  /\ Goto(r, pc[r], [arg[r] EXCEPT !.soft = FALSE])
  /\ UNCHANGED derived

UnlogNot(r) ==  \* mutant: the log of a deleted event is kept
  pc[r] = "unlog" /\ Continue(r, "max", arg[r])

Unlog(r) ==
  /\ pc[r] = "unlog"
  /\ log' = [log EXCEPT ![arg[r].event] = Null]
  /\ Goto(r, "max", arg[r])
  /\ UNCHANGED <<event, reminder, visits, odo, info>>

(* When one of the two fails, the caller gets an error, and the other goes on. *)
FailSoftDelete(r) ==
  /\ pc[r] \in LogSteps /\ arg[r].soft
  /\ Continue(r, pc[r], [arg[r] EXCEPT !.soft = FALSE, !.failed = TRUE])

FailUnlog(r) ==
  /\ pc[r] \in LogSteps \ {"join"} /\ arg[r].op = "delete"
  /\ Continue(r, "join", [arg[r] EXCEPT !.failed = TRUE])

Join(r) ==
  /\ pc[r] = "join" /\ ~arg[r].soft
  /\ \/ arg[r].failed /\ Break(r)
     \/ ~arg[r].failed /\ Continue(r, ThenInfo(arg[r]), arg[r])

-----------------------------------------------------------------------------
(* createMaintenanceServiceEvent, in the transaction of markAsDone: its    *)
(* writes are seen when that commits.  The row of the vehicle is locked    *)
(* from its update on, so the odometer changes then as well.               *)

OpenService(r, mileage) ==
  Opened(r, "service.max",
         [NoArgs EXCEPT !.op = "service", !.mileage = mileage, !.uses = {"odometer"}])

ServiceMax(r) ==
  /\ pc[r] = "service.max"
  /\ \E m \in Logs \cup {arg[r].mileage} :
       /\ Largest(m, Logs \cup {arg[r].mileage})
       /\ Continue(r, "service.commit", [arg[r] EXCEPT !.max = m])

ServiceCommit(r) ==
  /\ pc[r] = "service.commit"
  /\ \E e \in EventIds :
       /\ event[e].st = "free"
       /\ event' = [event EXCEPT ![e] = NewRow(arg[r])]
       /\ log' = [log EXCEPT ![e] = arg[r].mileage]
  /\ odo' = arg[r].max
  /\ Goto(r, "done", arg[r])
  /\ UNCHANGED <<reminder, visits, info>>

(* PATCH .../vehicles/:vehicleId with a currentMileage *)
OpenPatch(r, mileage) ==
  Opened(r, "patch",
         [NoArgs EXCEPT !.op = "patch", !.mileage = mileage, !.uses = {"odometer"}])

PatchVehicle(r) ==
  /\ pc[r] = "patch"
  /\ odo' = arg[r].mileage
  /\ End(r, torn \cup {"odometer"})
  /\ UNCHANGED <<event, log, reminder, visits, info>>

-----------------------------------------------------------------------------
(* DELETE .../reminders/:id, of a document: one statement *)
DeleteReminder(e) ==
  /\ reminder[e] > 0
  /\ reminder' = [reminder EXCEPT ![e] = @ - 1]
  /\ torn' = torn \cup {e}
  /\ UNCHANGED <<event, log, visits, odo, info, pc, arg, crossed>>

Recomputed(r) == arg[r].uses \cap (Stations \cup {"odometer"})

(* The answer.  If no two have met, it has put right what it recomputes. *)
Reply(r) ==
  /\ pc[r] = "done"
  /\ End(r, IF crossed THEN torn ELSE torn \ Recomputed(r))
  /\ UNCHANGED tables

(* An await throws, or the process dies.  A transaction leaves nothing behind. *)
Fail(r) ==
  /\ pc[r] \notin {"idle", "done"}
  /\ \/ pc[r] \in {"service.max", "service.commit"} /\ End(r, torn) /\ UNCHANGED tables
     \/ pc[r] \notin {"service.max", "service.commit"} /\ Break(r)

Arrive(r) ==
  \/ \E t \in Types, m \in Mileages, s \in Stations \cup {Null} : OpenCreate(r, t, m, s)
  \/ \E e \in EventIds, m \in Mileages \cup {Null}, s \in Stations \cup {Null} :
       OpenUpdate(r, e, m, s)
  \/ \E e \in EventIds : OpenDelete(r, e)
  \/ \E m \in Mileages : OpenService(r, m) \/ OpenPatch(r, m)

Step(r) ==
  \/ Insert(r) \/ InsertLog(r) \/ ReadMax(r) \/ WriteOdo(r) \/ SyncInfo(r)
  \/ ReadDocument(r) \/ FindReminder(r) \/ CreateReminder(r) \/ UpdateReminder(r)
  \/ CountVisits(r) \/ WriteVisits(r) \/ Update(r) \/ Relog(r)
  \/ ReadDeletedDocument(r) \/ Forget(r) \/ SoftDelete(r) \/ Unlog(r) \/ Join(r)
  \/ ServiceMax(r) \/ ServiceCommit(r) \/ PatchVehicle(r) \/ Reply(r)

Next ==
  \/ \E r \in Requests :
       Arrive(r) \/ Step(r) \/ FailSoftDelete(r) \/ FailUnlog(r) \/ Fail(r)
  \/ \E e \in EventIds : DeleteReminder(e)

Spec == Init /\ [][Next]_vars

-----------------------------------------------------------------------------
(* Properties *)

(* Nothing in flight uses x, and since it was last put right no two        *)
(* requests used it together, and none that used it failed.                *)
Settled(x) == x \notin torn /\ \A r \in Requests : x \notin arg[r].uses

(* An event and what is stored beside it agree, whatever happens to other  *)
(* events meanwhile: a live event has its own mileage in the log, and one  *)
(* reminder if it is a document; a deleted one has left nothing behind.    *)
EventInStep ==
  \A e \in EventIds : Settled(e) =>
    IF Live(e)
    THEN log[e] = event[e].mileage /\ reminder[e] = (IF event[e].type = "DOCUMENT" THEN 1 ELSE 0)
    ELSE log[e] = Null /\ reminder[e] = 0

(* The odometer of the vehicle is the largest mileage in its log.          *)
OdometerInStep ==
  Settled("odometer") /\ Logs # {} => Largest(odo, Logs)

(* A station's visitCount counts the live events at it.                    *)
VisitsInStep ==
  \A s \in Stations : Settled(s) => visits[s] = Cardinality(EventsAt(s))

(* At most one live event of a unique type, and the vehicle keeps what it  *)
(* knows of the purchase or the sale just as long as there is one.         *)
InfoInStep ==
  \A t \in InfoTypes : Settled(t) =>
    /\ Cardinality(OfType(t)) =< 1
    /\ info[t] # Null <=> OfType(t) # {}

(* What stations and vehicle keep of the events is what the events say,    *)
(* where no two requests met and none failed.                              *)
DerivedInStep == VisitsInStep /\ InfoInStep

=============================================================================
