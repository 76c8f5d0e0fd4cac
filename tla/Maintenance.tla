---------------------------- MODULE Maintenance ----------------------------
(***************************************************************************)
(* The maintenance intervals of a vehicle and its reminders, as the        *)
(* handlers of src/modules/maintenance and src/modules/reminders change    *)
(* them.  Every change of an interval mirrors it to a reminder in the same *)
(* transaction (syncFromMaintenanceInterval), while requests of its own    *)
(* change, dismiss or delete that reminder.  A request is a program        *)
(* counter that stands at its next await; PostgreSQL runs at READ          *)
(* COMMITTED and holds the lock of a row a transaction wrote until it      *)
(* ends.  The last statement of a transaction and its commit are one step: *)
(* nothing but the wait of other writers lies between them.                *)
(*                                                                         *)
(* Mileage stands for the pair of mileage and date, which the code treats  *)
(* alike.  Requests that the vehicle or the owner check refuses end at     *)
(* their first read, which Fail allows at every await.                     *)
(***************************************************************************)
EXTENDS Integers, FiniteSets

CONSTANTS
  IntervalIds,  \* ids of maintenance_intervals rows
  ReminderIds,  \* ids of reminders rows
  Requests,     \* HTTP requests that can be in flight together
  Kms,          \* values of intervalKm: a bound
  Mileages,     \* values of lastServiceMileage: a bound
  Null          \* no value

ASSUME ConstantsAssumption ==
  /\ Null \notin IntervalIds \cup ReminderIds \cup Int
  /\ Kms \subseteq Nat \ {0}
  /\ Mileages \subseteq Nat

VARIABLES
  interval,  \* table maintenance_intervals
  reminder,  \* table reminders
  pc,        \* where each request stands
  arg        \* what each request carries

tables == <<interval, reminder>>
vars == <<interval, reminder, pc, arg>>

-----------------------------------------------------------------------------
(* Tables.  st is "free" before the row exists, "live", and then "gone".   *)

MaintenanceStatus == {"ACTIVE", "DISABLED"}
ReminderStatus == {"ACTIVE", "COMPLETED", "DISMISSED"}

FreeInterval == [st |-> "free", status |-> "ACTIVE",
                 km |-> Null, last |-> Null, next |-> Null]
FreeReminder == [st |-> "free", status |-> "ACTIVE", of |-> Null, due |-> Null]
GoneInterval == [FreeInterval EXCEPT !.st = "gone"]
GoneReminder == [FreeReminder EXCEPT !.st = "gone"]

IntervalRow == [st : {"live"}, status : MaintenanceStatus, km : Kms \cup {Null},
                last : Mileages \cup {Null}, next : Nat \cup {Null}]
ReminderRow == [st : {"live"}, status : ReminderStatus,
                of : IntervalIds \cup {Null}, due : Nat \cup {Null}]

(* PATCH routes of an interval; each sets the fields that Patched says. *)
Changes == {"update", "disable", "enable", "markAsDone"}
ReminderChanges == {"setDue", "complete", "dismiss", "drop"}

InSyncTx == {"sync.find", "sync.write"}
Steps == InSyncTx \cup {"idle", "change", "delete.reminders", "delete.interval",
                        "reminder.write"}

NoArgs == [op |-> Null, int |-> Null, rem |-> Null,
           km |-> Null, last |-> Null, next |-> Null, doomed |-> {}]
Args == [op : Changes \cup ReminderChanges \cup {Null},
         int : IntervalIds \cup {Null}, rem : ReminderIds \cup {Null},
         km : Kms \cup {Null}, last : Mileages \cup {Null},
         next : Nat \cup {Null}, doomed : SUBSET ReminderIds]

TypeOK ==
  /\ interval \in [IntervalIds -> IntervalRow \cup {FreeInterval, GoneInterval}]
  /\ reminder \in [ReminderIds -> ReminderRow \cup {FreeReminder, GoneReminder}]
  /\ pc \in [Requests -> Steps]
  /\ arg \in [Requests -> Args]

-----------------------------------------------------------------------------
LiveInterval(i) == interval[i].st = "live"
LiveReminder(m) == reminder[m].st = "live"

RemindersOf(i) == {m \in ReminderIds : LiveReminder(m) /\ reminder[m].of = i}

(* Row locks of the other open transactions *)
IntervalLocked(i, r) ==
  \E q \in Requests \ {r} : pc[q] \in InSyncTx /\ arg[q].int = i

ReminderLocked(m, r) == \E q \in Requests \ {r} : m \in arg[q].doomed

calculateNext(km, last) ==
  IF km # Null /\ last # Null THEN last + km ELSE Null

(* `given ?? stored` *)
OrElse(given, stored) == IF given # Null THEN given ELSE stored

(* The row that the update statement of a change returns. *)
Patched(row, a) ==
  CASE a.op = "update" ->
         [row EXCEPT !.km = a.km, !.last = a.last, !.next = a.next]
    [] a.op = "markAsDone" ->
         [row EXCEPT !.last = a.last, !.next = a.next, !.status = "ACTIVE"]
    [] a.op = "disable" -> [row EXCEPT !.status = "DISABLED"]
    [] OTHER -> [row EXCEPT !.status = "ACTIVE"]

-----------------------------------------------------------------------------
(* Control of a request *)

Goto(r, step, a) ==
  /\ pc' = [pc EXCEPT ![r] = step]
  /\ arg' = [arg EXCEPT ![r] = a]

Finish(r) == Goto(r, "idle", NoArgs)

(* The answer is sent, or an exception is: an open transaction rolls back. *)
Answer(r) == Finish(r) /\ UNCHANGED tables

Continue(r, step, a) == Goto(r, step, a) /\ UNCHANGED tables

(* getById and the checks on what it returns: an error ends the request. *)
Opened(r, found, step, a) ==
  /\ pc[r] = "idle"
  /\ IF found THEN Continue(r, step, a) ELSE UNCHANGED vars

Init ==
  /\ interval = [i \in IntervalIds |-> FreeInterval]
  /\ reminder = [m \in ReminderIds |-> FreeReminder]
  /\ pc = [r \in Requests |-> "idle"]
  /\ arg = [r \in Requests |-> NoArgs]

-----------------------------------------------------------------------------
(* POST .../maintenance: the interval and its reminder, in one transaction *)
(* that waits for nobody.                                                  *)
Create(i, m, km, last) ==
  /\ interval[i].st = "free"
  /\ reminder[m].st = "free"
  /\ interval' = [interval EXCEPT ![i] =
                   [st |-> "live", status |-> "ACTIVE", km |-> km, last |-> last,
                    next |-> calculateNext(km, last)]]
  /\ reminder' = [reminder EXCEPT ![m] =
                   [st |-> "live", status |-> "ACTIVE", of |-> i,
                    due |-> calculateNext(km, last)]]
  /\ UNCHANGED <<pc, arg>>

(* The first read of the PATCH routes, and what is computed from it before *)
(* the transaction.  km and last are the fields the body gives.            *)
OpenUpdate(r, i, km, last) ==
  LET newKm == OrElse(km, interval[i].km)
      newLast == OrElse(last, interval[i].last)
  IN
  Opened(r, LiveInterval(i), "change",
    [NoArgs EXCEPT !.op = "update", !.int = i, !.km = newKm, !.last = newLast,
                   !.next = calculateNext(newKm, newLast)])

OpenMarkAsDone(r, i, mileage) ==
  Opened(r, LiveInterval(i), "change",
    [NoArgs EXCEPT !.op = "markAsDone", !.int = i, !.last = mileage,
                   !.next = calculateNext(interval[i].km, mileage)])

OpenSwitch(r, i, op) ==
  Opened(r, LiveInterval(i) /\ (op = "disable" => interval[i].status # "DISABLED"),
         "change", [NoArgs EXCEPT !.op = op, !.int = i])

(* First statement of the transaction: the update by id. *)
Change(r) ==
  /\ pc[r] = "change"
  /\ ~IntervalLocked(arg[r].int, r)
  /\ IF LiveInterval(arg[r].int)
     THEN Continue(r, "sync.find", arg[r])
     ELSE Answer(r)

SyncFindActive(r) ==  \* mutant: looks for an ACTIVE reminder only
  LET mine == {m \in RemindersOf(arg[r].int) : reminder[m].status = "ACTIVE"} IN
  /\ pc[r] = "sync.find"
  /\ \E m \in IF mine = {} THEN {Null} ELSE mine :
       Continue(r, "sync.write", [arg[r] EXCEPT !.rem = m])

(* syncFromMaintenanceInterval: findFirst of the reminder, ... *)
SyncFind(r) ==
  LET mine == RemindersOf(arg[r].int) IN
  /\ pc[r] = "sync.find"
  /\ \E m \in IF mine = {} THEN {Null} ELSE mine :
       Continue(r, "sync.write", [arg[r] EXCEPT !.rem = m])

SyncWrites(r, row, newReminder) ==
  /\ interval' = [interval EXCEPT ![arg[r].int] = row]
  /\ reminder' = newReminder
  /\ Finish(r)

SyncUpdateAsActive(r) ==  \* mutant: a disabled interval is not told apart
  LET m == arg[r].rem
      row == Patched(interval[arg[r].int], arg[r])
  IN
  /\ pc[r] = "sync.write"
  /\ m # Null
  /\ ~ReminderLocked(m, r)
  /\ IF LiveReminder(m)
     THEN SyncWrites(r, row, [reminder EXCEPT ![m].status = "ACTIVE",
                                              ![m].due = row.next])
     ELSE Answer(r)

SyncUpdateStatusOnly(r) ==  \* mutant: the due mileage is left as it was
  LET m == arg[r].rem
      row == Patched(interval[arg[r].int], arg[r])
  IN
  /\ pc[r] = "sync.write"
  /\ m # Null
  /\ ~ReminderLocked(m, r)
  /\ IF LiveReminder(m)
     THEN SyncWrites(r, row,
            [reminder EXCEPT ![m].status = IF row.status = "DISABLED"
                                           THEN "DISMISSED" ELSE "ACTIVE"])
     ELSE Answer(r)

(* ... the write of the one that was found, and commit, ... *)
SyncUpdate(r) ==
  LET m == arg[r].rem
      row == Patched(interval[arg[r].int], arg[r])
  IN
  /\ pc[r] = "sync.write"
  /\ m # Null
  /\ ~ReminderLocked(m, r)
  /\ IF LiveReminder(m)
     THEN SyncWrites(r, row,
            IF row.status = "DISABLED"
            THEN [reminder EXCEPT ![m].status = "DISMISSED"]
            ELSE [reminder EXCEPT ![m].status = "ACTIVE", ![m].due = row.next])
     ELSE Answer(r)

(* ... or the insert of a new one for an interval that is ACTIVE, which    *)
(* fails when ReminderIds is used up (a bound).                            *)
SyncCreate(r) ==
  LET row == Patched(interval[arg[r].int], arg[r]) IN
  /\ pc[r] = "sync.write"
  /\ arg[r].rem = Null
  /\ \/ row.status = "DISABLED" /\ SyncWrites(r, row, reminder)
     \/ /\ row.status = "ACTIVE"
        /\ \E m \in ReminderIds :
             /\ reminder[m].st = "free"
             /\ SyncWrites(r, row,
                  [reminder EXCEPT ![m] = [st |-> "live", status |-> "ACTIVE",
                                           of |-> arg[r].int, due |-> row.next]])
     \/ /\ row.status = "ACTIVE"
        /\ \A m \in ReminderIds : reminder[m].st # "free"
        /\ Answer(r)

-----------------------------------------------------------------------------
(* DELETE .../maintenance/:id: the read, then in one transaction the       *)
(* deleteMany of its reminders and the delete by id.                       *)

OpenDelete(r, i) ==
  Opened(r, LiveInterval(i), "delete.reminders", [NoArgs EXCEPT !.int = i])

DeleteReminders(r) ==
  LET doomed == RemindersOf(arg[r].int) IN
  /\ pc[r] = "delete.reminders"
  /\ \A m \in doomed : ~ReminderLocked(m, r)
  /\ Continue(r, "delete.interval", [arg[r] EXCEPT !.doomed = doomed])

DeleteInterval(r) ==
  LET i == arg[r].int IN
  /\ pc[r] = "delete.interval"
  /\ ~IntervalLocked(i, r)
  /\ IF LiveInterval(i)
     THEN /\ interval' = [interval EXCEPT ![i] = GoneInterval]
          /\ reminder' = [m \in ReminderIds |-> IF m \in arg[r].doomed
                                                THEN GoneReminder
                                                ELSE reminder[m]]
          /\ Finish(r)
     ELSE Answer(r)

-----------------------------------------------------------------------------
(* The routes of .../reminders, which serve every reminder of the vehicle *)

CreateReminder(m, due) ==
  /\ reminder[m].st = "free"
  /\ reminder' = [reminder EXCEPT ![m] = [st |-> "live", status |-> "ACTIVE",
                                          of |-> Null, due |-> due]]
  /\ UNCHANGED <<interval, pc, arg>>

(* The read; due is the mileage that an update gives. *)
OpenReminder(r, m, op, due) ==
  LET allowed == /\ op = "complete" => reminder[m].status # "COMPLETED"
                 /\ op = "dismiss" => reminder[m].status # "DISMISSED"
  IN
  Opened(r, LiveReminder(m) /\ allowed, "reminder.write",
         [NoArgs EXCEPT !.op = op, !.rem = m, !.last = due])

ReminderPatched(row, a) ==
  CASE a.op = "setDue" -> [row EXCEPT !.due = OrElse(a.last, @)]
    [] a.op = "complete" -> [row EXCEPT !.status = "COMPLETED"]
    [] a.op = "dismiss" -> [row EXCEPT !.status = "DISMISSED"]
    [] OTHER -> GoneReminder

WriteReminderUpserting(r) ==  \* mutant: writes a row that may be gone
  /\ pc[r] = "reminder.write"
  /\ ~ReminderLocked(arg[r].rem, r)
  /\ reminder' = [reminder EXCEPT ![arg[r].rem] = ReminderPatched(@, arg[r])]
  /\ Finish(r)
  /\ UNCHANGED interval

(* The write by id: an error when the row is gone. *)
WriteReminder(r) ==
  LET m == arg[r].rem IN
  /\ pc[r] = "reminder.write"
  /\ ~ReminderLocked(m, r)
  /\ IF LiveReminder(m)
     THEN /\ reminder' = [reminder EXCEPT ![m] = ReminderPatched(@, arg[r])]
          /\ Finish(r)
          /\ UNCHANGED interval
     ELSE Answer(r)

-----------------------------------------------------------------------------
(* Two transactions wait for each other: a change holds its interval and   *)
(* wants the reminder, a delete holds the reminder and wants the interval. *)
Deadlocked(q, r) ==
  /\ pc[q] = "sync.write"
  /\ pc[r] = "delete.interval"
  /\ arg[q].int = arg[r].int
  /\ arg[q].rem \in arg[r].doomed

NoDeadlockVictim(r) ==  \* mutant: a database that does not detect deadlocks
  FALSE /\ r \in Requests /\ UNCHANGED vars

(* PostgreSQL ends such a wait by aborting one of the two transactions. *)
DeadlockVictim(r) ==
  /\ \E q \in Requests : Deadlocked(q, r) \/ Deadlocked(r, q)
  /\ Answer(r)

(* Any await may throw: the request ends there. *)
Fail(r) == pc[r] # "idle" /\ Answer(r)

Step(r) ==
  \/ Change(r) \/ SyncFind(r) \/ SyncUpdate(r) \/ SyncCreate(r)
  \/ DeleteReminders(r) \/ DeleteInterval(r)
  \/ WriteReminder(r)

Open(r) ==
  \/ \E i \in IntervalIds, km \in Kms \cup {Null}, last \in Mileages \cup {Null} :
       OpenUpdate(r, i, km, last)
  \/ \E i \in IntervalIds, mileage \in Mileages : OpenMarkAsDone(r, i, mileage)
  \/ \E i \in IntervalIds, op \in {"disable", "enable"} : OpenSwitch(r, i, op)
  \/ \E i \in IntervalIds : OpenDelete(r, i)
  \/ \E m \in ReminderIds, due \in Mileages \cup {Null} :
       OpenReminder(r, m, "setDue", due)
  \/ \E m \in ReminderIds, op \in ReminderChanges \ {"setDue"} :
       OpenReminder(r, m, op, Null)

Next ==
  \/ \E i \in IntervalIds, m \in ReminderIds,
        km \in Kms \cup {Null}, last \in Mileages \cup {Null} :
       Create(i, m, km, last)
  \/ \E m \in ReminderIds, due \in Mileages \cup {Null} : CreateReminder(m, due)
  \/ \E r \in Requests : Open(r) \/ Step(r) \/ DeadlockVictim(r) \/ Fail(r)

Spec == Init /\ [][Next]_vars

(* Node takes every callback that is ready; a lock of PostgreSQL goes to   *)
(* its waiters in turn, so one that is free again and again is obtained.   *)
FairSpec ==
  /\ Spec
  /\ \A r \in Requests : SF_vars(Step(r)) /\ WF_vars(DeadlockVictim(r))

-----------------------------------------------------------------------------
(* What holds, whatever the interleaving *)

(* A DISABLED interval nags nobody: its reminder is never ACTIVE, although *)
(* disable, enable and markAsDone decide on rows they read earlier and the *)
(* reminder is looked up after the interval was written.                   *)
DisabledIsSilent ==
  \A i \in IntervalIds, m \in ReminderIds :
    /\ LiveInterval(i) /\ interval[i].status = "DISABLED"
    /\ m \in RemindersOf(i)
    => reminder[m].status # "ACTIVE"

(* An interval has at most one reminder, though no unique index says so    *)
(* and syncFromMaintenanceInterval checks before it inserts.               *)
OneReminderPerInterval ==
  \A m, n \in ReminderIds :
    /\ LiveReminder(m) /\ LiveReminder(n)
    /\ reminder[m].of = reminder[n].of /\ reminder[m].of # Null
    => m = n

(* Whatever step changes an ACTIVE interval leaves an ACTIVE reminder that *)
(* is due when the interval's next service is.                             *)
SyncedStep ==
  \A i \in IntervalIds :
    interval'[i] # interval[i] /\ interval'[i].st = "live"
      /\ interval'[i].status = "ACTIVE"
    => \E m \in ReminderIds :
         /\ reminder'[m].st = "live" /\ reminder'[m].of = i
         /\ reminder'[m].status = "ACTIVE"
         /\ reminder'[m].due = interval'[i].next

ChangesAreSynced == [][SyncedStep]_vars

(* Every request ends: a change and a delete of one interval take their    *)
(* row locks in opposite orders, and only the database tells them apart.   *)
RequestsEnd == \A r \in Requests : pc[r] # "idle" ~> pc[r] = "idle"

=============================================================================
